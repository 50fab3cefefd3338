-------------------------- MODULE PduToBurstsProofs --------------------------
(***************************************************************************)
(* Proofs about PduToBursts for any PDUs, any queue size and its changes,  *)
(* either early-burst behaviour and any room work() is given.              *)
(*                                                                         *)
(*   TypeCorrect   TypeOK                                                  *)
(*   Framed        BurstsFramed                                            *)
(*   TimesRight    TimesOnOwnBurst                                         *)
(*   NothingLost   NothingLostOrReordered                                  *)
(*                                                                         *)
(* IInv relates the queue and the burst in progress to the PDUs accepted.  *)
(* StreamInv, on top of it, says that what was written, is being written   *)
(* and is queued is, in this order, what was accepted, with single items   *)
(* repeated: a call with no room for progress writes one item again.       *)
(***************************************************************************)
EXTENDS PduToBursts, Induction, SequenceTheorems, FiniteSetTheorems

-----------------------------------------------------------------------------
(* The items of a sequence of PDUs                                         *)

(* The equation that defines FlattenSeq.                                   *)
FlatBody(f, seqs, n) ==
  [i \in 1..n |-> IF i = 1 THEN seqs[i] ELSE f[i-1] \o seqs[i]]

(* The function by which FlattenSeq is defined exists.                     *)
LEMMA FlatExists ==
  ASSUME NEW seqs, NEW n \in Nat
  PROVE  \E f : f = FlatBody(f, seqs, n)
<1> DEFINE T == {k \in Nat : \E f : f = FlatBody(f, seqs, k)}
<1>1. 0 \in T
  <2> DEFINE f == [i \in 1..0 |-> 0]
  <2>1. f = FlatBody(f, seqs, 0)
    BY DEF FlatBody
  <2> QED  BY <2>1
<1>2. ASSUME NEW k \in 0..n, k \in T, k < n
      PROVE  k + 1 \in T
  <2>1. PICK f : f = FlatBody(f, seqs, k)
    BY <1>2
  <2> PICK last : last = IF k + 1 = 1 THEN seqs[k + 1] ELSE f[k] \o seqs[k + 1]
    OBVIOUS
  <2> DEFINE g == [i \in 1..(k + 1) |-> IF i = k + 1 THEN last ELSE f[i]]
  <2>2. \A i \in 1..k : f[i] = IF i = 1 THEN seqs[i] ELSE f[i-1] \o seqs[i]
    BY <2>1 DEF FlatBody
  <2>3. \A i \in 1..(k + 1) : g[i] = IF i = 1 THEN seqs[i] ELSE g[i-1] \o seqs[i]
    <3> TAKE i \in 1..(k + 1)
    <3>1. CASE i = k + 1
      <4>1. g[i] = last /\ i - 1 = k
        BY <3>1
      <4>2. i # 1 => k \in 1..(k + 1) /\ k # k + 1
        BY <3>1
      <4>3. i # 1 => g[i-1] = f[k]
        BY <4>1, <4>2
      <4> HIDE DEF g
      <4> QED  BY <3>1, <4>1, <4>3
    <3>2. CASE i # k + 1
      <4>1. i \in 1..k /\ (i # 1 => i - 1 \in 1..(k + 1) /\ i - 1 # k + 1)
        BY <3>2
      <4>2. g[i] = f[i] /\ (i # 1 => g[i-1] = f[i-1])
        BY <3>2, <4>1
      <4> HIDE DEF g
      <4> QED  BY <2>2, <4>1, <4>2
    <3> QED  BY <3>1, <3>2
  <2> DEFINE h == FlatBody(g, seqs, k + 1)
  <2>4. g = h
    <3>1. h = [i \in 1..(k + 1) |-> IF i = 1 THEN seqs[i] ELSE g[i-1] \o seqs[i]]
      BY DEF FlatBody
    <3>2. g = [i \in 1..(k + 1) |-> g[i]]
      OBVIOUS
    <3> HIDE DEF g, h
    <3> QED  BY <2>3, <3>1, <3>2
  <2> QED  BY <2>4
<1> HIDE DEF T
<1>3. \A k \in 0..n : k \in T
  BY <1>1, <1>2, UpTo
<1> QED  BY <1>3 DEF T

(* FlattenSeq joins the sequences from the left.                           *)
LEMMA FlattenIs ==
  ASSUME NEW seqs, Len(seqs) \in Nat \ {0}
  PROVE  \E f : /\ FlattenSeq(seqs) = f[Len(seqs)]
                /\ f[1] = seqs[1]
                /\ \A i \in 2..Len(seqs) : f[i] = f[i-1] \o seqs[i]
<1> DEFINE n == Len(seqs)
           F == CHOOSE f : f = FlatBody(f, seqs, n)
<1>1. FlattenSeq(seqs) = F[n]
  BY DEF FlattenSeq, FlatBody
<1>2. F = FlatBody(F, seqs, n)
  BY FlatExists
<1> HIDE DEF F
<1>3. \A i \in 1..n : F[i] = IF i = 1 THEN seqs[i] ELSE F[i-1] \o seqs[i]
  BY <1>2 DEF FlatBody
<1>4. 1 \in 1..n /\ \A i \in 2..n : i \in 1..n /\ i # 1
  OBVIOUS
<1>5. F[1] = seqs[1] /\ \A i \in 2..n : F[i] = F[i-1] \o seqs[i]
  BY <1>3, <1>4
<1> QED  BY <1>1, <1>5

(* One sequence more is joined at the end.                                 *)
LEMMA FlattenSnoc ==
  ASSUME NEW X, NEW seqs \in Seq(Seq(X)), NEW s \in Seq(X), FlattenSeq(seqs) \in Seq(X)
  PROVE  FlattenSeq(Append(seqs, s)) = FlattenSeq(seqs) \o s
<1> DEFINE n == Len(seqs)
           longer == Append(seqs, s)
<1>1. /\ n \in Nat /\ Len(longer) = n + 1 /\ longer[n + 1] = s
      /\ \A i \in 1..n : longer[i] = seqs[i]
  BY LenProperties, AppendProperties
<1> HIDE DEF longer
<1>2. PICK g : /\ FlattenSeq(longer) = g[n + 1]
               /\ g[1] = longer[1]
               /\ \A i \in 2..(n + 1) : g[i] = g[i-1] \o longer[i]
  <2>1. Len(longer) \in Nat \ {0}
    BY <1>1
  <2>2. PICK g : /\ FlattenSeq(longer) = g[Len(longer)]
                 /\ g[1] = longer[1]
                 /\ \A i \in 2..Len(longer) : g[i] = g[i-1] \o longer[i]
    BY <2>1, FlattenIs
  <2> QED  BY <1>1, <2>2
<1>3. CASE n = 0
  <2>1. seqs = <<>>
    BY <1>3, EmptySeq
  <2>2. FlattenSeq(seqs) = <<>>
    BY <1>3, <2>1 DEF FlattenSeq
  <2>3. FlattenSeq(longer) = s
    BY <1>1, <1>2, <1>3
  <2> QED  BY <2>2, <2>3, ConcatEmptySeq DEF longer
<1>4. CASE n # 0
  <2>1. PICK f : /\ FlattenSeq(seqs) = f[n]
                 /\ f[1] = seqs[1]
                 /\ \A i \in 2..n : f[i] = f[i-1] \o seqs[i]
    BY <1>1, <1>4, FlattenIs
  <2> DEFINE T == {i \in Nat : g[i] = f[i]}
  <2>2. 1 \in T
    BY <1>1, <1>2, <1>4, <2>1
  <2>3. ASSUME NEW k \in 1..n, k \in T, k < n
        PROVE  k + 1 \in T
    <3>1. k + 1 \in 2..n /\ k + 1 \in 2..(n + 1) /\ (k + 1) - 1 = k /\ k + 1 \in 1..n
      BY <1>1, <2>3
    <3>2. g[k + 1] = g[k] \o longer[k + 1]
      BY <1>2, <3>1
    <3>3. f[k + 1] = f[k] \o seqs[k + 1]
      BY <2>1, <3>1
    <3>4. g[k] = f[k] /\ longer[k + 1] = seqs[k + 1]
      BY <1>1, <2>3, <3>1
    <3>5. g[k + 1] = f[k + 1] /\ k + 1 \in Nat
      BY <3>1, <3>2, <3>3, <3>4
    <3> QED  BY <3>5
  <2>4. \A k \in 1..n : k \in T
    <3> HIDE DEF T
    <3> QED  BY <1>1, <2>2, <2>3, UpTo
  <2>5. g[n] = f[n]
    BY <1>1, <1>4, <2>4
  <2>6. n + 1 \in 2..(n + 1) /\ (n + 1) - 1 = n
    BY <1>1, <1>4
  <2>7. g[n + 1] = g[n] \o longer[n + 1]
    BY <1>2, <2>6
  <2> QED  BY <1>1, <1>2, <2>1, <2>5, <2>7 DEF longer
<1> QED  BY <1>3, <1>4

(* What the items of a PDU are.                                            *)
LEMMA ItemsOfType ==
  ASSUME NEW p \in Pdus
  PROVE  /\ ItemsOf(p) \in Seq(Items) /\ Len(ItemsOf(p)) = p.len /\ p.len \in Nat
         /\ \A i \in 1..p.len : ItemsOf(p)[i] = [pdu |-> p.id, idx |-> i]
<1>1. p.len \in Nat /\ p.id \in 1..MaxPdus
  BY DEF Pdus
<1>2. \A i \in 1..p.len : [pdu |-> p.id, idx |-> i] \in Items
  BY <1>1 DEF Items
<1>3. ItemsOf(p) = [i \in 1..p.len |-> [pdu |-> p.id, idx |-> i]]
  BY DEF ItemsOf
<1>4. ItemsOf(p) \in [1..p.len -> Items]
  BY <1>2, <1>3
<1>5. ItemsOf(p) \in Seq(Items) /\ Len(ItemsOf(p)) = p.len
  BY <1>1, <1>3, <1>4, SeqDef
<1> QED  BY <1>1, <1>3, <1>5

(* The items of a queue, PDU by PDU.                                       *)
ItemSeqs(q) == [i \in 1..Len(q) |-> ItemsOf(q[i])]

(* ItemSeqs is a sequence of sequences of items.                           *)
LEMMA ItemSeqsType ==
  ASSUME NEW q \in Seq(Pdus)
  PROVE  ItemSeqs(q) \in Seq(Seq(Items))
<1>1. Len(q) \in Nat /\ \A i \in 1..Len(q) : q[i] \in Pdus
  BY LenProperties, ElementOfSeq
<1>2. \A i \in 1..Len(q) : ItemsOf(q[i]) \in Seq(Items)
  BY <1>1, ItemsOfType
<1> QED  BY <1>1, <1>2 DEF ItemSeqs

(* The items of one PDU more.                                              *)
LEMMA AllItemsSnoc ==
  ASSUME NEW q \in Seq(Pdus), NEW p \in Pdus, AllItems(q) \in Seq(Items)
  PROVE  /\ AllItems(Append(q, p)) = AllItems(q) \o ItemsOf(p)
         /\ AllItems(Append(q, p)) \in Seq(Items)
<1> DEFINE n == Len(q)
           longer == Append(q, p)
<1>1. /\ n \in Nat /\ Len(longer) = n + 1 /\ longer[n + 1] = p /\ longer \in Seq(Pdus)
      /\ \A i \in 1..n : longer[i] = q[i]
  BY LenProperties, AppendProperties
<1> HIDE DEF longer
<1>2. ItemSeqs(q) \in Seq(Seq(Items)) /\ ItemsOf(p) \in Seq(Items) /\ Len(ItemSeqs(q)) = n
  BY <1>1, ItemSeqsType, ItemsOfType DEF ItemSeqs
<1>3. ItemSeqs(longer) = Append(ItemSeqs(q), ItemsOf(p))
  <2> DEFINE a == ItemSeqs(longer)
             b == Append(ItemSeqs(q), ItemsOf(p))
  <2>1. /\ b \in Seq(Seq(Items)) /\ Len(b) = n + 1 /\ b[n + 1] = ItemsOf(p)
        /\ \A i \in 1..n : b[i] = ItemSeqs(q)[i]
    BY <1>2, AppendProperties
  <2>2. a \in Seq(Seq(Items)) /\ Len(a) = n + 1 /\ \A i \in 1..(n + 1) : a[i] = ItemsOf(longer[i])
    <3>1. a \in Seq(Seq(Items))
      BY <1>1, ItemSeqsType
    <3>2. a = [i \in 1..(n + 1) |-> ItemsOf(longer[i])]
      BY <1>1 DEF ItemSeqs
    <3> HIDE DEF a
    <3> QED  BY <1>1, <3>1, <3>2
  <2> HIDE DEF a, b
  <2>3. \A i \in 1..n : b[i] = ItemsOf(q[i])
    BY <2>1 DEF ItemSeqs
  <2>4. \A i \in 1..(n + 1) : a[i] = b[i]
    <3> TAKE i \in 1..(n + 1)
    <3>1. i = n + 1 \/ i \in 1..n
      BY <1>1
    <3> QED  BY <1>1, <2>1, <2>2, <2>3, <3>1
  <2> QED  BY <2>1, <2>2, <2>4, SeqEqual DEF a, b
<1>4. AllItems(longer) = FlattenSeq(ItemSeqs(longer)) /\ AllItems(q) = FlattenSeq(ItemSeqs(q))
  BY DEF AllItems, ItemSeqs
<1>5. AllItems(longer) = AllItems(q) \o ItemsOf(p)
  BY <1>2, <1>3, <1>4, FlattenSnoc
<1> QED  BY <1>2, <1>5, ConcatProperties DEF longer

(* An empty queue has no items.                                            *)
LEMMA AllItemsEmpty == AllItems(<<>>) = <<>>
<1>1. [i \in 1..Len(<<>>) |-> ItemsOf(<<>>[i])] = <<>>
  OBVIOUS
<1> QED  BY <1>1 DEF AllItems, FlattenSeq

(* A prefix of a sequence of PDUs, one PDU longer.                         *)
LEMMA PrefixSnoc ==
  ASSUME NEW X, NEW q \in Seq(X), NEW m \in Nat, NEW k \in Nat, m <= k, k < Len(q)
  PROVE  /\ SubSeq(q, m + 1, k) \in Seq(X) /\ q[k + 1] \in X
         /\ SubSeq(q, m + 1, k + 1) = Append(SubSeq(q, m + 1, k), q[k + 1])
<1> DEFINE a == SubSeq(q, m + 1, k)
           b == SubSeq(q, m + 1, k + 1)
           n == k - m
           c == Append(a, q[k + 1])
<1>1. Len(q) \in Nat /\ n \in Nat /\ \A i \in 1..Len(q) : q[i] \in X
  BY LenProperties, ElementOfSeq
<1>2. \A i \in (m + 1)..(k + 1) : q[i] \in X
  BY <1>1
<1>3. /\ a \in Seq(X) /\ Len(a) = n /\ \A i \in 1..n : a[i] = q[m + i]
  <2>1. /\ a \in Seq(X)
        /\ Len(a) = IF m + 1 <= k THEN k - (m + 1) + 1 ELSE 0
        /\ \A i \in 1..(k - (m + 1) + 1) : a[i] = q[(m + 1) + i - 1]
    BY <1>2, SubSeqProperties
  <2> HIDE DEF a
  <2>2. k - (m + 1) + 1 = n
    OBVIOUS
  <2>3. \A i \in 1..n : (m + 1) + i - 1 = m + i
    BY <1>1
  <2> QED  BY <1>1, <2>1, <2>2, <2>3
<1>4. /\ b \in Seq(X) /\ Len(b) = n + 1 /\ \A i \in 1..(n + 1) : b[i] = q[m + i]
  <2>1. /\ b \in Seq(X)
        /\ Len(b) = IF m + 1 <= k + 1 THEN (k + 1) - (m + 1) + 1 ELSE 0
        /\ \A i \in 1..((k + 1) - (m + 1) + 1) : b[i] = q[(m + 1) + i - 1]
    BY <1>2, SubSeqProperties
  <2> HIDE DEF b
  <2>2. (k + 1) - (m + 1) + 1 = n + 1
    OBVIOUS
  <2>3. \A i \in 1..(n + 1) : (m + 1) + i - 1 = m + i
    BY <1>1
  <2> QED  BY <1>1, <2>1, <2>2, <2>3
<1>5. q[k + 1] \in X
  BY <1>1
<1> HIDE DEF a, b
<1>6. c \in Seq(X) /\ Len(c) = n + 1 /\ c[n + 1] = q[k + 1] /\ \A i \in 1..n : c[i] = a[i]
  <2> PICK x : x = q[k + 1]
    OBVIOUS
  <2>1. Append(a, x) \in Seq(X) /\ Len(Append(a, x)) = Len(a) + 1 /\ Append(a, x)[Len(a) + 1] = x
        /\ \A i \in 1..Len(a) : Append(a, x)[i] = a[i]
    <3>1. a \in Seq(X) /\ x \in X
      BY <1>3, <1>5
    <3> HIDE DEF c
    <3> QED  BY ONLY <3>1, AppendProperties
  <2> QED  BY <1>3, <2>1
<1> HIDE DEF c
<1>7. \A i \in 1..(n + 1) : b[i] = c[i]
  <2> TAKE i \in 1..(n + 1)
  <2>1. i \in 1..n \/ (i = n + 1 /\ m + i = k + 1)
    BY <1>1
  <2> QED  BY <1>3, <1>4, <1>6, <2>1
<1>8. b = c
  BY <1>4, <1>6, <1>7, SeqEqual
<1> QED  BY <1>3, <1>5, <1>8 DEF a, b, c

(* A queue of PDUs has a sequence of items.                                *)
LEMMA AllItemsType ==
  ASSUME NEW q \in Seq(Pdus)
  PROVE  AllItems(q) \in Seq(Items)
<1> DEFINE n == Len(q)
           T == {k \in Nat : AllItems(SubSeq(q, 1, k)) \in Seq(Items)}
<1>1. n \in Nat
  BY LenProperties
<1>2. 0 \in T
  <2>1. SubSeq(q, 1, 0) = <<>>
    BY SubSeqEmpty
  <2>2. <<>> \in Seq(Items)
    BY EmptySeq
  <2>3. AllItems(SubSeq(q, 1, 0)) \in Seq(Items)
    BY <2>1, <2>2, AllItemsEmpty
  <2> QED  BY <2>3
<1>3. ASSUME NEW k \in 0..n, k \in T, k < n
      PROVE  k + 1 \in T
  <2>1. /\ SubSeq(q, 0 + 1, k) \in Seq(Pdus) /\ q[k + 1] \in Pdus
        /\ SubSeq(q, 0 + 1, k + 1) = Append(SubSeq(q, 0 + 1, k), q[k + 1])
    BY <1>1, <1>3, PrefixSnoc
  <2>2. /\ SubSeq(q, 1, k) \in Seq(Pdus) /\ q[k + 1] \in Pdus
        /\ SubSeq(q, 1, k + 1) = Append(SubSeq(q, 1, k), q[k + 1])
    BY <2>1
  <2>3. AllItems(SubSeq(q, 1, k)) \in Seq(Items)
    BY <1>3
  <2>4. AllItems(SubSeq(q, 1, k + 1)) \in Seq(Items)
    BY <2>2, <2>3, AllItemsSnoc
  <2> QED  BY <1>3, <2>4
<1>4. \A k \in 0..n : k \in T
  <2> HIDE DEF T
  <2> QED  BY <1>1, <1>2, <1>3, UpTo
<1>5. AllItems(SubSeq(q, 1, n)) \in Seq(Items)
  BY <1>1, <1>4
<1> QED  BY <1>5, SubSeqFull

(* The items of a queue are those of its first PDUs, then those of the     *)
(* others.                                                                 *)
LEMMA AllItemsSplit ==
  ASSUME NEW q \in Seq(Pdus), NEW k \in 0..Len(q)
  PROVE  AllItems(q) = AllItems(SubSeq(q, 1, k)) \o AllItems(SubSeq(q, k + 1, Len(q)))
<1> DEFINE n == Len(q)
           first == AllItems(SubSeq(q, 1, k))
           T == {m \in Nat : AllItems(SubSeq(q, 1, m)) = first \o AllItems(SubSeq(q, k + 1, m))}
<1>1. n \in Nat /\ k \in Nat /\ k <= n
  BY LenProperties
<1>2. \A m \in 0..n : SubSeq(q, 1, m) \in Seq(Pdus) /\ SubSeq(q, k + 1, m) \in Seq(Pdus)
  <2> TAKE m \in 0..n
  <2>1. \A i \in 1..n : q[i] \in Pdus
    BY ElementOfSeq
  <2>2. \A i \in 1..m : q[i] \in Pdus
    BY <1>1, <2>1
  <2>3. \A i \in (k + 1)..m : q[i] \in Pdus
    BY <1>1, <2>1
  <2> QED  BY <1>1, <2>2, <2>3, SubSeqProperties
<1>3. first \in Seq(Items)
  BY <1>1, <1>2, AllItemsType
<1>4. k \in T
  <2>1. SubSeq(q, k + 1, k) = <<>>
    BY <1>1, SubSeqEmpty
  <2>2. first \o AllItems(SubSeq(q, k + 1, k)) = first
    BY <1>3, <2>1, AllItemsEmpty, ConcatEmptySeq
  <2> QED  BY <1>1, <2>2
<1>5. ASSUME NEW m \in k..n, m \in T, m < n
      PROVE  m + 1 \in T
  <2> DEFINE a == SubSeq(q, 1, m)
             b == SubSeq(q, k + 1, m)
             p == q[m + 1]
  <2>1. /\ SubSeq(q, 0 + 1, m) \in Seq(Pdus) /\ q[m + 1] \in Pdus
        /\ SubSeq(q, 0 + 1, m + 1) = Append(SubSeq(q, 0 + 1, m), q[m + 1])
    BY <1>1, <1>5, PrefixSnoc
  <2>2. a \in Seq(Pdus) /\ p \in Pdus /\ SubSeq(q, 1, m + 1) = Append(a, p)
    BY <2>1
  <2>3. b \in Seq(Pdus) /\ SubSeq(q, k + 1, m + 1) = Append(b, p)
    BY <1>1, <1>5, PrefixSnoc
  <2> HIDE DEF a, b, p, first
  <2>4. AllItems(a) = first \o AllItems(b)
    BY <1>5 DEF a, b
  <2>5. AllItems(a) \in Seq(Items) /\ AllItems(b) \in Seq(Items) /\ ItemsOf(p) \in Seq(Items)
    BY <2>2, <2>3, AllItemsType, ItemsOfType
  <2>6. /\ AllItems(SubSeq(q, 1, m + 1)) = (first \o AllItems(b)) \o ItemsOf(p)
        /\ AllItems(SubSeq(q, k + 1, m + 1)) = AllItems(b) \o ItemsOf(p)
    BY <2>2, <2>3, <2>4, <2>5, AllItemsSnoc
  <2>7. (first \o AllItems(b)) \o ItemsOf(p) = first \o (AllItems(b) \o ItemsOf(p))
    <3> PICK u, v, w : u = first /\ v = AllItems(b) /\ w = ItemsOf(p)
      OBVIOUS
    <3>1. u \in Seq(Items) /\ v \in Seq(Items) /\ w \in Seq(Items)
      BY <1>3, <2>5
    <3>2. (u \o v) \o w = u \o (v \o w)
      BY ONLY <3>1, ConcatAssociative
    <3> QED  BY <3>2
  <2>8. AllItems(SubSeq(q, 1, m + 1)) = first \o AllItems(SubSeq(q, k + 1, m + 1))
    BY <2>6, <2>7
  <2> QED  BY <1>1, <1>5, <2>8
<1>6. \A m \in k..n : m \in T
  <2> HIDE DEF T
  <2> QED  BY <1>1, <1>4, <1>5, UpTo
<1>7. AllItems(SubSeq(q, 1, n)) = first \o AllItems(SubSeq(q, k + 1, n))
  BY <1>1, <1>6
<1> QED  BY <1>7, SubSeqFull

(* The first and the last item of a burst, and where its PDUs begin.       *)
IsBurstOf(data, q) ==
  /\ data \in Seq(Items) /\ Len(data) > 0
  /\ data[1] = [pdu |-> q[1].id, idx |-> 1]
  /\ data[Len(data)] = [pdu |-> q[Len(q)].id, idx |-> q[Len(q)].len]
  /\ \A i \in 1..Len(data) : \E j \in 1..Len(q) :
       /\ data[i].pdu = q[j].id
       /\ j = 1 /\ data[i].idx = 1 => i = 1

(* A single PDU is a burst.                                                *)
LEMMA BurstOfOne ==
  ASSUME NEW p \in Pdus, p.len > 0, NEW q \in Seq(Pdus), Len(q) = 1, q[1] = p
  PROVE  IsBurstOf(ItemsOf(p), q)
<1>1. /\ ItemsOf(p) \in Seq(Items) /\ Len(ItemsOf(p)) = p.len /\ p.len \in Nat
      /\ \A i \in 1..p.len : ItemsOf(p)[i] = [pdu |-> p.id, idx |-> i]
  BY ItemsOfType
<1>2. 1 \in 1..p.len /\ p.len \in 1..p.len
  BY <1>1
<1>3. 1 \in 1..Len(q)
  OBVIOUS
<1> DEFINE new == ItemsOf(p)
<1> HIDE DEF new
<1>4. new[1] = [pdu |-> q[1].id, idx |-> 1]
  BY <1>1, <1>2 DEF new
<1>5. new[Len(new)] = [pdu |-> q[Len(q)].id, idx |-> q[Len(q)].len]
  BY <1>1, <1>2 DEF new
<1>6. ASSUME NEW i \in 1..Len(new)
      PROVE  new[i].pdu = q[1].id /\ (new[i].idx = 1 => i = 1)
  <2>1. i \in 1..p.len
    BY <1>1 DEF new
  <2>2. new[i] = [pdu |-> p.id, idx |-> i]
    BY <1>1, <2>1 DEF new
  <2> QED  BY <2>2
<1>7. new \in Seq(Items) /\ Len(new) > 0
  BY <1>1 DEF new
<1>8. IsBurstOf(new, q)
  BY <1>3, <1>4, <1>5, <1>6, <1>7 DEF IsBurstOf
<1> QED  BY <1>8 DEF new

(* A burst and the PDU behind it are a burst.                              *)
LEMMA BurstOfMore ==
  ASSUME NEW q \in Seq(Pdus), Len(q) > 0, NEW p \in Pdus, p.len > 0,
         NEW data, IsBurstOf(data, q)
  PROVE  IsBurstOf(data \o ItemsOf(p), Append(q, p))
<1> DEFINE n == Len(q)
           d == Len(data)
           new == ItemsOf(p)
           longer == Append(q, p)
           more == data \o new
<1>1. /\ new \in Seq(Items) /\ Len(new) = p.len /\ p.len \in Nat
      /\ \A i \in 1..p.len : new[i] = [pdu |-> p.id, idx |-> i]
  BY ItemsOfType
<1>2. data \in Seq(Items) /\ d \in Nat /\ d > 0 /\ n \in Nat
  BY LenProperties DEF IsBurstOf
<1>3. /\ Len(longer) = n + 1 /\ longer[n + 1] = p /\ \A i \in 1..n : longer[i] = q[i]
  BY <1>2, AppendProperties
<1> HIDE DEF new, longer
<1>4. /\ more \in Seq(Items) /\ Len(more) = d + p.len
      /\ \A i \in 1..(d + p.len) : more[i] = IF i <= d THEN data[i] ELSE new[i - d]
  <2>1. /\ more \in Seq(Items) /\ Len(more) = Len(data) + Len(new)
        /\ \A i \in 1..(Len(data) + Len(new)) :
             more[i] = IF i <= Len(data) THEN data[i] ELSE new[i - Len(data)]
    BY <1>1, <1>2, ConcatProperties
  <2> HIDE DEF more
  <2> QED  BY <1>1, <2>1
<1> HIDE DEF more
<1>5. more[1] = [pdu |-> longer[1].id, idx |-> 1]
  <2>1. 1 \in 1..(d + p.len) /\ 1 <= d /\ 1 \in 1..n
    BY <1>1, <1>2
  <2> QED  BY <1>3, <1>4, <2>1 DEF IsBurstOf
<1>6. more[d + p.len] = [pdu |-> p.id, idx |-> p.len]
  <2>1. d + p.len \in 1..(d + p.len) /\ ~(d + p.len <= d) /\ (d + p.len) - d = p.len /\ p.len \in 1..p.len
    BY <1>1, <1>2
  <2> QED  BY <1>1, <1>4, <2>1
<1>7. ASSUME NEW i \in 1..(d + p.len)
      PROVE  \E j \in 1..(n + 1) : /\ more[i].pdu = longer[j].id
                                   /\ j = 1 /\ more[i].idx = 1 => i = 1
  <2>1. CASE i <= d
    <3>1. i \in 1..d /\ more[i] = data[i]
      BY <1>2, <1>4, <2>1
    <3>2. PICK j \in 1..n : data[i].pdu = q[j].id /\ (j = 1 /\ data[i].idx = 1 => i = 1)
      BY <3>1 DEF IsBurstOf
    <3>3. j \in 1..(n + 1) /\ longer[j] = q[j]
      BY <1>2, <1>3, <3>2
    <3> QED  BY <3>1, <3>2, <3>3
  <2>2. CASE ~(i <= d)
    <3>1. i - d \in 1..p.len /\ more[i] = new[i - d]
      BY <1>1, <1>2, <1>4, <2>2
    <3>2. more[i].pdu = p.id
      <4> PICK k \in 1..p.len : k = i - d
        BY <3>1
      <4>1. new[k] = [pdu |-> p.id, idx |-> k] /\ more[i] = new[k]
        BY <1>1, <3>1
      <4> QED  BY <4>1
    <3>3. n + 1 \in 1..(n + 1) /\ n + 1 # 1
      BY <1>2
    <3> QED  BY <1>3, <3>2, <3>3
  <2> QED  BY <2>1, <2>2
<1>8. Len(more) > 0
  BY <1>1, <1>2, <1>4
<1> QED  BY <1>3, <1>4, <1>5, <1>6, <1>7, <1>8 DEF IsBurstOf, new, longer, more

(* The first n PDUs of a queue without empty PDUs are a burst.             *)
LEMMA BurstOf ==
  ASSUME NEW q \in Seq(Pdus), NEW n \in 1..Len(q), \A i \in 1..Len(q) : q[i].len > 0
  PROVE  IsBurstOf(AllItems(SubSeq(q, 1, n)), SubSeq(q, 1, n))
<1> DEFINE pre(k) == SubSeq(q, 1, k)
           T == {k \in Nat : IsBurstOf(AllItems(pre(k)), pre(k))}
<1>1. Len(q) \in Nat /\ n \in Nat /\ n <= Len(q)
  BY LenProperties
<1>2. \A k \in 0..n : k < n => /\ pre(k) \in Seq(Pdus) /\ Len(pre(k)) = k /\ q[k + 1] \in Pdus
                               /\ pre(k + 1) = Append(pre(k), q[k + 1])
                               /\ q[k + 1].len > 0
  <2> SUFFICES ASSUME NEW k \in 0..n, k < n
               PROVE  /\ pre(k) \in Seq(Pdus) /\ Len(pre(k)) = k /\ q[k + 1] \in Pdus
                      /\ pre(k + 1) = Append(pre(k), q[k + 1])
                      /\ q[k + 1].len > 0
    OBVIOUS
  <2>1. /\ SubSeq(q, 0 + 1, k) \in Seq(Pdus) /\ q[k + 1] \in Pdus
        /\ SubSeq(q, 0 + 1, k + 1) = Append(SubSeq(q, 0 + 1, k), q[k + 1])
    BY <1>1, PrefixSnoc
  <2>2. /\ pre(k) \in Seq(Pdus) /\ q[k + 1] \in Pdus
        /\ pre(k + 1) = Append(pre(k), q[k + 1])
    BY <2>1
  <2>3. Len(pre(k)) = k
    <3>1. \A i \in 1..k : q[i] \in Pdus
      BY <1>1, ElementOfSeq
    <3> QED  BY <1>1, <3>1, SubSeqProperties
  <2>4. k + 1 \in 1..Len(q)
    BY <1>1
  <2> QED  BY <2>2, <2>3, <2>4
<1> HIDE DEF pre
<1>3. 1 \in T
  <2> DEFINE p == q[0 + 1]
  <2>1. /\ pre(0) \in Seq(Pdus) /\ Len(pre(0)) = 0 /\ p \in Pdus
        /\ pre(0 + 1) = Append(pre(0), p) /\ p.len > 0
    <3>1. 0 \in 0..n /\ 0 < n
      BY <1>1
    <3> QED  BY <1>2, <3>1
  <2>2. pre(0) = <<>> /\ 0 + 1 = 1
    BY <2>1, EmptySeq
  <2> HIDE DEF p
  <2>3. AllItems(pre(0)) = <<>> /\ <<>> \in Seq(Items)
    BY <2>2, AllItemsEmpty
  <2>4. AllItems(pre(1)) = <<>> \o ItemsOf(p)
    BY <2>1, <2>2, <2>3, AllItemsSnoc
  <2>5. AllItems(pre(1)) = ItemsOf(p)
    BY <2>1, <2>4, ItemsOfType, ConcatEmptySeq
  <2>6. pre(1) \in Seq(Pdus) /\ Len(pre(1)) = 1 /\ pre(1)[1] = p
    <3> DEFINE a == pre(0)
    <3>1. a \in Seq(Pdus) /\ p \in Pdus
      BY <2>1
    <3>2. Append(a, p) \in Seq(Pdus) /\ Len(Append(a, p)) = Len(a) + 1 /\ Append(a, p)[Len(a) + 1] = p
      <4> HIDE DEF a
      <4> QED  BY ONLY <3>1, AppendProperties
    <3> QED  BY <2>1, <2>2, <3>2
  <2>7. IsBurstOf(AllItems(pre(1)), pre(1))
    BY <2>1, <2>5, <2>6, BurstOfOne
  <2> QED  BY <2>7
<1>4. ASSUME NEW k \in 1..n, k \in T, k < n
      PROVE  k + 1 \in T
  <2> DEFINE p == q[k + 1]
  <2>1. k \in 0..n
    OBVIOUS
  <2>2. /\ pre(k) \in Seq(Pdus) /\ Len(pre(k)) = k /\ p \in Pdus
        /\ pre(k + 1) = Append(pre(k), p) /\ p.len > 0
    BY <1>2, <1>4, <2>1
  <2> HIDE DEF p
  <2>3. AllItems(pre(k)) \in Seq(Items) /\ IsBurstOf(AllItems(pre(k)), pre(k)) /\ Len(pre(k)) > 0
    BY <1>4, <2>2, AllItemsType
  <2>4. AllItems(pre(k + 1)) = AllItems(pre(k)) \o ItemsOf(p)
    BY <2>2, <2>3, AllItemsSnoc
  <2>5. IsBurstOf(AllItems(pre(k)) \o ItemsOf(p), Append(pre(k), p))
    BY <2>2, <2>3, BurstOfMore
  <2>6. k + 1 \in Nat
    BY <1>1
  <2>7. IsBurstOf(AllItems(pre(k + 1)), pre(k + 1))
    BY <2>2, <2>4, <2>5
  <2> QED  BY <2>6, <2>7
<1>5. \A k \in 1..n : k \in T
  <2> HIDE DEF T
  <2> QED  BY <1>1, <1>3, <1>4, UpTo
<1>6. n \in 1..n
  BY <1>1
<1> QED  BY <1>5, <1>6 DEF pre

-----------------------------------------------------------------------------
(* The inductive invariant                                                 *)

(* How many PDUs have left the queue.                                      *)
Gone == Len(h_accepted) - Len(d_pdu_queue)

(* The PDU of this number has left the queue.                              *)
Fetched(id) == \E i \in 1..Gone : h_accepted[i].id = id

(* The item with which a PDU begins.                                       *)
FirstItem(p) == [pdu |-> p.id, idx |-> 1]

(* The item is the last of an accepted PDU.                                *)
EndsPdu(x) ==
  \E i \in 1..Len(h_accepted) : x = [pdu |-> h_accepted[i].id, idx |-> h_accepted[i].len]

(* Accepted PDUs are not empty, and numbered in the order of arrival.      *)
AcceptedInv ==
  /\ \A i \in 1..Len(h_accepted) : h_accepted[i].id <= h_received /\ h_accepted[i].len > 0
  /\ \A i, j \in 1..Len(h_accepted) : i < j => h_accepted[i].id < h_accepted[j].id

(* The queue holds the PDUs accepted last.                                 *)
QueueInv ==
  /\ Len(d_pdu_queue) <= Len(h_accepted)
  /\ \A i \in 1..Len(d_pdu_queue) : d_pdu_queue[i] = h_accepted[Gone + i]

(* Only PDUs that left the queue are in the stream or being written.       *)
FetchedInv ==
  /\ \A i \in 1..Len(out) : Fetched(out[i].pdu)
  /\ \A i \in 1..Len(d_data) : Fetched(d_data[i].pdu)
  /\ \A t \in times : Fetched(t.of)

(* What is left of a burst ends where a PDU ends, and past its first item  *)
(* no PDU with a tx_time begins.                                           *)
BurstData(data) ==
  /\ data # <<>>
  /\ EndsPdu(data[Len(data)])
  /\ \A i \in 2..Len(data), j \in 1..Len(h_accepted) :
       data[i] = FirstItem(h_accepted[j]) => ~HasTxTime(h_accepted[j])

(* No tag is pending between two calls, and the burst in progress has been *)
(* begun.                                                                  *)
DataInv ==
  /\ d_time_tag = NoTime
  /\ d_data # <<>> => /\ ~d_tag_sob
                      /\ BurstData(d_data)
                      /\ out # <<>> /\ out[Len(out)] = d_data[1]

(* A burst starts at the first item and behind every EOB, and nowhere else;*)
(* an EOB stands where a PDU ends; no data is kept exactly behind an EOB.  *)
TagsInv ==
  /\ \A o \in 0..(Len(out) - 1) :
       /\ o \in sobs <=> o = 0 \/ (o - 1) \in eobs
       /\ o \in sobs => out[o + 1].idx = 1
       /\ o \in eobs => EndsPdu(out[o + 1])
  /\ out # <<>> => (d_data = <<>> <=> (Len(out) - 1) \in eobs)

(* A PDU with a tx_time begins a burst; its first item may be repeated by a*)
(* call that makes no progress.                                            *)
TimedInv ==
  \A j \in 1..Len(h_accepted), o \in 0..(Len(out) - 1) :
    HasTxTime(h_accepted[j]) /\ out[o + 1] = FirstItem(h_accepted[j]) =>
      o \in sobs \/ (o > 0 /\ out[o] = out[o + 1])

(* A tx_time tag stands where its PDU begins a burst, and each PDU with a  *)
(* good time that is written has exactly one.                              *)
TimesInv ==
  /\ \A t \in times : t.at \in sobs /\ out[t.at + 1] = [pdu |-> t.of, idx |-> 1]
  /\ \A t, u \in times : t.of = u.of => t = u
  /\ \A j \in 1..Len(h_accepted), i \in 1..Len(out) :
       h_accepted[j].time = "good" /\ out[i] = FirstItem(h_accepted[j]) =>
         \E t \in times : t.of = h_accepted[j].id

(* The inductive invariant: the types, then what relates the queue, the    *)
(* burst in progress and the stream to what was accepted.                  *)
IInv ==
  /\ TypeOK /\ AcceptedInv /\ QueueInv /\ FetchedInv /\ DataInv /\ TagsInv /\ TimedInv
  /\ TimesInv

-----------------------------------------------------------------------------
(* A call of work()                                                        *)

(* c items of data were written, the rest of it is kept.                   *)
Wrote(data, c) ==
  /\ data \in Seq(Items)
  /\ c \in 1..Len(data)
  /\ out' \in Seq(Items) /\ Len(out') = Len(out) + c
  /\ \A i \in 1..Len(out) : out'[i] = out[i]
  /\ \A i \in 1..c : out'[Len(out) + i] = data[i]
  /\ d_data' \in Seq(Items)
  /\ d_data' = <<>> <=> c = Len(data)
  /\ c < Len(data) => /\ Len(d_data') = Len(data) - c + 1
                      /\ \A i \in 1..(Len(data) - c + 1) : d_data'[i] = data[c + i - 1]
  /\ eobs' = IF c = Len(data) THEN eobs \cup {Len(out) + c - 1} ELSE eobs

(* What the two outcomes of writing, all of data or its first n items, have*)
(* in common.                                                              *)
LEMMA WriteEffect ==
  ASSUME NEW n \in Nat \ {0}, NEW data \in Seq(Items), Len(data) > 0, out \in Seq(Items),
         NEW tag_sob, NEW time_tag, Write(n, data, tag_sob, time_tag)
  PROVE  \E c \in 1..Len(data) : Wrote(data, c)
<1> DEFINE l == Len(data)
           chunk == IF l <= n THEN data ELSE SubSeq(data, 1, n)
           c == IF l <= n THEN l ELSE n
<1>1. l \in Nat /\ l > 0 /\ c \in 1..l /\ Len(out) \in Nat /\ (c = l <=> l <= n) /\ (~(l <= n) => c = n)
  BY LenProperties
<1>2. /\ out' = out \o chunk
      /\ d_data' = IF l <= n THEN <<>> ELSE SubSeq(data, (n - 1) + 1, l)
      /\ eobs' = IF l <= n THEN eobs \cup {Len(out) + l - 1} ELSE eobs
  BY DEF Write, Erased, LastOf
<1>3. \A i \in 1..l : data[i] \in Items
  BY ElementOfSeq
<1>4. chunk \in Seq(Items) /\ Len(chunk) = c /\ \A i \in 1..c : chunk[i] = data[i]
  <2>1. CASE l <= n
    BY <1>1, <2>1
  <2>2. CASE ~(l <= n)
    <3>1. \A i \in 1..n : data[i] \in Items
      BY <1>1, <1>3, <2>2
    <3>2. /\ SubSeq(data, 1, n) \in Seq(Items) /\ Len(SubSeq(data, 1, n)) = n
          /\ \A i \in 1..n : SubSeq(data, 1, n)[i] = data[i]
      BY <3>1, SubSeqProperties
    <3> QED  BY <2>2, <3>2
  <2> QED  BY <2>1, <2>2
<1> HIDE DEF chunk
<1>5. /\ out' \in Seq(Items) /\ Len(out') = Len(out) + c
      /\ \A i \in 1..Len(out) : out'[i] = out[i]
      /\ \A i \in 1..c : out'[Len(out) + i] = data[i]
  <2>1. /\ out' \in Seq(Items) /\ Len(out') = Len(out) + Len(chunk)
        /\ \A i \in 1..(Len(out) + Len(chunk)) :
             out'[i] = IF i <= Len(out) THEN out[i] ELSE chunk[i - Len(out)]
    BY <1>2, <1>4, ConcatProperties
  <2>2. \A i \in 1..Len(out) : i \in 1..(Len(out) + c) /\ i <= Len(out)
    BY <1>1
  <2>3. \A i \in 1..c : /\ Len(out) + i \in 1..(Len(out) + c) /\ ~(Len(out) + i <= Len(out))
                        /\ (Len(out) + i) - Len(out) = i
    BY <1>1
  <2> QED  BY <1>4, <2>1, <2>2, <2>3
<1>6. CASE l <= n
  <2>1. c = l /\ d_data' = <<>> /\ d_data' \in Seq(Items) /\ eobs' = eobs \cup {Len(out) + c - 1}
    BY <1>1, <1>2, <1>6, EmptySeq
  <2> HIDE DEF c
  <2>2. Wrote(data, c)
    BY <1>1, <1>5, <2>1 DEF Wrote
  <2> QED  BY <1>1, <2>2
<1>7. CASE ~(l <= n)
  <2>1. c = n /\ c < l /\ d_data' = SubSeq(data, c, l) /\ eobs' = eobs
    BY <1>1, <1>2, <1>7
  <2> HIDE DEF c
  <2>2. /\ d_data' \in Seq(Items) /\ Len(d_data') = l - c + 1
        /\ \A i \in 1..(l - c + 1) : d_data'[i] = data[c + i - 1]
    <3>1. \A i \in c..l : data[i] \in Items
      BY <1>1, <1>3
    <3>2. c \in Int /\ l \in Int /\ c <= l
      BY <1>1, <2>1
    <3> QED  BY <2>1, <3>1, <3>2, SubSeqProperties
  <2>3. d_data' # <<>>
    <3>1. Len(d_data') # 0 /\ Len(<<>>) = 0
      BY <1>1, <2>1, <2>2
    <3> QED  BY <3>1
  <2>4. Wrote(data, c)
    BY <1>1, <1>5, <2>1, <2>2, <2>3 DEF Wrote
  <2> QED  BY <1>1, <2>4
<1> QED  BY <1>6, <1>7

(* work() begins a burst with the PDUs at the head of the queue ...        *)
Begins(data) ==
  /\ d_data = <<>> /\ d_pdu_queue # <<>>
  /\ sobs' = sobs \cup {Len(out)}
  /\ Len(d_pdu_queue') < Len(d_pdu_queue)
  /\ data[1] = FirstItem(h_accepted[Gone + 1])
  /\ times' = IF h_accepted[Gone + 1].time = "good"
              THEN times \cup {[at |-> Len(out), of |-> h_accepted[Gone + 1].id]} ELSE times

(* ... or goes on with the one it has begun.                               *)
Continues(data) ==
  /\ d_data # <<>> /\ data = d_data
  /\ sobs' = sobs /\ times' = times /\ d_pdu_queue' = d_pdu_queue

(* What a call of work() that writes c items of data does.                 *)
Works(data, c) ==
  /\ Wrote(data, c)
  /\ BurstData(data)
  /\ \A i \in 1..Len(data) : \E k \in 1..(Len(h_accepted) - Len(d_pdu_queue')) :
       h_accepted[k].id = data[i].pdu
  /\ Begins(data) \/ Continues(data)
  /\ d_time_tag' = NoTime /\ d_tag_sob' = FALSE
  /\ d_pdu_queue' \in Seq(Pdus) /\ QueueInv'
  /\ UNCHANGED <<d_drop_early_bursts, d_max_queue_size, h_received, h_accepted, h_early>>

(* What was written, is being written and is queued.                       *)
Stream == out \o d_data \o AllItems(d_pdu_queue)

(* The PDUs accepted have numbers of their own.                            *)
LEMMA AcceptedIds ==
  ASSUME TypeOK, AcceptedInv, NEW i \in 1..Len(h_accepted), NEW j \in 1..Len(h_accepted),
         h_accepted[i].id = h_accepted[j].id
  PROVE  i = j
<1>1. Len(h_accepted) \in Nat /\ h_accepted[i] \in Pdus /\ h_accepted[j] \in Pdus
  BY LenProperties, ElementOfSeq DEF TypeOK
<1>2. h_accepted[i].id \in Int /\ h_accepted[j].id \in Int
  BY <1>1 DEF Pdus
<1>3. ~(i < j) /\ ~(j < i)
  BY <1>2 DEF AcceptedInv
<1> QED  BY <1>1, <1>3

(* Taken is the first PDU and those without tx_time right behind it.       *)
LEMMA TakenIs ==
  ASSUME d_pdu_queue \in Seq(Pdus), d_pdu_queue # <<>>
  PROVE  Taken \in 1..Len(d_pdu_queue) /\ \A i \in 2..Taken : ~HasTxTime(d_pdu_queue[i])
<1> DEFINE n == Len(d_pdu_queue)
           Some(k) == /\ \A i \in 2..k : ~HasTxTime(d_pdu_queue[i])
                      /\ k < n => HasTxTime(d_pdu_queue[k + 1])
           T == {k \in 1..n : k = n \/ HasTxTime(d_pdu_queue[k + 1])}
<1>1. n \in Nat /\ n > 0
  BY EmptySeq, LenProperties
<1>2. n \in T /\ T \in SUBSET Nat
  BY <1>1
<1>3. PICK k \in T : \A m \in T : k <= m
  BY <1>2, LeastNat
<1>4. ASSUME NEW i \in 2..k
      PROVE  ~HasTxTime(d_pdu_queue[i])
  <2>1. i - 1 \in 1..n /\ (i - 1) + 1 = i /\ ~(k <= i - 1)
    BY <1>1, <1>3, <1>4
  <2>2. i - 1 \notin T
    BY <1>3, <2>1
  <2> QED  BY <2>1, <2>2
<1>5. k \in 1..n /\ Some(k)
  BY <1>1, <1>3, <1>4
<1>6. Taken = CHOOSE m \in 1..n : Some(m)
  BY DEF Taken
<1> HIDE DEF Some
<1>7. Taken \in 1..n /\ Some(Taken)
  BY <1>5, <1>6
<1> QED  BY <1>7 DEF Some

(* A call of work() that has something to write begins a burst or goes on  *)
(* with one, and the stream stays what it was.                             *)
LEMMA WorkIs ==
  ASSUME ConstAssumption, IInv, NEW n \in 1..MaxChunk, WorkFor(n)
  PROVE  \E data, c : /\ Works(data, c)
                       /\ Stream = (out \o data) \o AllItems(d_pdu_queue')
<1> DEFINE l == Len(d_pdu_queue)
<1>1. /\ n \in Nat \ {0} /\ out \in Seq(Items) /\ d_pdu_queue \in Seq(Pdus)
      /\ h_accepted \in Seq(Pdus) /\ d_data \in Seq(Items)
      /\ l \in Nat /\ Len(h_accepted) \in Nat /\ Gone \in Nat
      /\ Gone + l = Len(h_accepted)
  BY LenProperties DEF ConstAssumption, IInv, TypeOK, QueueInv, Gone
<1>2. /\ UNCHANGED <<d_drop_early_bursts, d_max_queue_size, h_received, h_accepted, h_early>>
      /\ d_time_tag = NoTime
  BY DEF WorkFor, IInv, DataInv
<1>3. CASE /\ FetchReady
           /\ Write(n, AllItems(SubSeq(d_pdu_queue, 1, Taken)), TRUE, QueuedTime)
           /\ d_pdu_queue' = SubSeq(d_pdu_queue, Taken + 1, Len(d_pdu_queue))
  <2> PICK t : t = Taken
    OBVIOUS
  <2> DEFINE q == SubSeq(d_pdu_queue, 1, t)
             data == AllItems(q)
             p == h_accepted[Gone + 1]
  <2>1. t \in 1..l /\ \A i \in 2..t : ~HasTxTime(d_pdu_queue[i])
    BY <1>1, <1>3, TakenIs DEF FetchReady
  <2>2. \A i \in 1..l : /\ d_pdu_queue[i] = h_accepted[Gone + i] /\ d_pdu_queue[i].len > 0
                        /\ Gone + i \in 1..Len(h_accepted)
    <3>1. \A i \in 1..l : Gone + i \in 1..Len(h_accepted)
      BY ONLY <1>1
    <3>2. \A i \in 1..l : d_pdu_queue[i] = h_accepted[Gone + i]
      BY DEF IInv, QueueInv
    <3>3. \A i \in 1..Len(h_accepted) : h_accepted[i].len > 0
      BY DEF IInv, AcceptedInv
    <3> QED  BY <3>1, <3>2, <3>3
  <2>3. /\ q \in Seq(Pdus) /\ Len(q) = t /\ \A i \in 1..t : q[i] = h_accepted[Gone + i]
    <3>1. \A i \in 1..t : d_pdu_queue[i] \in Pdus
      BY <1>1, <2>1, ElementOfSeq
    <3> QED  BY <1>1, <2>1, <2>2, <3>1, SubSeqProperties
  <2>4. IsBurstOf(data, q)
    <3>1. \A i \in 1..Len(d_pdu_queue) : d_pdu_queue[i].len > 0
      BY <2>2
    <3> QED  BY <1>1, <2>1, <3>1, BurstOf
  <2> HIDE DEF q, data
  <2>5. Write(n, data, TRUE, QueuedTime) /\ d_pdu_queue' = SubSeq(d_pdu_queue, t + 1, l)
    BY <1>3 DEF q, data
  <2>6. data \in Seq(Items) /\ Len(data) > 0 /\ Len(data) \in Nat
    BY <2>4, LenProperties DEF IsBurstOf
  <2>7. PICK c \in 1..Len(data) : Wrote(data, c)
    BY <1>1, <2>5, <2>6, WriteEffect
  <2>8. ASSUME NEW i \in 1..Len(data)
        PROVE  \E j \in 1..t : /\ data[i].pdu = h_accepted[Gone + j].id
                               /\ j = 1 /\ data[i].idx = 1 => i = 1
    BY <2>3, <2>4 DEF IsBurstOf
  <2>9. BurstData(data)
    <3>1. data # <<>>
      BY <2>6
    <3>2. EndsPdu(data[Len(data)])
      <4>1. data[Len(data)] = [pdu |-> h_accepted[Gone + t].id, idx |-> h_accepted[Gone + t].len]
        BY <2>1, <2>3, <2>4 DEF IsBurstOf
      <4> QED  BY <2>1, <2>2, <4>1 DEF EndsPdu
    <3>3. ASSUME NEW i \in 2..Len(data), NEW j \in 1..Len(h_accepted),
                 data[i] = FirstItem(h_accepted[j])
          PROVE  ~HasTxTime(h_accepted[j])
      <4>1. PICK k \in 1..t : /\ data[i].pdu = h_accepted[Gone + k].id
                              /\ k = 1 /\ data[i].idx = 1 => i = 1
        BY <2>6, <2>8
      <4>2. data[i].idx = 1 /\ data[i].pdu = h_accepted[j].id
        BY <3>3 DEF FirstItem
      <4>3. k \in 2..t /\ k \in 1..l
        BY <2>1, <4>1, <4>2
      <4>4. j = Gone + k
        BY <2>2, <4>1, <4>2, <4>3, AcceptedIds DEF IInv
      <4> QED  BY <2>1, <2>2, <4>3, <4>4
    <3> QED  BY <3>1, <3>2, <3>3 DEF BurstData
  <2>10. /\ d_pdu_queue' \in Seq(Pdus) /\ Len(d_pdu_queue') = l - t
         /\ \A i \in 1..(l - t) : d_pdu_queue'[i] = h_accepted[Gone + t + i]
    <3>1. \A i \in (t + 1)..l : d_pdu_queue[i] \in Pdus
      BY <1>1, <2>1, ElementOfSeq
    <3> PICK rest : rest = SubSeq(d_pdu_queue, t + 1, l)
      OBVIOUS
    <3>2. /\ rest \in Seq(Pdus) /\ Len(rest) = IF t + 1 <= l THEN l - (t + 1) + 1 ELSE 0
          /\ \A i \in 1..(l - (t + 1) + 1) : rest[i] = d_pdu_queue[(t + 1) + i - 1]
      BY <1>1, <2>1, <3>1, SubSeqProperties
    <3>3. Len(rest) = l - t /\ \A i \in 1..(l - t) : /\ i \in 1..(l - (t + 1) + 1) /\ t + i \in 1..l
                                                     /\ (t + 1) + i - 1 = t + i
                                                     /\ Gone + (t + i) = Gone + t + i
      BY <1>1, <2>1, <3>2
    <3>4. ASSUME NEW i \in 1..(l - t)
          PROVE  rest[i] = h_accepted[Gone + t + i]
      <4>1. rest[i] = d_pdu_queue[(t + 1) + i - 1]
        BY <3>2, <3>3
      <4>2. t + i \in 1..l /\ (t + 1) + i - 1 = t + i /\ Gone + (t + i) = Gone + t + i
        BY <3>3
      <4>3. rest[i] = d_pdu_queue[t + i]
        BY <4>1, <4>2
      <4> QED  BY <2>2, <4>2, <4>3
    <3>5. d_pdu_queue' = rest
      BY <2>5
    <3> QED  BY <3>2, <3>3, <3>4, <3>5
  <2>11. QueueInv'
    <3>1. Len(h_accepted) - (l - t) = Gone + t /\ l - t <= Len(h_accepted)
      <4> PICK g, a : g = Gone /\ a = Len(h_accepted)
        OBVIOUS
      <4>1. g \in Nat /\ a \in Nat /\ l \in Nat /\ t \in Nat /\ g + l = a
        BY <1>1, <2>1
      <4>2. a - (l - t) = g + t /\ l - t <= a
        BY ONLY <4>1
      <4> QED  BY <4>2
    <3> QED  BY <1>2, <2>10, <3>1 DEF QueueInv, Gone
  <2>12. \A i \in 1..Len(data) : \E k \in 1..(Len(h_accepted) - Len(d_pdu_queue')) :
           h_accepted[k].id = data[i].pdu
    <3>1. \A j \in 1..t : Gone + j \in 1..(Len(h_accepted) - (l - t))
      BY <1>1, <2>1
    <3> QED  BY <2>8, <2>10, <3>1
  <2>13. QueuedTime = IF p.time = "good" THEN p.id ELSE NoTime
    <3>1. Head(d_pdu_queue) = p
      BY <1>1, <1>3, <2>1, <2>2 DEF FetchReady
    <3> QED  BY <1>2, <3>1 DEF QueuedTime
  <2>14. p.id # NoTime
    <3>1. p \in Pdus
      BY <1>1, <2>1, <2>2, ElementOfSeq
    <3> QED  BY <3>1 DEF Pdus, NoTime
  <2>15. /\ sobs' = sobs \cup {Len(out)} /\ d_tag_sob' = FALSE /\ d_time_tag' = NoTime
         /\ times' = IF p.time = "good" THEN times \cup {[at |-> Len(out), of |-> p.id]} ELSE times
    BY <2>5, <2>13, <2>14 DEF Write
  <2>16. Begins(data)
    <3>1. data[1] = FirstItem(p)
      BY <2>1, <2>3, <2>4 DEF IsBurstOf, FirstItem
    <3>2. Len(d_pdu_queue') < Len(d_pdu_queue)
      BY <1>1, <2>1, <2>10
    <3> QED  BY <1>3, <2>15, <3>1, <3>2 DEF Begins, FetchReady
  <2>17. Works(data, c)
    BY <1>2, <2>7, <2>9, <2>10, <2>11, <2>12, <2>15, <2>16 DEF Works
  <2>18. Stream = (out \o data) \o AllItems(d_pdu_queue')
    <3>1. AllItems(d_pdu_queue) = data \o AllItems(d_pdu_queue')
      <4>1. t \in 0..l
        BY <1>1, <2>1
      <4> QED  BY <1>1, <2>5, <4>1, AllItemsSplit DEF data, q
    <3>2. AllItems(d_pdu_queue') \in Seq(Items)
      BY <2>10, AllItemsType
    <3>3. out \o d_data = out
      BY <1>1, <1>3, ConcatEmptySeq DEF FetchReady
    <3>4. out \o (data \o AllItems(d_pdu_queue')) = (out \o data) \o AllItems(d_pdu_queue')
      <4> PICK o, r : o = out /\ r = AllItems(d_pdu_queue')
        OBVIOUS
      <4>1. o \in Seq(Items) /\ data \in Seq(Items) /\ r \in Seq(Items)
        BY <1>1, <2>6, <3>2
      <4>2. o \o (data \o r) = (o \o data) \o r
        BY ONLY <4>1, ConcatAssociative
      <4> QED  BY <4>2
    <3> QED  BY <3>1, <3>3, <3>4 DEF Stream
  <2> QED  BY <2>17, <2>18
<1>4. CASE /\ d_data # <<>>
           /\ Write(n, d_data, d_tag_sob, d_time_tag)
           /\ UNCHANGED d_pdu_queue
  <2>1. Len(d_data) > 0
    BY <1>1, <1>4, EmptySeq, LenProperties
  <2>2. PICK c \in 1..Len(d_data) : Wrote(d_data, c)
    BY <1>1, <1>4, <2>1, WriteEffect
  <2>3. ~d_tag_sob /\ BurstData(d_data)
    BY <1>4 DEF IInv, DataInv
  <2>4. sobs' = sobs /\ times' = times /\ d_time_tag' = NoTime /\ d_tag_sob' = FALSE
    BY <1>2, <1>4, <2>3 DEF Write
  <2>5. \A i \in 1..Len(d_data) : \E k \in 1..(Len(h_accepted) - Len(d_pdu_queue')) :
          h_accepted[k].id = d_data[i].pdu
    BY <1>4 DEF IInv, FetchedInv, Fetched, Gone
  <2>6. QueueInv' /\ d_pdu_queue' \in Seq(Pdus)
    BY <1>1, <1>2, <1>4 DEF IInv, QueueInv, Gone
  <2>7. Continues(d_data)
    BY <1>4, <2>4 DEF Continues
  <2>8. Works(d_data, c)
    BY <1>2, <2>2, <2>3, <2>4, <2>5, <2>6, <2>7 DEF Works
  <2>9. Stream = (out \o d_data) \o AllItems(d_pdu_queue')
    BY <1>4 DEF Stream
  <2> QED  BY <2>8, <2>9
<1> QED  BY <1>3, <1>4 DEF WorkFor

(* The sizes a call of work() deals with.                                  *)
LEMMA Sizes ==
  ASSUME IInv, NEW data, NEW c, Works(data, c)
  PROVE  /\ Len(out) \in Nat /\ Len(data) \in Nat /\ Len(d_data) \in Nat
         /\ Len(h_accepted) \in Nat /\ Gone \in Nat
         /\ c \in Nat /\ 1 <= c /\ c <= Len(data) /\ Len(out') = Len(out) + c
         /\ Begins(data) => Gone + 1 \in 1..Len(h_accepted)
         /\ Gone <= Gone' /\ Gone' \in Nat
         /\ out # <<>> => Len(out) > 0
<1>1. /\ out \in Seq(Items) /\ d_data \in Seq(Items) /\ d_pdu_queue \in Seq(Pdus)
      /\ h_accepted \in Seq(Pdus) /\ d_pdu_queue' \in Seq(Pdus)
      /\ data \in Seq(Items) /\ Len(d_pdu_queue) <= Len(h_accepted)
      /\ c \in 1..Len(data) /\ Len(out') = Len(out) + c
      /\ h_accepted' = h_accepted
      /\ Len(d_pdu_queue') <= Len(h_accepted)
  BY DEF IInv, TypeOK, QueueInv, Works, Wrote
<1>2. /\ Len(out) \in Nat /\ Len(data) \in Nat /\ Len(d_data) \in Nat /\ Len(h_accepted) \in Nat
      /\ Len(d_pdu_queue) \in Nat /\ Len(d_pdu_queue') \in Nat
  BY <1>1, LenProperties
<1>3. Gone \in Nat /\ Gone' = Len(h_accepted) - Len(d_pdu_queue') /\ Gone' \in Nat
  BY <1>1, <1>2 DEF Gone
<1>4. Len(d_pdu_queue') <= Len(d_pdu_queue)
  BY <1>2 DEF Works, Begins, Continues
<1>5. Gone <= Gone'
  BY <1>2, <1>3, <1>4 DEF Gone
<1>6. Begins(data) => Gone + 1 \in 1..Len(h_accepted)
  <2>1. Begins(data) => Len(d_pdu_queue) > 0
    BY <1>1, EmptySeq, LenProperties DEF Begins
  <2> QED  BY <1>1, <1>2, <1>3, <2>1 DEF Gone
<1>7. out # <<>> => Len(out) > 0
  BY <1>1, EmptySeq, LenProperties
<1> QED  BY <1>1, <1>2, <1>3, <1>5, <1>6, <1>7

(* What is written is what was there, or an item of data.                  *)
LEMMA OldOrNew ==
  ASSUME IInv, NEW data, NEW c, Works(data, c), NEW i \in 1..Len(out')
  PROVE  \/ i \in 1..Len(out) /\ out'[i] = out[i]
         \/ /\ i - Len(out) \in 1..c /\ out'[i] = data[i - Len(out)]
            /\ i \notin 1..Len(out)
<1>1. /\ Len(out) \in Nat /\ c \in Nat /\ Len(out') = Len(out) + c
  BY Sizes
<1>2. /\ \A k \in 1..Len(out) : out'[k] = out[k]
      /\ \A k \in 1..c : out'[Len(out) + k] = data[k]
  BY DEF Works, Wrote
<1>3. CASE i <= Len(out)
  BY <1>1, <1>2, <1>3
<1>4. CASE ~(i <= Len(out))
  <2>1. i - Len(out) \in 1..c /\ Len(out) + (i - Len(out)) = i
    BY <1>1, <1>4
  <2>2. out'[Len(out) + (i - Len(out))] = data[i - Len(out)]
    BY <1>2, <2>1
  <2> QED  BY <1>4, <2>1, <2>2
<1> QED  BY <1>3, <1>4

(* work() keeps the types.                                                 *)
LEMMA WorksType ==
  ASSUME IInv, NEW data, NEW c, Works(data, c)
  PROVE  TypeOK'
<1>1. TypeOK
  BY DEF IInv
<1>2. /\ Len(out) \in Nat /\ c \in Nat /\ 1 <= c /\ Len(out') = Len(out) + c
      /\ Begins(data) => Gone + 1 \in 1..Len(h_accepted)
  BY Sizes
<1>3. sobs' \cup eobs' \subseteq 0..(Len(out') - 1)
  <2>1. sobs' \subseteq sobs \cup {Len(out)}
    BY DEF Works, Begins, Continues
  <2>2. eobs' \subseteq eobs \cup {Len(out) + c - 1}
    BY DEF Works, Wrote
  <2>3. sobs \cup eobs \subseteq 0..(Len(out) - 1)
    BY <1>1 DEF TypeOK
  <2>4. /\ 0..(Len(out) - 1) \subseteq 0..(Len(out') - 1)
        /\ Len(out) \in 0..(Len(out') - 1) /\ Len(out) + c - 1 \in 0..(Len(out') - 1)
    BY <1>2
  <2> QED  BY <2>1, <2>2, <2>3, <2>4
<1>4. times' \subseteq [at : 0..(Len(out') - 1), of : 1..MaxPdus]
  <2>1. times \subseteq [at : 0..(Len(out') - 1), of : 1..MaxPdus]
    <3>1. times \subseteq [at : 0..(Len(out) - 1), of : 1..MaxPdus]
      BY <1>1 DEF TypeOK
    <3>2. 0..(Len(out) - 1) \subseteq 0..(Len(out') - 1)
      BY <1>2
    <3>3. ASSUME NEW t \in times
          PROVE  t \in [at : 0..(Len(out') - 1), of : 1..MaxPdus]
      <4>1. t \in [at : 0..(Len(out) - 1), of : 1..MaxPdus]
        BY <3>1
      <4> QED  BY <3>2, <4>1
    <3> QED  BY <3>3
  <2>2. CASE Begins(data)
    <3> PICK p : p = h_accepted[Gone + 1]
      OBVIOUS
    <3>1. p \in Pdus
      BY <1>1, <1>2, <2>2, ElementOfSeq DEF TypeOK
    <3>2. p.id \in 1..MaxPdus /\ Len(out) \in 0..(Len(out') - 1)
      BY <1>2, <3>1 DEF Pdus
    <3>3. [at |-> Len(out), of |-> p.id] \in [at : 0..(Len(out') - 1), of : 1..MaxPdus]
      BY <3>2
    <3>4. times' = IF p.time = "good" THEN times \cup {[at |-> Len(out), of |-> p.id]} ELSE times
      BY <2>2 DEF Begins
    <3> QED  BY <2>1, <3>3, <3>4
  <2>3. CASE Continues(data)
    BY <2>1, <2>3 DEF Continues
  <2> QED  BY <2>2, <2>3 DEF Works
<1>5. d_time_tag' \in {NoTime} \cup 1..MaxPdus /\ d_tag_sob' \in BOOLEAN
  BY DEF Works
<1>6. out' \in Seq(Items) /\ d_data' \in Seq(Items) /\ d_pdu_queue' \in Seq(Pdus)
  BY DEF Works, Wrote
<1>7. UNCHANGED <<d_drop_early_bursts, d_max_queue_size, h_received, h_accepted, h_early>>
  BY DEF Works
<1> QED  BY <1>1, <1>3, <1>4, <1>5, <1>6, <1>7 DEF TypeOK

(* work() accepts nothing.                                                 *)
LEMMA WorksAccepted ==
  ASSUME IInv, NEW data, NEW c, Works(data, c)
  PROVE  AcceptedInv'
BY DEF IInv, AcceptedInv, Works

(* What work() writes has left the queue.                                  *)
LEMMA WorksFetched ==
  ASSUME IInv, NEW data, NEW c, Works(data, c)
  PROVE  FetchedInv'
<1>1. /\ Len(out) \in Nat /\ Len(data) \in Nat /\ c \in Nat /\ 1 <= c /\ c <= Len(data)
      /\ Len(out') = Len(out) + c
      /\ Begins(data) => Gone + 1 \in 1..Len(h_accepted)
      /\ Gone \in Nat /\ Gone' \in Nat /\ Gone <= Gone'
  BY Sizes
<1>2. h_accepted' = h_accepted
  BY DEF Works
<1>3. \A id : Fetched(id) => Fetched(id)'
  BY <1>1, <1>2 DEF Fetched
<1>4. \A i \in 1..Len(data) : Fetched(data[i].pdu)'
  <2>1. \A i \in 1..Len(data) : \E k \in 1..(Len(h_accepted) - Len(d_pdu_queue')) :
          h_accepted[k].id = data[i].pdu
    BY DEF Works
  <2> QED  BY <1>2, <2>1 DEF Fetched, Gone
<1>5. ASSUME NEW i \in 1..Len(out')
      PROVE  Fetched(out[i].pdu)'
  <2>1. CASE i \in 1..Len(out) /\ out'[i] = out[i]
    <3>1. Fetched(out[i].pdu)
      BY <2>1 DEF IInv, FetchedInv
    <3> PICK id : id = out[i].pdu
      OBVIOUS
    <3>2. Fetched(id)' /\ out'[i].pdu = id
      BY <1>3, <2>1, <3>1
    <3> QED  BY <3>2 DEF Fetched
  <2>2. CASE i - Len(out) \in 1..c /\ out'[i] = data[i - Len(out)]
    <3> PICK id : id = data[i - Len(out)].pdu
      OBVIOUS
    <3>1. Fetched(id)' /\ out'[i].pdu = id
      BY <1>1, <1>4, <2>2
    <3> QED  BY <3>1 DEF Fetched
  <2> QED  BY <2>1, <2>2, OldOrNew
<1>6. ASSUME NEW i \in 1..Len(d_data')
      PROVE  Fetched(d_data[i].pdu)'
  <2>1. d_data' # <<>>
    BY <1>6
  <2>2. c < Len(data)
    BY <1>1, <2>1 DEF Works, Wrote
  <2>3. Len(d_data') = Len(data) - c + 1 /\ \A j \in 1..(Len(data) - c + 1) : d_data'[j] = data[c + j - 1]
    BY <2>2 DEF Works, Wrote
  <2>4. c + i - 1 \in 1..Len(data)
    BY <1>1, <2>3
  <2> PICK id : id = data[c + i - 1].pdu
    OBVIOUS
  <2>5. Fetched(id)' /\ d_data'[i].pdu = id
    BY <1>4, <2>3, <2>4
  <2> QED  BY <2>5 DEF Fetched
<1>7. ASSUME NEW t \in times'
      PROVE  Fetched(t.of)'
  <2>1. CASE t \in times
    BY <1>3, <2>1 DEF IInv, FetchedInv
  <2>2. CASE t \notin times
    <3>1. Begins(data) /\ t = [at |-> Len(out), of |-> h_accepted[Gone + 1].id]
      BY <1>7, <2>2 DEF Works, Begins, Continues
    <3>2. Len(d_pdu_queue') < Len(d_pdu_queue) /\ Len(d_pdu_queue') \in Nat /\ Len(d_pdu_queue) \in Nat
          /\ Len(h_accepted) \in Nat
      BY <3>1, LenProperties DEF Begins, Works, IInv, TypeOK
    <3>3. Gone + 1 \in 1..Gone'
      BY <1>2, <1>1, <3>2 DEF Gone
    <3> PICK k : k = Gone + 1
      OBVIOUS
    <3>4. k \in 1..Gone' /\ h_accepted'[k].id = t.of
      BY <1>2, <3>1, <3>3
    <3> QED  BY <3>4 DEF Fetched
  <2> QED  BY <2>1, <2>2
<1> QED  BY <1>5, <1>6, <1>7 DEF FetchedInv

(* What work() keeps of a burst ends where a PDU ends.                     *)
LEMMA WorksData ==
  ASSUME IInv, NEW data, NEW c, Works(data, c)
  PROVE  DataInv'
<1>1. /\ Len(out) \in Nat /\ Len(data) \in Nat /\ c \in Nat /\ 1 <= c /\ c <= Len(data)
      /\ Len(out') = Len(out) + c
  BY Sizes
<1>2. h_accepted' = h_accepted /\ d_time_tag' = NoTime /\ d_tag_sob' = FALSE /\ BurstData(data)
  BY DEF Works
<1>3. ASSUME d_data' # <<>>
      PROVE  BurstData(d_data)' /\ out' # <<>> /\ out'[Len(out')] = d_data'[1]
  <2>1. c < Len(data)
    BY <1>1, <1>3 DEF Works, Wrote
  <2>2. Len(d_data') = Len(data) - c + 1 /\ \A j \in 1..(Len(data) - c + 1) : d_data'[j] = data[c + j - 1]
    BY <2>1 DEF Works, Wrote
  <2>3. out'[Len(out')] = data[c]
    <3>1. c \in 1..c /\ \A i \in 1..c : out'[Len(out) + i] = data[i]
      BY <1>1 DEF Works, Wrote
    <3> QED  BY <1>1, <3>1
  <2>4. d_data'[1] = data[c]
    <3>1. 1 \in 1..(Len(data) - c + 1) /\ c + 1 - 1 = c
      BY <1>1
    <3> QED  BY <2>2, <3>1
  <2>5. out' # <<>>
    <3>1. Len(out') # 0 /\ Len(<<>>) = 0
      BY <1>1
    <3> QED  BY <3>1
  <2>6. EndsPdu(d_data[Len(d_data)])'
    <3>1. Len(data) - c + 1 \in 1..(Len(data) - c + 1) /\ c + (Len(data) - c + 1) - 1 = Len(data)
      BY <1>1, <2>1
    <3>2. d_data'[Len(d_data')] = data[Len(data)]
      BY <2>2, <3>1
    <3>3. EndsPdu(data[Len(data)])
      BY <1>2 DEF BurstData
    <3> QED  BY <1>2, <3>2, <3>3 DEF EndsPdu
  <2>7. ASSUME NEW i \in 2..Len(d_data'), NEW j \in 1..Len(h_accepted),
               d_data'[i] = FirstItem(h_accepted[j])
        PROVE  ~HasTxTime(h_accepted[j])
    <3>1. i \in 1..(Len(data) - c + 1) /\ c + i - 1 \in 2..Len(data)
      BY <1>1, <2>2
    <3>2. data[c + i - 1] = FirstItem(h_accepted[j])
      BY <2>2, <2>7, <3>1
    <3> QED  BY <1>2, <3>1, <3>2 DEF BurstData
  <2>8. BurstData(d_data)'
    BY <1>2, <1>3, <2>6, <2>7 DEF BurstData, FirstItem, HasTxTime
  <2> QED  BY <2>3, <2>4, <2>5, <2>8
<1>4. d_tag_sob' = FALSE => ~d_tag_sob'
  OBVIOUS
<1> QED  BY <1>2, <1>3, <1>4, Zenon DEF DataInv

(* work() keeps the SOB and EOB tags in step with the items.               *)
LEMMA WorksTags ==
  ASSUME IInv, NEW data, NEW c, Works(data, c)
  PROVE  TagsInv'
<1> DEFINE n == Len(out)
<1>1. /\ n \in Nat /\ Len(data) \in Nat /\ c \in Nat /\ 1 <= c /\ c <= Len(data)
      /\ Len(out') = n + c /\ (out # <<>> => n > 0) /\ (n > 0 => out # <<>>)
  BY Sizes
<1>2. /\ h_accepted' = h_accepted /\ BurstData(data)
      /\ eobs' = IF c = Len(data) THEN eobs \cup {n + c - 1} ELSE eobs
      /\ d_data' = <<>> <=> c = Len(data)
      /\ \A i \in 1..n : out'[i] = out[i]
      /\ \A i \in 1..c : out'[n + i] = data[i]
  BY DEF Works, Wrote
<1>3. sobs \subseteq 0..(n - 1) /\ eobs \subseteq 0..(n - 1)
  BY DEF IInv, TypeOK
<1>4. /\ \A o \in 0..(n - 1) :
           /\ o \in sobs <=> o = 0 \/ (o - 1) \in eobs
           /\ o \in sobs => out[o + 1].idx = 1
           /\ o \in eobs => EndsPdu(out[o + 1])
      /\ out # <<>> => (d_data = <<>> <=> (n - 1) \in eobs)
  BY DEF IInv, TagsInv
<1>5. \/ Begins(data) /\ d_data = <<>> /\ sobs' = sobs \cup {n} /\ data[1].idx = 1
      \/ Continues(data) /\ d_data # <<>> /\ sobs' = sobs /\ out # <<>>
  BY DEF Works, Begins, Continues, FirstItem, IInv, DataInv
<1>6. ASSUME NEW o \in 0..(n + c - 1)
      PROVE  /\ o \in sobs' <=> o = 0 \/ (o - 1) \in eobs'
             /\ o \in sobs' => out'[o + 1].idx = 1
             /\ o \in eobs' => EndsPdu(out[o + 1])'
  <2>1. CASE o < n
    <3>1. o \in 0..(n - 1) /\ o # n /\ o - 1 # n + c - 1 /\ o # n + c - 1 /\ o + 1 \in 1..n
      BY <1>1, <2>1
    <3>2. (o \in sobs' <=> o \in sobs) /\ (o \in eobs' <=> o \in eobs)
          /\ (o - 1 \in eobs' <=> o - 1 \in eobs)
      BY <1>2, <1>5, <3>1
    <3>3. out'[o + 1] = out[o + 1]
      BY <1>2, <3>1
    <3>4. o \in eobs' => EndsPdu(out[o + 1])'
      <4>1. o \in eobs' => EndsPdu(out[o + 1])
        BY <1>4, <3>1, <3>2
      <4> QED  BY <1>2, <3>3, <4>1 DEF EndsPdu
    <3> QED  BY <1>4, <3>1, <3>2, <3>3, <3>4
  <2>2. CASE o = n
    <3>1. o \notin sobs /\ o \notin eobs /\ o - 1 # n + c - 1 /\ out'[o + 1] = data[1]
      BY <1>1, <1>2, <1>3, <2>2
    <3>2. o - 1 \in eobs' <=> o - 1 \in eobs
      BY <1>2, <3>1
    <3>3. o \in sobs' <=> o = 0 \/ (o - 1) \in eobs'
      BY <1>1, <1>4, <1>5, <2>2, <3>1, <3>2
    <3>4. o \in sobs' => out'[o + 1].idx = 1
      BY <1>5, <3>1
    <3>5. o \in eobs' => EndsPdu(out[o + 1])'
      <4>1. o \in eobs' => c = Len(data) /\ n = n + c - 1
        BY <1>2, <2>2, <3>1
      <4>2. o \in eobs' => data[1] = data[Len(data)]
        BY <1>1, <4>1
      <4> QED  BY <1>2, <3>1, <4>2 DEF BurstData, EndsPdu
    <3> QED  BY <3>3, <3>4, <3>5
  <2>3. CASE o > n
    <3>1. /\ o \notin sobs /\ o # n /\ o \notin eobs /\ o - 1 \notin eobs /\ o - 1 # n + c - 1
          /\ o # 0
      BY <1>1, <1>3, <2>3
    <3>2. o \notin sobs' /\ o - 1 \notin eobs'
      BY <1>2, <1>5, <3>1
    <3>3. o \in eobs' => EndsPdu(out[o + 1])'
      <4>1. o \in eobs' => c = Len(data) /\ o = n + c - 1
        BY <1>2, <3>1
      <4>2. c \in 1..c /\ (o = n + c - 1 => o + 1 = n + c)
        BY <1>1
      <4>3. o \in eobs' => out'[o + 1] = data[Len(data)]
        BY <1>2, <4>1, <4>2
      <4> QED  BY <1>2, <4>3 DEF BurstData, EndsPdu
    <3> QED  BY <3>1, <3>2, <3>3
  <2> QED  BY <1>1, <2>1, <2>2, <2>3
<1>7. d_data' = <<>> <=> (n + c - 1) \in eobs'
  <2>1. n + c - 1 \notin eobs
    BY <1>1, <1>3
  <2> QED  BY <1>2, <2>1
<1> QED  BY <1>1, <1>6, <1>7 DEF TagsInv

(* The first item of a PDU with a tx_time is written as the first of a     *)
(* burst, or is the one that was written last.                             *)
LEMMA TimedFirst ==
  ASSUME IInv, NEW data, NEW c, Works(data, c), NEW i \in 1..c,
         NEW j \in 1..Len(h_accepted), HasTxTime(h_accepted[j]),
         data[i] = FirstItem(h_accepted[j])
  PROVE  /\ i = 1
         /\ Begins(data) => j = Gone + 1
         /\ Continues(data) => Len(out) \in 1..Len(out) /\ out[Len(out)] = FirstItem(h_accepted[j])
<1>1. /\ Len(out) \in Nat /\ Len(data) \in Nat /\ c \in Nat /\ 1 <= c /\ c <= Len(data)
      /\ (Begins(data) => Gone + 1 \in 1..Len(h_accepted)) /\ (out # <<>> => Len(out) > 0)
  BY Sizes
<1>2. i = 1
  <2>1. i \notin 2..Len(data)
    BY DEF Works, BurstData
  <2> QED  BY <1>1, <2>1
<1>3. CASE Begins(data)
  <2>1. h_accepted[Gone + 1].id = h_accepted[j].id
    BY <1>2, <1>3 DEF Begins, FirstItem
  <2>2. j = Gone + 1
    BY <1>1, <1>3, <2>1, AcceptedIds DEF IInv
  <2>3. ~Continues(data)
    BY <1>3 DEF Begins, Continues
  <2> QED  BY <1>2, <2>2, <2>3
<1>4. CASE Continues(data)
  <2>1. d_data # <<>> /\ data = d_data /\ ~Begins(data)
    BY <1>4 DEF Begins, Continues
  <2>2. out # <<>> /\ out[Len(out)] = data[1]
    BY <2>1 DEF IInv, DataInv
  <2> QED  BY <1>1, <1>2, <2>1, <2>2
<1> QED  BY <1>3, <1>4 DEF Works

(* A PDU with a tx_time still begins a burst.                              *)
LEMMA WorksTimed ==
  ASSUME IInv, NEW data, NEW c, Works(data, c)
  PROVE  TimedInv'
<1> DEFINE n == Len(out)
<1>1. /\ n \in Nat /\ c \in Nat /\ 1 <= c /\ Len(out') = n + c
  BY Sizes
<1>2. /\ h_accepted' = h_accepted /\ \A i \in 1..n : out'[i] = out[i]
      /\ sobs \subseteq sobs'
  BY DEF Works, Wrote, Begins, Continues
<1>3. ASSUME NEW j \in 1..Len(h_accepted), NEW o \in 0..(Len(out') - 1),
             HasTxTime(h_accepted[j]), out'[o + 1] = FirstItem(h_accepted[j])
      PROVE  o \in sobs' \/ (o > 0 /\ out'[o] = out'[o + 1])
  <2>0. o \in Nat /\ o + 1 \in 1..Len(out') /\ (o + 1) - n = o + 1 - n
    BY <1>1
  <2> PICK k : k = o + 1
    OBVIOUS
  <2>1. CASE k \in 1..n /\ out'[k] = out[k]
    <3>1. o \in 0..(n - 1) /\ (o > 0 => o \in 1..n) /\ o + 1 \in 1..n
      BY <1>1, <2>0, <2>1
    <3>2. o \in sobs \/ (o > 0 /\ out[o] = out[o + 1])
      BY <1>3, <2>1, <3>1 DEF IInv, TimedInv
    <3> QED  BY <1>2, <3>1, <3>2
  <2>2. CASE k - n \in 1..c /\ out'[k] = data[k - n]
    <3> PICK i : i = k - n
      OBVIOUS
    <3>1. i \in 1..c /\ data[i] = FirstItem(h_accepted[j])
      BY <1>3, <2>2
    <3>2. /\ i = 1
          /\ Continues(data) => n \in 1..n /\ out[n] = FirstItem(h_accepted[j])
      BY <1>3, <3>1, TimedFirst
    <3>3. o = n
      BY <1>1, <2>0, <3>2
    <3>4. CASE Begins(data)
      BY <3>3, <3>4 DEF Begins
    <3>5. CASE Continues(data)
      <4>1. n \in 1..n /\ out'[n] = out'[o + 1]
        BY <1>2, <1>3, <3>2, <3>5
      <4>2. o > 0 /\ out'[o] = out'[o + 1]
        BY <1>1, <3>3, <4>1
      <4> QED  BY <4>2
    <3> QED  BY <3>4, <3>5 DEF Works
  <2> QED
    <3>1. k \in 1..Len(out')
      BY <2>0
    <3> QED  BY <2>1, <2>2, <3>1, OldOrNew
<1> QED  BY <1>2, <1>3 DEF TimedInv, FirstItem, HasTxTime

(* work() keeps the tx_time tags right.                                    *)
LEMMA WorksTimes ==
  ASSUME IInv, NEW data, NEW c, Works(data, c)
  PROVE  TimesInv'
<1> DEFINE n == Len(out)
           p == h_accepted[Gone + 1]
           tag == [at |-> n, of |-> p.id]
<1>1. /\ n \in Nat /\ c \in Nat /\ 1 <= c /\ Len(out') = n + c /\ Gone \in Nat
      /\ Begins(data) => Gone + 1 \in 1..Len(h_accepted)
  BY Sizes
<1>2. /\ h_accepted' = h_accepted
      /\ \A i \in 1..n : out'[i] = out[i]
      /\ \A i \in 1..c : out'[n + i] = data[i]
      /\ sobs \subseteq sobs'
  BY DEF Works, Wrote, Begins, Continues
<1>3. /\ Begins(data) => /\ n \in sobs' /\ data[1] = [pdu |-> p.id, idx |-> 1]
                         /\ times' = IF p.time = "good" THEN times \cup {tag} ELSE times
      /\ Continues(data) => times' = times
      /\ Begins(data) \/ Continues(data)
  BY DEF Works, Begins, Continues, FirstItem
<1>4. times \subseteq times'
  BY <1>3
<1>5. \A t \in times' : t \in times \/ (t = tag /\ Begins(data))
  BY <1>3
<1>6. ASSUME NEW t \in times'
      PROVE  t.at \in sobs' /\ out'[t.at + 1] = [pdu |-> t.of, idx |-> 1]
  <2>1. CASE t \in times
    <3>1. t.at \in sobs /\ out[t.at + 1] = [pdu |-> t.of, idx |-> 1] /\ t.at \in 0..(n - 1)
      BY <2>1 DEF IInv, TimesInv, TypeOK
    <3>2. t.at + 1 \in 1..n
      BY <1>1, <3>1
    <3> QED  BY <1>2, <3>1, <3>2
  <2>2. CASE t = tag /\ Begins(data)
    <3>1. t.at = n /\ t.of = p.id /\ 1 \in 1..c
      BY <1>1, <2>2
    <3>2. out'[n + 1] = [pdu |-> p.id, idx |-> 1]
      BY <1>2, <1>3, <2>2, <3>1
    <3> QED  BY <1>3, <2>2, <3>1, <3>2
  <2> QED  BY <1>5, <2>1, <2>2
<1>7. ASSUME Begins(data), NEW t \in times
      PROVE  t.of # p.id
  <2>1. SUFFICES ASSUME t.of = p.id  PROVE FALSE
    OBVIOUS
  <2>2. PICK i \in 1..Gone : h_accepted[i].id = t.of
    BY <1>7 DEF IInv, FetchedInv, Fetched
  <2>3. i \in 1..Len(h_accepted)
    BY <1>1, <1>7
  <2>4. i = Gone + 1
    BY <1>1, <1>7, <2>1, <2>2, <2>3, AcceptedIds DEF IInv
  <2> QED  BY <1>1, <2>4
<1>8. ASSUME NEW t \in times', NEW u \in times', t.of = u.of
      PROVE  t = u
  <2>1. tag.of = p.id
    OBVIOUS
  <2> HIDE DEF tag, p
  <2>2. CASE t \in times /\ u \in times
    BY <1>8, <2>2 DEF IInv, TimesInv
  <2> QED  BY <1>5, <1>7, <1>8, <2>1, <2>2
<1>9. ASSUME NEW j \in 1..Len(h_accepted), NEW i \in 1..Len(out'),
             h_accepted[j].time = "good", out'[i] = FirstItem(h_accepted[j])
      PROVE  \E t \in times' : t.of = h_accepted[j].id
  <2>1. CASE i \in 1..n /\ out'[i] = out[i]
    BY <1>4, <1>9, <2>1 DEF IInv, TimesInv
  <2>2. CASE i - n \in 1..c /\ out'[i] = data[i - n]
    <3> PICK k : k = i - n
      OBVIOUS
    <3>1. k \in 1..c /\ data[k] = FirstItem(h_accepted[j]) /\ HasTxTime(h_accepted[j])
      BY <1>9, <2>2 DEF HasTxTime
    <3>2. /\ Begins(data) => j = Gone + 1
          /\ Continues(data) => n \in 1..n /\ out[n] = FirstItem(h_accepted[j])
      BY <3>1, TimedFirst
    <3>3. CASE Begins(data)
      <4>1. p = h_accepted[j] /\ tag.of = p.id
        BY <3>2, <3>3
      <4> HIDE DEF tag, p
      <4>2. tag \in times'
        BY <1>3, <1>9, <3>3, <4>1
      <4> QED  BY <4>1, <4>2
    <3>4. CASE Continues(data)
      BY <1>4, <1>9, <3>2, <3>4 DEF IInv, TimesInv
    <3> QED  BY <1>3, <3>3, <3>4
  <2> QED  BY <2>1, <2>2, OldOrNew
<1> QED  BY <1>2, <1>6, <1>8, <1>9 DEF TimesInv, FirstItem

-----------------------------------------------------------------------------
(* A message                                                               *)

(* A message keeps the invariant, whether it is queued or dropped.         *)
LEMMA StoreKeeps ==
  ASSUME ConstAssumption, IInv, StorePdu
  PROVE  IInv'
<1>1. PICK kind \in PduKinds :
        /\ h_received < MaxPdus
        /\ h_received' = h_received + 1
        /\ UNCHANGED <<d_drop_early_bursts, d_max_queue_size, d_data, d_tag_sob,
                       d_time_tag, out, tags>>
        /\ \/ UNCHANGED <<d_pdu_queue, h_accepted, h_early>>
           \/ LET pdu == [id |-> h_received + 1, len |-> kind.len, time |-> kind.time]
              IN  /\ kind.len > 0
                  /\ d_pdu_queue' = Append(d_pdu_queue, pdu)
                  /\ h_accepted' = Append(h_accepted, pdu)
                  /\ h_early' \subseteq h_early \cup {pdu.id}
  BY DEF StorePdu
<1>2. /\ d_pdu_queue \in Seq(Pdus) /\ h_accepted \in Seq(Pdus) /\ out \in Seq(Items)
      /\ Len(d_pdu_queue) \in Nat /\ Len(h_accepted) \in Nat /\ Len(out) \in Nat /\ Gone \in Nat
      /\ Gone + Len(d_pdu_queue) = Len(h_accepted) /\ h_received \in 0..MaxPdus /\ MaxPdus \in Nat
      /\ Len(d_data) \in Nat
  BY LenProperties DEF IInv, TypeOK, QueueInv, Gone, ConstAssumption
<1>3. UNCHANGED <<d_drop_early_bursts, d_max_queue_size, d_data, d_tag_sob, d_time_tag, out,
                  sobs, eobs, times>>
  BY <1>1 DEF tags
<1>4. h_received' \in 0..MaxPdus /\ h_received' \in Nat /\ h_received < h_received'
  BY <1>1, <1>2
<1>5. CASE UNCHANGED <<d_pdu_queue, h_accepted, h_early>>
  <2>1. TypeOK'
    BY <1>3, <1>4, <1>5 DEF IInv, TypeOK
  <2>2. AcceptedInv'
    <3>1. ASSUME NEW i \in 1..Len(h_accepted)
          PROVE  h_accepted[i].id <= h_received'
      <4>1. h_accepted[i].id \in Int /\ h_accepted[i].id <= h_received
        <5>1. h_accepted[i] \in Pdus
          BY <1>2, ElementOfSeq
        <5> QED  BY <5>1 DEF IInv, AcceptedInv, Pdus
      <4> QED  BY <1>2, <1>4, <4>1
    <3> QED  BY <1>5, <3>1 DEF IInv, AcceptedInv
  <2>3. QueueInv' /\ FetchedInv' /\ TagsInv'
    BY <1>3, <1>5 DEF IInv, QueueInv, FetchedInv, Fetched, Gone, TagsInv, EndsPdu
  <2>4. DataInv'
    BY <1>3, <1>5, Zenon DEF IInv, DataInv, BurstData, EndsPdu
  <2>5. TimedInv' /\ TimesInv'
    BY <1>3, <1>5 DEF IInv, TimedInv, TimesInv
  <2> QED  BY <2>1, <2>2, <2>3, <2>4, <2>5 DEF IInv
<1>6. ASSUME NEW pdu, pdu = [id |-> h_received + 1, len |-> kind.len, time |-> kind.time],
             kind.len > 0,
             d_pdu_queue' = Append(d_pdu_queue, pdu),
             h_accepted' = Append(h_accepted, pdu),
             h_early' \subseteq h_early \cup {pdu.id}
      PROVE  IInv'
  <2> DEFINE a == Len(h_accepted)
             l == Len(d_pdu_queue)
  <2>1. pdu \in Pdus /\ pdu.id = h_received + 1 /\ pdu.len > 0
    <3>1. kind \in [valid : BOOLEAN, len : Nat, time : TxTimes]
      BY DEF ConstAssumption
    <3>2. h_received + 1 \in 1..MaxPdus
      BY <1>1, <1>2
    <3> QED  BY <1>6, <3>1, <3>2 DEF Pdus
  <2>2. /\ h_accepted' \in Seq(Pdus) /\ Len(h_accepted') = a + 1 /\ h_accepted'[a + 1] = pdu
        /\ \A i \in 1..a : h_accepted'[i] = h_accepted[i]
    BY <1>2, <1>6, <2>1, AppendProperties
  <2>3. /\ d_pdu_queue' \in Seq(Pdus) /\ Len(d_pdu_queue') = l + 1 /\ d_pdu_queue'[l + 1] = pdu
        /\ \A i \in 1..l : d_pdu_queue'[i] = d_pdu_queue[i]
    BY <1>2, <1>6, <2>1, AppendProperties
  <2>4. \A i \in 1..(a + 1) : i \in 1..a \/ i = a + 1
    <3>1. a \in Nat
      BY <1>2
    <3> QED  BY ONLY <3>1
  <2>5. ASSUME NEW i \in 1..a
        PROVE  i \in 1..(a + 1) /\ h_accepted[i].id \in Int /\ h_accepted[i].id <= h_received
    <3>1. h_accepted[i] \in Pdus
      BY <1>2, ElementOfSeq
    <3> QED  BY <1>2, <3>1 DEF IInv, AcceptedInv, Pdus
  <2>6. TypeOK'
    <3>1. h_early' \subseteq 1..MaxPdus
      BY <1>6, <2>1 DEF IInv, TypeOK, Pdus
    <3> QED  BY <1>3, <1>4, <2>2, <2>3, <3>1 DEF IInv, TypeOK
  <2>7. AcceptedInv'
    <3>1. ASSUME NEW i \in 1..(a + 1)
          PROVE  h_accepted'[i].id <= h_received' /\ h_accepted'[i].len > 0
      <4>1. CASE i \in 1..a
        <5>1. h_accepted'[i] = h_accepted[i] /\ h_accepted[i].len > 0
          BY <2>2, <4>1 DEF IInv, AcceptedInv
        <5> QED  BY <1>1, <1>2, <2>5, <4>1, <5>1
      <4>2. CASE i = a + 1
        BY <1>1, <1>2, <2>1, <2>2, <4>2
      <4> QED  BY <2>4, <4>1, <4>2
    <3>2. ASSUME NEW i \in 1..(a + 1), NEW j \in 1..(a + 1), i < j
          PROVE  h_accepted'[i].id < h_accepted'[j].id
      <4>1. i \in 1..a
        BY <1>2, <3>2
      <4>2. CASE j \in 1..a
        BY <2>2, <3>2, <4>1, <4>2 DEF IInv, AcceptedInv
      <4>3. CASE j = a + 1
        BY <1>2, <2>1, <2>2, <2>5, <4>1, <4>3
      <4> QED  BY <2>4, <4>2, <4>3
    <3> QED  BY <2>2, <3>1, <3>2 DEF AcceptedInv
  <2>8. Gone' = Gone
    BY <1>2, <2>2, <2>3 DEF Gone
  <2>9. QueueInv'
    <3>1. Len(d_pdu_queue') <= Len(h_accepted')
      BY <1>2, <2>2, <2>3
    <3>2. ASSUME NEW i \in 1..(l + 1)
          PROVE  d_pdu_queue'[i] = h_accepted'[Gone + i]
      <4>1. CASE i \in 1..l
        <5>1. Gone + i \in 1..a /\ d_pdu_queue[i] = h_accepted[Gone + i]
          BY <1>2, <4>1 DEF IInv, QueueInv
        <5> QED  BY <2>2, <2>3, <4>1, <5>1
      <4>2. CASE i = l + 1
        <5> PICK g : g = Gone
          OBVIOUS
        <5>1. g \in Nat /\ a \in Nat /\ l \in Nat /\ g + l = a /\ i = l + 1
          BY <1>2, <4>2
        <5>2. g + i = a + 1
          BY ONLY <5>1
        <5> QED  BY <2>2, <2>3, <4>2, <5>2
      <4> QED  BY <1>2, <4>1, <4>2
    <3> QED  BY <2>3, <2>8, <3>1, <3>2 DEF QueueInv
  <2>10. FetchedInv'
    <3>1. ASSUME NEW id, Fetched(id)
          PROVE  Fetched(id)'
      <4>1. PICK k \in 1..Gone : h_accepted[k].id = id
        BY <3>1 DEF Fetched
      <4>2. k \in 1..a
        BY <1>2, <4>1
      <4> QED  BY <2>2, <2>8, <4>1, <4>2 DEF Fetched
    <3>2. /\ \A i \in 1..Len(out) : Fetched(out[i].pdu)'
          /\ \A i \in 1..Len(d_data) : Fetched(d_data[i].pdu)'
          /\ \A t \in times : Fetched(t.of)'
      <4>1. /\ \A i \in 1..Len(out) : Fetched(out[i].pdu)
            /\ \A i \in 1..Len(d_data) : Fetched(d_data[i].pdu)
            /\ \A t \in times : Fetched(t.of)
        BY DEF IInv, FetchedInv
      <4>2. ASSUME NEW i \in 1..Len(out)  PROVE  Fetched(out[i].pdu)'
        <5> PICK id : id = out[i].pdu
          OBVIOUS
        <5>1. Fetched(id)'
          BY <3>1, <4>1
        <5> QED  BY <1>3, <5>1 DEF Fetched
      <4>3. ASSUME NEW i \in 1..Len(d_data)  PROVE  Fetched(d_data[i].pdu)'
        <5> PICK id : id = d_data[i].pdu
          OBVIOUS
        <5>1. Fetched(id)'
          BY <3>1, <4>1
        <5> QED  BY <1>3, <5>1 DEF Fetched
      <4> QED  BY <3>1, <4>1, <4>2, <4>3
    <3> QED  BY <1>3, <3>2 DEF FetchedInv
  <2>11. ASSUME NEW x, EndsPdu(x)
         PROVE  EndsPdu(x)'
    <3>1. PICK i \in 1..a : x = [pdu |-> h_accepted[i].id, idx |-> h_accepted[i].len]
      BY <2>11 DEF EndsPdu
    <3> QED  BY <2>2, <2>5, <3>1 DEF EndsPdu
  <2>12. /\ \A i \in 1..Len(out) : out[i] # FirstItem(pdu)
         /\ \A i \in 1..Len(d_data) : d_data[i] # FirstItem(pdu)
    <3>1. \A id : Fetched(id) => id # pdu.id
      <4>1. \A k \in 1..a : h_accepted[k].id # pdu.id
        BY <1>2, <2>1, <2>5
      <4>2. 1..Gone \subseteq 1..a
        BY <1>2
      <4> QED  BY <4>1, <4>2 DEF Fetched
    <3> QED  BY <3>1 DEF IInv, FetchedInv, FirstItem
  <2>13. DataInv'
    <3>1. ASSUME d_data # <<>>
          PROVE  BurstData(d_data)'
      <4>1. BurstData(d_data)
        BY <3>1 DEF IInv, DataInv
      <4> PICK last : last = d_data[Len(d_data)]
        OBVIOUS
      <4>2. EndsPdu(d_data[Len(d_data)])'
        <5>1. EndsPdu(last)'
          BY <2>11, <4>1 DEF BurstData
        <5> QED  BY <1>3, <5>1 DEF EndsPdu
      <4>3. ASSUME NEW i \in 2..Len(d_data), NEW j \in 1..(a + 1),
                   d_data[i] = FirstItem(h_accepted'[j])
            PROVE  ~HasTxTime(h_accepted'[j])
        <5>1. i \in 1..Len(d_data)
          BY <1>2
        <5>2. j \in 1..a
          BY <2>2, <2>4, <2>12, <4>3, <5>1
        <5> QED  BY <2>2, <4>1, <4>3, <5>2 DEF BurstData
      <4> QED  BY <1>3, <2>2, <3>1, <4>2, <4>3 DEF BurstData, FirstItem, HasTxTime
    <3>2. d_time_tag' = NoTime
      BY <1>3 DEF IInv, DataInv
    <3>3. d_data # <<>> => ~d_tag_sob /\ out # <<>> /\ out[Len(out)] = d_data[1]
      BY Zenon DEF IInv, DataInv
    <3> QED  BY <1>3, <3>1, <3>2, <3>3, Zenon DEF DataInv
  <2>14. TagsInv'
    <3>1. ASSUME NEW o \in 0..(Len(out) - 1), o \in eobs
          PROVE  EndsPdu(out[o + 1])'
      <4> PICK x : x = out[o + 1]
        OBVIOUS
      <4>1. EndsPdu(x)'
        BY <2>11, <3>1 DEF IInv, TagsInv
      <4> QED  BY <1>3, <4>1 DEF EndsPdu
    <3>2. /\ \A o \in 0..(Len(out) - 1) :
               /\ o \in sobs <=> o = 0 \/ (o - 1) \in eobs
               /\ o \in sobs => out[o + 1].idx = 1
          /\ out # <<>> => (d_data = <<>> <=> (Len(out) - 1) \in eobs)
      BY DEF IInv, TagsInv
    <3> QED  BY <1>3, <3>1, <3>2 DEF TagsInv
  <2>15. TimedInv'
    <3>1. ASSUME NEW j \in 1..(a + 1), NEW o \in 0..(Len(out) - 1),
                 HasTxTime(h_accepted'[j]), out[o + 1] = FirstItem(h_accepted'[j])
          PROVE  o \in sobs \/ (o > 0 /\ out[o] = out[o + 1])
      <4>1. o + 1 \in 1..Len(out)
        BY <1>2
      <4>2. j \in 1..a
        BY <2>2, <2>4, <2>12, <3>1, <4>1
      <4> QED  BY <2>2, <3>1, <4>2 DEF IInv, TimedInv
    <3> QED  BY <1>3, <2>2, <3>1 DEF TimedInv, FirstItem, HasTxTime
  <2>16. TimesInv'
    <3>1. ASSUME NEW j \in 1..(a + 1), NEW i \in 1..Len(out),
                 h_accepted'[j].time = "good", out[i] = FirstItem(h_accepted'[j])
          PROVE  \E t \in times : t.of = h_accepted'[j].id
      <4>1. j \in 1..a
        BY <2>2, <2>4, <2>12, <3>1
      <4> QED  BY <2>2, <3>1, <4>1 DEF IInv, TimesInv
    <3>2. /\ \A t \in times : t.at \in sobs /\ out[t.at + 1] = [pdu |-> t.of, idx |-> 1]
          /\ \A t, u \in times : t.of = u.of => t = u
      BY DEF IInv, TimesInv
    <3> QED  BY <1>3, <2>2, <3>1, <3>2 DEF TimesInv, FirstItem
  <2> QED  BY <2>6, <2>7, <2>9, <2>10, <2>13, <2>14, <2>15, <2>16 DEF IInv
<1> QED  BY <1>1, <1>5, <1>6

(* The invariant holds at first.                                           *)
LEMMA InitIInv == ASSUME ConstAssumption, Init  PROVE IInv
<1>1. <<>> \in Seq(Pdus) /\ <<>> \in Seq(Items) /\ Len(<<>>) = 0
  BY EmptySeq
<1>2. MaxPdus \in Nat \ {0}
  BY DEF ConstAssumption
<1>3. TypeOK
  BY <1>1, <1>2 DEF Init, ConstAssumption, TypeOK
<1>4. AcceptedInv /\ QueueInv /\ FetchedInv /\ TimedInv /\ TimesInv
  BY <1>1 DEF Init, AcceptedInv, QueueInv, FetchedInv, TimedInv, TimesInv, Gone
<1>5. DataInv
  BY Zenon DEF Init, DataInv
<1>6. TagsInv
  BY <1>1 DEF Init, TagsInv
<1> QED  BY <1>3, <1>4, <1>5, <1>6 DEF IInv

(* A call of work() with nothing to write, or a setter, keeps the          *)
(* invariant.                                                              *)
LEMMA QuietKeeps ==
  ASSUME ConstAssumption, IInv,
         d_max_queue_size' \in QueueSizes,
         UNCHANGED <<d_drop_early_bursts, d_pdu_queue, d_data, d_tag_sob, d_time_tag,
                     out, tags, h_received, h_accepted, h_early>>
  PROVE  IInv'
<1>1. UNCHANGED <<sobs, eobs, times>>
  BY DEF tags
<1>2. TypeOK'
  BY <1>1 DEF IInv, TypeOK
<1>3. AcceptedInv' /\ QueueInv' /\ FetchedInv' /\ TimedInv' /\ TimesInv' /\ TagsInv'
  BY <1>1 DEF IInv, AcceptedInv, QueueInv, FetchedInv, Fetched, TimedInv, TimesInv, TagsInv, EndsPdu, Gone
<1>4. DataInv'
  BY <1>1, Zenon DEF IInv, DataInv, BurstData, EndsPdu
<1> QED  BY <1>2, <1>3, <1>4 DEF IInv

(* Every step keeps the invariant.                                         *)
LEMMA NextIInv ==
  ASSUME ConstAssumption, IInv, [Next]_vars
  PROVE  IInv'
<1>1. CASE StorePdu
  BY <1>1, StoreKeeps
<1>2. CASE Work
  <2>1. PICK n \in 1..MaxChunk : WorkFor(n)
    BY <1>2 DEF Work
  <2>2. PICK data, c : Works(data, c)
    BY <2>1, WorkIs
  <2> QED  BY <2>2, WorksType, WorksAccepted, WorksFetched, WorksData, WorksTags, WorksTimed,
              WorksTimes DEF IInv, Works
<1>3. CASE SetMaxQueueSize
  BY <1>3, QuietKeeps DEF SetMaxQueueSize
<1>4. CASE UNCHANGED vars
  <2>1. d_max_queue_size \in QueueSizes
    BY DEF IInv, TypeOK
  <2> QED  BY <1>4, <2>1, QuietKeeps DEF vars
<1> QED  BY <1>1, <1>2, <1>3, <1>4 DEF Next

(* The inductive invariant holds in every behaviour of the block.          *)
THEOREM Invariance == Spec => []IInv
<1>1. Init => IInv
  BY ConstAssumption, InitIInv
<1>2. IInv /\ [Next]_vars => IInv'
  BY ConstAssumption, NextIInv
<1> QED  BY <1>1, <1>2, PTL DEF Spec

(* The queue, the burst in progress and the tags have their types, and no  *)
(* more than MaxPdus messages are numbered.                                *)
THEOREM TypeCorrect == Spec => []TypeOK
<1>1. IInv => TypeOK
  BY DEF IInv
<1> QED  BY <1>1, Invariance, PTL

(* LenOf looks up the length of an accepted PDU.                           *)
LEMMA LenOfAccepted ==
  ASSUME IInv, NEW i \in 1..Len(h_accepted)
  PROVE  LenOf(h_accepted[i].id) = h_accepted[i].len
<1> PICK id : id = h_accepted[i].id
  OBVIOUS
<1> DEFINE p == CHOOSE q \in ToSet(h_accepted) : q.id = id
<1>0. ToSet(h_accepted) = {h_accepted[j] : j \in 1..Len(h_accepted)}
  BY LenProperties DEF ToSet, IInv, TypeOK
<1>1. p \in ToSet(h_accepted) /\ p.id = id
  BY <1>0
<1>2. PICK j \in 1..Len(h_accepted) : p = h_accepted[j]
  BY <1>0, <1>1
<1>3. j = i
  BY <1>1, <1>2, AcceptedIds DEF IInv
<1> QED  BY <1>2, <1>3 DEF LenOf

(* A member of the set of accepted PDUs has a place among them.            *)
LEMMA AcceptedSet ==
  ASSUME IInv, NEW p \in ToSet(h_accepted)
  PROVE  \E j \in 1..Len(h_accepted) : p = h_accepted[j]
BY LenProperties DEF ToSet, IInv, TypeOK

(* The stream between a SOB and its EOB is made of whole PDUs, and a PDU   *)
(* with a tx_time begins a burst.                                          *)
THEOREM Framed == Spec => []BurstsFramed
<1>1. ASSUME IInv  PROVE BurstsFramed
  <2>1. ASSUME NEW o \in 0..(Len(out) - 1)
        PROVE  /\ o \in sobs <=> o = 0 \/ (o - 1) \in eobs
               /\ o \in sobs => out[o + 1].idx = 1
               /\ o \in eobs => out[o + 1].idx = LenOf(out[o + 1].pdu)
    <3>1. /\ o \in sobs <=> o = 0 \/ (o - 1) \in eobs
          /\ o \in sobs => out[o + 1].idx = 1
      BY <1>1 DEF IInv, TagsInv
    <3>2. ASSUME o \in eobs
          PROVE  out[o + 1].idx = LenOf(out[o + 1].pdu)
      <4>1. PICK i \in 1..Len(h_accepted) :
              out[o + 1] = [pdu |-> h_accepted[i].id, idx |-> h_accepted[i].len]
        BY <1>1, <3>2 DEF IInv, TagsInv, EndsPdu
      <4>2. LenOf(h_accepted[i].id) = h_accepted[i].len
        BY <1>1, LenOfAccepted
      <4> QED  BY <4>1, <4>2
    <3> QED  BY <3>1, <3>2
  <2>2. out # <<>> => (d_data = <<>> <=> (Len(out) - 1) \in eobs)
    BY <1>1 DEF IInv, TagsInv
  <2>3. ASSUME NEW p \in ToSet(h_accepted), HasTxTime(p), NEW o \in 0..(Len(out) - 1),
               out[o + 1] = [pdu |-> p.id, idx |-> 1]
        PROVE  o \in sobs \/ (o > 0 /\ out[o] = out[o + 1])
    <3>1. PICK j \in 1..Len(h_accepted) : p = h_accepted[j]
      BY <1>1, AcceptedSet
    <3> QED  BY <1>1, <2>3, <3>1 DEF IInv, TimedInv, FirstItem
  <2> QED  BY <2>1, <2>2, <2>3 DEF BurstsFramed
<1> QED  BY <1>1, Invariance, PTL

(* A tx_time tag stands on the SOB of the burst its PDU starts, and every  *)
(* PDU with a good time gets one, and only one.                            *)
THEOREM TimesRight == Spec => []TimesOnOwnBurst
<1>1. ASSUME IInv  PROVE TimesOnOwnBurst
  <2>1. \A t \in times : t.at \in sobs /\ out[t.at + 1] = [pdu |-> t.of, idx |-> 1]
    BY <1>1 DEF IInv, TimesInv
  <2>2. ASSUME NEW p \in ToSet(h_accepted), p.time = "good", [pdu |-> p.id, idx |-> 1] \in ToSet(out)
        PROVE  Cardinality({t \in times : t.of = p.id}) = 1
    <3>1. PICK j \in 1..Len(h_accepted) : p = h_accepted[j]
      BY <1>1, AcceptedSet
    <3>2. PICK i \in 1..Len(out) : out[i] = FirstItem(h_accepted[j])
      BY <1>1, <2>2, <3>1, LenProperties DEF ToSet, IInv, TypeOK, FirstItem
    <3>3. PICK t \in times : t.of = p.id
      BY <1>1, <2>2, <3>1, <3>2 DEF IInv, TimesInv
    <3>4. \A u \in times : u.of = p.id => u = t
      BY <1>1, <3>3 DEF IInv, TimesInv
    <3>5. {u \in times : u.of = p.id} = {t}
      BY <3>3, <3>4
    <3> QED  BY <3>5, FS_Singleton
  <2> QED  BY <2>1, <2>2 DEF TimesOnOwnBurst
<1> QED  BY <1>1, Invariance, PTL

-----------------------------------------------------------------------------
(* Repetitions                                                             *)

(* s is `of`, some of its elements repeated at once: f tells of which      *)
(* element of `of` each element of s is a copy.                            *)
CopiesBy(f, s, of) ==
  /\ f \in [1..Len(s) -> 1..Len(of)]
  /\ \A i \in 1..Len(s) : s[i] = of[f[i]]
  /\ Len(s) > 0 => f[1] = 1 /\ f[Len(s)] = Len(of)
  /\ \A i \in 2..Len(s) : f[i] = f[i - 1] \/ f[i] = f[i - 1] + 1

(* s is `of`, some of its elements repeated at once.                       *)
Expands(s, of) ==
  /\ Len(s) = 0 => Len(of) = 0
  /\ \E f : CopiesBy(f, s, of)

(* s is `of` with its k-th element repeated.                               *)
Repeats(s, of, k) ==
  /\ k \in 1..Len(of)
  /\ Len(s) = Len(of) + 1
  /\ \A i \in 1..k : s[i] = of[i]
  /\ \A i \in (k + 1)..(Len(of) + 1) : s[i] = of[i - 1]

(* An expansion stays one when the same items follow both sequences.       *)
LEMMA ExpandsMore ==
  ASSUME NEW X, NEW s \in Seq(X), NEW of \in Seq(X), NEW z \in Seq(X), Expands(s, of)
  PROVE  Expands(s \o z, of \o z)
<1> DEFINE a == s \o z
           b == of \o z
           l == Len(s)
           m == Len(of)
           n == Len(z)
<1>1. PICK f : CopiesBy(f, s, of)
  BY DEF Expands
<1>2. l \in Nat /\ m \in Nat /\ n \in Nat /\ (l = 0 => m = 0)
  BY LenProperties DEF Expands
<1>3. /\ Len(a) = l + n /\ Len(b) = m + n
      /\ \A i \in 1..(l + n) : a[i] = IF i <= l THEN s[i] ELSE z[i - l]
      /\ \A i \in 1..(m + n) : b[i] = IF i <= m THEN of[i] ELSE z[i - m]
  BY ConcatProperties
<1> HIDE DEF a, b
<1>4. \A i \in 1..l : f[i] \in 1..m /\ f[i] \in Nat
  BY <1>1, <1>2 DEF CopiesBy
<1> DEFINE g == [i \in 1..(l + n) |-> IF i <= l THEN f[i] ELSE (i - l) + m]
<1>5. /\ \A i \in 1..l : i \in 1..(l + n) /\ i <= l
      /\ \A i \in 1..(l + n) : i \in 1..l \/ (~(i <= l) /\ i - l \in 1..n /\ (i - l) + m \in 1..(m + n)
                                               /\ ~((i - l) + m <= m) /\ ((i - l) + m) - m = i - l)
      /\ 1..m \subseteq 1..(m + n)
  BY <1>2
<1>6. g \in [1..(l + n) -> 1..(m + n)]
  <2>1. ASSUME NEW i \in 1..(l + n)
        PROVE  (IF i <= l THEN f[i] ELSE (i - l) + m) \in 1..(m + n)
    BY <1>4, <1>5
  <2> QED  BY <2>1
<1>7. \A i \in 1..(l + n) : g[i] = IF i <= l THEN f[i] ELSE (i - l) + m
  OBVIOUS
<1> HIDE DEF g
<1>8. ASSUME NEW i \in 1..(l + n)
      PROVE  a[i] = b[g[i]]
  <2>1. CASE i \in 1..l
    <3> PICK k : k = f[i]
      OBVIOUS
    <3>1. k \in 1..m /\ k \in 1..(m + n) /\ k <= m /\ g[i] = k /\ a[i] = s[i] /\ s[i] = of[k]
      <4>1. k \in 1..m /\ i <= l /\ i \in 1..(l + n)
        BY <1>4, <1>5, <2>1
      <4>2. k \in 1..(m + n) /\ k <= m
        BY ONLY <1>2, <4>1
      <4>3. s[i] = of[k]
        BY <1>1, <2>1 DEF CopiesBy
      <4>4. g[i] = k /\ a[i] = s[i]
        BY <1>3, <1>7, <4>1
      <4> QED  BY <4>1, <4>2, <4>3, <4>4
    <3> QED  BY <1>3, <3>1
  <2>2. CASE i \notin 1..l
    <3> PICK k : k = (i - l) + m
      OBVIOUS
    <3>1. k \in 1..(m + n) /\ ~(k <= m) /\ k - m = i - l /\ g[i] = k /\ a[i] = z[i - l]
      BY <1>3, <1>5, <1>7, <2>2
    <3> QED  BY <1>3, <3>1
  <2> QED  BY <2>1, <2>2
<1>9. ASSUME l + n > 0
      PROVE  g[1] = 1 /\ g[l + n] = m + n
  <2>1. g[1] = 1
    <3>1. CASE l > 0
      <4>1. 1 \in 1..(l + n) /\ 1 <= l
        BY <1>2, <3>1
      <4>2. g[1] = f[1]
        BY <1>7, <4>1
      <4> QED  BY <1>1, <3>1, <4>2 DEF CopiesBy
    <3>2. CASE l = 0
      BY <1>2, <1>7, <1>9, <3>2
    <3> QED  BY <1>2, <3>1, <3>2
  <2>2. g[l + n] = m + n
    <3>1. CASE n > 0
      BY <1>2, <1>7, <3>1
    <3>2. CASE n = 0
      <4>1. l \in 1..(l + n) /\ l + n = l /\ m + n = m /\ l > 0
        BY <1>2, <1>9, <3>2
      <4>2. g[l] = f[l]
        BY <1>2, <1>7, <4>1
      <4> QED  BY <1>1, <4>1, <4>2 DEF CopiesBy
    <3> QED  BY <1>2, <3>1, <3>2
  <2> QED  BY <2>1, <2>2
<1>10. ASSUME NEW i \in 2..(l + n)
       PROVE  g[i] = g[i - 1] \/ g[i] = g[i - 1] + 1
  <2>0. i \in 1..(l + n) /\ i - 1 \in 1..(l + n)
    BY <1>2
  <2>1. CASE i <= l
    <3>1. i \in 2..l /\ g[i] = f[i] /\ g[i - 1] = f[i - 1]
      BY <1>2, <1>7, <2>0, <2>1
    <3> QED  BY <1>1, <3>1 DEF CopiesBy
  <2>2. CASE i = l + 1
    <3>0. i - l = 1 /\ i - 1 = l /\ l > 0 /\ ~(i <= l)
      BY <1>2, <2>2
    <3>1. g[i] = m + 1 /\ i - 1 = l /\ l > 0
      BY <1>2, <1>7, <2>0, <3>0
    <3>2. g[i - 1] = f[l] /\ f[l] = m
      BY <1>1, <1>2, <1>7, <2>0, <3>1 DEF CopiesBy
    <3> QED  BY <3>1, <3>2
  <2>3. CASE i > l + 1
    BY <1>2, <1>7, <2>0, <2>3
  <2> QED  BY <1>2, <2>1, <2>2, <2>3
<1>11. CopiesBy(g, a, b)
  BY <1>3, <1>6, <1>8, <1>9, <1>10 DEF CopiesBy
<1>12. Len(a) = 0 => Len(b) = 0
  BY <1>2, <1>3
<1> QED  BY <1>11, <1>12 DEF Expands, a, b

(* A repetition in an expansion gives an expansion.                        *)
LEMMA ExpandsRepeats ==
  ASSUME NEW X, NEW s \in Seq(X), NEW of \in Seq(X), NEW t \in Seq(X), NEW k,
         Expands(s, of), Repeats(t, s, k)
  PROVE  Expands(t, of)
<1> DEFINE l == Len(s)
           m == Len(of)
<1>1. PICK f : CopiesBy(f, s, of)
  BY DEF Expands
<1>2. /\ l \in Nat /\ m \in Nat /\ k \in 1..l /\ Len(t) = l + 1
      /\ \A i \in 1..k : t[i] = s[i]
      /\ \A i \in (k + 1)..(l + 1) : t[i] = s[i - 1]
  BY LenProperties DEF Repeats
<1> DEFINE at(i) == IF i <= k THEN i ELSE i - 1
           g == [i \in 1..(l + 1) |-> f[at(i)]]
<1>3. \A i \in 1..(l + 1) : at(i) \in 1..l /\ t[i] = s[at(i)]
  <2> TAKE i \in 1..(l + 1)
  <2>1. (i <= k /\ i \in 1..k /\ i \in 1..l) \/ (~(i <= k) /\ i \in (k + 1)..(l + 1) /\ i - 1 \in 1..l)
    BY <1>2
  <2> QED  BY <1>2, <2>1
<1>4. \A i \in 1..l : f[i] \in 1..m /\ s[i] = of[f[i]]
  BY <1>1 DEF CopiesBy
<1>5. g \in [1..(l + 1) -> 1..m] /\ \A i \in 1..(l + 1) : g[i] = f[at(i)] /\ t[i] = of[g[i]]
  BY <1>3, <1>4
<1>6. g[1] = 1 /\ g[l + 1] = m
  <2>1. at(1) = 1 /\ at(l + 1) = l /\ 1 \in 1..(l + 1) /\ l + 1 \in 1..(l + 1) /\ l > 0
    BY <1>2
  <2> HIDE DEF at
  <2> QED  BY <1>1, <2>1 DEF CopiesBy
<1>7. ASSUME NEW i \in 2..(l + 1)
      PROVE  g[i] = g[i - 1] \/ g[i] = g[i - 1] + 1
  <2>1. i \in 1..(l + 1) /\ i - 1 \in 1..(l + 1)
    BY <1>2
  <2>2. at(i) = at(i - 1) \/ (at(i) \in 2..l /\ at(i - 1) = at(i) - 1)
    BY <1>2
  <2> HIDE DEF at
  <2>3. g[i] = f[at(i)] /\ g[i - 1] = f[at(i - 1)]
    BY <2>1
  <2> HIDE DEF g
  <2> QED  BY <1>1, <2>2, <2>3 DEF CopiesBy
<1> HIDE DEF g
<1>8. CopiesBy(g, t, of)
  BY <1>2, <1>5, <1>6, <1>7 DEF CopiesBy
<1>9. Len(t) # 0
  BY <1>2
<1> QED  BY <1>8, <1>9 DEF Expands

(* A sequence of different neighbours is what is left of its expansion     *)
(* when the repetitions are taken out.                                     *)
LEMMA CollapsedExpansion ==
  ASSUME NEW X, NEW s \in Seq(X), NEW of \in Seq(X), Expands(s, of),
         \A k \in 2..Len(of) : of[k - 1] # of[k]
  PROVE  Collapsed(s) = of
<1> DEFINE l == Len(s)
           m == Len(of)
           fresh == {i \in 1..l : i = 1 \/ s[i] # s[i - 1]}
           upto(i) == {j \in fresh : j <= i}
<1>1. PICK f : CopiesBy(f, s, of)
  BY DEF Expands
<1>2. l \in Nat /\ m \in Nat /\ (l = 0 => m = 0)
  BY LenProperties DEF Expands
<1>3. \A i \in 1..l : f[i] \in 1..m /\ f[i] \in Nat /\ s[i] = of[f[i]]
  BY <1>1, <1>2 DEF CopiesBy
<1>4. \A i \in 2..l : i \in fresh <=> f[i] = f[i - 1] + 1
  <2> TAKE i \in 2..l
  <2>1. i \in 1..l /\ i - 1 \in 1..l /\ i # 1
    BY <1>2
  <2>2. f[i] = f[i - 1] \/ f[i] = f[i - 1] + 1
    BY <1>1 DEF CopiesBy
  <2> PICK a, b : a = f[i - 1] /\ b = f[i]
    OBVIOUS
  <2>3. a \in 1..m /\ b \in 1..m /\ s[i] = of[b] /\ s[i - 1] = of[a]
    BY <1>3, <2>1
  <2>4. b = a + 1 => of[a] # of[b]
    <3>1. b = a + 1 => b \in 2..m /\ b - 1 = a
      BY <1>2, <2>3
    <3> QED  BY <3>1
  <2>5. b = a => b # a + 1
    BY <1>2, <2>3
  <2> QED  BY <2>1, <2>2, <2>3, <2>4, <2>5
<1>5. \A i \in 1..l : Cardinality(upto(i)) = f[i]
  <2> DEFINE T == {i \in Nat : IsFiniteSet(upto(i)) /\ Cardinality(upto(i)) = f[i]}
  <2>1. CASE l = 0
    BY <2>1
  <2>2. CASE l > 0
    <3>1. 1 \in T
      <4>1. upto(1) = {1}
        BY <1>2, <2>2
      <4>2. f[1] = 1
        BY <1>1, <2>2 DEF CopiesBy
      <4> QED  BY <4>1, <4>2, FS_Singleton
    <3>2. ASSUME NEW k \in 1..l, k \in T, k < l
          PROVE  k + 1 \in T
      <4>0. k + 1 \in 2..l /\ k + 1 \in 1..l /\ (k + 1) - 1 = k /\ k + 1 \in Nat
        BY <1>2, <3>2
      <4>1. IsFiniteSet(upto(k)) /\ Cardinality(upto(k)) = f[k]
        BY <3>2
      <4>2. CASE k + 1 \in fresh
        <5>1. upto(k + 1) = upto(k) \cup {k + 1} /\ k + 1 \notin upto(k)
          BY <1>2, <4>2
        <5>2. f[k + 1] = f[k] + 1
          BY <1>4, <4>0, <4>2
        <5> HIDE DEF upto
        <5>3. IsFiniteSet(upto(k + 1)) /\ Cardinality(upto(k + 1)) = f[k] + 1
          BY <4>1, <5>1, FS_AddElement
        <5> QED  BY <4>0, <5>2, <5>3
      <4>3. CASE k + 1 \notin fresh
        <5>1. upto(k + 1) = upto(k)
          <6>1. ASSUME NEW j \in fresh, j <= k + 1  PROVE j <= k
            BY <1>2, <4>3, <6>1
          <6>2. ASSUME NEW j \in fresh, j <= k  PROVE j <= k + 1
            BY <1>2, <6>2
          <6> HIDE DEF fresh
          <6> QED  BY <6>1, <6>2
        <5>2. f[k + 1] = f[k]
          BY <1>1, <1>4, <4>0, <4>3 DEF CopiesBy
        <5> QED  BY <4>0, <4>1, <5>1, <5>2
      <4> QED  BY <4>2, <4>3
    <3>3. \A i \in 1..l : i \in T
      <4> HIDE DEF T
      <4> QED  BY <1>2, <3>1, <3>2, UpTo
    <3> QED  BY <3>3
  <2> QED  BY <1>2, <2>1, <2>2
<1>6. Cardinality(fresh) = m
  <2>1. CASE l = 0
    <3>1. fresh = {}
      BY <2>1
    <3> QED  BY <1>2, <2>1, <3>1, FS_EmptySet
  <2>2. CASE l > 0
    <3>1. upto(l) = fresh
      BY <1>2
    <3>2. f[l] = m /\ l \in 1..l
      BY <1>1, <1>2, <2>2 DEF CopiesBy
    <3> HIDE DEF upto, fresh
    <3> QED  BY <1>5, <3>1, <3>2
  <2> QED  BY <1>2, <2>1, <2>2
<1>7. ASSUME NEW k \in 1..m
      PROVE  s[CHOOSE i \in fresh : Cardinality(upto(i)) = k] = of[k]
  <2>1. \E i \in fresh : Cardinality(upto(i)) = k
    <3> DEFINE R == {i \in 1..l : f[i] >= k}
    <3>1. l > 0 /\ l \in R /\ R \in SUBSET Nat
      BY <1>1, <1>2 DEF CopiesBy
    <3>2. PICK i \in R : \A j \in R : i <= j
      BY <3>1, LeastNat
    <3>3. i \in 1..l /\ f[i] >= k
      BY <3>2
    <3>4. CASE i = 1
      <4>1. f[1] = 1 /\ 1 \in fresh
        BY <1>1, <3>1, <3>3, <3>4 DEF CopiesBy
      <4>2. k = 1
        BY <3>3, <3>4, <4>1
      <4> QED  BY <1>5, <3>3, <3>4, <4>1, <4>2
    <3>5. CASE i # 1
      <4>1. i \in 2..l /\ i - 1 \in 1..l /\ ~(i <= i - 1)
        BY <1>2, <3>3, <3>5
      <4>2. i - 1 \notin R
        BY <3>2, <4>1
      <4>3. f[i - 1] < k /\ f[i - 1] \in Nat /\ f[i] \in Nat
        BY <1>3, <3>3, <4>1, <4>2
      <4>4. f[i] = f[i - 1] \/ f[i] = f[i - 1] + 1
        BY <1>1, <4>1 DEF CopiesBy
      <4>5. f[i] = k /\ f[i] = f[i - 1] + 1
        BY <3>3, <4>3, <4>4
      <4>6. i \in fresh
        BY <1>4, <4>1, <4>5
      <4> QED  BY <1>5, <3>3, <4>5, <4>6
    <3> QED  BY <3>4, <3>5
  <2> PICK i : i = CHOOSE j \in fresh : Cardinality(upto(j)) = k
    OBVIOUS
  <2>2. i \in fresh /\ Cardinality(upto(i)) = k
    <3> HIDE DEF fresh, upto
    <3> QED  BY <2>1
  <2>3. i \in 1..l
    BY <2>2
  <2>4. f[i] = k
    <3> HIDE DEF fresh, upto
    <3> QED  BY <1>5, <2>2, <2>3
  <2> QED  BY <1>3, <2>3, <2>4
<1>8. Collapsed(s) = [k \in 1..Cardinality(fresh) |-> s[CHOOSE i \in fresh : Cardinality(upto(i)) = k]]
  BY DEF Collapsed
<1>9. of = [k \in 1..m |-> of[k]]
  BY LenProperties
<1> HIDE DEF fresh, upto
<1> QED  BY <1>6, <1>7, <1>8, <1>9

-----------------------------------------------------------------------------
(* The stream                                                              *)

(* The items of all PDUs accepted.                                         *)
Accepted == AllItems(h_accepted)

(* The stream is what was accepted with some items written twice at once,  *)
(* and no two neighbours of what was accepted are alike.                   *)
StreamInv ==
  /\ Expands(Stream, Accepted)
  /\ \A k \in 1..Len(Accepted) : Accepted[k].pdu <= h_received
  /\ \A k \in 2..Len(Accepted) : Accepted[k - 1] # Accepted[k]

(* The stream and its parts are sequences of items.                        *)
LEMMA StreamTypes ==
  ASSUME IInv
  PROVE  /\ out \in Seq(Items) /\ d_data \in Seq(Items) /\ AllItems(d_pdu_queue) \in Seq(Items)
         /\ out \o d_data \in Seq(Items) /\ Stream \in Seq(Items) /\ Accepted \in Seq(Items)
<1>1. /\ out \in Seq(Items) /\ d_data \in Seq(Items) /\ d_pdu_queue \in Seq(Pdus)
      /\ h_accepted \in Seq(Pdus)
  BY DEF IInv, TypeOK
<1>2. AllItems(d_pdu_queue) \in Seq(Items) /\ AllItems(h_accepted) \in Seq(Items)
  BY <1>1, AllItemsType
<1>3. out \o d_data \in Seq(Items)
  BY <1>1, ConcatProperties
<1> QED  BY <1>1, <1>2, <1>3, ConcatProperties DEF Stream, Accepted

(* A repetition is one in a longer sequence, too.                          *)
LEMMA RepeatsMore ==
  ASSUME NEW X, NEW s \in Seq(X), NEW of \in Seq(X), NEW z \in Seq(X), NEW k, Repeats(s, of, k)
  PROVE  Repeats(s \o z, of \o z, k)
<1> DEFINE a == s \o z
           b == of \o z
           l == Len(of)
           n == Len(z)
<1>1. /\ l \in Nat /\ n \in Nat /\ k \in 1..l /\ Len(s) = l + 1
      /\ \A i \in 1..k : s[i] = of[i]
      /\ \A i \in (k + 1)..(l + 1) : s[i] = of[i - 1]
  BY LenProperties DEF Repeats
<1>2. /\ Len(a) = (l + 1) + n /\ Len(b) = l + n
      /\ \A i \in 1..((l + 1) + n) : a[i] = IF i <= l + 1 THEN s[i] ELSE z[i - (l + 1)]
      /\ \A i \in 1..(l + n) : b[i] = IF i <= l THEN of[i] ELSE z[i - l]
  <2>1. /\ Len(a) = Len(s) + n
        /\ \A i \in 1..(Len(s) + n) : a[i] = IF i <= Len(s) THEN s[i] ELSE z[i - Len(s)]
    BY ConcatProperties
  <2>2. /\ Len(b) = l + n
        /\ \A i \in 1..(l + n) : b[i] = IF i <= l THEN of[i] ELSE z[i - l]
    BY ConcatProperties
  <2> QED  BY <1>1, <2>1, <2>2
<1> HIDE DEF a, b
<1>3. ASSUME NEW i \in 1..k
      PROVE  a[i] = b[i]
  <2>1. i \in 1..((l + 1) + n) /\ i <= l + 1 /\ i \in 1..(l + n) /\ i <= l
    BY <1>1
  <2> QED  BY <1>1, <1>2, <2>1
<1>4. ASSUME NEW i \in (k + 1)..((l + n) + 1)
      PROVE  a[i] = b[i - 1]
  <2>1. i \in 1..((l + 1) + n) /\ i - 1 \in 1..(l + n)
    BY <1>1
  <2>2. CASE i <= l + 1
    <3>1. i \in (k + 1)..(l + 1) /\ i - 1 <= l
      BY <1>1, <2>2
    <3> QED  BY <1>1, <1>2, <2>1, <2>2, <3>1
  <2>3. CASE ~(i <= l + 1)
    <3>1. ~(i - 1 <= l) /\ (i - 1) - l = i - (l + 1)
      BY <1>1, <2>3
    <3> PICK x : x = i - 1
      OBVIOUS
    <3> QED  BY <1>2, <2>1, <2>3, <3>1
  <2> QED  BY <2>2, <2>3
<1>5. Len(a) = Len(b) + 1 /\ Len(b) = l + n /\ k \in 1..(l + n)
  BY <1>1, <1>2
<1>6. Repeats(a, b, k)
  BY <1>3, <1>4, <1>5 DEF Repeats
<1> QED  BY <1>6 DEF a, b

(* A call of work() changes nothing of the stream, or writes one item      *)
(* again.                                                                  *)
LEMMA WorksStream ==
  ASSUME IInv, StreamInv, NEW data, NEW c, Works(data, c), IInv',
         Stream = (out \o data) \o AllItems(d_pdu_queue')
  PROVE  StreamInv'
<1> DEFINE n == Len(out)
           l == Len(data)
<1>1. /\ n \in Nat /\ l \in Nat /\ c \in Nat /\ 1 <= c /\ c <= l
  BY Sizes
<1>2. /\ out \in Seq(Items) /\ data \in Seq(Items) /\ out' \in Seq(Items) /\ d_data' \in Seq(Items)
      /\ Len(out') = n + c
      /\ \A i \in 1..n : out'[i] = out[i]
      /\ \A i \in 1..c : out'[n + i] = data[i]
      /\ d_data' = <<>> <=> c = l
      /\ c < l => /\ Len(d_data') = l - c + 1
                  /\ \A i \in 1..(l - c + 1) : d_data'[i] = data[c + i - 1]
      /\ h_accepted' = h_accepted /\ h_received' = h_received
  BY DEF Works, Wrote, IInv, TypeOK
<1> PICK w, rest : w = out \o data /\ rest = AllItems(d_pdu_queue')
  OBVIOUS
<1>3. /\ w \in Seq(Items) /\ Len(w) = n + l
      /\ \A i \in 1..n : w[i] = out[i]
      /\ \A i \in 1..l : w[n + i] = data[i]
  <2>1. /\ w \in Seq(Items) /\ Len(w) = n + l
        /\ \A i \in 1..(n + l) : w[i] = IF i <= n THEN out[i] ELSE data[i - n]
    BY <1>2, ConcatProperties
  <2>2. \A i \in 1..n : i \in 1..(n + l) /\ i <= n
    BY <1>1
  <2>3. \A i \in 1..l : n + i \in 1..(n + l) /\ ~(n + i <= n) /\ (n + i) - n = i
    BY <1>1
  <2> QED  BY <2>1, <2>2, <2>3
<1>4. ASSUME NEW i \in 1..(n + c)
      PROVE  out'[i] = w[i]
  <2>1. i \in 1..n \/ (i - n \in 1..c /\ i - n \in 1..l /\ n + (i - n) = i)
    BY <1>1
  <2> PICK j : j = i - n
    OBVIOUS
  <2> QED  BY <1>2, <1>3, <2>1
<1>5. rest \in Seq(Items)
  BY AllItemsType DEF Works
<1>6. Stream = w \o rest /\ Stream' = (out' \o d_data') \o rest
  BY DEF Stream
<1>7. Expands(Stream', Accepted)
  <2>1. CASE c = l
    <3>1. out' = w
      BY <1>2, <1>3, <1>4, <2>1, SeqEqual
    <3>2. out' \o d_data' = out'
      BY <1>2, <2>1, ConcatEmptySeq
    <3> QED  BY <1>6, <3>1, <3>2 DEF StreamInv
  <2>2. CASE c < l
    <3> PICK v : v = out' \o d_data'
      OBVIOUS
    <3>1. /\ v \in Seq(Items) /\ Len(v) = (n + c) + (l - c + 1)
          /\ \A i \in 1..((n + c) + (l - c + 1)) :
               v[i] = IF i <= n + c THEN out'[i] ELSE d_data'[i - (n + c)]
      <4> PICK x, y : x = out' /\ y = d_data'
        OBVIOUS
      <4>1. x \in Seq(Items) /\ y \in Seq(Items) /\ v = x \o y /\ Len(x) = n + c /\ Len(y) = l - c + 1
        BY <1>2, <2>2
      <4>2. /\ x \o y \in Seq(Items) /\ Len(x \o y) = Len(x) + Len(y)
            /\ \A i \in 1..(Len(x) + Len(y)) : (x \o y)[i] = IF i <= Len(x) THEN x[i] ELSE y[i - Len(x)]
        BY ONLY <4>1, ConcatProperties
      <4> QED  BY <4>1, <4>2
    <3>2. (n + c) + (l - c + 1) = (n + l) + 1 /\ n + c \in 1..(n + l)
      BY <1>1, <2>2
    <3>3. ASSUME NEW i \in 1..(n + c)
          PROVE  v[i] = w[i]
      <4>1. i \in 1..((n + c) + (l - c + 1)) /\ i <= n + c
        BY <1>1, <2>2
      <4> QED  BY <1>4, <3>1, <4>1
    <3>4. ASSUME NEW i \in ((n + c) + 1)..((n + l) + 1)
          PROVE  v[i] = w[i - 1]
      <4> PICK j : j = i - (n + c)
        OBVIOUS
      <4>1. /\ i \in 1..((n + c) + (l - c + 1)) /\ ~(i <= n + c) /\ j \in 1..(l - c + 1)
            /\ c + j - 1 \in 1..l /\ n + (c + j - 1) = i - 1
        BY <1>1, <2>2
      <4>2. v[i] = data[c + j - 1]
        BY <1>2, <2>2, <3>1, <4>1
      <4> QED  BY <1>3, <4>1, <4>2
    <3>5. Repeats(v, w, n + c)
      BY <1>3, <3>1, <3>2, <3>3, <3>4 DEF Repeats
    <3>6. Repeats(Stream', Stream, n + c)
      <4>1. v \in Seq(Items) /\ w \in Seq(Items) /\ rest \in Seq(Items)
        BY <1>3, <1>5, <3>1
      <4>2. Repeats(v \o rest, w \o rest, n + c)
        <5> PICK k : k = n + c
          OBVIOUS
        <5>1. Repeats(v, w, k)
          BY <3>5
        <5>2. Repeats(v \o rest, w \o rest, k)
          BY ONLY <4>1, <5>1, RepeatsMore
        <5> QED  BY <5>2
      <4> QED  BY <1>6, <4>2
    <3>7. Stream \in Seq(Items) /\ Stream' \in Seq(Items) /\ Accepted \in Seq(Items)
      <4>1. v \o rest \in Seq(Items)
        BY <1>5, <3>1, ConcatProperties
      <4> QED  BY <1>6, <4>1, StreamTypes
    <3> PICK sn, so : sn = Stream' /\ so = Stream
      OBVIOUS
    <3>8. Expands(sn, Accepted)
      BY <3>6, <3>7, ExpandsRepeats DEF StreamInv
    <3> QED  BY <3>8
  <2> QED  BY <1>1, <2>1, <2>2
<1>8. Accepted' = Accepted
  BY <1>2 DEF Accepted
<1> QED  BY <1>2, <1>7, <1>8 DEF StreamInv, Expands, CopiesBy

(* A message adds its items to the stream and to what was accepted, or to  *)
(* neither.                                                                *)
LEMMA StoreStream ==
  ASSUME ConstAssumption, IInv, StreamInv, StorePdu
  PROVE  StreamInv'
<1>1. PICK kind \in PduKinds :
        /\ h_received < MaxPdus
        /\ h_received' = h_received + 1
        /\ UNCHANGED <<d_data, out>>
        /\ \/ UNCHANGED <<d_pdu_queue, h_accepted>>
           \/ LET pdu == [id |-> h_received + 1, len |-> kind.len, time |-> kind.time]
              IN  /\ d_pdu_queue' = Append(d_pdu_queue, pdu)
                  /\ h_accepted' = Append(h_accepted, pdu)
  BY DEF StorePdu
<1>2. /\ d_pdu_queue \in Seq(Pdus) /\ h_accepted \in Seq(Pdus)
      /\ h_received \in 0..MaxPdus /\ h_received \in Nat /\ MaxPdus \in Nat
  BY DEF IInv, TypeOK, ConstAssumption
<1>3. /\ out \o d_data \in Seq(Items) /\ Stream \in Seq(Items) /\ Accepted \in Seq(Items)
      /\ AllItems(d_pdu_queue) \in Seq(Items)
  BY StreamTypes
<1>4. Len(Accepted) \in Nat /\ \A k \in 1..Len(Accepted) : Accepted[k] \in Items /\ Accepted[k].pdu \in Nat
  <2>1. \A k \in 1..Len(Accepted) : Accepted[k] \in Items
    BY <1>3, ElementOfSeq
  <2> QED  BY <1>3, <2>1, LenProperties DEF Items
<1>5. CASE UNCHANGED <<d_pdu_queue, h_accepted>>
  <2>1. Accepted' = Accepted /\ Stream' = Stream
    BY <1>1, <1>5 DEF Accepted, Stream
  <2>2. \A k \in 1..Len(Accepted) : Accepted[k].pdu <= h_received'
    <3>1. \A k \in 1..Len(Accepted) : Accepted[k].pdu <= h_received
      BY DEF StreamInv
    <3> QED  BY <1>1, <1>2, <1>4, <3>1
  <2> QED  BY <2>1, <2>2 DEF StreamInv, Expands, CopiesBy
<1>6. ASSUME NEW pdu, pdu = [id |-> h_received + 1, len |-> kind.len, time |-> kind.time],
             d_pdu_queue' = Append(d_pdu_queue, pdu), h_accepted' = Append(h_accepted, pdu)
      PROVE  StreamInv'
  <2>1. pdu \in Pdus /\ pdu.id = h_received + 1
    <3>1. kind \in [valid : BOOLEAN, len : Nat, time : TxTimes]
      BY DEF ConstAssumption
    <3>2. h_received + 1 \in 1..MaxPdus
      BY <1>1, <1>2
    <3> QED  BY <1>6, <3>1, <3>2 DEF Pdus
  <2> PICK z : z = ItemsOf(pdu)
    OBVIOUS
  <2>2. /\ z \in Seq(Items) /\ Len(z) \in Nat
        /\ \A i \in 1..Len(z) : z[i] = [pdu |-> h_received + 1, idx |-> i]
    BY <2>1, ItemsOfType
  <2>3. Accepted' = Accepted \o z
    BY <1>2, <1>3, <1>6, <2>1, AllItemsSnoc DEF Accepted
  <2>4. Stream' = Stream \o z
    <3>1. AllItems(d_pdu_queue') = AllItems(d_pdu_queue) \o z
      BY <1>2, <1>3, <1>6, <2>1, AllItemsSnoc
    <3> PICK w : w = out \o d_data
      OBVIOUS
    <3>2. Stream' = w \o (AllItems(d_pdu_queue) \o z) /\ Stream = w \o AllItems(d_pdu_queue)
      BY <1>1, <3>1 DEF Stream
    <3>3. (w \o AllItems(d_pdu_queue)) \o z = w \o (AllItems(d_pdu_queue) \o z)
      <4> PICK q : q = AllItems(d_pdu_queue)
        OBVIOUS
      <4>1. w \in Seq(Items) /\ q \in Seq(Items) /\ z \in Seq(Items)
        BY <1>3, <2>2
      <4>2. (w \o q) \o z = w \o (q \o z)
        BY ONLY <4>1, ConcatAssociative
      <4> QED  BY <4>2
    <3> QED  BY <3>2, <3>3
  <2> PICK s, a, b : s = Stream \o z /\ a = Accepted /\ b = Accepted \o z
    OBVIOUS
  <2>5. Expands(s, b)
    BY <1>3, <2>2, ExpandsMore DEF StreamInv
  <2> DEFINE m == Len(a)
             l == Len(z)
  <2>6. /\ m \in Nat /\ l \in Nat /\ Len(b) = m + l
        /\ \A i \in 1..(m + l) : b[i] = IF i <= m THEN a[i] ELSE z[i - m]
    BY <1>3, <2>2, LenProperties, ConcatProperties
  <2>7. ASSUME NEW i \in 1..(m + l)
        PROVE  \/ i \in 1..m /\ b[i] = a[i] /\ a[i].pdu \in Nat /\ a[i].pdu <= h_received
               \/ i - m \in 1..l /\ b[i] = [pdu |-> h_received + 1, idx |-> i - m]
    <3>1. CASE i <= m
      <4>1. i \in 1..m
        BY <2>6, <3>1
      <4> QED  BY <1>4, <2>6, <3>1, <4>1 DEF StreamInv
    <3>2. CASE ~(i <= m)
      <4>1. i - m \in 1..l
        BY <2>6, <3>2
      <4> PICK j : j = i - m
        OBVIOUS
      <4> QED  BY <2>2, <2>6, <3>2, <4>1
    <3> QED  BY <3>1, <3>2
  <2>8. \A i \in 1..(m + l) : b[i].pdu <= h_received + 1
    <3> TAKE i \in 1..(m + l)
    <3>1. CASE i \in 1..m /\ b[i] = a[i] /\ a[i].pdu \in Nat /\ a[i].pdu <= h_received
      BY <1>2, <3>1
    <3>2. CASE i - m \in 1..l /\ b[i] = [pdu |-> h_received + 1, idx |-> i - m]
      BY <1>2, <3>2
    <3> QED  BY <2>7, <3>1, <3>2
  <2>9. ASSUME NEW i \in 2..(m + l)
        PROVE  b[i - 1] # b[i]
    <3>1. i \in 1..(m + l) /\ i - 1 \in 1..(m + l)
      BY <2>6
    <3>2. CASE i <= m
      <4>1. i \in 2..m /\ i - 1 <= m
        BY <2>6, <3>2
      <4>2. b[i] = a[i] /\ b[i - 1] = a[i - 1]
        BY <2>6, <3>1, <3>2, <4>1
      <4> QED  BY <4>1, <4>2 DEF StreamInv
    <3>3. CASE i = m + 1
      <4> PICK j : j = i - 1
        OBVIOUS
      <4>1. j \in 1..m /\ ~(j - m \in 1..l)
        BY <2>6, <3>3
      <4>2. b[j].pdu \in Nat /\ b[j].pdu <= h_received
        BY <2>7, <3>1, <4>1
      <4>3. b[i] = [pdu |-> h_received + 1, idx |-> i - m]
        <5>1. i \notin 1..m
          BY <2>6, <3>3
        <5> QED  BY <2>7, <3>1, <5>1
      <4>4. b[i].pdu # b[j].pdu
        BY <1>2, <4>2, <4>3
      <4> QED  BY <4>4
    <3>4. CASE i > m + 1
      <4> PICK j : j = i - 1
        OBVIOUS
      <4>1. i \notin 1..m /\ j \notin 1..m /\ j \in 1..(m + l) /\ i - m # j - m
        BY <2>6, <3>1, <3>4
      <4>2. b[i] = [pdu |-> h_received + 1, idx |-> i - m]
        BY <2>7, <3>1, <4>1
      <4>3. b[j] = [pdu |-> h_received + 1, idx |-> j - m]
        BY <2>7, <4>1
      <4>4. b[i] # b[j]
        BY <4>1, <4>2, <4>3
      <4> QED  BY <4>4
    <3>5. i <= m \/ i = m + 1 \/ i > m + 1
      BY <2>6
    <3> QED  BY <3>2, <3>3, <3>4, <3>5
  <2>10. Accepted' = b /\ Stream' = s /\ h_received' = h_received + 1 /\ Len(b) = m + l
    BY <1>1, <2>3, <2>4, <2>6
  <2>11. Expands(Stream', Accepted')
    BY <2>5, <2>10
  <2>12. /\ \A k \in 1..Len(Accepted') : Accepted'[k].pdu <= h_received'
         /\ \A k \in 2..Len(Accepted') : Accepted'[k - 1] # Accepted'[k]
    BY <2>8, <2>9, <2>10
  <2> QED  BY <2>11, <2>12 DEF StreamInv, Expands, CopiesBy
<1> QED  BY <1>1, <1>5, <1>6

(* At first nothing is accepted and the stream is empty.                   *)
LEMMA InitStream == ASSUME ConstAssumption, Init  PROVE StreamInv
<1>1. out = <<>> /\ d_data = <<>> /\ d_pdu_queue = <<>> /\ h_accepted = <<>>
  BY DEF Init
<1>2. Accepted = <<>> /\ Stream = <<>> \o <<>> \o <<>>
  BY <1>1, AllItemsEmpty DEF Accepted, Stream
<1>3. Stream = <<>>
  <2>1. <<>> \in Seq(Items)
    BY EmptySeq
  <2> QED  BY <1>2, <2>1, ConcatEmptySeq
<1>4. Expands(<<>>, <<>>)
  <2> DEFINE f == [i \in 1..0 |-> 0]
  <2>1. CopiesBy(f, <<>>, <<>>)
    BY DEF CopiesBy
  <2> QED  BY <2>1 DEF Expands
<1>5. Len(Accepted) = 0
  BY <1>2
<1> QED  BY <1>2, <1>3, <1>4, <1>5 DEF StreamInv

(* No item is lost, overtaken or written again later on.                   *)
THEOREM NothingLost == Spec => []NothingLostOrReordered
<1>1. Init => IInv /\ StreamInv
  BY ConstAssumption, InitIInv, InitStream
<1>2. ASSUME IInv, StreamInv, [Next]_vars
      PROVE  IInv' /\ StreamInv'
  <2>0. IInv'
    BY <1>2, ConstAssumption, NextIInv
  <2>1. CASE StorePdu
    BY <1>2, <2>0, <2>1, ConstAssumption, StoreStream
  <2>2. CASE Work
    <3>1. PICK n \in 1..MaxChunk : WorkFor(n)
      BY <2>2 DEF Work
    <3>2. PICK data, c : Works(data, c) /\ Stream = (out \o data) \o AllItems(d_pdu_queue')
      BY <1>2, <3>1, ConstAssumption, WorkIs
    <3> QED  BY <1>2, <2>0, <3>2, WorksStream
  <2>3. CASE SetMaxQueueSize \/ UNCHANGED vars
    <3>1. UNCHANGED <<out, d_data, d_pdu_queue, h_accepted, h_received>>
      BY <2>3 DEF SetMaxQueueSize, vars
    <3>2. Accepted' = Accepted /\ Stream' = Stream
      BY <3>1 DEF Accepted, Stream
    <3> QED  BY <1>2, <2>0, <3>1, <3>2 DEF StreamInv, Expands, CopiesBy
  <2> QED  BY <1>2, <2>1, <2>2, <2>3 DEF Next
<1>3. ASSUME IInv, StreamInv  PROVE NothingLostOrReordered
  <2>1. Stream \in Seq(Items) /\ Accepted \in Seq(Items)
    BY <1>3, StreamTypes
  <2>2. Collapsed(Stream) = Accepted
    <3> PICK s, of : s = Stream /\ of = Accepted
      OBVIOUS
    <3>1. Expands(s, of) /\ \A k \in 2..Len(of) : of[k - 1] # of[k]
      BY <1>3 DEF StreamInv
    <3> QED  BY <2>1, <3>1, CollapsedExpansion
  <2> QED  BY <2>2 DEF NothingLostOrReordered, Stream, Accepted
<1> QED  BY <1>1, <1>2, <1>3, PTL DEF Spec
=============================================================================
