----------------------- MODULE AccessCodeToPduProofs -----------------------
(***************************************************************************)
(* The bookkeeping of overlapping bursts in access_code_to_pdu, for every  *)
(* configuration the constructor lets through and every stream.            *)
(*                                                                         *)
(* The first part (IInv) looks at the pending bursts alone; the second     *)
(* (RInv) relates them to the stream: what is pending is what the promise  *)
(* BurstWindows selects, and the shared buffer holds the oldest burst.     *)
(***************************************************************************)
EXTENDS AccessCodeToPdu, SequenceTheorems, TLAPS

(* Lists of pending bursts that fit together: the oldest burst first, the  *)
(* buffer as long as that one.                                             *)
Shaped(counts, reversed, output, least) ==
  /\ counts \in Seq(Nat) /\ reversed \in Seq(BOOLEAN) /\ output \in Seq(Bit)
  /\ Len(reversed) = Len(counts)
  /\ counts = <<>> => output = <<>>
  /\ counts # <<>> => Len(output) = counts[1]
  /\ \A i \in 1..Len(counts) :
       /\ least <= counts[i]
       /\ \A j \in 1..(i - 1) : counts[i] < counts[j]

(* No pending burst is complete.                                           *)
Incomplete(counts) ==
  conf.burst_len > Len(conf.code) => \A i \in 1..Len(counts) : counts[i] < conf.burst_len

Locked(lock, counts) ==
  /\ lock \in BOOLEAN
  /\ lock => conf.readmode = Strict
  /\ conf.readmode = Strict => /\ Len(counts) <= 1
                               /\ counts # <<>> => lock

(* The types, without the bounds that only RInv explains.                  *)
Typed ==
  /\ conf \in Configs
  /\ stream \in Seq(Bit)
  /\ d_data_reg \in Seq(Bit) /\ Len(d_data_reg) = RegLen
  /\ d_nread \in Nat
  /\ d_lock \in BOOLEAN
  /\ d_burst_vector \in Seq(Nat)
  /\ d_reversed_vector \in Seq(BOOLEAN)
  /\ d_output \in Seq(Bit)

IInv ==
  /\ Typed
  /\ Shaped(d_burst_vector, d_reversed_vector, d_output, Len(conf.code) + 1)
  /\ Incomplete(d_burst_vector)
  /\ Locked(d_lock, d_burst_vector)

-----------------------------------------------------------------------------
(* Lists of bursts                                                         *)

LEMMA NoBursts == ASSUME NEW least PROVE Shaped(<<>>, <<>>, <<>>, least)
BY EmptySeq DEF Shaped

LEMMA ConfTypes ==
  ASSUME conf \in Configs
  PROVE  /\ conf.code \in Seq(Bit) /\ Len(conf.code) \in Nat /\ conf.burst_len \in Nat
         /\ Len(conf.code) <= RegLen /\ RegLen \in Nat
         /\ Len(conf.code) <= conf.burst_len
<1>1. conf \in Confs /\ Constructible(conf) /\ Len(conf.code) <= RegLen
  BY ConfigsAssumption
<1>2. conf.code \in Seq(Bit) /\ conf.tail \in Seq(Bit) /\ conf.burst_len \in Nat
  BY <1>1 DEF Confs
<1>3. Len(conf.code) \in Nat /\ Len(conf.tail) \in Nat
  BY <1>2, LenProperties
<1>4. Len(conf.code) + Len(conf.tail) <= conf.burst_len
  BY <1>1 DEF Constructible
<1>5. RegLen \in Nat
  BY ConfigsAssumption
<1>6. \A a, b, l \in Nat : a + b <= l => a <= l
  OBVIOUS
<1>7. Len(conf.code) <= conf.burst_len
  BY <1>2, <1>3, <1>4, <1>6, Zenon
<1> QED  BY <1>1, <1>2, <1>3, <1>5, <1>7

(* The bits of the code at the end of the register.                        *)
LEMMA CodeBits ==
  ASSUME Typed
  PROVE  /\ LastBits(d_data_reg, Len(conf.code)) \in Seq(Bit)
         /\ Len(LastBits(d_data_reg, Len(conf.code))) = Len(conf.code)
<1> DEFINE n == Len(conf.code)
<1>1. d_data_reg \in Seq(Bit) /\ Len(d_data_reg) = RegLen /\ n \in Nat /\ n <= RegLen
      /\ RegLen \in Nat
  BY ConfTypes DEF Typed
<1> HIDE DEF n
<1>2. /\ SubSeq(d_data_reg, RegLen - n + 1, RegLen) \in Seq(Bit)
      /\ Len(SubSeq(d_data_reg, RegLen - n + 1, RegLen)) = n
  <2>1. \A i \in (RegLen - n + 1)..RegLen : d_data_reg[i] \in Bit
    BY <1>1, ElementOfSeq
  <2>2. Len(SubSeq(d_data_reg, RegLen - n + 1, RegLen)) =
          IF RegLen - n + 1 <= RegLen THEN RegLen - (RegLen - n + 1) + 1 ELSE 0
    BY <1>1, <2>1, SubSeqProperties
  <2> QED  BY <1>1, <2>1, <2>2, SubSeqProperties
<1> QED  BY <1>1, <1>2 DEF LastBits, n

(* Opening a burst.                                                        *)
LEMMA OpenedShape ==
  ASSUME IInv
  PROVE  /\ Shaped(OpenedCounts, OpenedReversed, OpenedOutput, Len(conf.code))
         /\ Incomplete(OpenedCounts)
         /\ Locked(OpenedLock, OpenedCounts)
<1> DEFINE n == Len(conf.code)
           rev == Reversed(conf, d_data_reg)
           bits == LastBits(d_data_reg, n)
<1>1. conf \in Configs /\ n \in Nat /\ conf.burst_len \in Nat
  BY ConfTypes DEF IInv, Typed
<1>2. rev \in BOOLEAN
  BY DEF Reversed
<1>3. bits \in Seq(Bit) /\ Len(bits) = n
  BY CodeBits DEF IInv
<1> HIDE DEF n, rev, bits
<1>4. CASE ~Found
  <2>1. /\ OpenedCounts = d_burst_vector /\ OpenedReversed = d_reversed_vector
        /\ OpenedOutput = d_output
    BY <1>4 DEF OpenedCounts, OpenedReversed, OpenedOutput
  <2>2. Shaped(d_burst_vector, d_reversed_vector, d_output, n)
    BY <1>1 DEF IInv, Shaped, n
  <2>3. Locked(OpenedLock, d_burst_vector)
    <3>1. CASE Searching
      <4>1. OpenedLock = FALSE
        BY <1>4, <3>1 DEF OpenedLock
      <4>2. conf.readmode = Strict => d_burst_vector = <<>>
        BY <3>1 DEF Searching, IInv, Locked
      <4> QED  BY <4>1, <4>2 DEF IInv, Locked
    <3>2. CASE ~Searching
      BY <3>2 DEF OpenedLock, IInv
    <3> QED  BY <3>1, <3>2
  <2> QED  BY <2>1, <2>2, <2>3 DEF IInv, n
<1>5. CASE Found
  <2> DEFINE c == Counts
             r == IF Dumped THEN <<>> ELSE d_reversed_vector
             o == IF Dumped THEN <<>> ELSE d_output
  <2>1. Shaped(c, r, o, n + 1) /\ Incomplete(c)
    <3>1. CASE Dumped
      <4>1. c = <<>> /\ r = <<>> /\ o = <<>>
        BY <3>1 DEF Counts
      <4> QED  BY <4>1, NoBursts, EmptySeq DEF Incomplete
    <3>2. CASE ~Dumped
      BY <3>2 DEF Counts, IInv, n
    <3> QED  BY <3>1, <3>2
  <2>2. /\ OpenedCounts = Append(c, n)
        /\ OpenedReversed = Append(r, rev)
        /\ OpenedOutput = o \o (IF c = <<>> THEN bits ELSE <<>>)
    BY <1>5 DEF OpenedCounts, OpenedReversed, OpenedOutput, n, rev, bits
  <2>3. Searching
    BY <1>5 DEF Found
  <2>4. conf.readmode = Strict => c = <<>>
    BY <2>3 DEF Searching, IInv, Locked, Counts, Dumped, Strict, Reset
  <2>5. OpenedLock = (conf.readmode = Strict \/ d_lock)
    BY <1>5, <2>3 DEF OpenedLock
  <2> HIDE DEF c, r, o
  <2>6. c \in Seq(Nat) /\ r \in Seq(BOOLEAN) /\ o \in Seq(Bit) /\ Len(c) \in Nat /\ Len(r) = Len(c)
    BY <2>1, LenProperties DEF Shaped
  <2>7. /\ Append(c, n) \in Seq(Nat) /\ Len(Append(c, n)) = Len(c) + 1
        /\ \A i \in 1..Len(c) : Append(c, n)[i] = c[i]
        /\ Append(c, n)[Len(c) + 1] = n
        /\ Append(c, n) # <<>>
    <3>1. n \in Nat /\ c \in Seq(Nat)
      BY <1>1, <2>6
    <3>2. Append(c, n) # <<>>
      BY <3>1, AppendProperties, Zenon
    <3>3. Append(c, n) \in Seq(Nat) /\ Len(Append(c, n)) = Len(c) + 1
      BY <3>1, AppendProperties
    <3>4. (\A i \in 1..Len(c) : Append(c, n)[i] = c[i]) /\ Append(c, n)[Len(c) + 1] = n
      BY <3>1, AppendProperties
    <3> QED  BY <3>2, <3>3, <3>4
  <2>8. Append(r, rev) \in Seq(BOOLEAN) /\ Len(Append(r, rev)) = Len(c) + 1
    BY <1>2, <2>6, AppendProperties
  <2>9. \A i \in 1..(Len(c) + 1) :
          /\ n <= Append(c, n)[i]
          /\ \A j \in 1..(i - 1) : Append(c, n)[i] < Append(c, n)[j]
    <3>1. \A i \in 1..Len(c) : n + 1 <= c[i] /\ c[i] \in Nat /\ \A j \in 1..(i - 1) : c[i] < c[j]
      BY <2>1, <2>6, ElementOfSeq DEF Shaped
    <3> QED  BY <1>1, <2>6, <2>7, <3>1
  <2>10. OpenedOutput \in Seq(Bit) /\ Len(OpenedOutput) = Append(c, n)[1]
    <3>1. CASE c = <<>>
      <4>1. o = <<>> /\ Len(c) = 0
        BY <2>1, <3>1, EmptySeq DEF Shaped
      <4>2. OpenedOutput = bits
        BY <1>3, <2>2, <3>1, <4>1, ConcatEmptySeq
      <4> QED  BY <1>3, <2>7, <4>1, <4>2
    <3>2. CASE c # <<>>
      <4>1. OpenedOutput = o
        BY <2>2, <2>6, <3>2, ConcatEmptySeq
      <4>2. Len(o) = c[1] /\ Len(c) >= 1
        BY <2>1, <2>6, <3>2, EmptySeq DEF Shaped
      <4> QED  BY <2>6, <2>7, <4>1, <4>2
    <3> QED  BY <3>1, <3>2
  <2>11. Shaped(OpenedCounts, OpenedReversed, OpenedOutput, n)
    BY <2>2, <2>7, <2>8, <2>9, <2>10 DEF Shaped
  <2>12. Incomplete(OpenedCounts)
    BY <1>1, <2>1, <2>2, <2>6, <2>7 DEF Incomplete, n
  <2>13. Locked(OpenedLock, OpenedCounts)
    <3>1. c = <<>> => Len(Append(c, n)) = 1
      BY <2>6, <2>7, EmptySeq
    <3>2. conf.readmode = Strict => Len(Append(c, n)) <= 1
      BY <2>4, <3>1
    <3>3. d_lock \in BOOLEAN /\ (d_lock => conf.readmode = Strict)
      BY DEF IInv, Locked
    <3> QED  BY <2>2, <2>5, <3>2, <3>3, Zenon DEF Locked
  <2> QED  BY <2>11, <2>12, <2>13 DEF n
<1> QED  BY <1>4, <1>5

(* Every pending burst grows by a bit, and so does the buffer.             *)
LEMMA GrownShape ==
  ASSUME IInv, NEW bit \in Bit, OpenedCounts # <<>>
  PROVE  /\ Shaped(GrownCounts, OpenedReversed, Append(OpenedOutput, bit), Len(conf.code) + 1)
         /\ Len(GrownCounts) = Len(OpenedCounts) /\ Len(GrownCounts) \in Nat \ {0}
         /\ GrownCounts[1] = OpenedCounts[1] + 1
         /\ conf.burst_len > Len(conf.code) => GrownCounts[1] <= conf.burst_len
<1> DEFINE n == Len(conf.code)
           oc == OpenedCounts
           g == GrownCounts
           out == OpenedOutput
           l == Len(oc)
<1>1. Shaped(oc, OpenedReversed, out, n) /\ Incomplete(oc)
  BY OpenedShape
<1>2. n \in Nat /\ conf.burst_len \in Nat
  BY ConfTypes DEF IInv, Typed
<1>3. oc \in Seq(Nat) /\ l \in Nat \ {0} /\ DOMAIN oc = 1..l /\ out \in Seq(Bit)
      /\ oc \in [1..l -> Nat]
  BY <1>1, LenProperties, EmptySeq DEF Shaped
<1>4. g = [i \in 1..l |-> oc[i] + 1]
  BY <1>3 DEF GrownCounts
<1> HIDE DEF n, oc, g, out
<1>5. g \in [1..l -> Nat] /\ \A i \in 1..l : g[i] = oc[i] + 1
  BY <1>3, <1>4
<1>6. g \in Seq(Nat) /\ Len(g) = l
  <2>1. g \in Seq(Nat)
    BY <1>3, <1>5, SeqDef
  <2> QED  BY <1>3, <1>5, <2>1, LenProperties
<1>7. Append(out, bit) \in Seq(Bit) /\ Len(Append(out, bit)) = Len(out) + 1
  BY <1>3, AppendProperties
<1>8. Len(out) = oc[1] /\ oc[1] \in Nat
  BY <1>1, <1>3, EmptySeq DEF Shaped
<1>9. \A i \in 1..l : n + 1 <= g[i] /\ \A j \in 1..(i - 1) : g[i] < g[j]
  <2>1. \A i \in 1..l : n <= oc[i] /\ \A j \in 1..(i - 1) : oc[i] < oc[j]
    BY <1>1 DEF Shaped
  <2>2. \A i \in 1..l : \A j \in 1..(i - 1) : j \in 1..l
    BY <1>3
  <2> QED  BY <1>2, <1>3, <1>5, <2>1, <2>2
<1>10. g # <<>>
  BY <1>3, <1>6, EmptySeq
<1>11. Shaped(g, OpenedReversed, Append(out, bit), n + 1)
  BY <1>1, <1>3, <1>5, <1>6, <1>7, <1>8, <1>9, <1>10 DEF Shaped
<1>12. conf.burst_len > n => g[1] <= conf.burst_len
  BY <1>1, <1>2, <1>3, <1>5, <1>8 DEF Incomplete, n
<1> QED  BY <1>3, <1>5, <1>6, <1>11, <1>12 DEF n, g, oc, out

(* What is left when the oldest burst ends.                                *)
LEMMA PoppedShape ==
  ASSUME IInv, NEW bit \in Bit, LastBit(bit)
  PROVE  /\ Shaped(d_burst_vector', d_reversed_vector', d_output', Len(conf.code) + 1)
         /\ Incomplete(d_burst_vector')
         /\ conf.readmode = Strict => d_burst_vector' = <<>>
<1> DEFINE n == Len(conf.code)
           g == GrownCounts
           rev == OpenedReversed
           out == Append(OpenedOutput, bit)
           len == conf.burst_len
<1>1. n \in Nat /\ len \in Nat
  BY ConfTypes DEF IInv, Typed
<1>2. OpenedCounts # <<>> /\ OpenedCounts[1] + 1 = len /\ PopBurst(out)
  BY DEF LastBit
<1>3. Shaped(g, rev, out, n + 1) /\ Len(g) \in Nat \ {0} /\ g[1] = len
      /\ Len(g) = Len(OpenedCounts)
  BY <1>2, GrownShape
<1>4. conf.readmode = Strict => Len(g) <= 1
  BY <1>3, OpenedShape DEF Locked
<1>5. /\ d_burst_vector' = Tail(g) /\ d_reversed_vector' = Tail(rev)
      /\ d_output' = IF Len(g) = 1 THEN <<>> ELSE SubSeq(out, len - g[2] + 1, Len(out))
  BY <1>2 DEF PopBurst
<1> HIDE DEF n, g, rev, out, len
<1>6. g \in Seq(Nat) /\ rev \in Seq(BOOLEAN) /\ out \in Seq(Bit) /\ Len(rev) = Len(g)
      /\ g # <<>> /\ rev # <<>> /\ Len(out) = len
  <2>1. g \in Seq(Nat) /\ rev \in Seq(BOOLEAN) /\ out \in Seq(Bit) /\ Len(rev) = Len(g)
    BY <1>3 DEF Shaped
  <2>2. Len(g) # 0 /\ Len(rev) # 0
    BY <1>3, <2>1
  <2>3. g # <<>> /\ rev # <<>>
    BY <2>2, EmptySeq, Zenon
  <2> QED  BY <1>3, <2>1, <2>3 DEF Shaped
<1>7. /\ Tail(g) \in Seq(Nat) /\ Len(Tail(g)) = Len(g) - 1
      /\ \A i \in 1..Len(Tail(g)) : Tail(g)[i] = g[i + 1]
  BY <1>6, HeadTailProperties
<1>8. Tail(rev) \in Seq(BOOLEAN) /\ Len(Tail(rev)) = Len(g) - 1
  BY <1>6, HeadTailProperties
<1>9. \A i \in 1..Len(g) : g[i] \in Nat /\ n + 1 <= g[i] /\ \A j \in 1..(i - 1) : g[i] < g[j]
  BY <1>3, <1>6, ElementOfSeq DEF Shaped
<1>10. \A i \in 1..Len(Tail(g)) : Tail(g)[i] < len
  BY <1>1, <1>3, <1>7, <1>9
<1>11. Incomplete(d_burst_vector')
  BY <1>5, <1>10 DEF Incomplete, len
<1>12. CASE Len(g) = 1
  <2>1. Len(Tail(g)) = 0 /\ Len(Tail(rev)) = 0
    BY <1>7, <1>8, <1>12
  <2>2. Tail(g) = <<>> /\ Tail(rev) = <<>>
    BY <1>7, <1>8, <2>1, EmptySeq
  <2>3. d_burst_vector' = <<>> /\ d_reversed_vector' = <<>> /\ d_output' = <<>>
    BY <1>5, <1>12, <2>2
  <2> QED  BY <1>11, <2>3, NoBursts
<1>13. CASE Len(g) # 1
  <2>1. Len(Tail(g)) \in Nat \ {0}
    <3>1. \A k \in Nat \ {0} : k # 1 => k - 1 \in Nat \ {0}
      OBVIOUS
    <3> QED  BY <1>3, <1>7, <1>13, <3>1, Zenon
  <2>2. Tail(g) # <<>>
    BY <2>1, EmptySeq
  <2>3. g[2] \in Nat \ {0} /\ g[2] < len /\ Tail(g)[1] = g[2]
    BY <1>1, <1>3, <1>7, <1>9, <1>13, <2>1
  <2> DEFINE first == len - g[2] + 1
             cut == SubSeq(out, first, len)
  <2>4. cut \in Seq(Bit) /\ Len(cut) = g[2]
    <3>1. first \in 1..len /\ len - first + 1 = g[2]
      BY <1>1, <2>3
    <3> HIDE DEF first
    <3>2. \A i \in first..len : out[i] \in Bit
      BY <1>1, <1>6, <3>1, ElementOfSeq
    <3> QED  BY <1>1, <3>1, <3>2, SubSeqProperties
  <2>5. d_output' = cut
    BY <1>5, <1>6, <1>13
  <2> HIDE DEF cut
  <2>6. \A i \in 1..Len(Tail(g)) :
          n + 1 <= Tail(g)[i] /\ \A j \in 1..(i - 1) : Tail(g)[i] < Tail(g)[j]
    <3> SUFFICES ASSUME NEW i \in 1..Len(Tail(g))
                 PROVE  n + 1 <= Tail(g)[i]
                        /\ \A j \in 1..(i - 1) : Tail(g)[i] < Tail(g)[j]
      OBVIOUS
    <3>1. i + 1 \in 1..Len(g) /\ Tail(g)[i] = g[i + 1]
      BY <1>3, <1>7
    <3>2. \A j \in 1..(i - 1) : j + 1 \in 1..((i + 1) - 1) /\ Tail(g)[j] = g[j + 1]
      BY <1>3, <1>7
    <3> QED  BY <1>9, <3>1, <3>2
  <2>7. Shaped(Tail(g), Tail(rev), cut, n + 1)
    BY <1>7, <1>8, <2>2, <2>3, <2>4, <2>6 DEF Shaped
  <2>8. conf.readmode # Strict
    BY <1>3, <1>4, <1>13
  <2> QED  BY <1>5, <1>11, <2>5, <2>7, <2>8 DEF n
<1> QED  BY <1>12, <1>13

-----------------------------------------------------------------------------
(* The invariant                                                           *)

LEMMA InitInv == Init => IInv
<1> SUFFICES ASSUME Init
             PROVE  IInv
  OBVIOUS
<1>1. RegLen \in Nat /\ d_data_reg = [i \in 1..RegLen |-> 0]
  BY ConfigsAssumption DEF Init
<1>2. d_data_reg \in [1..RegLen -> Bit]
  BY <1>1 DEF Bit
<1>3. d_data_reg \in Seq(Bit)
  BY <1>1, <1>2, SeqDef
<1>4. Len(d_data_reg) = RegLen
  BY <1>1, <1>2, <1>3, LenProperties
<1>5. d_burst_vector = <<>> /\ d_reversed_vector = <<>> /\ d_output = <<>> /\ d_lock = FALSE
  BY DEF Init
<1>6. Typed
  <2>1. stream = <<>> /\ conf \in Configs /\ d_nread = 0
    BY DEF Init
  <2> QED  BY <1>3, <1>4, <1>5, <2>1, EmptySeq DEF Typed
<1>7. Len(<<>>) = 0
  BY EmptySeq
<1>8. Incomplete(d_burst_vector)
  BY <1>5, <1>7 DEF Incomplete
<1>9. Locked(d_lock, d_burst_vector)
  <2>1. Len(d_burst_vector) <= 1
    BY <1>5, <1>7
  <2> QED  BY <1>5, <2>1, Zenon DEF Locked
<1> QED  BY <1>5, <1>6, <1>8, <1>9, NoBursts DEF IInv

(* What every turn of the loop does.                                       *)
LEMMA ShiftTypes ==
  ASSUME IInv, NEW bit \in Bit, Shift(bit)
  PROVE  /\ conf' \in Configs /\ conf' = conf
         /\ stream' \in Seq(Bit)
         /\ d_data_reg' \in Seq(Bit) /\ Len(d_data_reg') = RegLen
<1>1. /\ conf \in Configs /\ stream \in Seq(Bit) /\ d_data_reg \in Seq(Bit)
      /\ Len(d_data_reg) = RegLen /\ RegLen \in Nat \ {0}
  BY ConfigsAssumption DEF IInv, Typed
<1>2. conf' = conf /\ stream' = Append(stream, bit) /\ d_data_reg' = Append(Tail(d_data_reg), bit)
  BY DEF Shift
<1>3. stream' \in Seq(Bit)
  BY <1>1, <1>2, AppendProperties
<1>4. Tail(d_data_reg) \in Seq(Bit) /\ Len(Tail(d_data_reg)) = RegLen - 1
  <2>1. Len(d_data_reg) # 0
    BY <1>1
  <2>2. d_data_reg # <<>>
    BY <2>1, EmptySeq, Zenon
  <2> QED  BY <1>1, <2>2, HeadTailProperties
<1>5. d_data_reg' \in Seq(Bit) /\ Len(d_data_reg') = RegLen
  <2> DEFINE rest == Tail(d_data_reg)
  <2>1. rest \in Seq(Bit) /\ Len(rest) = RegLen - 1
    BY <1>4
  <2> HIDE DEF rest
  <2>2. Append(rest, bit) \in Seq(Bit) /\ Len(Append(rest, bit)) = RegLen
    BY <1>1, <2>1, AppendProperties
  <2> QED  BY <1>2, <2>2 DEF rest
<1> QED  BY <1>1, <1>2, <1>3, <1>5

LEMMA StepInv == IInv /\ [Next]_vars => IInv'
<1> SUFFICES ASSUME IInv, [Next]_vars
             PROVE  IInv'
  OBVIOUS
<1> DEFINE Parts ==
      /\ conf' = conf /\ conf' \in Configs
      /\ stream' \in Seq(Bit)
      /\ d_data_reg' \in Seq(Bit) /\ Len(d_data_reg') = RegLen
      /\ d_nread' \in Nat
      /\ Shaped(d_burst_vector', d_reversed_vector', d_output', Len(conf.code) + 1)
      /\ Incomplete(d_burst_vector')
      /\ Locked(d_lock', d_burst_vector')
<1>1. ASSUME Parts  PROVE IInv'
  <2>1. conf' = conf
    BY <1>1
  <2>2. d_burst_vector' \in Seq(Nat) /\ d_reversed_vector' \in Seq(BOOLEAN) /\ d_output' \in Seq(Bit)
    BY <1>1 DEF Shaped
  <2>3. Typed'
    BY <1>1, <2>2 DEF Typed, Locked
  <2>4. Shaped(d_burst_vector, d_reversed_vector, d_output, Len(conf.code) + 1)'
    BY <1>1, <2>1 DEF Shaped
  <2>5. Incomplete(d_burst_vector)'
    BY <1>1, <2>1 DEF Incomplete
  <2>6. Locked(d_lock, d_burst_vector)'
    BY <1>1, <2>1 DEF Locked
  <2> QED  BY <2>3, <2>4, <2>5, <2>6 DEF IInv
<1>2. d_nread \in Nat /\ d_nread + 1 \in Nat
  BY DEF IInv, Typed
<1>3. ASSUME NEW bit \in Bit, ReadIdle(bit)
      PROVE  IInv'
  <2>1. Shift(bit) /\ d_nread' = d_nread + 1 /\ d_lock' = OpenedLock
        /\ d_burst_vector' = d_burst_vector /\ d_reversed_vector' = d_reversed_vector
        /\ d_output' = d_output /\ OpenedCounts = <<>>
    BY <1>3 DEF ReadIdle, pending
  <2>2. d_burst_vector = <<>>
    <3>1. ~Found
      <4>1. SUFFICES ASSUME Found PROVE FALSE
        OBVIOUS
      <4>2. Counts \in Seq(Nat) /\ Len(conf.code) \in Nat
        BY ConfTypes, EmptySeq DEF Counts, IInv, Typed
      <4>3. OpenedCounts = Append(Counts, Len(conf.code))
        BY <4>1 DEF OpenedCounts
      <4> QED  BY <2>1, <4>2, <4>3, AppendProperties, Zenon
    <3> QED  BY <2>1, <3>1 DEF OpenedCounts
  <2>3. Locked(OpenedLock, d_burst_vector)
    BY <2>1, <2>2, OpenedShape
  <2>4. Parts
    BY <1>2, <2>1, <2>3, ShiftTypes DEF IInv
  <2> QED  BY <1>1, <2>4
<1>4. ASSUME NEW bit \in Bit, ReadBurst(bit)
      PROVE  IInv'
  <2>1. /\ Shift(bit) /\ d_nread' = d_nread + 1 /\ d_lock' = OpenedLock
        /\ d_burst_vector' = GrownCounts /\ d_reversed_vector' = OpenedReversed
        /\ d_output' = Append(OpenedOutput, bit) /\ OpenedCounts # <<>>
        /\ OpenedCounts[1] + 1 # conf.burst_len
    BY <1>4 DEF ReadBurst
  <2>2. /\ Shaped(GrownCounts, OpenedReversed, Append(OpenedOutput, bit), Len(conf.code) + 1)
        /\ Len(GrownCounts) = Len(OpenedCounts) /\ Len(GrownCounts) \in Nat \ {0}
        /\ GrownCounts[1] = OpenedCounts[1] + 1
        /\ conf.burst_len > Len(conf.code) => GrownCounts[1] <= conf.burst_len
    BY <2>1, GrownShape
  <2>3. Incomplete(GrownCounts)
    <3>1. SUFFICES ASSUME conf.burst_len > Len(conf.code), NEW i \in 1..Len(GrownCounts)
                   PROVE  GrownCounts[i] < conf.burst_len
      BY DEF Incomplete
    <3> DEFINE g == GrownCounts
    <3>2. conf.burst_len \in Nat /\ g \in Seq(Nat)
      BY <2>2, ConfTypes DEF IInv, Typed, Shaped
    <3>3. Len(g) \in Nat \ {0} /\ i \in 1..Len(g) /\ g[1] <= conf.burst_len /\ g[1] # conf.burst_len
      BY <2>1, <2>2, <3>1
    <3>4. \A k \in 1..Len(g) : \A j \in 1..(k - 1) : g[k] < g[j]
      BY <2>2 DEF Shaped
    <3> HIDE DEF g
    <3>5. g[1] \in Nat /\ g[i] \in Nat
      BY <3>2, <3>3, ElementOfSeq
    <3>6. g[i] < conf.burst_len
      BY <3>2, <3>3, <3>4, <3>5
    <3> QED  BY <3>6 DEF g
  <2>4. Locked(OpenedLock, GrownCounts)
    BY <2>1, <2>2, OpenedShape DEF Locked
  <2>5. Parts
    BY <1>2, <2>1, <2>2, <2>3, <2>4, ShiftTypes
  <2> QED  BY <1>1, <2>5
<1>5. ASSUME NEW bit \in Bit, LastBit(bit), d_nread' \in Nat, d_lock' \in {OpenedLock, FALSE}
      PROVE  IInv'
  <2>1. Shift(bit)
    BY <1>5 DEF LastBit
  <2>2. Locked(d_lock', d_burst_vector')
    <3>1. conf.readmode = Strict => d_burst_vector' = <<>>
      BY <1>5, PoppedShape
    <3>2. d_lock' \in BOOLEAN /\ (d_lock' => conf.readmode = Strict)
      <4>1. CASE d_lock' = FALSE
        BY <4>1
      <4>2. CASE d_lock' = OpenedLock
        BY <4>2, OpenedShape, Zenon DEF Locked
      <4> QED  BY <1>5, <4>1, <4>2
    <3>3. Len(<<>>) = 0
      BY EmptySeq
    <3>4. d_burst_vector' = <<>> => Len(d_burst_vector') <= 1
      BY <3>3
    <3> QED  BY <3>1, <3>2, <3>4, Zenon DEF Locked
  <2>3. Parts
    BY <1>5, <2>1, <2>2, ShiftTypes, PoppedShape
  <2> QED  BY <1>1, <2>3
<1>6. ASSUME NEW bit \in Bit, PublishBurst(bit)
      PROVE  IInv'
  <2>1. LastBit(bit) /\ d_nread' \in Nat /\ d_lock' \in {OpenedLock, FALSE}
    BY <1>2, <1>6 DEF PublishBurst
  <2> QED  BY <1>5, <2>1
<1>7. ASSUME NEW bit \in Bit, RejectBurst(bit)
      PROVE  IInv'
  <2>1. LastBit(bit) /\ d_nread' \in Nat /\ d_lock' \in {OpenedLock, FALSE}
    BY <1>2, <1>7 DEF RejectBurst
  <2> QED  BY <1>5, <2>1
<1>8. CASE UNCHANGED vars
  BY <1>8 DEF vars, register, pending, IInv, Typed, Shaped, Incomplete, Locked
<1> QED  BY <1>3, <1>4, <1>6, <1>7, <1>8 DEF Next

LEMMA Invariance == Spec => []IInv
BY InitInv, StepInv, PTL DEF Spec

-----------------------------------------------------------------------------
(* Theorems                                                                *)

(* No other burst starts while the lock of strict mode is held: at most    *)
(* one burst is pending, however codes, tails and bursts overlap.          *)
THEOREM StrictlyLocked == Spec => []LockMeansStrict
<1>1. IInv => LockMeansStrict
  BY DEF IInv, Locked, LockMeansStrict
<1> QED  BY Invariance, <1>1, PTL

(* The buffer that overlapping bursts share stays shorter than a burst,    *)
(* and the pending bursts stay distinct and oldest first.                  *)
THEOREM BuffersBounded == Spec => []BufferBounded
<1>1. ASSUME IInv  PROVE BufferBounded
  <2> DEFINE g == d_burst_vector
             n == Len(conf.code)
             len == conf.burst_len
             out == d_output
  <2>1. n \in Nat /\ len \in Nat /\ g \in Seq(Nat)
    BY <1>1, ConfTypes DEF IInv, Typed
  <2>2. Shaped(g, d_reversed_vector, out, n + 1) /\ (len > n => \A i \in 1..Len(g) : g[i] < len)
    BY <1>1 DEF IInv, Incomplete
  <2>3. DOMAIN g = 1..Len(g) /\ (g # <<>> => Len(g) \in Nat \ {0})
    BY <2>1, LenProperties, EmptySeq
  <2> HIDE DEF g, n, len, out
  <2>4. Len(d_reversed_vector) = Len(g)
    BY <2>2 DEF Shaped
  <2>5. \A i \in 1..Len(g) : n < g[i] /\ \A j \in 1..(i - 1) : g[i] < g[j]
    <3>1. \A i \in 1..Len(g) : g[i] \in Nat /\ n + 1 <= g[i] /\ \A j \in 1..(i - 1) : g[i] < g[j]
      BY <2>1, <2>2, ElementOfSeq DEF Shaped
    <3> QED  BY <2>1, <3>1
  <2>6. len > n => Len(out) < len
    <3>1. CASE g = <<>>
      <4>1. Len(out) = 0
        BY <2>2, <3>1, EmptySeq DEF Shaped
      <4> QED  BY <2>1, <4>1
    <3>2. CASE g # <<>>
      BY <2>2, <2>3, <3>2 DEF Shaped
    <3> QED  BY <3>1, <3>2
  <2> QED  BY <2>2, <2>3, <2>4, <2>5, <2>6 DEF BufferBounded, g, n, len, out
<1> QED  BY Invariance, <1>1, PTL

-----------------------------------------------------------------------------
(* The windows that BurstWindows promises                                  *)

CodeLen == Len(conf.code)

-----------------------------------------------------------------------------
(* The last bits of a word                                                 *)

LEMMA LastBitsAre ==
  ASSUME NEW s \in Seq(Bit), NEW k \in 0..Len(s)
  PROVE  /\ LastBits(s, k) \in Seq(Bit) /\ Len(LastBits(s, k)) = k
         /\ \A i \in 1..k : LastBits(s, k)[i] = s[Len(s) - k + i]
<1> DEFINE l == Len(s)
<1>1. l \in Nat
  BY LenProperties
<1>2. \A i \in (l - k + 1)..l : s[i] \in Bit
  BY <1>1, ElementOfSeq
<1> HIDE DEF l
<1>3. l - k + 1 \in Int /\ l \in Int /\ k \in Nat /\ l - (l - k + 1) + 1 = k
      /\ (l - k + 1 <= l <=> k # 0)
  BY <1>1 DEF l
<1>4. SubSeq(s, l - k + 1, l) \in Seq(Bit) /\ Len(SubSeq(s, l - k + 1, l)) = k
  BY <1>2, <1>3, SubSeqProperties
<1>5. \A i \in 1..k : SubSeq(s, l - k + 1, l)[i] = s[(l - k + 1) + i - 1]
  BY <1>2, <1>3, SubSeqProperties
<1>6. \A i \in 1..k : (l - k + 1) + i - 1 = l - k + i
  BY <1>1, <1>3
<1> QED  BY <1>4, <1>5, <1>6 DEF LastBits, l

LEMMA LastBitsOfAppend ==
  ASSUME NEW s \in Seq(Bit), NEW bit \in Bit, NEW k \in 0..Len(s)
  PROVE  LastBits(Append(s, bit), k + 1) = Append(LastBits(s, k), bit)
<1> DEFINE t == Append(s, bit)
           x == LastBits(t, k + 1)
           y == LastBits(s, k)
           z == Append(y, bit)
<1>1. Len(s) \in Nat /\ k \in Nat
  BY LenProperties
<1>2. t \in Seq(Bit) /\ Len(t) = Len(s) + 1 /\ t[Len(s) + 1] = bit
      /\ \A i \in 1..Len(s) : t[i] = s[i]
  BY AppendProperties
<1> HIDE DEF t
<1>3. k + 1 \in 0..Len(t)
  BY <1>1, <1>2
<1>4. x \in Seq(Bit) /\ Len(x) = k + 1 /\ \A i \in 1..(k + 1) : x[i] = t[Len(t) - (k + 1) + i]
  BY <1>2, <1>3, LastBitsAre
<1>5. y \in Seq(Bit) /\ Len(y) = k /\ \A i \in 1..k : y[i] = s[Len(s) - k + i]
  BY LastBitsAre
<1> HIDE DEF x, y
<1>6. z \in Seq(Bit) /\ Len(z) = k + 1 /\ z[k + 1] = bit /\ \A i \in 1..k : z[i] = y[i]
  BY <1>5, AppendProperties
<1> HIDE DEF z
<1>7. \A i \in 1..(k + 1) : x[i] = z[i]
  <2> SUFFICES ASSUME NEW i \in 1..(k + 1)  PROVE x[i] = z[i]
    OBVIOUS
  <2>1. Len(t) - (k + 1) + i = Len(s) - k + i
    BY <1>1, <1>2
  <2>2. x[i] = t[Len(s) - k + i]
    BY <1>4, <2>1
  <2>3. CASE i = k + 1
    <3>1. Len(s) - k + i = Len(s) + 1
      BY <1>1, <2>3
    <3> QED  BY <1>2, <1>6, <2>2, <2>3, <3>1
  <2>4. CASE i # k + 1
    <3>1. i \in 1..k /\ Len(s) - k + i \in 1..Len(s)
      BY <1>1, <2>4
    <3> QED  BY <1>2, <1>5, <1>6, <2>2, <3>1
  <2> QED  BY <2>3, <2>4
<1>8. x = z
  BY <1>4, <1>6, <1>7, SeqEqual
<1> QED  BY <1>8 DEF x, z, y, t

LEMMA LastBitsOfTail ==
  ASSUME NEW s \in Seq(Bit), s # <<>>, NEW k \in 0..(Len(s) - 1)
  PROVE  LastBits(Tail(s), k) = LastBits(s, k)
<1> DEFINE t == Tail(s)
           x == LastBits(t, k)
           y == LastBits(s, k)
<1>1. Len(s) \in Nat \ {0} /\ k \in Nat /\ k \in 0..Len(s)
  BY EmptySeq
<1>2. t \in Seq(Bit) /\ Len(t) = Len(s) - 1 /\ \A i \in 1..Len(t) : t[i] = s[i + 1]
  BY HeadTailProperties
<1> HIDE DEF t
<1>3. k \in 0..Len(t)
  BY <1>1, <1>2
<1>4. x \in Seq(Bit) /\ Len(x) = k /\ \A i \in 1..k : x[i] = t[Len(t) - k + i]
  BY <1>2, <1>3, LastBitsAre
<1>5. y \in Seq(Bit) /\ Len(y) = k /\ \A i \in 1..k : y[i] = s[Len(s) - k + i]
  BY <1>1, LastBitsAre
<1> HIDE DEF x, y
<1>6. \A i \in 1..k : Len(t) - k + i \in 1..Len(t) /\ (Len(t) - k + i) + 1 = Len(s) - k + i
  BY <1>1, <1>2, <1>3
<1>7. \A i \in 1..k : x[i] = y[i]
  BY <1>2, <1>4, <1>5, <1>6
<1>8. x = y
  BY <1>4, <1>5, <1>7, SeqEqual
<1> QED  BY <1>8 DEF x, y, t

LEMMA LastBitsOfLastBits ==
  ASSUME NEW s \in Seq(Bit), NEW k \in 0..Len(s), NEW j \in 0..k
  PROVE  LastBits(LastBits(s, k), j) = LastBits(s, j)
<1> DEFINE t == LastBits(s, k)
           x == LastBits(t, j)
           y == LastBits(s, j)
<1>1. Len(s) \in Nat /\ k \in Nat /\ j \in Nat /\ j \in 0..Len(s)
  BY LenProperties
<1>2. t \in Seq(Bit) /\ Len(t) = k /\ \A i \in 1..k : t[i] = s[Len(s) - k + i]
  BY LastBitsAre
<1> HIDE DEF t
<1>3. x \in Seq(Bit) /\ Len(x) = j /\ \A i \in 1..j : x[i] = t[k - j + i]
  BY <1>2, LastBitsAre
<1>4. y \in Seq(Bit) /\ Len(y) = j /\ \A i \in 1..j : y[i] = s[Len(s) - j + i]
  BY <1>1, LastBitsAre
<1> HIDE DEF x, y
<1>5. \A i \in 1..j : k - j + i \in 1..k /\ Len(s) - k + (k - j + i) = Len(s) - j + i
  BY <1>1
<1>6. \A i \in 1..j : x[i] = y[i]
  BY <1>2, <1>3, <1>4, <1>5
<1>7. x = y
  BY <1>3, <1>4, <1>6, SeqEqual
<1> QED  BY <1>7 DEF x, y, t

-----------------------------------------------------------------------------
(* Words that end with the same bits compare the same                      *)

LEMMA SameWrong ==
  ASSUME NEW s, NEW t, NEW word, LastBits(s, Len(word)) = LastBits(t, Len(word))
  PROVE  Wrong(s, word) = Wrong(t, word)
BY DEF Wrong

LEMMA SameCode ==
  ASSUME NEW s, NEW t, LastBits(s, CodeLen) = LastBits(t, CodeLen)
  PROVE  /\ CodeEnds(conf, s) <=> CodeEnds(conf, t)
         /\ Reversed(conf, s) = Reversed(conf, t)
<1>1. Wrong(s, conf.code) = Wrong(t, conf.code)
  BY SameWrong DEF CodeLen
<1>2. Matches(conf, s, conf.code) <=> Matches(conf, t, conf.code)
  BY <1>1 DEF Matches
<1>3. MatchesInverted(conf, s, conf.code) <=> MatchesInverted(conf, t, conf.code)
  BY <1>1 DEF MatchesInverted
<1> QED  BY <1>2, <1>3, Zenon DEF CodeEnds, Reversed

LEMMA SameTail ==
  ASSUME NEW s, NEW t, NEW reversed, LastBits(s, Len(conf.tail)) = LastBits(t, Len(conf.tail))
  PROVE  TailEnds(conf, s, reversed) <=> TailEnds(conf, t, reversed)
<1>1. Wrong(s, conf.tail) = Wrong(t, conf.tail)
  BY SameWrong
<1>2. Matches(conf, s, conf.tail) <=> Matches(conf, t, conf.tail)
  BY <1>1 DEF Matches
<1>3. MatchesInverted(conf, s, conf.tail) <=> MatchesInverted(conf, t, conf.tail)
  BY <1>1 DEF MatchesInverted
<1> QED  BY <1>2, <1>3, Zenon DEF TailEnds

-----------------------------------------------------------------------------
(* The windows of a stream that grows                                      *)

CodeAt(s, at) == Windows!CodeAt(s, at)

(* The code that starts after `at' bits: is it inverted?                   *)
ReversedAt(s, at) == Reversed(conf, Windows!Prefix(s, at + CodeLen))

LEMMA PrefixOfAppend ==
  ASSUME NEW s \in Seq(Bit), NEW bit \in Bit, NEW end \in 0..Len(s)
  PROVE  Windows!Prefix(Append(s, bit), end) = Windows!Prefix(s, end)
<1> DEFINE t == Append(s, bit)
<1>1. Len(s) \in Nat
  BY LenProperties
<1>2. t \in Seq(Bit) /\ Len(t) = Len(s) + 1 /\ \A i \in 1..Len(s) : t[i] = s[i]
  BY AppendProperties
<1> HIDE DEF t
<1> DEFINE x == SubSeq(t, 1, end)
           y == SubSeq(s, 1, end)
<1>3. \A i \in 1..end : s[i] \in Bit /\ t[i] \in Bit /\ t[i] = s[i]
  BY <1>1, <1>2, ElementOfSeq
<1>4. 1 \in Int /\ end \in Int
  BY <1>1
<1>5. /\ x \in Seq(Bit) /\ Len(x) = IF 1 <= end THEN end - 1 + 1 ELSE 0
      /\ \A i \in 1..(end - 1 + 1) : x[i] = t[1 + i - 1]
  BY <1>3, <1>4, SubSeqProperties
<1>6. /\ y \in Seq(Bit) /\ Len(y) = IF 1 <= end THEN end - 1 + 1 ELSE 0
      /\ \A i \in 1..(end - 1 + 1) : y[i] = s[1 + i - 1]
  BY <1>3, <1>4, SubSeqProperties
<1> HIDE DEF x, y
<1>7. Len(x) = end /\ Len(y) = end /\ end \in Nat
  BY <1>1, <1>5, <1>6
<1>8. \A i \in 1..end : x[i] = y[i]
  BY <1>3, <1>5, <1>6, <1>7
<1>9. x = y
  BY <1>5, <1>6, <1>7, <1>8, SeqEqual
<1> QED  BY <1>9 DEF x, y, t, Windows!Prefix

(* What has been said of a window stays true as more bits come.            *)
LEMMA CodeAtAppend ==
  ASSUME conf \in Configs, NEW s \in Seq(Bit), NEW bit \in Bit, NEW at \in Nat,
         at + CodeLen <= Len(s)
  PROVE  /\ CodeAt(Append(s, bit), at) <=> CodeAt(s, at)
         /\ ReversedAt(Append(s, bit), at) = ReversedAt(s, at)
<1>1. CodeLen \in Nat /\ Len(s) \in Nat /\ Len(Append(s, bit)) = Len(s) + 1
  BY ConfTypes, LenProperties, AppendProperties DEF CodeLen
<1>2. at + CodeLen \in 0..Len(s) /\ at + CodeLen <= Len(Append(s, bit))
  BY <1>1
<1>3. Windows!Prefix(Append(s, bit), at + CodeLen) = Windows!Prefix(s, at + CodeLen)
  BY <1>2, PrefixOfAppend
<1> QED  BY <1>2, <1>3 DEF CodeAt, Windows!CodeAt, ReversedAt, CodeLen

(* A code that ends with the last bit received.                            *)
LEMMA CodeAtEnd ==
  ASSUME conf \in Configs, NEW s \in Seq(Bit), CodeLen <= Len(s)
  PROVE  /\ CodeAt(s, Len(s) - CodeLen) <=> CodeEnds(conf, s)
         /\ ReversedAt(s, Len(s) - CodeLen) = Reversed(conf, s)
<1>1. CodeLen \in Nat /\ Len(s) \in Nat
  BY ConfTypes, LenProperties DEF CodeLen
<1>2. (Len(s) - CodeLen) + CodeLen = Len(s) /\ Len(s) <= Len(s)
  BY <1>1
<1>3. Windows!Prefix(s, Len(s)) = s
  BY SubSeqFull DEF Windows!Prefix
<1> QED  BY <1>2, <1>3 DEF CodeAt, Windows!CodeAt, ReversedAt, CodeLen

-----------------------------------------------------------------------------
(* The invariant: what the members say of the stream                       *)

(* The register ends with the bits received.                               *)
Registered(reg, s) == \A k \in 0..RegLen : k <= Len(s) => LastBits(reg, k) = LastBits(s, k)

(* Each pending burst is a window that starts with a code, with its own    *)
(* inversion flag, and with reset no code started after it up to `last'.   *)
PendingAreWindows(counts, reversed, s, last) ==
  \A i \in 1..Len(counts) :
    /\ counts[i] <= Len(s)
    /\ CodeAt(s, Len(s) - counts[i])
    /\ reversed[i] = ReversedAt(s, Len(s) - counts[i])
    /\ conf.readmode = Reset =>
         \A later \in (Len(s) - counts[i] + 1)..last : ~CodeAt(s, later)

(* Out of strict mode, each window that starts with a code and is neither  *)
(* complete nor discarded is pending.                                      *)
WindowsArePending(counts, s, last) ==
  conf.readmode # Strict /\ conf.burst_len > CodeLen =>
    \A at \in 0..last :
      /\ CodeAt(s, at)
      /\ Len(s) < at + conf.burst_len
      /\ conf.readmode = Reset => \A later \in (at + 1)..last : ~CodeAt(s, later)
      => \E i \in 1..Len(counts) : counts[i] = Len(s) - at

(* The buffer holds the oldest burst.                                      *)
Buffered(counts, output, s) ==
  output = (IF counts = <<>> THEN <<>> ELSE LastBits(s, counts[1]))

NreadInv ==
  /\ d_nread <= Len(stream)
  /\ conf.readmode # Strict => d_nread = Len(stream)
  /\ conf.readmode = Strict /\ d_burst_vector # <<>> => CodeLen <= d_nread

RInv ==
  /\ IInv
  /\ Registered(d_data_reg, stream)
  /\ NreadInv
  /\ PendingAreWindows(d_burst_vector, d_reversed_vector, stream, Len(stream) - CodeLen - 1)
  /\ WindowsArePending(d_burst_vector, stream, Len(stream) - CodeLen - 1)
  /\ Buffered(d_burst_vector, d_output, stream)

-----------------------------------------------------------------------------
(* The lists of bursts after the search for a code                         *)

LEMMA Sizes ==
  ASSUME IInv
  PROVE  /\ conf \in Configs /\ stream \in Seq(Bit) /\ Len(stream) \in Nat
         /\ CodeLen \in Nat /\ conf.burst_len \in Nat /\ CodeLen <= conf.burst_len
         /\ RegLen \in Nat \ {0} /\ CodeLen <= RegLen
         /\ d_data_reg \in Seq(Bit) /\ Len(d_data_reg) = RegLen /\ d_nread \in Nat
<1>1. Typed
  BY DEF IInv
<1> QED  BY <1>1, ConfTypes, ConfigsAssumption, LenProperties DEF Typed, CodeLen

(* Out of strict mode every bit is searched for a code that ends with it.  *)
LEMMA AlwaysSearching ==
  ASSUME RInv, conf.readmode # Strict
  PROVE  Searching <=> CodeLen <= Len(stream)
<1>1. d_lock \in BOOLEAN /\ ~d_lock
  BY DEF RInv, IInv, Locked
<1>2. d_nread = Len(stream)
  BY DEF RInv, NreadInv
<1>3. Len(stream) \in Nat /\ CodeLen \in Nat
  BY Sizes DEF RInv
<1>4. d_nread >= Len(conf.code) <=> CodeLen <= Len(stream)
  BY <1>2, <1>3 DEF CodeLen
<1> QED  BY <1>1, <1>4, Zenon DEF Searching

LEMMA FoundMeans ==
  ASSUME RInv, Searching
  PROVE  /\ CodeLen <= Len(stream)
         /\ Found <=> CodeAt(stream, Len(stream) - CodeLen)
         /\ Reversed(conf, d_data_reg) = ReversedAt(stream, Len(stream) - CodeLen)
         /\ LastBits(d_data_reg, CodeLen) = LastBits(stream, CodeLen)
<1>1. /\ conf \in Configs /\ stream \in Seq(Bit) /\ Len(stream) \in Nat
      /\ CodeLen \in 0..RegLen /\ d_nread \in Nat
  BY Sizes DEF RInv
<1>2. CodeLen <= Len(stream)
  <2>1. d_nread >= CodeLen /\ d_nread <= Len(stream)
    BY DEF Searching, RInv, NreadInv, CodeLen
  <2> QED  BY <1>1, <2>1
<1>3. LastBits(d_data_reg, CodeLen) = LastBits(stream, CodeLen)
  BY <1>1, <1>2 DEF RInv, Registered
<1>4. /\ CodeEnds(conf, d_data_reg) <=> CodeEnds(conf, stream)
      /\ Reversed(conf, d_data_reg) = Reversed(conf, stream)
  BY <1>3, SameCode
<1>5. Found <=> CodeEnds(conf, d_data_reg)
  BY DEF Found
<1> QED  BY <1>1, <1>2, <1>3, <1>4, <1>5, CodeAtEnd

(* What an opened burst adds to the lists.                                 *)
LEMMA OpenedAre ==
  ASSUME RInv, Found
  PROVE  \E counts \in Seq(Nat), reversed \in Seq(BOOLEAN) :
           /\ \/ Dumped /\ counts = <<>>
              \/ ~Dumped /\ counts = d_burst_vector /\ reversed = d_reversed_vector
           /\ Len(reversed) = Len(counts) /\ Len(counts) \in Nat
           /\ Len(OpenedCounts) = Len(counts) + 1
           /\ OpenedCounts[Len(counts) + 1] = CodeLen
           /\ OpenedReversed[Len(counts) + 1] = ReversedAt(stream, Len(stream) - CodeLen)
           /\ \A i \in 1..Len(counts) : /\ OpenedCounts[i] = counts[i]
                                        /\ OpenedReversed[i] = reversed[i]
           /\ counts = <<>> => OpenedOutput = LastBits(stream, CodeLen)
           /\ counts # <<>> => OpenedOutput = d_output
<1> DEFINE c == Counts
           r == IF Dumped THEN <<>> ELSE d_reversed_vector
           o == IF Dumped THEN <<>> ELSE d_output
           rev == Reversed(conf, d_data_reg)
           bits == LastBits(d_data_reg, CodeLen)
<1>1. CodeLen \in Nat /\ Searching /\ rev \in BOOLEAN
  BY Sizes DEF RInv, Found, Reversed
<1>2. rev = ReversedAt(stream, Len(stream) - CodeLen) /\ bits = LastBits(stream, CodeLen)
  BY <1>1, FoundMeans
<1>3. bits \in Seq(Bit)
  BY CodeBits DEF RInv, IInv, CodeLen
<1>4. /\ OpenedCounts = Append(c, CodeLen) /\ OpenedReversed = Append(r, rev)
      /\ OpenedOutput = o \o (IF c = <<>> THEN bits ELSE <<>>)
  BY DEF OpenedCounts, OpenedReversed, OpenedOutput, CodeLen
<1>5. /\ c \in Seq(Nat) /\ r \in Seq(BOOLEAN) /\ o \in Seq(Bit) /\ Len(r) = Len(c)
      /\ c = <<>> => o = <<>>
      /\ \/ Dumped /\ c = <<>>
         \/ ~Dumped /\ c = d_burst_vector /\ r = d_reversed_vector /\ o = d_output
  <2>1. CASE Dumped
    <3>1. c = <<>> /\ r = <<>> /\ o = <<>>
      BY <2>1 DEF Counts
    <3> QED  BY <2>1, <3>1, EmptySeq
  <2>2. CASE ~Dumped
    <3>1. c = d_burst_vector /\ r = d_reversed_vector /\ o = d_output
      BY <2>2 DEF Counts
    <3> QED  BY <2>2, <3>1 DEF RInv, IInv, Shaped
  <2> QED  BY <2>1, <2>2
<1> HIDE DEF c, r, o, rev, bits
<1>6. Len(c) \in Nat
  BY <1>5, LenProperties
<1>7. /\ Len(OpenedCounts) = Len(c) + 1 /\ OpenedCounts[Len(c) + 1] = CodeLen
      /\ \A i \in 1..Len(c) : OpenedCounts[i] = c[i]
  BY <1>1, <1>4, <1>5, AppendProperties
<1>8. /\ OpenedReversed[Len(c) + 1] = rev
      /\ \A i \in 1..Len(c) : OpenedReversed[i] = r[i]
  BY <1>1, <1>4, <1>5, AppendProperties
<1>9. CASE c = <<>>
  <2>1. OpenedOutput = bits
    BY <1>3, <1>4, <1>5, <1>9, ConcatEmptySeq
  <2> QED  BY <1>2, <1>5, <1>6, <1>7, <1>8, <1>9, <2>1
<1>10. CASE c # <<>>
  <2>1. OpenedOutput = o /\ o = d_output
    BY <1>4, <1>5, <1>10, ConcatEmptySeq
  <2> QED  BY <1>2, <1>5, <1>6, <1>7, <1>8, <1>10, <2>1
<1> QED  BY <1>9, <1>10

LEMMA OpenedMeans ==
  ASSUME RInv
  PROVE  /\ PendingAreWindows(OpenedCounts, OpenedReversed, stream, Len(stream) - CodeLen)
         /\ WindowsArePending(OpenedCounts, stream, Len(stream) - CodeLen)
         /\ Buffered(OpenedCounts, OpenedOutput, stream)
<1> DEFINE S == Len(stream)
           old == d_burst_vector
<1>1. S \in Nat /\ CodeLen \in Nat /\ conf.burst_len \in Nat /\ old \in Seq(Nat)
  BY Sizes DEF RInv, IInv, Typed
<1>2. /\ PendingAreWindows(old, d_reversed_vector, stream, S - CodeLen - 1)
      /\ WindowsArePending(old, stream, S - CodeLen - 1)
      /\ Buffered(old, d_output, stream)
  BY DEF RInv
<1>3. CASE ~Found
  <2>1. /\ OpenedCounts = old /\ OpenedReversed = d_reversed_vector
        /\ OpenedOutput = d_output
    BY <1>3 DEF OpenedCounts, OpenedReversed, OpenedOutput
  <2>2. conf.readmode # Strict /\ CodeLen <= S => ~CodeAt(stream, S - CodeLen)
    BY <1>3, AlwaysSearching, FoundMeans
  <2> HIDE DEF S, old
  <2>3. PendingAreWindows(old, d_reversed_vector, stream, S - CodeLen)
    <3> SUFFICES ASSUME NEW i \in 1..Len(old), conf.readmode = Reset,
                        NEW later \in (S - old[i] + 1)..(S - CodeLen)
                 PROVE  ~CodeAt(stream, later)
      BY <1>2 DEF PendingAreWindows, S
    <3>1. old[i] \in Nat /\ old[i] <= S
      BY <1>1, <1>2, ElementOfSeq DEF PendingAreWindows, S
    <3>2. CASE later = S - CodeLen
      <4>1. CodeLen <= S
        BY <1>1, <3>1, <3>2
      <4> QED  BY <2>2, <3>2, <4>1 DEF Strict, Reset
    <3>3. CASE later # S - CodeLen
      <4>1. later \in (S - old[i] + 1)..(S - CodeLen - 1)
        BY <1>1, <3>1, <3>3
      <4> QED  BY <1>2, <4>1 DEF PendingAreWindows, S
    <3> QED  BY <3>2, <3>3
  <2>4. WindowsArePending(old, stream, S - CodeLen)
    <3> SUFFICES ASSUME conf.readmode # Strict, conf.burst_len > CodeLen,
                        NEW at \in 0..(S - CodeLen), CodeAt(stream, at), S < at + conf.burst_len,
                        conf.readmode = Reset =>
                          \A later \in (at + 1)..(S - CodeLen) : ~CodeAt(stream, later)
                 PROVE  \E i \in 1..Len(old) : old[i] = S - at
      BY DEF WindowsArePending, S
    <3>1. CodeLen <= S
      BY <1>1
    <3>2. at # S - CodeLen
      BY <2>2, <3>1
    <3>3. at \in 0..(S - CodeLen - 1)
      BY <1>1, <3>2
    <3>4. \A later \in (at + 1)..(S - CodeLen - 1) : later \in (at + 1)..(S - CodeLen)
      BY <1>1
    <3> QED  BY <1>2, <3>3, <3>4 DEF WindowsArePending, S
  <2> QED  BY <1>2, <2>1, <2>3, <2>4 DEF S, old
<1>4. CASE Found
  <2>1. Searching
    BY <1>4 DEF Found
  <2>2. CodeLen <= S /\ CodeAt(stream, S - CodeLen)
    BY <1>4, <2>1, FoundMeans
  <2>3. PICK c \in Seq(Nat), r \in Seq(BOOLEAN) :
          /\ \/ Dumped /\ c = <<>>
             \/ ~Dumped /\ c = d_burst_vector /\ r = d_reversed_vector
          /\ Len(r) = Len(c) /\ Len(c) \in Nat
          /\ Len(OpenedCounts) = Len(c) + 1
          /\ OpenedCounts[Len(c) + 1] = CodeLen
          /\ OpenedReversed[Len(c) + 1] = ReversedAt(stream, Len(stream) - CodeLen)
          /\ \A i \in 1..Len(c) : OpenedCounts[i] = c[i] /\ OpenedReversed[i] = r[i]
          /\ c = <<>> => OpenedOutput = LastBits(stream, CodeLen)
          /\ c # <<>> => OpenedOutput = d_output
    BY <1>4, OpenedAre
  <2>4. ~Dumped => conf.readmode # Reset
    BY <1>4 DEF Dumped
  <2>5. Dumped => Len(c) = 0
    BY <2>3, EmptySeq
  <2> DEFINE oc == OpenedCounts
             or == OpenedReversed
  <2> HIDE DEF S, old, oc, or
  <2>6. PendingAreWindows(oc, or, stream, S - CodeLen)
    <3> SUFFICES ASSUME NEW i \in 1..Len(oc)
                 PROVE  /\ oc[i] <= S /\ CodeAt(stream, S - oc[i])
                        /\ or[i] = ReversedAt(stream, S - oc[i])
                        /\ conf.readmode = Reset =>
                             \A later \in (S - oc[i] + 1)..(S - CodeLen) : ~CodeAt(stream, later)
      BY DEF PendingAreWindows, S
    <3>1. CASE i = Len(c) + 1
      <4>1. oc[i] = CodeLen /\ or[i] = ReversedAt(stream, S - CodeLen)
        BY <2>3, <3>1 DEF oc, or, S
      <4>2. (S - CodeLen + 1)..(S - CodeLen) = {}
        BY <1>1
      <4> QED  BY <2>2, <4>1, <4>2
    <3>2. CASE i # Len(c) + 1
      <4>1. i \in 1..Len(c)
        BY <2>3, <3>2 DEF oc
      <4>2. ~Dumped
        BY <2>5, <4>1
      <4>3. c = old /\ r = d_reversed_vector
        BY <2>3, <4>2 DEF old
      <4>4. oc[i] = old[i] /\ or[i] = d_reversed_vector[i]
        BY <2>3, <4>1, <4>3 DEF oc, or
      <4> QED  BY <1>2, <2>4, <4>1, <4>2, <4>3, <4>4 DEF PendingAreWindows, S
    <3> QED  BY <3>1, <3>2
  <2>7. WindowsArePending(oc, stream, S - CodeLen)
    <3> SUFFICES ASSUME conf.readmode # Strict, conf.burst_len > CodeLen,
                        NEW at \in 0..(S - CodeLen), CodeAt(stream, at), S < at + conf.burst_len,
                        conf.readmode = Reset =>
                          \A later \in (at + 1)..(S - CodeLen) : ~CodeAt(stream, later)
                 PROVE  \E i \in 1..Len(oc) : oc[i] = S - at
      BY DEF WindowsArePending, S
    <3>1. CASE at = S - CodeLen
      <4>1. Len(c) + 1 \in 1..Len(oc) /\ oc[Len(c) + 1] = CodeLen /\ S - at = CodeLen
        BY <1>1, <2>3, <3>1 DEF oc
      <4> QED  BY <4>1
    <3>2. CASE at # S - CodeLen
      <4>1. S - CodeLen \in (at + 1)..(S - CodeLen) /\ at \in 0..(S - CodeLen - 1)
        BY <1>1, <3>2
      <4>2. conf.readmode # Reset
        BY <2>2, <4>1
      <4>3. c = old
        BY <2>3, <4>2 DEF Dumped, old
      <4>4. \E i \in 1..Len(old) : old[i] = S - at
        BY <1>2, <4>1, <4>2 DEF WindowsArePending, S
      <4>5. \A i \in 1..Len(old) : i \in 1..Len(oc) /\ oc[i] = old[i]
        BY <2>3, <4>3 DEF oc
      <4> QED  BY <4>4, <4>5
    <3> QED  BY <3>1, <3>2
  <2>8. Buffered(oc, OpenedOutput, stream)
    <3>1. oc # <<>>
      <4>1. Len(oc) # 0
        BY <2>3 DEF oc
      <4> QED  BY <4>1, EmptySeq, Zenon
    <3>2. CASE c = <<>>
      <4>1. Len(c) = 0
        BY <3>2, EmptySeq
      <4>2. oc[1] = CodeLen
        BY <2>3, <4>1 DEF oc
      <4> QED  BY <2>3, <3>1, <3>2, <4>2 DEF Buffered
    <3>3. CASE c # <<>>
      <4>1. 1 \in 1..Len(c)
        BY <3>3, EmptySeq
      <4>2. oc[1] = c[1] /\ c = old
        BY <2>3, <3>3, <4>1 DEF oc, old
      <4>3. d_output = LastBits(stream, old[1])
        BY <1>2, <3>3, <4>2 DEF Buffered
      <4> QED  BY <2>3, <3>1, <3>3, <4>2, <4>3 DEF Buffered
    <3> QED  BY <3>2, <3>3
  <2> QED  BY <2>6, <2>7, <2>8 DEF oc, or, S
<1> QED  BY <1>3, <1>4

-----------------------------------------------------------------------------
(* The lists of bursts after the next bit                                  *)

LEMMA GrownAre ==
  ASSUME IInv
  PROVE  /\ OpenedCounts \in Seq(Nat) /\ GrownCounts \in Seq(Nat)
         /\ Len(GrownCounts) = Len(OpenedCounts) /\ Len(OpenedCounts) \in Nat
         /\ Len(OpenedReversed) = Len(OpenedCounts) /\ OpenedReversed \in Seq(BOOLEAN)
         /\ \A i \in 1..Len(OpenedCounts) :
              /\ OpenedCounts[i] \in Nat /\ CodeLen <= OpenedCounts[i]
              /\ GrownCounts[i] = OpenedCounts[i] + 1
<1> DEFINE oc == OpenedCounts
           g == GrownCounts
<1>1. Shaped(oc, OpenedReversed, OpenedOutput, CodeLen)
  BY OpenedShape DEF CodeLen
<1>2. oc \in Seq(Nat) /\ Len(oc) \in Nat /\ DOMAIN oc = 1..Len(oc)
      /\ \A i \in 1..Len(oc) : oc[i] \in Nat
  BY <1>1, LenProperties, ElementOfSeq DEF Shaped
<1>3. g = [i \in 1..Len(oc) |-> oc[i] + 1]
  BY <1>2 DEF GrownCounts
<1> HIDE DEF oc, g
<1>4. g \in [1..Len(oc) -> Nat] /\ \A i \in 1..Len(oc) : g[i] = oc[i] + 1
  BY <1>2, <1>3
<1>5. g \in Seq(Nat)
  BY <1>2, <1>4, SeqDef
<1>6. Len(g) = Len(oc)
  BY <1>2, <1>4, <1>5, LenProperties
<1> QED  BY <1>1, <1>2, <1>4, <1>5, <1>6 DEF Shaped, oc, g

LEMMA GrownMeans ==
  ASSUME RInv, NEW bit \in Bit
  PROVE  /\ PendingAreWindows(GrownCounts, OpenedReversed, Append(stream, bit),
                              Len(stream) - CodeLen)
         /\ WindowsArePending(GrownCounts, Append(stream, bit), Len(stream) - CodeLen)
         /\ Len(OpenedCounts) # 0 =>
              Append(OpenedOutput, bit) = LastBits(Append(stream, bit), GrownCounts[1])
<1> DEFINE S == Len(stream)
           s == Append(stream, bit)
           oc == OpenedCounts
           g == GrownCounts
<1>1. conf \in Configs /\ stream \in Seq(Bit) /\ S \in Nat /\ CodeLen \in Nat /\ conf.burst_len \in Nat
  BY Sizes DEF RInv
<1>2. Len(s) = S + 1
  BY <1>1, AppendProperties
<1>3. /\ oc \in Seq(Nat) /\ Len(g) = Len(oc) /\ Len(oc) \in Nat
      /\ \A i \in 1..Len(oc) : oc[i] \in Nat /\ CodeLen <= oc[i] /\ g[i] = oc[i] + 1
  BY GrownAre DEF RInv
<1>4. /\ PendingAreWindows(oc, OpenedReversed, stream, S - CodeLen)
      /\ WindowsArePending(oc, stream, S - CodeLen)
      /\ Buffered(oc, OpenedOutput, stream)
  BY OpenedMeans
<1>5. \A at \in 0..(S - CodeLen) :
        (CodeAt(s, at) <=> CodeAt(stream, at)) /\ ReversedAt(s, at) = ReversedAt(stream, at)
  <2> TAKE at \in 0..(S - CodeLen)
  <2>1. at \in Nat /\ at + CodeLen <= S
    BY <1>1
  <2> QED  BY <1>1, <2>1, CodeAtAppend
<1> HIDE DEF S, s, oc, g
<1>6. PendingAreWindows(g, OpenedReversed, s, S - CodeLen)
  <2> SUFFICES ASSUME NEW i \in 1..Len(g)
               PROVE  /\ g[i] <= Len(s) /\ CodeAt(s, Len(s) - g[i])
                      /\ OpenedReversed[i] = ReversedAt(s, Len(s) - g[i])
                      /\ conf.readmode = Reset =>
                           \A later \in (Len(s) - g[i] + 1)..(S - CodeLen) : ~CodeAt(s, later)
    BY DEF PendingAreWindows
  <2>1. oc[i] \in Nat /\ CodeLen <= oc[i] /\ g[i] = oc[i] + 1
    BY <1>3
  <2>2. /\ oc[i] <= S /\ CodeAt(stream, S - oc[i])
        /\ OpenedReversed[i] = ReversedAt(stream, S - oc[i])
        /\ conf.readmode = Reset =>
             \A later \in (S - oc[i] + 1)..(S - CodeLen) : ~CodeAt(stream, later)
    BY <1>3, <1>4 DEF PendingAreWindows, S
  <2>3. Len(s) - g[i] = S - oc[i] /\ g[i] <= Len(s) /\ S - oc[i] \in 0..(S - CodeLen)
    BY <1>1, <1>2, <2>1, <2>2
  <2>4. \A later \in (S - oc[i] + 1)..(S - CodeLen) : later \in 0..(S - CodeLen)
    BY <1>1, <2>1, <2>2
  <2>5. CodeAt(s, S - oc[i]) /\ OpenedReversed[i] = ReversedAt(s, S - oc[i])
    BY <1>5, <2>2, <2>3
  <2>6. conf.readmode = Reset =>
          \A later \in (S - oc[i] + 1)..(S - CodeLen) : ~CodeAt(s, later)
    BY <1>5, <2>2, <2>4
  <2> QED  BY <2>3, <2>5, <2>6
<1>7. WindowsArePending(g, s, S - CodeLen)
  <2> SUFFICES ASSUME conf.readmode # Strict, conf.burst_len > CodeLen,
                      NEW at \in 0..(S - CodeLen), CodeAt(s, at), Len(s) < at + conf.burst_len,
                      conf.readmode = Reset =>
                        \A later \in (at + 1)..(S - CodeLen) : ~CodeAt(s, later)
               PROVE  \E i \in 1..Len(g) : g[i] = Len(s) - at
    BY DEF WindowsArePending
  <2>1. CodeAt(stream, at) /\ S < at + conf.burst_len
    BY <1>1, <1>2, <1>5
  <2>2. \A later \in (at + 1)..(S - CodeLen) : later \in 0..(S - CodeLen)
    BY <1>1
  <2>3. conf.readmode = Reset =>
          \A later \in (at + 1)..(S - CodeLen) : ~CodeAt(stream, later)
    BY <1>5, <2>2
  <2>4. \E i \in 1..Len(oc) : oc[i] = S - at
    BY <1>4, <2>1, <2>3 DEF WindowsArePending, S
  <2> QED  BY <1>1, <1>2, <1>3, <2>4
<1>8. Len(oc) # 0 => Append(OpenedOutput, bit) = LastBits(s, g[1])
  <2> SUFFICES ASSUME Len(oc) # 0  PROVE Append(OpenedOutput, bit) = LastBits(s, g[1])
    OBVIOUS
  <2>1. 1 \in 1..Len(oc) /\ oc # <<>>
    BY <1>3, EmptySeq
  <2>2. g[1] = oc[1] + 1 /\ oc[1] \in 0..S
    BY <1>1, <1>3, <1>4, <2>1 DEF PendingAreWindows, S
  <2>3. OpenedOutput = LastBits(stream, oc[1])
    BY <1>4, <2>1 DEF Buffered
  <2> QED  BY <1>1, <2>2, <2>3, LastBitsOfAppend DEF S, s
<1> QED  BY <1>6, <1>7, <1>8 DEF S, s, g, oc

LEMMA PoppedMeans ==
  ASSUME RInv, NEW bit \in Bit, LastBit(bit)
  PROVE  /\ PendingAreWindows(d_burst_vector', d_reversed_vector', Append(stream, bit),
                              Len(stream) - CodeLen)
         /\ WindowsArePending(d_burst_vector', Append(stream, bit), Len(stream) - CodeLen)
         /\ Buffered(d_burst_vector', d_output', Append(stream, bit))
<1> DEFINE S == Len(stream)
           s == Append(stream, bit)
           g == GrownCounts
           rev == OpenedReversed
           out == Append(OpenedOutput, bit)
           len == conf.burst_len
           tg == Tail(g)
           tr == Tail(rev)
<1>1. conf \in Configs /\ stream \in Seq(Bit) /\ S \in Nat /\ CodeLen \in Nat /\ len \in Nat
  BY Sizes DEF RInv
<1>2. s \in Seq(Bit) /\ Len(s) = S + 1
  BY <1>1, AppendProperties
<1>3. OpenedCounts # <<>> /\ OpenedCounts[1] + 1 = len /\ PopBurst(out)
  BY DEF LastBit
<1>4. /\ Shaped(g, rev, out, CodeLen + 1) /\ Len(g) \in Nat \ {0} /\ g[1] = len
      /\ Len(g) = Len(OpenedCounts)
  BY <1>3, GrownShape DEF RInv, CodeLen
<1>5. /\ PendingAreWindows(g, rev, s, S - CodeLen)
      /\ WindowsArePending(g, s, S - CodeLen)
      /\ out = LastBits(s, len)
  BY <1>4, GrownMeans
<1>6. /\ d_burst_vector' = tg /\ d_reversed_vector' = tr
      /\ d_output' = IF Len(g) = 1 THEN <<>> ELSE SubSeq(out, len - g[2] + 1, Len(out))
  BY <1>3 DEF PopBurst
<1> HIDE DEF S, s, g, rev, out, len, tg, tr
<1>7. g \in Seq(Nat) /\ rev \in Seq(BOOLEAN) /\ Len(rev) = Len(g) /\ Len(out) = len
      /\ \A i \in 1..Len(g) : g[i] \in Nat /\ CodeLen + 1 <= g[i] /\ \A j \in 1..(i - 1) : g[i] < g[j]
  <2>1. g \in Seq(Nat) /\ rev \in Seq(BOOLEAN) /\ Len(rev) = Len(g) /\ g # <<>>
    BY <1>4, EmptySeq DEF Shaped
  <2>2. Len(out) = len
    BY <1>4, <2>1 DEF Shaped
  <2> QED  BY <1>4, <2>1, <2>2, ElementOfSeq DEF Shaped
<1>8. g # <<>> /\ rev # <<>>
  <2>1. Len(g) # 0 /\ Len(rev) # 0
    BY <1>4, <1>7
  <2> QED  BY <2>1, EmptySeq, Zenon
<1>9. /\ tg \in Seq(Nat) /\ Len(tg) = Len(g) - 1 /\ \A i \in 1..Len(tg) : tg[i] = g[i + 1]
      /\ Len(tr) = Len(g) - 1 /\ \A i \in 1..Len(tr) : tr[i] = rev[i + 1]
  BY <1>7, <1>8, HeadTailProperties DEF tg, tr
<1>10. PendingAreWindows(tg, tr, s, S - CodeLen)
  <2>1. \A i \in 1..Len(tg) : i + 1 \in 1..Len(g) /\ tg[i] = g[i + 1] /\ tr[i] = rev[i + 1]
    BY <1>4, <1>9
  <2> QED  BY <1>5, <2>1 DEF PendingAreWindows
<1>11. WindowsArePending(tg, s, S - CodeLen)
  <2> SUFFICES ASSUME conf.readmode # Strict, conf.burst_len > CodeLen,
                      NEW at \in 0..(S - CodeLen), CodeAt(s, at), Len(s) < at + conf.burst_len,
                      conf.readmode = Reset =>
                        \A later \in (at + 1)..(S - CodeLen) : ~CodeAt(s, later)
               PROVE  \E i \in 1..Len(tg) : tg[i] = Len(s) - at
    BY DEF WindowsArePending
  <2>1. PICK i \in 1..Len(g) : g[i] = Len(s) - at
    BY <1>5 DEF WindowsArePending
  <2>2. i # 1
    BY <1>1, <1>2, <1>4, <2>1 DEF len
  <2>3. i - 1 \in 1..Len(tg) /\ (i - 1) + 1 = i
    BY <1>4, <1>9, <2>2
  <2>4. tg[i - 1] = Len(s) - at
    BY <1>9, <2>1, <2>3
  <2> QED  BY <2>3, <2>4
<1>12. Buffered(tg, d_output', s)
  <2>1. CASE Len(g) = 1
    <3>1. Len(tg) = 0
      BY <1>9, <2>1
    <3>2. tg = <<>>
      BY <1>9, <3>1, EmptySeq
    <3> QED  BY <1>6, <2>1, <3>2 DEF Buffered
  <2>2. CASE Len(g) # 1
    <3>1. 1 \in 1..Len(tg) /\ 2 \in 1..Len(g) /\ 1 \in 1..(2 - 1)
      BY <1>4, <1>9, <2>2
    <3>2. tg # <<>> /\ tg[1] = g[2]
      BY <1>9, <3>1, EmptySeq
    <3>3. g[2] \in Nat /\ g[2] < len
      BY <1>4, <1>7, <3>1
    <3>4. d_output' = LastBits(out, g[2])
      BY <1>6, <1>7, <2>2 DEF LastBits
    <3>5. len <= Len(s)
      BY <1>4, <1>5 DEF PendingAreWindows
    <3>6. len \in 0..Len(s) /\ g[2] \in 0..len
      BY <1>1, <1>2, <3>3, <3>5
    <3>7. LastBits(out, g[2]) = LastBits(s, g[2])
      BY <1>2, <1>5, <3>6, LastBitsOfLastBits
    <3> QED  BY <3>2, <3>4, <3>7 DEF Buffered
  <2> QED  BY <2>1, <2>2
<1> QED  BY <1>6, <1>10, <1>11, <1>12 DEF S, s

-----------------------------------------------------------------------------
(* The invariant holds                                                     *)

LEMMA RegisterStep ==
  ASSUME RInv, NEW bit \in Bit, Shift(bit)
  PROVE  Registered(d_data_reg', stream')
<1> DEFINE reg == Tail(d_data_reg)
<1>1. /\ stream \in Seq(Bit) /\ Len(stream) \in Nat /\ RegLen \in Nat \ {0}
      /\ d_data_reg \in Seq(Bit) /\ Len(d_data_reg) = RegLen
  BY Sizes DEF RInv
<1>2. stream' = Append(stream, bit) /\ d_data_reg' = Append(reg, bit)
  BY DEF Shift
<1>3. Len(stream') = Len(stream) + 1
  BY <1>1, <1>2, AppendProperties
<1>4. d_data_reg # <<>>
  <2>1. Len(d_data_reg) # 0
    BY <1>1
  <2> QED  BY <2>1, EmptySeq, Zenon
<1>5. reg \in Seq(Bit) /\ Len(reg) = RegLen - 1
  BY <1>1, <1>4, HeadTailProperties
<1>6. \A k \in 0..(RegLen - 1) : LastBits(reg, k) = LastBits(d_data_reg, k)
  BY <1>1, <1>4, LastBitsOfTail
<1> HIDE DEF reg
<1> SUFFICES ASSUME NEW k \in 0..RegLen, k <= Len(stream')
             PROVE  LastBits(d_data_reg', k) = LastBits(stream', k)
  BY DEF Registered
<1>7. CASE k = 0
  <2>1. \A m \in Int : SubSeq(d_data_reg', m - 0 + 1, m) = <<>> /\ SubSeq(stream', m - 0 + 1, m) = <<>>
    BY SubSeqEmpty
  <2>2. Len(d_data_reg') \in Int /\ Len(stream') \in Int
    BY <1>1, <1>2, <1>3, <1>5, AppendProperties
  <2> QED  BY <1>7, <2>1, <2>2 DEF LastBits
<1>8. CASE k # 0
  <2>1. k - 1 \in 0..(RegLen - 1) /\ k - 1 \in 0..RegLen /\ k - 1 <= Len(stream)
        /\ (k - 1) + 1 = k /\ k - 1 \in 0..Len(reg) /\ k - 1 \in 0..Len(stream)
    BY <1>1, <1>3, <1>5, <1>8
  <2>2. LastBits(d_data_reg', k) = Append(LastBits(reg, k - 1), bit)
    BY <1>2, <1>5, <2>1, LastBitsOfAppend
  <2>3. LastBits(stream', k) = Append(LastBits(stream, k - 1), bit)
    BY <1>1, <1>2, <2>1, LastBitsOfAppend
  <2>4. LastBits(reg, k - 1) = LastBits(stream, k - 1)
    BY <1>6, <2>1 DEF RInv, Registered
  <2> QED  BY <2>2, <2>3, <2>4
<1> QED  BY <1>7, <1>8

(* The counter of bits read.                                               *)
LEMMA NreadStep ==
  ASSUME RInv, NEW bit \in Bit, ReadIdle(bit) \/ ReadBurst(bit) \/ PublishBurst(bit) \/ RejectBurst(bit)
  PROVE  NreadInv'
<1> DEFINE S == Len(stream)
<1>1. S \in Nat /\ CodeLen \in Nat /\ d_nread \in Nat /\ stream \in Seq(Bit) /\ d_nread <= S
  BY Sizes DEF RInv, NreadInv
<1>2. Shift(bit)
  BY DEF ReadIdle, ReadBurst, PublishBurst, RejectBurst, LastBit
<1>3. conf' = conf /\ stream' = Append(stream, bit)
  BY <1>2 DEF Shift
<1>4. Len(stream') = S + 1 /\ CodeLen' = CodeLen
  BY <1>1, <1>3, AppendProperties DEF CodeLen
<1>5. d_nread' = d_nread + 1 \/ (d_nread' = 0 /\ OpenedLock /\ PublishBurst(bit))
  BY DEF ReadIdle, ReadBurst, PublishBurst, RejectBurst
<1>6. OpenedLock => conf.readmode = Strict
  BY OpenedShape DEF RInv, Locked
<1>7. conf.readmode # Strict => d_nread' = Len(stream')
  <2>1. conf.readmode # Strict => d_nread' = d_nread + 1 /\ d_nread = S
    BY <1>5, <1>6 DEF RInv, NreadInv
  <2> QED  BY <1>4, <2>1
<1>8. d_nread' <= Len(stream')
  BY <1>1, <1>4, <1>5
<1>9. conf.readmode = Strict /\ d_burst_vector' # <<>> => CodeLen <= d_nread'
  <2> SUFFICES ASSUME conf.readmode = Strict, d_burst_vector' # <<>>
               PROVE  CodeLen <= d_nread'
    OBVIOUS
  <2>1. ~LastBit(bit)
    BY PoppedShape DEF RInv
  <2>2. ReadIdle(bit) \/ ReadBurst(bit)
    BY <2>1 DEF PublishBurst, RejectBurst
  <2>3. d_nread' = d_nread + 1
    BY <2>2 DEF ReadIdle, ReadBurst
  <2>4. Found => d_nread >= CodeLen
    BY DEF Found, Searching, CodeLen
  <2>5. ~Found => d_burst_vector # <<>>
    BY <2>2 DEF ReadIdle, ReadBurst, pending, OpenedCounts
  <2>6. CodeLen <= d_nread
    BY <1>1, <2>4, <2>5 DEF RInv, NreadInv
  <2> QED  BY <1>1, <2>3, <2>6
<1> QED  BY <1>3, <1>4, <1>7, <1>8, <1>9 DEF NreadInv

LEMMA InitRInv == Init => RInv
<1> SUFFICES ASSUME Init
             PROVE  RInv
  OBVIOUS
<1>1. IInv
  BY InitInv
<1>2. /\ stream = <<>> /\ d_nread = 0 /\ d_burst_vector = <<>> /\ d_output = <<>>
      /\ Len(<<>>) = 0 /\ CodeLen \in Nat /\ RegLen \in Nat /\ Len(d_data_reg) = RegLen
  BY <1>1, Sizes, EmptySeq DEF Init
<1>3. Registered(d_data_reg, stream)
  <2> SUFFICES ASSUME NEW k \in 0..RegLen, k <= Len(stream)
               PROVE  LastBits(d_data_reg, k) = LastBits(stream, k)
    BY DEF Registered
  <2>1. k = 0
    BY <1>2
  <2>2. \A m \in Int : SubSeq(d_data_reg, m - 0 + 1, m) = <<>> /\ SubSeq(stream, m - 0 + 1, m) = <<>>
    BY SubSeqEmpty
  <2> QED  BY <1>2, <2>1, <2>2 DEF LastBits
<1>4. NreadInv
  BY <1>2 DEF NreadInv
<1>5. PendingAreWindows(d_burst_vector, d_reversed_vector, stream, Len(stream) - CodeLen - 1)
  BY <1>2 DEF PendingAreWindows
<1>6. WindowsArePending(d_burst_vector, stream, Len(stream) - CodeLen - 1)
  <2>1. 0..(Len(stream) - CodeLen - 1) = {}
    BY <1>2
  <2> QED  BY <2>1 DEF WindowsArePending
<1>7. Buffered(d_burst_vector, d_output, stream)
  BY <1>2 DEF Buffered
<1> QED  BY <1>1, <1>3, <1>4, <1>5, <1>6, <1>7 DEF RInv

LEMMA StepRInv == RInv /\ [Next]_vars => RInv'
<1> SUFFICES ASSUME RInv, [Next]_vars
             PROVE  RInv'
  OBVIOUS
<1>1. IInv'
  BY StepInv DEF RInv
<1>2. ASSUME NEW bit \in Bit, Shift(bit),
             PendingAreWindows(d_burst_vector', d_reversed_vector', Append(stream, bit),
                               Len(stream) - CodeLen),
             WindowsArePending(d_burst_vector', Append(stream, bit), Len(stream) - CodeLen),
             Buffered(d_burst_vector', d_output', Append(stream, bit)),
             NreadInv'
      PROVE  RInv'
  <2>1. conf' = conf /\ stream' = Append(stream, bit)
    BY <1>2 DEF Shift
  <2>2. stream \in Seq(Bit) /\ Len(stream) \in Nat /\ CodeLen \in Nat
    BY Sizes DEF RInv
  <2>3. CodeLen' = CodeLen /\ Len(stream') = Len(stream) + 1
    BY <2>1, <2>2, AppendProperties DEF CodeLen
  <2>4. Len(stream') - CodeLen' - 1 = Len(stream) - CodeLen
    BY <2>2, <2>3
  <2>6. PendingAreWindows(d_burst_vector, d_reversed_vector, stream, Len(stream) - CodeLen - 1)'
    BY <1>2, <2>1, <2>4 DEF PendingAreWindows, CodeAt, ReversedAt, CodeLen, Windows!CodeAt, Windows!Prefix
  <2>7. WindowsArePending(d_burst_vector, stream, Len(stream) - CodeLen - 1)'
    BY <1>2, <2>1, <2>4 DEF WindowsArePending, CodeAt, CodeLen, Windows!CodeAt, Windows!Prefix
  <2>8. Buffered(d_burst_vector, d_output, stream)'
    BY <1>2, <2>1 DEF Buffered
  <2>9. Registered(d_data_reg, stream)'
    BY <1>2, RegisterStep DEF Registered
  <2> QED  BY <1>1, <1>2, <2>6, <2>7, <2>8, <2>9 DEF RInv
<1>3. ASSUME NEW bit \in Bit, ReadIdle(bit)
      PROVE  RInv'
  <2>1. /\ Shift(bit) /\ OpenedCounts = <<>>
        /\ d_burst_vector' = d_burst_vector /\ d_reversed_vector' = d_reversed_vector
        /\ d_output' = d_output
    BY <1>3 DEF ReadIdle, pending
  <2>2. ~Found
    <3>1. Found => Len(OpenedCounts) # 0
      BY OpenedAre
    <3> QED  BY <2>1, <3>1, EmptySeq
  <2>3. d_burst_vector = <<>> /\ OpenedOutput = d_output /\ OpenedReversed = d_reversed_vector
    BY <2>1, <2>2 DEF OpenedCounts, OpenedOutput, OpenedReversed
  <2>4. GrownCounts = <<>>
    <3>1. GrownCounts \in Seq(Nat) /\ Len(GrownCounts) = 0
      BY <2>1, GrownAre, EmptySeq DEF RInv
    <3> QED  BY <3>1, EmptySeq
  <2>5. /\ PendingAreWindows(d_burst_vector', d_reversed_vector', Append(stream, bit),
                             Len(stream) - CodeLen)
        /\ WindowsArePending(d_burst_vector', Append(stream, bit), Len(stream) - CodeLen)
    BY <2>1, <2>3, <2>4, GrownMeans
  <2>6. Buffered(d_burst_vector', d_output', Append(stream, bit))
    BY <2>1, <2>3 DEF RInv, Buffered
  <2> QED  BY <1>2, <1>3, <2>1, <2>5, <2>6, NreadStep
<1>4. ASSUME NEW bit \in Bit, ReadBurst(bit)
      PROVE  RInv'
  <2>1. /\ Shift(bit) /\ OpenedCounts # <<>>
        /\ d_burst_vector' = GrownCounts /\ d_reversed_vector' = OpenedReversed
        /\ d_output' = Append(OpenedOutput, bit)
    BY <1>4 DEF ReadBurst
  <2>2. Len(OpenedCounts) # 0 /\ GrownCounts # <<>>
    BY <2>1, GrownAre, EmptySeq DEF RInv
  <2>3. Buffered(d_burst_vector', d_output', Append(stream, bit))
    BY <2>1, <2>2, GrownMeans DEF Buffered
  <2> QED  BY <1>2, <1>4, <2>1, <2>3, GrownMeans, NreadStep
<1>5. ASSUME NEW bit \in Bit, PublishBurst(bit) \/ RejectBurst(bit)
      PROVE  RInv'
  <2>1. LastBit(bit)
    BY <1>5 DEF PublishBurst, RejectBurst
  <2>2. Shift(bit)
    BY <2>1 DEF LastBit
  <2> QED  BY <1>2, <1>5, <2>1, <2>2, PoppedMeans, NreadStep
<1>6. CASE UNCHANGED vars
  <2>1. /\ conf' = conf /\ stream' = stream /\ d_data_reg' = d_data_reg /\ d_nread' = d_nread
        /\ d_burst_vector' = d_burst_vector /\ d_reversed_vector' = d_reversed_vector
        /\ d_output' = d_output
    BY <1>6 DEF vars, register, pending
  <2> QED  BY <1>1, <2>1 DEF RInv, Registered, NreadInv, PendingAreWindows, WindowsArePending,
                             Buffered, CodeAt, ReversedAt, CodeLen, Windows!CodeAt, Windows!Prefix
<1> QED  BY <1>3, <1>4, <1>5, <1>6 DEF Next

LEMMA RInvariance == Spec => []RInv
BY InitRInv, StepRInv, PTL DEF Spec

-----------------------------------------------------------------------------
(* The members of access_code_to_pdu_impl keep their types, and no pending *)
(* burst counts a bit that was not received, whatever the register starts  *)
(* with.                                                                   *)
THEOREM TypeCorrect == Spec => []TypeOK
<1>1. RInv => TypeOK
  <2> SUFFICES ASSUME RInv  PROVE TypeOK
    OBVIOUS
  <2>1. Typed /\ d_nread \in Nat /\ Len(stream) \in Nat /\ d_nread <= Len(stream)
    BY Sizes DEF RInv, IInv, NreadInv
  <2>2. d_burst_vector \in Seq(Nat) /\ Len(d_burst_vector) \in Nat
        /\ DOMAIN d_burst_vector = 1..Len(d_burst_vector)
    BY <2>1, LenProperties DEF Typed
  <2>3. ASSUME NEW i \in 1..Len(d_burst_vector)
        PROVE  d_burst_vector[i] \in 0..Len(stream)
    <3>1. d_burst_vector[i] \in Nat
      BY <2>2, <2>3, ElementOfSeq
    <3>2. d_burst_vector[i] <= Len(stream)
      BY <2>3 DEF RInv, PendingAreWindows
    <3> QED  BY <2>1, <3>1, <3>2
  <2>4. d_burst_vector \in [1..Len(d_burst_vector) -> 0..Len(stream)]
    <3>1. d_burst_vector = [i \in 1..Len(d_burst_vector) |-> d_burst_vector[i]]
      BY <2>2, LenProperties
    <3> QED  BY <2>3, <3>1
  <2>5. d_burst_vector \in Seq(0..Len(stream))
    BY <2>2, <2>4, SeqDef
  <2> QED  BY <2>1, <2>5 DEF Typed, TypeOK
<1> QED  BY RInvariance, <1>1, PTL

-----------------------------------------------------------------------------
(* The buffer that overlapping bursts share holds the bits of the oldest   *)
(* one, all of them and no other, whatever was cut off it before.          *)
THEOREM OldestBurstKept == Spec => []OutputIsOldestBurst
<1>1. RInv => OutputIsOldestBurst
  BY DEF RInv, Buffered, OutputIsOldestBurst
<1> QED  BY RInvariance, <1>1, PTL

-----------------------------------------------------------------------------
(* The oldest burst ends exactly when a selected window does               *)

(* Strict mode: the pending burst is the candidate.                        *)
LEMMA StrictOpened ==
  ASSUME RInv, conf.readmode = Strict
  PROVE  /\ Candidate \in 0..Len(stream)
         /\ Len(OpenedCounts) # 0 <=> CodeAt(stream, Candidate)
         /\ Len(OpenedCounts) # 0 => OpenedCounts[1] = Len(stream) - Candidate
<1> DEFINE S == Len(stream)
           c == d_burst_vector
<1>1. S \in Nat /\ CodeLen \in Nat /\ d_nread \in Nat /\ d_nread <= S
  BY Sizes DEF RInv, NreadInv
<1>2. c \in Seq(Nat)
  BY DEF RInv, IInv, Typed
<1>3. CodeAt(stream, Candidate) => Candidate + CodeLen <= S
  BY DEF CodeAt, Windows!CodeAt, CodeLen
<1>4. CASE c # <<>>
  <2>1. ~Searching
    BY <1>4 DEF Searching, RInv, IInv, Locked
  <2>2. OpenedCounts = c
    BY <2>1 DEF OpenedCounts, Found
  <2>3. Candidate = S - c[1]
    BY <1>4 DEF Candidate
  <2>4. 1 \in 1..Len(c) /\ Len(c) # 0
    BY <1>2, <1>4, EmptySeq
  <2>5. c[1] \in Nat /\ c[1] <= S /\ CodeAt(stream, S - c[1])
    BY <1>2, <2>4, ElementOfSeq DEF RInv, PendingAreWindows
  <2> HIDE DEF S, c
  <2> QED  BY <1>1, <2>2, <2>3, <2>4, <2>5 DEF S
<1>5. CASE c = <<>> /\ d_nread < CodeLen
  <2>1. ~Searching
    BY <1>1, <1>5 DEF Searching, CodeLen
  <2>2. OpenedCounts = <<>> /\ Len(<<>>) = 0
    BY <1>5, <2>1, EmptySeq DEF OpenedCounts, Found
  <2>3. Candidate = S - d_nread
    BY <1>5 DEF Candidate, CodeLen
  <2>4. Candidate \in 0..S /\ ~(Candidate + CodeLen <= S)
    BY <1>1, <1>5, <2>3
  <2> QED  BY <1>3, <2>2, <2>4
<1>6. CASE c = <<>> /\ ~(d_nread < CodeLen)
  <2>1. Searching
    <3>1. d_nread >= CodeLen
      BY <1>1, <1>6
    <3> QED  BY <1>6, <3>1, Zenon DEF Searching, CodeLen
  <2>2. Candidate = S - CodeLen
    BY <1>6 DEF Candidate, CodeLen
  <2>3. CodeLen <= S /\ (Found <=> CodeAt(stream, S - CodeLen))
    BY <2>1, FoundMeans
  <2>4. Candidate \in 0..S /\ S - Candidate = CodeLen
    BY <1>1, <2>2, <2>3
  <2>5. ~Found => OpenedCounts = <<>>
    BY <1>6 DEF OpenedCounts
  <2>6. Found => Len(OpenedCounts) # 0 /\ OpenedCounts[1] = CodeLen
    <3>1. SUFFICES ASSUME Found PROVE Len(OpenedCounts) # 0 /\ OpenedCounts[1] = CodeLen
      OBVIOUS
    <3>2. ~Dumped
      BY DEF Dumped, Strict, Reset
    <3>3. Len(OpenedCounts) = Len(c) + 1 /\ OpenedCounts[Len(c) + 1] = CodeLen
      BY <3>1, <3>2, OpenedAre
    <3>4. Len(c) = 0
      BY <1>6, EmptySeq
    <3> QED  BY <3>3, <3>4
  <2>7. Len(<<>>) = 0
    BY EmptySeq
  <2> QED  BY <2>2, <2>3, <2>4, <2>5, <2>6, <2>7
<1> QED  BY <1>4, <1>5, <1>6

LEMMA SelectedIsOldest ==
  ASSUME RInv, NEW bit \in Bit
  PROVE  LET s  == Append(stream, bit)
             at == Len(s) - conf.burst_len
         IN  (at \in Nat /\ Windows!Selected(s, at)) <=>
               (Len(OpenedCounts) # 0 /\ OpenedCounts[1] + 1 = conf.burst_len)
<1> DEFINE S == Len(stream)
           s == Append(stream, bit)
           len == conf.burst_len
           at == Len(s) - len
           oc == OpenedCounts
<1>1. /\ conf \in Configs /\ stream \in Seq(Bit) /\ S \in Nat /\ CodeLen \in Nat
      /\ len \in Nat /\ CodeLen <= len
  BY Sizes DEF RInv
<1>2. Len(s) = S + 1
  BY <1>1, AppendProperties
<1>3. /\ oc \in Seq(Nat) /\ Len(oc) \in Nat
      /\ \A i \in 1..Len(oc) : oc[i] \in Nat /\ CodeLen <= oc[i]
  BY GrownAre DEF RInv
<1>4. /\ PendingAreWindows(oc, OpenedReversed, stream, S - CodeLen)
      /\ WindowsArePending(oc, stream, S - CodeLen)
  BY OpenedMeans
<1>5. ASSUME NEW a \in Nat, a + CodeLen <= S
      PROVE  CodeAt(s, a) <=> CodeAt(stream, a)
  BY <1>1, <1>5, CodeAtAppend
<1>6. \A i \in 1..Len(oc) : \A j \in 1..(i - 1) : oc[i] < oc[j]
  BY OpenedShape DEF RInv, Shaped
<1>7. Windows!Selected(s, at) <=>
        /\ CodeAt(s, at) /\ len > CodeLen
        /\ conf.readmode = Reset =>
             \A later \in (at + 1)..(at + len - 1 - CodeLen) : ~CodeAt(s, later)
        /\ conf.readmode = Strict => at = Candidate
  BY DEF Windows!Selected, CodeAt, CodeLen
<1>8. len > CodeLen => \A i \in 1..Len(oc) : oc[i] < len
  BY OpenedShape DEF RInv, Incomplete, CodeLen
<1>9. conf.readmode = Strict => /\ Candidate \in 0..S
                                /\ Len(oc) # 0 <=> CodeAt(stream, Candidate)
                                /\ Len(oc) # 0 => oc[1] = S - Candidate
  BY StrictOpened
<1> HIDE DEF S, s, len, oc
<1>10. ASSUME Len(oc) # 0, oc[1] + 1 = len
       PROVE  at \in Nat /\ Windows!Selected(s, at)
  <2>1. /\ 1 \in 1..Len(oc) /\ oc[1] \in Nat /\ CodeLen <= oc[1] /\ oc[1] <= S
        /\ CodeAt(stream, S - oc[1])
        /\ conf.readmode = Reset =>
             \A later \in (S - oc[1] + 1)..(S - CodeLen) : ~CodeAt(stream, later)
    BY <1>3, <1>4, <1>10 DEF PendingAreWindows, S
  <2>2. /\ at = S - oc[1] /\ at \in Nat /\ at + CodeLen <= S /\ len > CodeLen
        /\ at + len - 1 - CodeLen = S - CodeLen
    BY <1>1, <1>2, <1>10, <2>1
  <2> HIDE DEF at
  <2>3. CodeAt(s, at)
    BY <1>5, <2>1, <2>2
  <2>4. conf.readmode = Reset => \A later \in (at + 1)..(S - CodeLen) : ~CodeAt(s, later)
    <3> SUFFICES ASSUME conf.readmode = Reset, NEW later \in (at + 1)..(S - CodeLen)
                 PROVE  ~CodeAt(s, later)
      OBVIOUS
    <3>1. later \in Nat /\ later + CodeLen <= S
      BY <1>1, <2>2
    <3> QED  BY <1>5, <2>1, <2>2, <3>1
  <2>5. conf.readmode = Strict => at = Candidate
    BY <1>1, <1>9, <1>10, <2>2
  <2> QED  BY <1>7, <2>2, <2>3, <2>4, <2>5
<1>11. ASSUME at \in Nat, Windows!Selected(s, at)
       PROVE  Len(oc) # 0 /\ oc[1] + 1 = len
  <2>1. /\ CodeAt(s, at) /\ len > CodeLen
        /\ conf.readmode = Reset =>
             \A later \in (at + 1)..(at + len - 1 - CodeLen) : ~CodeAt(s, later)
        /\ conf.readmode = Strict => at = Candidate
    BY <1>7, <1>11
  <2>2. /\ at + CodeLen <= S /\ at \in 0..(S - CodeLen) /\ S < at + len /\ S - at + 1 = len
        /\ at + len - 1 - CodeLen = S - CodeLen
    BY <1>1, <1>2, <1>11, <2>1
  <2> HIDE DEF at
  <2>3. CodeAt(stream, at)
    BY <1>5, <1>11, <2>1, <2>2
  <2>4. CASE conf.readmode = Strict
    BY <1>9, <2>1, <2>2, <2>3, <2>4
  <2>5. CASE conf.readmode # Strict
    <3>1. conf.readmode = Reset =>
            \A later \in (at + 1)..(S - CodeLen) : ~CodeAt(stream, later)
      <4> SUFFICES ASSUME conf.readmode = Reset, NEW later \in (at + 1)..(S - CodeLen)
                   PROVE  ~CodeAt(stream, later)
        OBVIOUS
      <4>1. later \in Nat /\ later + CodeLen <= S
        BY <1>1, <1>11
      <4> QED  BY <1>5, <2>1, <2>2, <4>1
    <3>2. PICK i \in 1..Len(oc) : oc[i] = S - at
      BY <1>4, <2>1, <2>2, <2>3, <2>5, <3>1 DEF WindowsArePending, S, len
    <3>3. 1 \in 1..Len(oc) /\ oc[1] \in Nat /\ oc[1] < len
      BY <1>3, <1>8, <2>1, <3>2
    <3>4. i # 1 => oc[i] < oc[1]
      BY <1>3, <1>6, <3>3
    <3>5. oc[1] + 1 = len
      BY <1>1, <1>3, <1>11, <2>2, <3>2, <3>3, <3>4
    <3> QED  BY <3>3, <3>5
  <2> QED  BY <2>4, <2>5
<1> QED  BY <1>10, <1>11 DEF s, len, oc

(* A PDU is published exactly when the promise accepts the window, and it  *)
(* is the PDU of that window.                                              *)
Accepted(s) ==
  LET at == Len(s) - conf.burst_len
  IN  /\ at \in Nat
      /\ Windows!Selected(s, at)
      /\ TailEnds(conf, s, ReversedAt(s, at))

LEMMA LastBitMeans ==
  ASSUME RInv, NEW bit \in Bit, LastBit(bit)
  PROVE  /\ Accepted(stream') <=> TailEnds(conf, d_data_reg', OpenedReversed[1])
         /\ Message(Append(OpenedOutput, bit)) = Windows!Pdu(stream', Len(stream') - conf.burst_len)
<1> DEFINE S == Len(stream)
           s == stream'
           len == conf.burst_len
           at == Len(s) - len
           tail == Len(conf.tail)
           rev == OpenedReversed[1]
<1>1. /\ conf \in Configs /\ stream \in Seq(Bit) /\ S \in Nat /\ CodeLen \in Nat
      /\ len \in Nat /\ CodeLen <= len
  BY Sizes DEF RInv
<1>2. Shift(bit) /\ OpenedCounts # <<>> /\ OpenedCounts[1] + 1 = len
  BY DEF LastBit
<1>3. s = Append(stream, bit) /\ Len(s) = S + 1
  BY <1>1, <1>2, AppendProperties DEF Shift
<1>4. Len(OpenedCounts) # 0 /\ Len(OpenedCounts) \in Nat
  BY <1>2, GrownAre, EmptySeq DEF RInv
<1>5. at \in Nat /\ Windows!Selected(s, at)
  BY <1>2, <1>3, <1>4, SelectedIsOldest
<1>6. /\ 1 \in 1..Len(GrownCounts) /\ GrownCounts[1] = len
      /\ Append(OpenedOutput, bit) = LastBits(s, len)
      /\ PendingAreWindows(GrownCounts, OpenedReversed, s, S - CodeLen)
  BY <1>2, <1>3, <1>4, GrownMeans, GrownShape DEF RInv
<1>7. rev = ReversedAt(s, at)
  BY <1>6 DEF PendingAreWindows
<1>8. tail \in 0..RegLen /\ tail <= Len(s)
  <2>1. conf \in Confs /\ Constructible(conf) /\ tail <= RegLen
    BY <1>1, ConfigsAssumption
  <2>2. tail \in Nat
    BY <2>1, LenProperties DEF Confs
  <2>3. CodeLen + tail <= len
    BY <2>1 DEF Constructible, CodeLen
  <2>4. RegLen \in Nat
    BY ConfigsAssumption
  <2> HIDE DEF tail, len
  <2> QED  BY <1>1, <1>3, <1>5, <2>1, <2>2, <2>3, <2>4
<1>9. TailEnds(conf, d_data_reg', rev) <=> TailEnds(conf, s, rev)
  <2>1. LastBits(d_data_reg', tail) = LastBits(s, tail)
    BY <1>2, <1>8, RegisterStep DEF Registered
  <2> QED  BY <2>1, SameTail
<1>10. Accepted(s) <=> TailEnds(conf, s, rev)
  BY <1>5, <1>7 DEF Accepted
<1>11. Message(Append(OpenedOutput, bit)) = Windows!Pdu(s, at)
  <2>1. Append(OpenedOutput, bit) = Windows!Suffix(s, len)
    BY <1>6 DEF Windows!Suffix, LastBits
  <2>2. Len(stream) + 1 - conf.burst_len = at
    BY <1>1, <1>3
  <2>3. rev = Reversed(conf, Windows!Prefix(s, at + Len(conf.code)))
    BY <1>7 DEF ReversedAt, CodeLen
  <2> HIDE DEF at, rev
  <2>4. Message(Append(OpenedOutput, bit)) =
          [bit_index |-> at, bit_reversed |-> rev, data |-> Payload(conf, Windows!Suffix(s, len), rev)]
    BY <2>1, <2>2 DEF Message, rev
  <2> QED  BY <2>3, <2>4, Zenon DEF Windows!Pdu
<1> QED  BY <1>9, <1>10, <1>11

LEMMA NotLastBit ==
  ASSUME RInv, NEW bit \in Bit, ReadIdle(bit) \/ ReadBurst(bit)
  PROVE  ~Accepted(stream')
<1>1. stream' = Append(stream, bit) /\ OpenedCounts \in Seq(Nat)
  BY GrownAre DEF ReadIdle, ReadBurst, Shift, RInv
<1>2. Len(OpenedCounts) = 0 \/ OpenedCounts[1] + 1 # conf.burst_len
  BY EmptySeq DEF ReadIdle, ReadBurst
<1> QED  BY <1>1, <1>2, SelectedIsOldest DEF Accepted

-----------------------------------------------------------------------------
(* Steps map to steps                                                      *)

LEMMA CandidateStep ==
  ASSUME RInv, NEW bit \in Bit, ReadIdle(bit) \/ ReadBurst(bit) \/ PublishBurst(bit) \/ RejectBurst(bit)
  PROVE  Candidate' = Windows!NextCandidate(stream', PublishBurst(bit))
<1> DEFINE S == Len(stream)
           s == stream'
           c == d_burst_vector
           oc == OpenedCounts
           len == conf.burst_len
<1>1. /\ conf \in Configs /\ stream \in Seq(Bit) /\ S \in Nat /\ CodeLen \in Nat
      /\ len \in Nat /\ CodeLen <= len /\ d_nread \in Nat /\ d_nread <= S
  BY Sizes DEF RInv, NreadInv
<1>2. Shift(bit)
  BY DEF ReadIdle, ReadBurst, PublishBurst, RejectBurst, LastBit
<1>3. conf' = conf /\ s = Append(stream, bit)
  BY <1>2 DEF Shift
<1>4. Len(s) = S + 1 /\ CodeLen' = CodeLen
  BY <1>1, <1>3, AppendProperties DEF CodeLen
<1>5. CASE conf.readmode # Strict
  BY <1>3, <1>5 DEF Candidate, Windows!NextCandidate
<1>6. CASE conf.readmode = Strict
  <2>1. /\ Candidate \in 0..S
        /\ Len(oc) # 0 <=> CodeAt(stream, Candidate)
        /\ Len(oc) # 0 => oc[1] = S - Candidate
    BY <1>6, StrictOpened
  <2>2. oc \in Seq(Nat) /\ Len(<<>>) = 0 /\ (oc = <<>> <=> Len(oc) = 0)
    BY GrownAre, EmptySeq DEF RInv
  <2>3. CodeAt(stream, Candidate) => Candidate + CodeLen <= S
    BY DEF CodeAt, Windows!CodeAt, CodeLen
  <2>4. Candidate' = (IF d_burst_vector' # <<>> THEN (S + 1) - d_burst_vector'[1]
                      ELSE IF d_nread' < CodeLen THEN (S + 1) - d_nread'
                      ELSE (S + 1) - CodeLen)
    BY <1>3, <1>4, <1>6 DEF Candidate, CodeLen
  <2>5. \A accepted :
          Windows!NextCandidate(s, accepted) =
            IF S < Candidate + CodeLen THEN Candidate
            ELSE IF ~CodeAt(stream, Candidate) THEN Candidate + 1
            ELSE IF S + 1 # Candidate + len THEN Candidate
            ELSE IF accepted THEN S + 1 ELSE (S + 1) - CodeLen
    BY <1>4, <1>6 DEF Windows!NextCandidate, CodeAt, CodeLen
  <2>6. ASSUME Len(oc) # 0
        PROVE  CodeLen <= d_nread /\ OpenedLock
    <3>1. CASE Found
      <4>1. Searching /\ d_nread >= CodeLen
        BY <3>1 DEF Found, Searching, CodeLen
      <4>2. OpenedLock
        BY <1>6, <3>1, <4>1 DEF OpenedLock
      <4> QED  BY <1>1, <4>1, <4>2
    <3>2. CASE ~Found
      <4>1. oc = c /\ c # <<>>
        BY <2>2, <2>6, <3>2 DEF OpenedCounts
      <4>2. d_lock /\ CodeLen <= d_nread
        BY <1>6, <4>1 DEF RInv, NreadInv, IInv, Locked
      <4>3. ~Searching
        BY <4>1, <4>2 DEF Searching
      <4> QED  BY <4>2, <4>3 DEF OpenedLock
    <3> QED  BY <3>1, <3>2
  <2>7. CASE ReadIdle(bit)
    <3>1. Len(oc) = 0 /\ d_nread' = d_nread + 1 /\ d_burst_vector' = c
      BY <2>2, <2>7 DEF ReadIdle, pending
    <3>2. c = <<>>
      <4>1. ~Found
        BY <3>1, OpenedAre
      <4> QED  BY <2>2, <3>1, <4>1 DEF OpenedCounts
    <3>3. Candidate = IF d_nread < CodeLen THEN S - d_nread ELSE S - CodeLen
      BY <1>6, <3>2 DEF Candidate, CodeLen
    <3>4. ~CodeAt(stream, Candidate)
      BY <2>1, <3>1
    <3>5. Candidate' = IF d_nread + 1 < CodeLen THEN (S + 1) - (d_nread + 1) ELSE (S + 1) - CodeLen
      BY <2>4, <3>1, <3>2
    <3>6. Windows!NextCandidate(s, PublishBurst(bit)) =
            IF S < Candidate + CodeLen THEN Candidate ELSE Candidate + 1
      BY <2>5, <3>4, Zenon
    <3>7. CodeLen <= S \/ d_nread < CodeLen
      BY <1>1
    <3> HIDE DEF S
    <3> QED  BY <1>1, <3>3, <3>5, <3>6, <3>7
  <2>8. CASE ReadBurst(bit)
    <3>1. Len(oc) # 0 /\ oc[1] + 1 # len /\ d_burst_vector' = GrownCounts
      BY <2>2, <2>8 DEF ReadBurst
    <3>2. /\ 1 \in 1..Len(oc) /\ GrownCounts[1] = oc[1] + 1 /\ GrownCounts # <<>>
          /\ oc[1] \in Nat
      BY <3>1, GrownAre, EmptySeq DEF RInv
    <3>3. Candidate' = (S + 1) - (oc[1] + 1)
      BY <2>4, <3>1, <3>2
    <3>4. oc[1] = S - Candidate /\ CodeAt(stream, Candidate) /\ Candidate + CodeLen <= S
      BY <2>1, <2>3, <3>1
    <3>5. S + 1 # Candidate + len /\ ~(S < Candidate + CodeLen)
      BY <1>1, <2>1, <3>1, <3>4
    <3>6. Windows!NextCandidate(s, PublishBurst(bit)) = Candidate
      BY <2>5, <3>4, <3>5, Zenon
    <3> QED  BY <1>1, <2>1, <3>3, <3>4, <3>6
  <2>9. CASE PublishBurst(bit) \/ RejectBurst(bit)
    <3>1. LastBit(bit)
      BY <2>9 DEF PublishBurst, RejectBurst
    <3>2. Len(oc) # 0 /\ oc[1] + 1 = len /\ d_burst_vector' = <<>>
      BY <1>6, <2>2, <3>1, PoppedShape DEF LastBit, RInv
    <3>3. oc[1] = S - Candidate /\ CodeAt(stream, Candidate) /\ Candidate + CodeLen <= S
      BY <2>1, <2>3, <3>2
    <3>4. S + 1 = Candidate + len /\ ~(S < Candidate + CodeLen)
      BY <1>1, <2>1, <3>2, <3>3
    <3>5. \A accepted :
            Windows!NextCandidate(s, accepted) = IF accepted THEN S + 1 ELSE (S + 1) - CodeLen
      BY <2>5, <3>3, <3>4, Zenon
    <3>6. Candidate' = IF d_nread' < CodeLen THEN (S + 1) - d_nread' ELSE (S + 1) - CodeLen
      BY <2>4, <3>2
    <3>7. CASE PublishBurst(bit)
      <4>1. d_nread' = 0
        BY <2>6, <3>2, <3>7 DEF PublishBurst
      <4>2. Candidate' = S + 1
        BY <1>1, <3>6, <4>1
      <4> QED  BY <3>5, <3>7, <4>2
    <3>8. CASE ~PublishBurst(bit)
      <4>1. d_nread' = d_nread + 1 /\ CodeLen <= d_nread
        BY <2>6, <2>9, <3>2, <3>8 DEF RejectBurst
      <4>2. ~(d_nread' < CodeLen)
        BY <1>1, <4>1
      <4> QED  BY <3>5, <3>6, <3>8, <4>2
    <3> QED  BY <3>7, <3>8
  <2> QED  BY <2>7, <2>8, <2>9
<1> QED  BY <1>5, <1>6

LEMMA StepRefines == RInv /\ [Next]_vars => [Windows!Next]_Windows!vars
<1> SUFFICES ASSUME RInv, [Next]_vars
             PROVE  [Windows!Next]_Windows!vars
  OBVIOUS
<1>1. ASSUME NEW bit \in Bit,
             ReadIdle(bit) \/ ReadBurst(bit) \/ PublishBurst(bit) \/ RejectBurst(bit),
             Accepted(stream') <=> PublishBurst(bit),
             published' = IF PublishBurst(bit)
                          THEN Append(published, Windows!Pdu(stream', Len(stream') - conf.burst_len))
                          ELSE published
      PROVE  Windows!Read(bit)
  <2>1. Shift(bit)
    BY <1>1 DEF ReadIdle, ReadBurst, PublishBurst, RejectBurst, LastBit
  <2>2. Len(stream) < MaxBits /\ stream' = Append(stream, bit) /\ conf' = conf
    BY <2>1 DEF Shift
  <2>3. Candidate' = Windows!NextCandidate(stream', PublishBurst(bit))
    BY <1>1, CandidateStep
  <2> DEFINE at == Len(stream') - conf.burst_len
             accepted == /\ at \in Nat
                         /\ Windows!Selected(stream', at)
                         /\ TailEnds(conf, stream',
                                     Reversed(conf, Windows!Prefix(stream', at + Len(conf.code))))
  <2>4. Accepted(stream') <=> accepted
    BY DEF Accepted, ReversedAt, CodeLen
  <2>5. accepted <=> PublishBurst(bit)
    BY <1>1, <2>4
  <2> HIDE DEF accepted
  <2>6. Candidate' = Windows!NextCandidate(stream', accepted)
    BY <2>3, <2>5 DEF Windows!NextCandidate
  <2>7. published' = IF accepted THEN Append(published, Windows!Pdu(stream', at)) ELSE published
    BY <1>1, <2>5
  <2> QED  BY <2>2, <2>6, <2>7 DEF Windows!Read, accepted
<1>2. ASSUME NEW bit \in Bit, ReadIdle(bit) \/ ReadBurst(bit)
      PROVE  Windows!Next
  <2>1. ~Accepted(stream')
    BY <1>2, NotLastBit
  <2>2. published' = published
    BY <1>2 DEF ReadIdle, ReadBurst
  <2>3. ~PublishBurst(bit)
    BY <1>2 DEF ReadIdle, ReadBurst, PublishBurst, LastBit
  <2> QED  BY <1>1, <1>2, <2>1, <2>2, <2>3 DEF Windows!Next
<1>3. ASSUME NEW bit \in Bit, PublishBurst(bit)
      PROVE  Windows!Next
  <2>1. LastBit(bit) /\ TailEnds(conf, d_data_reg', OpenedReversed[1])
        /\ published' = Append(published, Message(Append(OpenedOutput, bit)))
    BY <1>3 DEF PublishBurst
  <2> QED  BY <1>1, <1>3, <2>1, LastBitMeans DEF Windows!Next
<1>4. ASSUME NEW bit \in Bit, RejectBurst(bit)
      PROVE  Windows!Next
  <2>1. LastBit(bit) /\ ~TailEnds(conf, d_data_reg', OpenedReversed[1]) /\ published' = published
    BY <1>4 DEF RejectBurst
  <2>2. ~PublishBurst(bit) /\ ~Accepted(stream')
    BY <2>1, LastBitMeans DEF PublishBurst
  <2> QED  BY <1>1, <1>4, <2>1, <2>2 DEF Windows!Next
<1>5. CASE UNCHANGED vars
  <2>1. UNCHANGED <<conf, stream, published, Candidate>>
    BY <1>5 DEF vars, register, pending, Candidate
  <2> QED  BY <2>1 DEF Windows!vars
<1> QED  BY <1>2, <1>3, <1>4, <1>5 DEF Next

LEMMA InitRefines == Init => Windows!Init
<1> SUFFICES ASSUME Init
             PROVE  Windows!Init
  OBVIOUS
<1>1. CodeLen \in Nat /\ d_nread = 0 /\ d_burst_vector = <<>> /\ stream = <<>> /\ Len(<<>>) = 0
  BY InitInv, Sizes, EmptySeq DEF Init
<1>2. Candidate = 0
  <2>1. CASE CodeLen = 0
    BY <1>1, <2>1 DEF Candidate, CodeLen
  <2>2. CASE CodeLen # 0
    <3>1. d_nread < CodeLen
      BY <1>1, <2>2
    <3> QED  BY <1>1, <3>1 DEF Candidate, CodeLen
  <2> QED  BY <2>1, <2>2
<1> QED  BY <1>2 DEF Init, Windows!Init

(* access_code_to_pdu publishes the windows of the stream that its promise *)
(* names, all of them, with their bits and in order, although it only      *)
(* keeps a register, a lock and the buffer that overlapping bursts share.  *)
THEOREM PublishesWindows == Spec => RefinesWindows
BY RInvariance, InitRefines, StepRefines, PTL DEF Spec, RefinesWindows, Windows!Spec
=============================================================================
