------------------------------ MODULE PduAlign ------------------------------
(***************************************************************************)
(* The pdu_align block: cuts a PDU off behind a syncword found in its bits *)
(* (lib/pdu_align_impl.cc).  A step is one turn of the loop over the bits. *)
(***************************************************************************)
EXTENDS Integers, Sequences, FiniteSets

Bit == {0, 1}
First == "ALIGN_FIRST_MATCH"
Best == "ALIGN_BEST_MATCH"
Drop == "ALIGN_DROP"
Forward == "ALIGN_FORWARD"
Empty == "ALIGN_EMPTY"

CONSTANTS
  Configs,          \* parameters of make()
  Lengths           \* lengths of the PDU

Confs == [syncwords : Seq(Seq(Bit)), d_threshold : Nat, d_offset : Int,
          d_mode : {Drop, Forward, Empty}, d_match_mode : {First, Best}]

AlignAssumption ==
  /\ Configs \subseteq Confs
  /\ \A c \in Configs : c.syncwords # <<>> /\ \A s \in DOMAIN c.syncwords : c.syncwords[s] # <<>>
  /\ Lengths \subseteq Nat

VARIABLES
  conf,
  data,             \* the bits of the PDU
  bit_idx,          \* bits gone through
  found, current_best, start_idx, look_ahead,
  outcome           \* Open, Cut at start_idx, or the mode

vars == <<conf, data, bit_idx, found, current_best, start_idx, look_ahead, outcome>>

Open == "open"
Cut == "cut"

Init ==
  /\ conf \in Configs
  /\ \E n \in Lengths : data \in [1..n -> Bit]
  /\ bit_idx = 0
  /\ found = FALSE /\ current_best = conf.d_threshold + 1
  /\ start_idx = 0 /\ look_ahead = Len(conf.syncwords[1]) \div 2
  /\ outcome = Open

(* Bits in which the syncword differs from the last ones up to bit number  *)
(* n; bits before the PDU are zeros.                                       *)
NWrong(s, n) ==
  LET w == conf.syncwords[s]
      bit(i) == LET at == n - Len(w) + i IN IF at < 1 THEN 0 ELSE data[at]
  IN  Cardinality({i \in 1..Len(w) : bit(i) # w[i]})

(* The syncwords are compared in turn; a match better than all before it   *)
(* takes over.  After an exact one, or any one in the first match mode,    *)
(* the turn ends.                                                          *)
State == [found |-> found, current_best |-> current_best, start_idx |-> start_idx,
          look_ahead |-> look_ahead, done |-> FALSE]

(* Mutant of Compare: a syncword may begin before the PDU.                 *)
CompareEarly(st, s) ==
  LET n == bit_idx + 1
      nwrong == NWrong(s, n)
  IN  IF st.done \/ nwrong > conf.d_threshold \/ nwrong >= st.current_best
      THEN st
      ELSE [found |-> TRUE, current_best |-> nwrong, start_idx |-> n + conf.d_offset,
            look_ahead |-> Len(conf.syncwords[s]) \div 2,
            done |-> conf.d_match_mode = First \/ nwrong = 0]

(* Mutant of Compare: a later match takes over although it is no better.   *)
CompareLater(st, s) ==
  LET n == bit_idx + 1
      nwrong == NWrong(s, n)
  IN  IF \/ st.done
         \/ nwrong > conf.d_threshold
         \/ bit_idx < Len(conf.syncwords[s]) - 1
      THEN st
      ELSE [found |-> TRUE, current_best |-> nwrong, start_idx |-> n + conf.d_offset,
            look_ahead |-> Len(conf.syncwords[s]) \div 2,
            done |-> conf.d_match_mode = First \/ nwrong = 0]

Compare(st, s) ==
  LET n == bit_idx + 1
      nwrong == NWrong(s, n)
  IN  IF \/ st.done
         \/ nwrong > conf.d_threshold
         \/ bit_idx < Len(conf.syncwords[s]) - 1
         \/ nwrong >= st.current_best
      THEN st
      ELSE [found |-> TRUE, current_best |-> nwrong, start_idx |-> n + conf.d_offset,
            look_ahead |-> Len(conf.syncwords[s]) \div 2,
            done |-> conf.d_match_mode = First \/ nwrong = 0]

Compared ==
  LET after[s \in 0..Len(conf.syncwords)] == IF s = 0 THEN State ELSE Compare(after[s - 1], s)
  IN  after[Len(conf.syncwords)]

(* In the best match mode the search ends half a syncword behind start_idx *)
(* (which has the offset in it).                                           *)
Decided(st) ==
  \/ st.done
  \/ conf.d_match_mode = Best /\ st.found /\ bit_idx > st.start_idx + st.look_ahead

TakeBit ==
  /\ outcome = Open /\ bit_idx < Len(data)
  /\ bit_idx' = bit_idx + 1
  /\ LET st == Compared
     IN  /\ found' = st.found /\ current_best' = st.current_best
         /\ start_idx' = st.start_idx /\ look_ahead' = st.look_ahead
         /\ outcome' = IF Decided(st) THEN Cut ELSE Open
  /\ UNCHANGED <<conf, data>>

(* Behind the last bit.                                                    *)
Conclude ==
  /\ outcome = Open /\ bit_idx = Len(data)
  /\ outcome' = IF found THEN Cut ELSE conf.d_mode
  /\ UNCHANGED <<conf, data, bit_idx, found, current_best, start_idx, look_ahead>>

Next == TakeBit \/ Conclude

Spec == Init /\ [][Next]_vars

-----------------------------------------------------------------------------
(* Properties                                                              *)

(* The ends of syncwords in the PDU, with the number of wrong bits.        *)
Matches ==
  {[end |-> n, word |-> s, nwrong |-> NWrong(s, n)] :
     n \in 1..Len(data), s \in 1..Len(conf.syncwords)}
Good ==
  {m \in Matches : m.nwrong <= conf.d_threshold /\ m.end >= Len(conf.syncwords[m.word])}

CutAt(m) == outcome = Cut /\ start_idx = m.end + conf.d_offset

(* The PDU is cut at a match if there is any, in the first match mode at   *)
(* the first one; otherwise the mode decides.                              *)
CutAtMatch ==
  outcome # Open =>
    IF Good = {} THEN outcome = conf.d_mode
    ELSE \E m \in Good :
           /\ CutAt(m)
           /\ conf.d_match_mode = First => \A o \in Good : m.end <= o.end

(* In the best match mode (and without an offset, which shifts the limit   *)
(* too): none of the matches that end within half a syncword of the one    *)
(* chosen is better, and an earlier one is worse.                          *)
BestNearby ==
  outcome # Open /\ conf.d_match_mode = Best /\ conf.d_offset = 0 /\ Good # {} =>
    \E m \in Good :
      /\ CutAt(m)
      /\ \A o \in Good :
           /\ o.end < m.end => o.nwrong > m.nwrong
           /\ o.end <= m.end + Len(conf.syncwords[m.word]) \div 2 => o.nwrong >= m.nwrong
=============================================================================
