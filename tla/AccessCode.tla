----------------------------- MODULE AccessCode -----------------------------
(***************************************************************************)
(* What access_code_to_pdu compares and publishes, as operators on words   *)
(* of bits (lib/access_code_to_pdu_impl.cc).  A code, a tail and a burst   *)
(* are sequences of bits, the first received bit first.                    *)
(***************************************************************************)
EXTENDS Naturals, Sequences, FiniteSets
LOCAL INSTANCE SequencesExt

Bit == {0, 1}

Strict == "READ_STRICT"
Permissive == "READ_PERMISSIVE"
Reset == "READ_RESET"

Keep == "SYNC_KEEP"
Discard == "SYNC_DISCARD"
Fix == "SYNC_FIX"

Confs == [code : Seq(Bit), tail : Seq(Bit), burst_len : Nat, threshold : Nat,
          syncmode : {Keep, Discard, Fix}, readmode : {Strict, Permissive, Reset}]

(* The constructor throws for anything else.                               *)
Constructible(c) ==
  /\ c.code = <<>> => c.readmode = Strict
  /\ Len(c.code) + Len(c.tail) <= c.burst_len

LastBits(s, n) == SubSeq(s, Len(s) - n + 1, Len(s))

Wrong(s, word) ==
  LET last == LastBits(s, Len(word))
  IN  Cardinality({i \in 1..Len(word) : last[i] # word[i]})

Matches(c, s, word) == Wrong(s, word) <= c.threshold

(* The length minus the threshold is unsigned: nothing reaches it once the *)
(* threshold is the greater.                                               *)
MatchesInverted(c, s, word) ==
  /\ c.threshold <= Len(word)
  /\ Wrong(s, word) >= Len(word) - c.threshold

(* Does a code end with s, and is it inverted?                             *)
CodeEnds(c, s) == Matches(c, s, c.code) \/ MatchesInverted(c, s, c.code)
Reversed(c, s) == ~Matches(c, s, c.code)

TailEnds(c, s, reversed) ==
  \/ c.tail = <<>>
  \/ ~reversed /\ Matches(c, s, c.tail)
  \/ reversed /\ MatchesInverted(c, s, c.tail)

Inverted(s) == [i \in DOMAIN s |-> 1 - s[i]]

(* The bytes that replace a syncword: its bits, but for a reversed burst   *)
(* the word shifted right, cut to a byte, with its lowest bit inverted.    *)
ByteOf(s) == FoldLeft(LAMBDA byte, bit : (2 * byte + bit) % 256, 0, s)
FixedWord(word, reversed) ==
  IF reversed
  THEN [j \in 1..Len(word) |-> LET b == ByteOf(SubSeq(word, 1, j))
                               IN  IF b % 2 = 0 THEN b + 1 ELSE b - 1]
  ELSE word

(* The data of the PDU made from a burst.                                  *)
Payload(c, burst, reversed) ==
  LET output == IF reversed THEN Inverted(burst) ELSE burst
      middle == SubSeq(output, Len(c.code) + 1, Len(output) - Len(c.tail))
  IN  CASE c.syncmode = Keep -> output
        [] c.syncmode = Discard -> middle
        [] c.syncmode = Fix -> FixedWord(c.code, reversed) \o middle
                                 \o FixedWord(c.tail, reversed)
=============================================================================
