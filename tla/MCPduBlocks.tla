---------------------------- MODULE MCPduBlocks ----------------------------
(***************************************************************************)
(* Small instances of the blocks of PduBlocks.                             *)
(***************************************************************************)
EXTENDS PduBlocks

CONSTANTS c1, c2, t1, t2, port

(* Two controllers share a port, and one is wired to a second port.        *)
MCWatched == [c \in {c1, c2} |-> IF c = c1 THEN <<1>> ELSE <<2, 1>>]
MCWired == [c \in {c1, c2} |-> IF c = c1 THEN {1} ELSE {1, 2}]

(* Takes and skips from none to three items change while the block runs.   *)
MCInitTakes == {1, 2, 3}
MCInitSkips == {0, 1, 2}

(* Two threads call setters of pdu_preamble, three calls in all.           *)
MCWords == {<<>>, <<0>>}
MCPreambleData == {<<1>>}

(* Parts of bursts of two and three in any order, regular PDUs, and tuples *)
(* no splitter makes.                                                      *)
MCIndices == {<<0, 0>>, <<1, 2>>, <<2, 2>>, <<1, 3>>, <<2, 3>>, <<3, 3>>, <<3, 2>>}

(* Blank and absent fields, numbers on both sides of the data, and what    *)
(* set_slice refuses before and after it wrote members: [x], [:x] and a    *)
(* stride of 0.                                                            *)
N(start, stop, stride) == [start |-> start, stop |-> stop, stride |-> stride]
MCNotations ==
  {N(a, b, Absent) : a \in {Blank, 1}, b \in {Blank, -1, 3}}
    \cup {N(a, Blank, c) : a \in {Blank, 3}, c \in {2, -2}}
    \cup {N(-4, -5, -2), N(-2, Blank, Blank)}
    \cup {N(Malformed, NoNumber, NoNumber), N(-2, NoNumber, Absent), N(Blank, 0, 0)}
MCSliceLengths == {0, 1, 3, 4}

MCDataLengths == 0..3

Align(words, threshold, offset, mode, match) ==
  [syncwords |-> words, d_threshold |-> threshold, d_offset |-> offset, d_mode |-> mode,
   d_match_mode |-> match]
MCConfigs ==
  {Align(w, threshold, 0, "ALIGN_EMPTY", match) :
     w \in {<<<<1, 0, 1, 1>>>>, <<<<1, 0>>, <<0, 0, 1, 1>>>>}, threshold \in {0, 1},
     match \in {"ALIGN_FIRST_MATCH", "ALIGN_BEST_MATCH"}}
  \cup {Align(<<<<1, 1>>>>, 0, -1, "ALIGN_FORWARD", "ALIGN_FIRST_MATCH"),
        Align(<<<<1, 1, 0>>>>, 1, -2, "ALIGN_DROP", "ALIGN_BEST_MATCH")}

MCBitData == [1..3 -> {0, 1}] \cup {<<1, 0, 1, 1, 0, 0, 1, 0>>, <<0, 1, 1, 1, 0, 0, 0, 1, 1>>}

Val(form, name) == [form |-> form, name |-> name]
MCInitPairs == {[key |-> "k", value |-> Val("text", "v")],
                [key |-> "l", value |-> Val("template", "k")]}
MCMetas == {<<>>, [k |-> Val("text", "w")]}
MCCommands == {[kind |-> "val", arg |-> <<>>]}
=============================================================================
