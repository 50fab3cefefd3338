----------------------------- MODULE MCPduSetM -----------------------------
(***************************************************************************)
(* A pdu_set_m block that is sent PDUs and set commands.                   *)
(***************************************************************************)
EXTENDS PduSetM

MCInitPairs == {[key |-> "k", value |-> Value("text", "v")],
                [key |-> "l", value |-> Value("template", "k")]}
MCMetas == {<<>>, [k |-> Value("text", "w")]}
MCCommands ==
  {[kind |-> "val", arg |-> <<>>], [kind |-> "set_key", arg |-> "l"],
   [kind |-> "set_val", arg |-> Value("text", "v")]}
=============================================================================
