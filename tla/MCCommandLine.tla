----------------------------- MODULE MCCommandLine -----------------------------
(***************************************************************************)
(* Command lines of up to MaxArgs arguments over the switches and one file *)
(* of each kind, and one with 256 files that do not exist: the exit status *)
(* is then a full turn of its eight bits.                                  *)
(***************************************************************************)
EXTENDS CommandLine

CONSTANT MaxArgs

MCSource == {"good", "bad", "unsupported", "unreadable", "missing",
             "ieee/known", "ieee/unknown"}
MCReadable == MCSource \ {"unreadable", "missing", "ieee/known"}
MCResource == {"ieee/known"}
MCLooksEmbedded == {"ieee/known", "ieee/unknown"}
MCPrefixOf == [s \in MCLooksEmbedded |-> "ieee"]
MCSyntaxErrors == [s \in MCSource |-> IF s = "bad" THEN 2 ELSE 0]
MCUnsupported == {"unsupported"}
MCStandardized == <<"ieee/known">>
MCExists == MCSource \ {"missing"}

Arguments == Switches \cup MCSource
MCCommandLines ==
  UNION {[1..n -> Arguments] : n \in 0..MaxArgs}
    \cup {[n \in 1..256 |-> "missing"], [n \in 1..257 |-> "missing"]}
================================================================================
