----------------------------- MODULE MCParserClient -----------------------------
(***************************************************************************)
(* A client with two libraries, two standardized resources and one source  *)
(* of each kind.                                                           *)
(***************************************************************************)
EXTENDS ParserClient

MCText == {"text", "bad_text"}
MCSource == MCText \cup {"good", "bad", "unsupported", "unreadable",
                         "ieee/a", "std/b", "ieee/unknown"}
MCReadable == MCSource \ {"unreadable", "ieee/a", "std/b"}
MCResource == {"ieee/a", "std/b"}
MCLooksEmbedded == {"ieee/a", "std/b", "ieee/unknown"}
MCPrefixOf == [s \in MCLooksEmbedded |-> IF s = "std/b" THEN "std" ELSE "ieee"]
MCSyntaxErrors ==
  [s \in MCSource |-> CASE s = "bad" -> 2 [] s = "bad_text" -> 1 [] OTHER -> 0]
MCUnsupported == {"unsupported"}
MCStandardized == <<"ieee/a", "std/b">>
MCLibrary == {"work", "lib"}
================================================================================
