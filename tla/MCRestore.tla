----------------------------- MODULE MCRestore -----------------------------
(* Small instances of RuntimeRestore. *)
EXTENDS MCPaperLive, RuntimeRestore

IsolatedOrHalted == {"isolated", "halting"}
=============================================================================
