------------------------------ MODULE MCPaper ------------------------------
(***************************************************************************)
(* A small paper account for the model checker.  Quotes are of ten to      *)
(* twenty dollars, odd enough that the fill price is rounded.              *)
(***************************************************************************)
EXTENDS PaperProperties

MCQuotes == {100001}
MCAdvancing == {1}
=============================================================================
