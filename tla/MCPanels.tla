------------------------------ MODULE MCPanels ------------------------------
(* Panels.tla with five rows on pages of two, and a document of at most    *)
(* three lines, one of which may be too wide to edit.                      *)
EXTENDS Panels

MCStored == {<<>>, <<"wide", NL, "text">>}
=============================================================================
