--------------------------- MODULE MCInputStream ---------------------------
(***************************************************************************)
(* Instance of InputStream for TLC: heads of three bytes, and payloads     *)
(* that hold bytes a head could begin with.                                *)
(***************************************************************************)
EXTENDS InputStream

MCPayloads == {<< >>, <<CDE>>, <<1, CDE>>}

=============================================================================
