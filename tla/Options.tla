------------------------------ MODULE Options ------------------------------
(***************************************************************************)
(* A result that may be missing.                                           *)
(***************************************************************************)

None == [some |-> FALSE]

Some(x) == [some |-> TRUE, it |-> x]

=============================================================================
