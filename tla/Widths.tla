------------------------------- MODULE Widths -------------------------------
(***************************************************************************)
(* How many values the integers of the program have.                       *)
(***************************************************************************)

CONSTANTS
    W32, W64        \* 2^32 and 2^64: an integer taken as u32 or u64 keeps the rest

=============================================================================
