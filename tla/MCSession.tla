----------------------------- MODULE MCSession -----------------------------
(* Session with an interval of each kind, and a list longer than the buffer *)
(* holds.                                                                   *)
EXTENDS Session

NamedIntervals == {-1, 0, 60}

\* Nobody, or all the peers.
SomeLists == {{}, Peers}

=============================================================================
