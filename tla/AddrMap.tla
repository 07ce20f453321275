------------------------------ MODULE AddrMap ------------------------------
(***************************************************************************)
(* What the connection table promises to the peer workers: a map from      *)
(* addresses to connections.  PeerWorkers models the table this way        *)
(* (its variables connected and conn).                                     *)
(***************************************************************************)
CONSTANTS Addrs, Conns, Empty

VARIABLE table      \* table[a]: the connection of a, or Empty

Init == table = [a \in Addrs |-> Empty]

\* insert replaces what is there.
Put(a, c) == table' = [table EXCEPT ![a] = c]

\* A connection reached through get_mut is changed.
Change(a, c) == table[a] # Empty /\ table' = [table EXCEPT ![a] = c]

Drop(a) == table' = [table EXCEPT ![a] = Empty]

Next ==
    \E a \in Addrs :
        \/ \E c \in Conns : Put(a, c) \/ Change(a, c)
        \/ Drop(a)

Spec == Init /\ [][Next]_table

=============================================================================
