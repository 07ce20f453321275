-------------------------- MODULE ConnectionPool --------------------------
(***************************************************************************)
(* IndexedConnections of src/peer/pool.rs: connections in slots, an index  *)
(* from addresses to slots, and a stack of free slots.  Slots are numbered *)
(* from 1 here, from 0 in the code.                                        *)
(***************************************************************************)
EXTENDS Integers, Sequences

CONSTANTS Addrs, Conns, Empty

ASSUME PoolAssumption == Empty \notin Conns

VARIABLES
    connections,        \* the slots: a connection, or Empty
    addr_to_index,      \* the slot of each address that has one
    free_indices        \* the stack of slots given back

vars == <<connections, addr_to_index, free_indices>>

Init ==
    /\ connections = <<>>
    /\ addr_to_index = [a \in {} |-> 0]
    /\ free_indices = <<>>

-----------------------------------------------------------------------------
(* Lookup *)

contains_key(a) == a \in DOMAIN addr_to_index

get(a) == IF contains_key(a) THEN connections[addr_to_index[a]] ELSE Empty

\* iter goes through the index, iter_mut through the slots.
iter ==
    {<<a, connections[addr_to_index[a]]>> :
        a \in {x \in DOMAIN addr_to_index : connections[addr_to_index[x]] # Empty}}

iter_mut ==
    {<<CHOOSE a \in DOMAIN addr_to_index : addr_to_index[a] = i, connections[i]>> :
        i \in {j \in DOMAIN connections :
                  /\ connections[j] # Empty
                  /\ \E a \in DOMAIN addr_to_index : addr_to_index[a] = j}}

-----------------------------------------------------------------------------
(* Operations *)

\* Mutated: the free slots are taken from the bottom of the stack.
Bottom == free_indices[1]

Top == free_indices[Len(free_indices)]

\* The index with a moved to slot i.
Indexed(a, i) ==
    [x \in DOMAIN addr_to_index \cup {a} |-> IF x = a THEN i ELSE addr_to_index[x]]

\* Mutated: the reused slot is not popped.
InsertPeeked(a, c) ==
    /\ free_indices # <<>>
    /\ connections' = [connections EXCEPT ![Top] = c]
    /\ addr_to_index' = Indexed(a, Top)
    /\ UNCHANGED free_indices

InsertReused(a, c) ==
    /\ free_indices # <<>>
    /\ connections' = [connections EXCEPT ![Top] = c]
    /\ addr_to_index' = Indexed(a, Top)
    /\ free_indices' = SubSeq(free_indices, 1, Len(free_indices) - 1)

\* Mutated: the index is the number of slots after the push.
InsertPushedLate(a, c) ==
    /\ free_indices = <<>>
    /\ connections' = Append(connections, c)
    /\ addr_to_index' = Indexed(a, Len(connections) + 2)
    /\ UNCHANGED free_indices

InsertPushed(a, c) ==
    /\ free_indices = <<>>
    /\ connections' = Append(connections, c)
    /\ addr_to_index' = Indexed(a, Len(connections) + 1)
    /\ UNCHANGED free_indices

\* The slot an address already had stays as it is, out of reach.
insert(a, c) == InsertReused(a, c) \/ InsertPushed(a, c)

\* The caller changes the connection it got.
get_mut(a, c) ==
    /\ get(a) # Empty
    /\ connections' = [connections EXCEPT ![addr_to_index[a]] = c]
    /\ UNCHANGED <<addr_to_index, free_indices>>

\* Mutated: the connection stays in the slot that is given back.
RemoveWithoutTake(a) ==
    /\ contains_key(a)
    /\ UNCHANGED connections
    /\ addr_to_index' = [x \in DOMAIN addr_to_index \ {a} |-> addr_to_index[x]]
    /\ free_indices' = Append(free_indices, addr_to_index[a])

\* Mutated: the address stays in the index.
RemoveKeepingIndex(a) ==
    /\ contains_key(a)
    /\ connections' = [connections EXCEPT ![addr_to_index[a]] = Empty]
    /\ free_indices' = Append(free_indices, addr_to_index[a])
    /\ UNCHANGED addr_to_index

\* remove of an address that is there; of another it changes nothing.
remove(a) ==
    /\ contains_key(a)
    /\ connections' = [connections EXCEPT ![addr_to_index[a]] = Empty]
    /\ addr_to_index' = [x \in DOMAIN addr_to_index \ {a} |-> addr_to_index[x]]
    /\ free_indices' = Append(free_indices, addr_to_index[a])

Next ==
    \E a \in Addrs :
        \/ \E c \in Conns : insert(a, c) \/ get_mut(a, c)
        \/ remove(a)

Spec == Init /\ [][Next]_vars

-----------------------------------------------------------------------------
(* Properties *)

Slots == DOMAIN connections

TypeOK ==
    /\ connections \in Seq(Conns \cup {Empty})
    /\ free_indices \in Seq(Slots)
    /\ DOMAIN addr_to_index \subseteq Addrs
    /\ addr_to_index \in [DOMAIN addr_to_index -> Slots]

\* Two addresses never share a slot, so no task reaches another peer's connection.
NoSharedSlot ==
    \A a, b \in DOMAIN addr_to_index : addr_to_index[a] = addr_to_index[b] => a = b

\* An address in the index has a connection: contains_key and get agree.
IndexedIsOccupied == \A a \in DOMAIN addr_to_index : connections[addr_to_index[a]] # Empty

\* A slot on the free stack is empty and is there once, so it is never handed out twice.
FreeIsFree ==
    /\ \A k \in DOMAIN free_indices : connections[free_indices[k]] = Empty
    /\ \A j, k \in DOMAIN free_indices : free_indices[j] = free_indices[k] => j = k

PoolInv == NoSharedSlot /\ IndexedIsOccupied /\ FreeIsFree

\* The two iterators visit the same connections under the same addresses, whatever
\* was inserted over what.
IteratorsAgree == iter = iter_mut

\* Occupied slots no address leads to: nothing empties or reuses them.
Leaked ==
    {i \in Slots : /\ connections[i] # Empty
                   /\ \A a \in DOMAIN addr_to_index : addr_to_index[a] # i}

\* A slot is lost only when an address that has one is inserted again.
LeaksOnlyByReinsertion ==
    [][Leaked' \subseteq Leaked
       \/ \E a \in DOMAIN addr_to_index :
             a \in DOMAIN addr_to_index' /\ addr_to_index'[a] # addr_to_index[a]]_vars

\* The slots, the index and the free stack together are a map from addresses.
Map == INSTANCE AddrMap WITH table <- [a \in Addrs |-> get(a)]

ImplementsMap == Map!Spec

=============================================================================
