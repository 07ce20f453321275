------------------------ MODULE ConnectionPoolProofs ------------------------
(***************************************************************************)
(* Theorems about ConnectionPool, for any addresses and connections and    *)
(* any number of slots.                                                    *)
(***************************************************************************)
EXTENDS ConnectionPool, TLAPS, SequenceTheorems

\* The invariant is inductive as it is: a slot an address leads to is occupied, a slot
\* on the free stack is empty, so neither operation can confuse the two.
IInv == TypeOK /\ PoolInv

LEMMA InitIInv == Init => IInv
  BY DEF Init, IInv, TypeOK, PoolInv, Slots, NoSharedSlot, IndexedIsOccupied, FreeIsFree

\* The slots are numbered from 1, and what is in them is a connection or nothing.
LEMMA SlotFacts ==
  ASSUME TypeOK
  PROVE  /\ Len(connections) \in Nat
         /\ Slots = 1 .. Len(connections)
         /\ \A i \in Slots : connections[i] \in Conns \cup {Empty}
         /\ Len(free_indices) \in Nat
         /\ DOMAIN free_indices = 1 .. Len(free_indices)
         /\ \A k \in DOMAIN free_indices : free_indices[k] \in Slots
         /\ \A a \in DOMAIN addr_to_index : addr_to_index[a] \in Slots
  BY DEF TypeOK, Slots

-----------------------------------------------------------------------------
(* Each operation keeps the invariant *)

LEMMA InsertReusedIInv ==
  ASSUME IInv, NEW a \in Addrs, NEW c \in Conns, InsertReused(a, c)
  PROVE  IInv'
<1>. DEFINE n == Len(free_indices)
<1>1. n \in Nat \ {0} /\ n \in DOMAIN free_indices /\ Top \in Slots /\ Top = free_indices[n]
  BY SlotFacts DEF IInv, InsertReused, Top, TypeOK
<1>2. /\ connections' \in Seq(Conns \cup {Empty})
      /\ Slots' = Slots
      /\ connections'[Top] = c
      /\ \A i \in Slots \ {Top} : connections'[i] = connections[i]
  BY <1>1 DEF IInv, TypeOK, InsertReused, Slots
<1>3. /\ free_indices' \in Seq(Slots)
      /\ DOMAIN free_indices' = 1 .. (n - 1)
      /\ \A k \in 1 .. (n - 1) : free_indices'[k] = free_indices[k]
  BY <1>1 DEF IInv, TypeOK, InsertReused
<1>4. /\ DOMAIN addr_to_index' = DOMAIN addr_to_index \cup {a}
      /\ addr_to_index'[a] = Top
      /\ \A x \in DOMAIN addr_to_index \ {a} : addr_to_index'[x] = addr_to_index[x]
      /\ addr_to_index' \in [DOMAIN addr_to_index' -> Slots]
  BY <1>1, SlotFacts DEF IInv, InsertReused, Indexed
<1>5. connections[Top] = Empty
  BY <1>1 DEF IInv, PoolInv, FreeIsFree
<1>6. \A x \in DOMAIN addr_to_index : addr_to_index[x] # Top
  BY <1>5 DEF IInv, PoolInv, IndexedIsOccupied
<1>7. TypeOK'
  BY <1>2, <1>3, <1>4 DEF IInv, TypeOK
<1>8. NoSharedSlot'
  BY <1>4, <1>6 DEF IInv, PoolInv, NoSharedSlot
<1>9. IndexedIsOccupied'
  BY <1>2, <1>4, <1>6, SlotFacts, PoolAssumption DEF IInv, PoolInv, IndexedIsOccupied
<1>10. FreeIsFree'
  <2>1. \A k \in 1 .. (n - 1) : k \in DOMAIN free_indices /\ k # n
    BY <1>1, SlotFacts DEF IInv, TypeOK
  <2>2. \A k \in 1 .. (n - 1) : /\ free_indices[k] \in Slots \ {Top}
                               /\ connections[free_indices[k]] = Empty
    BY <1>1, <2>1, SlotFacts DEF IInv, PoolInv, FreeIsFree
  <2>3. \A j, k \in 1 .. (n - 1) : free_indices[j] = free_indices[k] => j = k
    BY <2>1 DEF IInv, PoolInv, FreeIsFree
  <2>. HIDE DEF n
  <2>. QED
    BY <1>2, <1>3, <2>2, <2>3 DEF FreeIsFree
<1>. QED
  BY <1>7, <1>8, <1>9, <1>10 DEF IInv, PoolInv

LEMMA InsertPushedIInv ==
  ASSUME IInv, NEW a \in Addrs, NEW c \in Conns, InsertPushed(a, c)
  PROVE  IInv'
<1>. DEFINE m == Len(connections) + 1
<1>1. /\ connections' \in Seq(Conns \cup {Empty})
      /\ Slots' = Slots \cup {m} /\ m \notin Slots
      /\ connections'[m] = c
      /\ \A i \in Slots : connections'[i] = connections[i]
  BY SlotFacts DEF IInv, TypeOK, InsertPushed, Slots
<1>2. /\ DOMAIN addr_to_index' = DOMAIN addr_to_index \cup {a}
      /\ addr_to_index'[a] = m
      /\ \A x \in DOMAIN addr_to_index \ {a} : addr_to_index'[x] = addr_to_index[x]
      /\ addr_to_index' \in [DOMAIN addr_to_index' -> Slots']
  BY <1>1, SlotFacts DEF IInv, InsertPushed, Indexed
<1>3. free_indices = <<>> /\ free_indices' = <<>>
  BY DEF InsertPushed
<1>4. \A x \in DOMAIN addr_to_index : addr_to_index[x] \in Slots /\ addr_to_index[x] # m
  BY <1>1, SlotFacts DEF IInv
<1>5. TypeOK'
  BY <1>1, <1>2, <1>3 DEF IInv, TypeOK
<1>6. NoSharedSlot'
  BY <1>2, <1>4 DEF IInv, PoolInv, NoSharedSlot
<1>7. IndexedIsOccupied'
  BY <1>1, <1>2, <1>4, PoolAssumption DEF IInv, PoolInv, IndexedIsOccupied
<1>8. FreeIsFree'
  BY <1>3 DEF FreeIsFree
<1>. QED
  BY <1>5, <1>6, <1>7, <1>8 DEF IInv, PoolInv

LEMMA GetMutIInv ==
  ASSUME IInv, NEW a \in Addrs, NEW c \in Conns, get_mut(a, c)
  PROVE  IInv'
<1>. DEFINE i == addr_to_index[a]
<1>1. a \in DOMAIN addr_to_index /\ i \in Slots /\ connections[i] # Empty
  BY SlotFacts DEF IInv, get_mut, get, contains_key
<1>2. /\ connections' \in Seq(Conns \cup {Empty})
      /\ Slots' = Slots
      /\ connections'[i] = c
      /\ \A j \in Slots \ {i} : connections'[j] = connections[j]
  BY <1>1 DEF IInv, TypeOK, get_mut, Slots
<1>3. UNCHANGED <<addr_to_index, free_indices>>
  BY DEF get_mut
<1>4. TypeOK'
  BY <1>2, <1>3 DEF IInv, TypeOK
<1>5. NoSharedSlot'
  BY <1>3 DEF IInv, PoolInv, NoSharedSlot
<1>6. IndexedIsOccupied'
  BY <1>2, <1>3, SlotFacts, PoolAssumption DEF IInv, PoolInv, IndexedIsOccupied
<1>7. FreeIsFree'
  BY <1>1, <1>2, <1>3, SlotFacts DEF IInv, PoolInv, FreeIsFree
<1>. QED
  BY <1>4, <1>5, <1>6, <1>7 DEF IInv, PoolInv

LEMMA RemoveIInv ==
  ASSUME IInv, NEW a \in Addrs, remove(a)
  PROVE  IInv'
<1>. DEFINE i == addr_to_index[a]
            n == Len(free_indices)
<1>1. a \in DOMAIN addr_to_index /\ i \in Slots /\ connections[i] # Empty
  BY SlotFacts DEF IInv, PoolInv, IndexedIsOccupied, remove, contains_key
<1>2. /\ connections' \in Seq(Conns \cup {Empty})
      /\ Slots' = Slots
      /\ connections'[i] = Empty
      /\ \A j \in Slots \ {i} : connections'[j] = connections[j]
  BY <1>1 DEF IInv, TypeOK, remove, Slots
<1>3. /\ DOMAIN addr_to_index' = DOMAIN addr_to_index \ {a}
      /\ \A x \in DOMAIN addr_to_index' : addr_to_index'[x] = addr_to_index[x]
      /\ addr_to_index' \in [DOMAIN addr_to_index' -> Slots]
  BY SlotFacts DEF IInv, remove
<1>4. /\ free_indices' \in Seq(Slots)
      /\ DOMAIN free_indices' = 1 .. (n + 1)
      /\ free_indices'[n + 1] = i
      /\ \A k \in 1 .. n : free_indices'[k] = free_indices[k]
  BY <1>1 DEF IInv, TypeOK, remove
<1>5. TypeOK'
  BY <1>2, <1>3, <1>4 DEF IInv, TypeOK
<1>6. NoSharedSlot'
  BY <1>3 DEF IInv, PoolInv, NoSharedSlot
<1>7. \A x \in DOMAIN addr_to_index' : addr_to_index[x] # i
  BY <1>1, <1>3 DEF IInv, PoolInv, NoSharedSlot
<1>8. IndexedIsOccupied'
  BY <1>2, <1>3, <1>7, SlotFacts DEF IInv, PoolInv, IndexedIsOccupied
<1>9. FreeIsFree'
  <2>1. \A k \in 1 .. n : free_indices[k] # i /\ free_indices[k] \in Slots
    BY <1>1, SlotFacts DEF IInv, PoolInv, FreeIsFree
  <2>2. \A k \in 1 .. (n + 1) : k \in 1 .. n \/ k = n + 1
    BY SlotFacts DEF IInv
  <2>3. \A j, k \in 1 .. n : free_indices[j] = free_indices[k] => j = k
    BY SlotFacts DEF IInv, PoolInv, FreeIsFree
  <2>4. \A k \in 1 .. n : connections[free_indices[k]] = Empty
    BY SlotFacts DEF IInv, PoolInv, FreeIsFree
  <2>. HIDE DEF n, i
  <2>. QED
    BY <1>2, <1>4, <2>1, <2>2, <2>3, <2>4 DEF FreeIsFree
<1>. QED
  BY <1>5, <1>6, <1>8, <1>9 DEF IInv, PoolInv

LEMMA NextIInv ==
  ASSUME IInv, [Next]_vars
  PROVE  IInv'
<1>1. CASE UNCHANGED vars
  BY <1>1
  DEF vars, IInv, TypeOK, Slots, PoolInv, NoSharedSlot, IndexedIsOccupied, FreeIsFree
<1>2. CASE Next
  BY <1>2, InsertReusedIInv, InsertPushedIInv, GetMutIInv, RemoveIInv DEF Next, insert
<1>. QED
  BY <1>1, <1>2

LEMMA Invariance == Spec => []IInv
<1>1. IInv /\ [Next]_vars => IInv'
  BY NextIInv
<1>. QED
  BY InitIInv, <1>1, PTL DEF Spec

-----------------------------------------------------------------------------
(* Theorems *)

\* Every index stays within the slots (pool.rs:29-63).
THEOREM PoolTypeCorrect == Spec => []TypeOK
<1>1. IInv => TypeOK
  BY DEF IInv
<1>. QED
  BY <1>1, Invariance, PTL

\* No two addresses share a slot, an indexed slot is occupied, a free slot is empty
\* and is given out once, whatever is inserted over what (pool.rs:29-63).
THEOREM PoolConsistent == Spec => []PoolInv
<1>1. IInv => PoolInv
  BY DEF IInv
<1>. QED
  BY <1>1, Invariance, PTL

\* Going through the slots and going through the index visit the same connections
\* under the same addresses (pool.rs:77-99).
THEOREM IteratorsVisitTheSame == Spec => []IteratorsAgree
<1>1. IInv => IteratorsAgree
  <2>. SUFFICES ASSUME IInv PROVE iter = iter_mut
    BY DEF IteratorsAgree
  <2>. DEFINE At(i) == CHOOSE a \in DOMAIN addr_to_index : addr_to_index[a] = i
  <2>1. \A a \in DOMAIN addr_to_index : At(addr_to_index[a]) = a
    <3>. TAKE a \in DOMAIN addr_to_index
    <3>1. /\ At(addr_to_index[a]) \in DOMAIN addr_to_index
          /\ addr_to_index[At(addr_to_index[a])] = addr_to_index[a]
      OBVIOUS
    <3>. HIDE DEF At
    <3>. QED
      BY <3>1 DEF IInv, PoolInv, NoSharedSlot
  <2>2. iter = {<<a, connections[addr_to_index[a]]>> : a \in DOMAIN addr_to_index}
    BY DEF iter, IInv, PoolInv, IndexedIsOccupied
  <2>3. {j \in DOMAIN connections :
            /\ connections[j] # Empty
            /\ \E a \in DOMAIN addr_to_index : addr_to_index[a] = j}
          = {addr_to_index[a] : a \in DOMAIN addr_to_index}
    BY SlotFacts DEF IInv, PoolInv, IndexedIsOccupied, Slots
  <2>4. iter_mut = {<<At(i), connections[i]>> :
                      i \in {addr_to_index[a] : a \in DOMAIN addr_to_index}}
    BY <2>3 DEF iter_mut
  <2>. HIDE DEF At
  <2>. QED
    BY <2>1, <2>2, <2>4
<1>. QED
  BY <1>1, Invariance, PTL

\* A slot is lost only when an address that has one is inserted again: no other
\* sequence of operations leaves a connection no address leads to (pool.rs:29-38).
THEOREM LeaksOnlyByReinsertionHolds == Spec => LeaksOnlyByReinsertion
<1>. DEFINE Moved == \E a \in DOMAIN addr_to_index :
                        a \in DOMAIN addr_to_index' /\ addr_to_index'[a] # addr_to_index[a]
<1>1. ASSUME IInv, Next, ~Moved
      PROVE  Leaked' \subseteq Leaked
  <2>. SUFFICES ASSUME NEW i \in Leaked'
                PROVE  i \in Leaked
    OBVIOUS
  <2>0. /\ i \in Slots' /\ connections'[i] # Empty
        /\ \A x \in DOMAIN addr_to_index' : addr_to_index'[x] # i
    BY DEF Leaked
  <2>1. ASSUME NEW a \in Addrs, NEW c \in Conns, InsertReused(a, c)
        PROVE  i \in Leaked
    <3>1. Top \in Slots
      BY <1>1, <2>1, SlotFacts DEF InsertReused, Top, IInv, TypeOK
    <3>2. i # Top
      BY <2>0, <2>1 DEF InsertReused, Indexed
    <3>3. i \in Slots /\ connections[i] # Empty
      BY <2>0, <2>1, <3>1, <3>2 DEF InsertReused, Slots
    <3>4. \A x \in DOMAIN addr_to_index :
             x \in DOMAIN addr_to_index' /\ addr_to_index'[x] = addr_to_index[x]
      BY <1>1, <2>1 DEF InsertReused, Indexed
    <3>. QED
      BY <2>0, <3>3, <3>4 DEF Leaked
  <2>2. ASSUME NEW a \in Addrs, NEW c \in Conns, InsertPushed(a, c)
        PROVE  i \in Leaked
    <3>1. i # Len(connections) + 1
      BY <2>0, <2>2 DEF InsertPushed, Indexed
    <3>2. i \in Slots /\ connections[i] # Empty
      BY <1>1, <2>0, <2>2, <3>1, SlotFacts DEF InsertPushed, Slots, IInv, TypeOK
    <3>3. \A x \in DOMAIN addr_to_index :
             x \in DOMAIN addr_to_index' /\ addr_to_index'[x] = addr_to_index[x]
      BY <1>1, <2>2 DEF InsertPushed, Indexed
    <3>. QED
      BY <2>0, <3>2, <3>3 DEF Leaked
  <2>3. ASSUME NEW a \in Addrs, NEW c \in Conns, get_mut(a, c)
        PROVE  i \in Leaked
    <3>1. a \in DOMAIN addr_to_index /\ addr_to_index' = addr_to_index
      BY <2>3 DEF get_mut, get, contains_key
    <3>2. i # addr_to_index[a]
      BY <2>0, <3>1
    <3>3. i \in Slots /\ connections[i] # Empty
      BY <2>0, <2>3, <3>1, <3>2 DEF get_mut, Slots
    <3>. QED
      BY <2>0, <3>1, <3>3 DEF Leaked
  <2>4. ASSUME NEW a \in Addrs, remove(a)
        PROVE  i \in Leaked
    <3>1. a \in DOMAIN addr_to_index /\ addr_to_index[a] \in Slots
      BY <1>1, <2>4, SlotFacts DEF remove, contains_key, IInv
    <3>2. i # addr_to_index[a]
      BY <2>0, <2>4, <3>1 DEF remove, Slots
    <3>3. i \in Slots /\ connections[i] # Empty
      BY <2>0, <2>4, <3>1, <3>2 DEF remove, Slots, IInv, TypeOK
    <3>4. \A x \in DOMAIN addr_to_index : addr_to_index[x] # i
      BY <2>0, <2>4, <3>2 DEF remove
    <3>. QED
      BY <3>3, <3>4 DEF Leaked
  <2>. QED
    BY <1>1, <2>1, <2>2, <2>3, <2>4 DEF Next, insert
<1>2. IInv /\ [Next]_vars => [Leaked' \subseteq Leaked \/ Moved]_vars
  BY <1>1
<1>. QED
  BY <1>2, Invariance, PTL DEF Spec, LeaksOnlyByReinsertion

-----------------------------------------------------------------------------
(* Refinement of AddrMap *)

\* The abstract table: what get returns for every address.
LOCAL Table == [a \in Addrs |-> get(a)]

LEMMA InsertPuts ==
  ASSUME IInv, NEW a \in Addrs, NEW c \in Conns, insert(a, c)
  PROVE  Map!Put(a, c)
<1>1. PICK i : /\ addr_to_index' = Indexed(a, i)
               /\ connections'[i] = c
               /\ \A x \in DOMAIN addr_to_index :
                     connections'[addr_to_index[x]] = connections[addr_to_index[x]]
  <2>1. CASE InsertReused(a, c)
    <3>1. Top \in Slots /\ connections[Top] = Empty
      BY <2>1, SlotFacts DEF InsertReused, Top, IInv, TypeOK, PoolInv, FreeIsFree
    <3>2. \A x \in DOMAIN addr_to_index :
             addr_to_index[x] \in Slots /\ addr_to_index[x] # Top
      BY <3>1, SlotFacts DEF IInv, PoolInv, IndexedIsOccupied
    <3>3. /\ connections'[Top] = c
          /\ \A j \in Slots \ {Top} : connections'[j] = connections[j]
      BY <2>1, <3>1 DEF InsertReused, IInv, TypeOK, Slots
    <3>. QED
      BY <2>1, <3>2, <3>3 DEF InsertReused
  <2>2. CASE InsertPushed(a, c)
    <3>1. /\ connections'[Len(connections) + 1] = c
          /\ \A j \in Slots : connections'[j] = connections[j]
      BY <2>2, SlotFacts DEF InsertPushed, IInv, TypeOK
    <3>. QED
      BY <2>2, <3>1, SlotFacts DEF InsertPushed, IInv
  <2>. QED
    BY <2>1, <2>2 DEF insert
<1>2. get(a)' = c
  BY <1>1 DEF get, contains_key, Indexed
<1>3. \A x \in Addrs \ {a} : get(x)' = get(x)
  BY <1>1 DEF get, contains_key, Indexed
<1>. QED
  BY <1>2, <1>3 DEF Map!Put

LEMMA GetMutChanges ==
  ASSUME IInv, NEW a \in Addrs, NEW c \in Conns, get_mut(a, c)
  PROVE  Map!Change(a, c)
<1>1. a \in DOMAIN addr_to_index /\ addr_to_index[a] \in Slots /\ get(a) # Empty
  BY SlotFacts DEF IInv, get_mut, get, contains_key
<1>2. /\ connections'[addr_to_index[a]] = c
      /\ \A j \in Slots \ {addr_to_index[a]} : connections'[j] = connections[j]
      /\ addr_to_index' = addr_to_index
  BY <1>1 DEF IInv, TypeOK, get_mut, Slots
<1>3. get(a)' = c
  BY <1>1, <1>2 DEF get, contains_key
<1>4. \A x \in Addrs \ {a} : get(x)' = get(x)
  BY <1>1, <1>2, SlotFacts DEF IInv, PoolInv, NoSharedSlot, get, contains_key
<1>. QED
  BY <1>1, <1>3, <1>4 DEF Map!Change

LEMMA RemoveDrops ==
  ASSUME IInv, NEW a \in Addrs, remove(a)
  PROVE  Map!Drop(a)
<1>1. a \in DOMAIN addr_to_index /\ addr_to_index[a] \in Slots
  BY SlotFacts DEF IInv, remove, contains_key
<1>2. /\ \A j \in Slots \ {addr_to_index[a]} : connections'[j] = connections[j]
      /\ addr_to_index' = [x \in DOMAIN addr_to_index \ {a} |-> addr_to_index[x]]
  BY <1>1 DEF IInv, TypeOK, remove, Slots
<1>3. get(a)' = Empty
  BY <1>2 DEF get, contains_key
<1>4. \A x \in Addrs \ {a} : get(x)' = get(x)
  BY <1>1, <1>2, SlotFacts DEF IInv, PoolInv, NoSharedSlot, get, contains_key
<1>. QED
  BY <1>3, <1>4 DEF Map!Drop

\* For its callers the pool is a map from addresses to connections: what they get for
\* an address is what they last stored there, whatever slots came and went
\* (pool.rs:29-63).
THEOREM PoolImplementsMap == Spec => ImplementsMap
<1>1. Init => Map!Init
  BY DEF Init, Map!Init, get, contains_key
<1>2. IInv /\ [Next]_vars => [Map!Next]_Table
  <2>1. ASSUME IInv, Next
        PROVE  Map!Next
    BY <2>1, InsertPuts, GetMutChanges, RemoveDrops DEF Next, Map!Next
  <2>2. UNCHANGED vars => UNCHANGED Table
    BY DEF vars, Table, get, contains_key
  <2>. QED
    BY <2>1, <2>2
<1>. QED
  BY <1>1, <1>2, Invariance, PTL DEF Spec, ImplementsMap, Map!Spec, Table

=============================================================================
