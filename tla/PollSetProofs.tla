--------------------------- MODULE PollSetProofs ---------------------------
(***************************************************************************)
(* Proofs about PollSet, for every number of listening sockets and every   *)
(* set of descriptors.                                                     *)
(***************************************************************************)
EXTENDS PollSet, SequenceLemmas, FiniteSetTheorems

-----------------------------------------------------------------------------

(* What the bookkeeping relies on between any two statements. *)
IInv == TypeOK /\ CountExact /\ ListenersFirst /\ EraseInRange

LEMMA PortsFacts == NumPorts \in Nat
BY PortsAssumption, LenProperties DEF NumPorts

LEMMA InitIInv == Init => IInv
<1> SUFFICES ASSUME Init PROVE IInv
  OBVIOUS
<1> USE DEF Init
<1>1. TypeOK
  BY PortsAssumption DEF TypeOK
<1>2. CountExact
  BY PortsFacts DEF CountExact, NumPorts
<1>3. ListenersFirst
  BY PortsFacts DEF ListenersFirst, NumPorts
<1>4. EraseInRange
  BY DEF EraseInRange, Marked
<1> QED BY <1>1, <1>2, <1>3, <1>4 DEF IInv

(* Every new entry, mark or phase that leaves the vector and its counter
   alone also leaves CountExact and ListenersFirst alone. *)
LEMMA VectorUnchanged ==
  ASSUME CountExact, ListenersFirst, UNCHANGED <<pollFds, numClients>>
  PROVE  CountExact' /\ ListenersFirst'
BY DEF CountExact, ListenersFirst, NumPorts

LEMMA MarkPreserves ==
  ASSUME IInv, NEW k \in 1..Len(pollFds), PushDelPollFd(k)
  PROVE  IInv'
<1> USE DEF IInv
<1>1. k \in NumPorts + 1 .. Len(pollFds) /\ k \in Nat
  BY LenProperties, PortsFacts DEF PushDelPollFd, CountExact, TypeOK
<1>2. TypeOK'
  BY <1>1, AppendProperties DEF TypeOK, PushDelPollFd
<1>3. CountExact' /\ ListenersFirst'
  BY VectorUnchanged DEF PushDelPollFd
<1>4. EraseInRange'
  <2>1. Marked' \subseteq Marked \cup {k}
    BY <1>1, AppendProperties DEF Marked, TypeOK, PushDelPollFd
  <2>2. pc' # "erase"
    BY DEF PushDelPollFd
  <2> QED BY <1>1, <2>1, <2>2 DEF EraseInRange, PushDelPollFd, NumPorts
<1> QED BY <1>2, <1>3, <1>4

LEMMA SortPreserves ==
  ASSUME IInv, SortIndexes
  PROVE  IInv'
<1> USE DEF IInv
<1> DEFINE c == Cardinality(Marked)
<1>1. /\ delIndex' \in [1..c -> Marked]
      /\ IsDescending(delIndex')
  BY DEF SortIndexes, SortedUnique
<1>2. Marked \subseteq Nat
  BY PortsFacts, LenProperties DEF EraseInRange, TypeOK
<1>3. c \in Nat
  <2>1. IsFiniteSet(DOMAIN delIndex)
    BY FS_Interval, LenProperties DEF TypeOK
  <2>2. delIndex \in Surjection(DOMAIN delIndex, Marked)
    BY DEF Marked, Surjection, TypeOK
  <2> QED BY <2>1, <2>2, FS_Surjection, FS_CardinalityType
<1>4. delIndex' \in Seq(Nat)
  <2>1. delIndex' \in [1..c -> Nat]
    BY <1>1, <1>2
  <2> QED BY <1>3, <2>1
<1>5. TypeOK'
  BY <1>4 DEF TypeOK, SortIndexes
<1>6. CountExact' /\ ListenersFirst'
  BY VectorUnchanged DEF SortIndexes
<1>7. EraseInRange'
  <2>1. Marked' \subseteq Marked
    BY <1>1 DEF Marked
  <2> QED BY <1>1, <2>1 DEF EraseInRange, SortIndexes, NumPorts
<1> QED BY <1>5, <1>6, <1>7

LEMMA ErasePreserves ==
  ASSUME IInv, Erase
  PROVE  IInv'
<1> USE DEF IInv
<1> DEFINE k == Head(delIndex)
           n == Len(pollFds)
<1>1. /\ n \in Nat
      /\ NumPorts \in Nat
      /\ k \in Nat
      /\ NumPorts + 1 <= k
      /\ k <= n
      /\ Len(delIndex) \in Nat
      /\ Len(delIndex) > 0
  <2>1. delIndex \in Seq(Nat) /\ delIndex # <<>>
    BY DEF Erase, TypeOK
  <2>2. k = delIndex[1] /\ 1 \in DOMAIN delIndex
    BY <2>1
  <2>3. k \in Marked
    BY <2>2 DEF Marked
  <2>4. k \in NumPorts + 1 .. n
    BY <2>3 DEF EraseInRange
  <2> QED BY <2>1, <2>4, PortsFacts, LenProperties DEF TypeOK
<1>2. /\ pollFds' \in Seq(Fd)
      /\ Len(pollFds') = n - 1
      /\ \A i \in 1..n - 1 : pollFds'[i] = IF i < k THEN pollFds[i] ELSE pollFds[i + 1]
  <2>1. /\ pollFds \in Seq(Fd) /\ k \in 1..Len(pollFds)
        /\ pollFds' = RemoveAt(pollFds, k)
    BY <1>1 DEF Erase, TypeOK
  <2> QED
    BY <2>1, RemoveAtProperties
<1>3. /\ delIndex' \in Seq(Nat)
      /\ Len(delIndex') = Len(delIndex) - 1
      /\ \A i \in 1..Len(delIndex') : delIndex'[i] = delIndex[i + 1]
  <2>1. delIndex \in Seq(Nat) /\ delIndex # <<>> /\ delIndex' = Tail(delIndex)
    BY DEF Erase, TypeOK
  <2> QED
    BY <2>1, HeadTailProperties
<1> HIDE DEF k, n
<1>4. TypeOK'
  BY <1>1, <1>2, <1>3 DEF Erase, TypeOK, CountExact, n
<1>5. CountExact'
  BY <1>1, <1>2 DEF Erase, CountExact, NumPorts, TypeOK, n
<1>6. ListenersFirst'
  <2>1. ASSUME NEW i \in 1..NumPorts PROVE pollFds'[i] = Ports[i]
    <3>1. i \in 1..n - 1 /\ i < k
      BY <1>1
    <3>2. pollFds'[i] = pollFds[i]
      BY <3>1, <1>2
    <3> QED BY <3>2 DEF ListenersFirst
  <2>2. NumPorts <= Len(pollFds')
    BY <1>1, <1>2
  <2> QED BY <2>1, <2>2 DEF ListenersFirst, NumPorts
<1>7. EraseInRange'
  <2>1. IsDescending(delIndex)
    BY DEF EraseInRange, Erase
  <2>2. ASSUME NEW i \in DOMAIN delIndex'
        PROVE  /\ i + 1 \in DOMAIN delIndex
               /\ delIndex'[i] = delIndex[i + 1]
               /\ delIndex'[i] \in NumPorts + 1 .. n - 1
    <3>1. i \in Nat /\ 1 <= i /\ i <= Len(delIndex) - 1 /\ DOMAIN delIndex = 1..Len(delIndex)
      <4>1. DOMAIN delIndex = 1..Len(delIndex) /\ Len(delIndex) \in Nat
        BY LenProperties DEF TypeOK
      <4>2. DOMAIN delIndex' = 1..Len(delIndex') /\ Len(delIndex') = Len(delIndex) - 1
        BY <1>3, LenProperties
      <4> QED
        BY <4>1, <4>2
    <3>2. i + 1 \in DOMAIN delIndex /\ 1 \in DOMAIN delIndex /\ 1 < i + 1
      BY <3>1, <1>1
    <3>3. delIndex'[i] = delIndex[i + 1]
      BY <1>3, <3>1
    <3>4. delIndex[i + 1] < delIndex[1]
      BY <2>1, <3>2 DEF IsDescending
    <3>5. delIndex[1] = k
      BY DEF k, TypeOK, Erase
    <3>6. delIndex[i + 1] \in NumPorts + 1 .. n
      BY <3>2 DEF EraseInRange, Marked, n
    <3> QED BY <3>2, <3>3, <3>4, <3>5, <3>6, <1>1
  <2>3. IsDescending(delIndex')
    <3> SUFFICES ASSUME NEW i \in DOMAIN delIndex', NEW j \in DOMAIN delIndex', i < j
                 PROVE  delIndex'[i] > delIndex'[j]
      BY DEF IsDescending
    <3>1. i + 1 < j + 1
      BY <1>3
    <3> QED BY <3>1, <2>1, <2>2 DEF IsDescending
  <2>4. Marked' \subseteq NumPorts + 1 .. n - 1
    BY <2>2 DEF Marked
  <2> QED BY <2>3, <2>4, <1>2 DEF EraseInRange, NumPorts
<1> QED BY <1>4, <1>5, <1>6, <1>7

LEMMA AddPreserves ==
  ASSUME IInv, AddPending
  PROVE  IInv'
<1> USE DEF IInv
<1>1. /\ Len(pollFds) \in Nat
      /\ Len(addPollFds) \in Nat
      /\ NumPorts \in Nat
      /\ numClients \in Nat
  BY LenProperties, PortsFacts DEF TypeOK
<1>2. /\ pollFds' \in Seq(Fd)
      /\ Len(pollFds') = Len(pollFds) + Len(addPollFds)
      /\ \A i \in 1..Len(pollFds) : pollFds'[i] = pollFds[i]
  BY <1>1, ConcatProperties DEF AddPending, TypeOK
<1>3. TypeOK'
  BY <1>1, <1>2 DEF AddPending, TypeOK
<1>4. CountExact'
  <2>1. numClients' = numClients + Len(addPollFds) /\ NumPorts' = NumPorts
    BY DEF AddPending, NumPorts
  <2>2. NumPorts + numClients = Len(pollFds)
    BY DEF CountExact
  <2> QED BY <1>1, <1>2, <2>1, <2>2 DEF CountExact
<1>5. ListenersFirst'
  BY <1>1, <1>2 DEF ListenersFirst, NumPorts
<1>6. EraseInRange'
  BY DEF AddPending, EraseInRange, Marked, IsDescending
<1> QED BY <1>3, <1>4, <1>5, <1>6

LEMMA NextIInv == IInv /\ [Next]_vars => IInv'
<1> SUFFICES ASSUME IInv, [Next]_vars PROVE IInv'
  OBVIOUS
<1> USE DEF IInv
<1>1. CASE Poll
  BY <1>1, VectorUnchanged DEF Poll, TypeOK, EraseInRange, Marked, NumPorts
<1>2. ASSUME NEW fd \in Fd, CreateClient(fd) PROVE IInv'
  <2>1. addPollFds' \in Seq(Fd)
    BY <1>2, AppendProperties DEF CreateClient, TypeOK
  <2> QED
    BY <1>2, <2>1, VectorUnchanged
    DEF CreateClient, TypeOK, EraseInRange, Marked, NumPorts
<1>3. ASSUME NEW k \in 1..Len(pollFds), PushDelPollFd(k) PROVE IInv'
  BY <1>3, MarkPreserves
<1>4. CASE EndHandle
  BY <1>4, VectorUnchanged DEF EndHandle, TypeOK, EraseInRange, Marked, NumPorts
<1>5. CASE SortIndexes
  BY <1>5, SortPreserves
<1>6. CASE Erase
  BY <1>6, ErasePreserves
<1>7. CASE AddPending
  BY <1>7, AddPreserves
<1>8. CASE UNCHANGED vars
  BY <1>8
  DEF vars, TypeOK, CountExact, ListenersFirst, EraseInRange, Marked, NumPorts, IsDescending
<1> QED BY <1>1, <1>2, <1>3, <1>4, <1>5, <1>6, <1>7, <1>8 DEF Next

(* The four parts together are an invariant of the bookkeeping: none is
   inductive alone, since erasing in range takes the counter, the order of
   the indexes and the listeners' slots at once. *)
THEOREM PollSetInvariant == Spec => []IInv
BY InitIInv, NextIInv, PTL DEF Spec

(* Every variable of the bookkeeping keeps its type; in particular the
   counter of clients never goes below zero. *)
THEOREM PollSetTypeOK == Spec => []TypeOK
BY PollSetInvariant, PTL DEF IInv

(* The count handed to poll() is the length of the vector, always. *)
THEOREM PollSetCountExact == Spec => []CountExact
BY PollSetInvariant, PTL DEF IInv

(* The listening sockets keep the first _numPorts slots. *)
THEOREM PollSetListenersFirst == Spec => []ListenersFirst
BY PollSetInvariant, PTL DEF IInv

(* No erasure of deleteClient falls outside the vector or on a listening
   socket, and the indexes still queued stay valid after each one. *)
THEOREM PollSetEraseInRange == Spec => []EraseInRange
BY PollSetInvariant, PTL DEF IInv

-----------------------------------------------------------------------------
(* Indexes in ascending order *)

(* g lists the members of S in ascending order, each once. *)
Ascends(g, c, S) ==
  /\ g \in [1..c -> S]
  /\ \A i, j \in 1..c : i < j => g[i] < g[j]
  /\ \A k \in S : \E i \in 1..c : g[i] = k

(* There is only one such list, and Nth returns it. *)
LEMMA AscendsIsNth ==
  ASSUME NEW S \in SUBSET Nat, NEW c \in Nat, NEW g, Ascends(g, c, S)
  PROVE  /\ Cardinality(S) = c
         /\ \A n \in 1..c : Nth(S, n) = g[n]
         /\ \A n \in 1..c : Cardinality(UpTo(S, g[n])) = n
<1>1. IsFiniteSet(1..c) /\ Cardinality(1..c) = c
  BY FS_Interval
<1>2. \A i, j \in 1..c : g[i] \in Nat /\ (g[i] <= g[j] <=> i <= j)
  <2> SUFFICES ASSUME NEW i \in 1..c, NEW j \in 1..c
               PROVE  g[i] \in Nat /\ (g[i] <= g[j] <=> i <= j)
    OBVIOUS
  <2>1. g[i] \in Nat /\ g[j] \in Nat /\ i \in Nat /\ j \in Nat
    <3>1. g[i] \in S /\ g[j] \in S
      BY DEF Ascends
    <3>2. \A k \in S : k \in Nat
      OBVIOUS
    <3>3. g[i] \in Nat /\ g[j] \in Nat
      BY <3>1, <3>2
    <3>4. i \in Nat /\ j \in Nat
      OBVIOUS
    <3> QED
      BY <3>3, <3>4
  <2>2. (i < j => g[i] < g[j]) /\ (j < i => g[j] < g[i])
    BY DEF Ascends
  <2> QED
    BY <2>1, <2>2
<1>3. g \in Bijection(1..c, S)
  <2>1. \A i, j \in 1..c : g[i] = g[j] => i = j
    BY <1>2
  <2> QED
    BY <2>1 DEF Ascends, Bijection, Injection, Surjection, IsInjective
<1>4. Cardinality(S) = c
  BY <1>1, <1>3, FS_Bijection DEF ExistsBijection
<1>5. ASSUME NEW i \in 1..c
      PROVE  Cardinality(UpTo(S, g[i])) = i
  <2> DEFINE T == { j \in S : j <= g[i] }
             h == [m \in 1..i |-> g[m]]
  <2>1. \A m \in 1..i : m \in 1..c
    OBVIOUS
  <2>2. h \in [1..i -> T]
    BY <1>2, <2>1 DEF Ascends
  <2>3. \A k \in T : \E m \in 1..i : h[m] = k
    BY <1>2 DEF Ascends
  <2>4. \A m, n \in 1..i : h[m] = h[n] => m = n
    BY <1>2, <2>1
  <2>5. h \in Bijection(1..i, T)
    <3> HIDE DEF h, T
    <3> QED
      BY <2>2, <2>3, <2>4 DEF Bijection, Injection, Surjection, IsInjective
  <2>6. IsFiniteSet(1..i) /\ Cardinality(1..i) = i
    BY FS_Interval
  <2> QED
    BY <2>5, <2>6, FS_Bijection DEF ExistsBijection, UpTo
<1>6. ASSUME NEW n \in 1..c
      PROVE  Nth(S, n) = g[n]
  <2>1. g[n] \in S /\ Cardinality(UpTo(S, g[n])) = n
    BY <1>5 DEF Ascends
  <2>2. \A k \in S : Cardinality(UpTo(S, k)) = n => k = g[n]
    BY <1>5 DEF Ascends
  <2> QED
    BY <2>1, <2>2 DEF Nth
<1> QED
  BY <1>4, <1>5, <1>6

(* Nth lists every finite set of indexes. *)
LEMMA NthAscends ==
  ASSUME NEW S \in SUBSET Nat, IsFiniteSet(S)
  PROVE  /\ Cardinality(S) \in Nat
         /\ Ascends([n \in 1..Cardinality(S) |-> Nth(S, n)], Cardinality(S), S)
<1> DEFINE c == Cardinality(S)
           r == [k \in S |-> Cardinality(UpTo(S, k))]
<1>1. c \in Nat /\ IsFiniteSet(1..c) /\ Cardinality(1..c) = c
  BY FS_CardinalityType, FS_Interval
<1>2. ASSUME NEW k \in S
      PROVE  IsFiniteSet(UpTo(S, k)) /\ Cardinality(UpTo(S, k)) \in 1..c
  <2>1. UpTo(S, k) \in SUBSET S /\ k \in UpTo(S, k)
    BY DEF UpTo
  <2>2. IsFiniteSet(UpTo(S, k)) /\ Cardinality(UpTo(S, k)) <= c
    BY <2>1, FS_Subset
  <2>3. Cardinality(UpTo(S, k)) \in Nat /\ Cardinality(UpTo(S, k)) # 0
    BY <2>1, <2>2, FS_CardinalityType, FS_EmptySet
  <2> QED
    BY <1>1, <2>2, <2>3
<1>3. r \in [S -> 1..c]
  BY <1>2
<1>4. ASSUME NEW k \in S, NEW m \in S, k < m
      PROVE  r[k] < r[m]
  <2>1. UpTo(S, k) \in SUBSET UpTo(S, m) /\ m \in UpTo(S, m) /\ m \notin UpTo(S, k)
    <3>1. k \in Nat /\ m \in Nat /\ \A j \in S : j \in Nat
      OBVIOUS
    <3>2. \A j \in S : j <= k => j <= m
      BY <1>4, <3>1
    <3>3. ~(m <= k) /\ m <= m
      BY <1>4, <3>1
    <3> QED
      BY <3>2, <3>3 DEF UpTo
  <2>2. Cardinality(UpTo(S, k)) <= Cardinality(UpTo(S, m)) /\ Cardinality(UpTo(S, k)) # Cardinality(UpTo(S, m))
    BY <1>2, <2>1, FS_Subset
  <2> QED
    BY <1>2, <2>2
<1>5. \A k \in S : r[k] = Cardinality(UpTo(S, k))
  OBVIOUS
<1> HIDE DEF r
<1>6. \A k, m \in S : r[k] = r[m] => k = m
  <2> SUFFICES ASSUME NEW k \in S, NEW m \in S, r[k] = r[m]
               PROVE  k = m
    OBVIOUS
  <2>1. k \in Nat /\ m \in Nat /\ r[k] \in Nat /\ r[m] \in Nat
    BY <1>3
  <2>2. ~(k < m) /\ ~(m < k)
    BY <1>4, <2>1
  <2> QED
    BY <2>1, <2>2
<1>7. r \in Surjection(S, 1..c)
  <2>1. r \in Injection(S, 1..c)
    BY <1>3, <1>6 DEF Injection, IsInjective
  <2> QED
    BY <1>1, <2>1, FS_Injection
<1>8. ASSUME NEW n \in 1..c
      PROVE  Nth(S, n) \in S /\ r[Nth(S, n)] = n
  <2>1. \E k \in S : r[k] = n
    BY <1>7 DEF Surjection
  <2>2. \E k \in S : Cardinality(UpTo(S, k)) = n
    BY <1>5, <2>1
  <2>3. Nth(S, n) \in S /\ Cardinality(UpTo(S, Nth(S, n))) = n
    BY <2>2 DEF Nth
  <2> QED
    BY <1>5, <2>3
<1> DEFINE g == [n \in 1..c |-> Nth(S, n)]
<1>9. g \in [1..c -> S] /\ \A n \in 1..c : r[g[n]] = n
  BY <1>8
<1> HIDE DEF g, c
<1>10. \A i, j \in 1..c : i < j => g[i] < g[j]
  <2> SUFFICES ASSUME NEW i \in 1..c, NEW j \in 1..c, i < j
               PROVE  g[i] < g[j]
    OBVIOUS
  <2>1. g[i] \in S /\ g[j] \in S /\ r[g[i]] = i /\ r[g[j]] = j
    BY <1>9
  <2>2. ~(r[g[j]] < r[g[i]]) /\ g[i] # g[j]
    BY <1>1, <2>1
  <2>3. ~(g[j] < g[i])
    BY <1>4, <2>1, <2>2
  <2> QED
    <3>1. g[i] \in Nat /\ g[j] \in Nat
      <4>1. \A k \in S : k \in Nat
        OBVIOUS
      <4> QED
        BY <2>1, <4>1
    <3> QED
      BY <2>2, <2>3, <3>1
<1>11. \A k \in S : \E i \in 1..c : g[i] = k
  BY <1>3, <1>6, <1>9
<1> QED
  BY <1>1, <1>9, <1>10, <1>11 DEF Ascends, g, c

(* The entries of s whose indexes are in S, in their order. *)
Only(s, S) == [n \in 1..Cardinality(S) |-> s[Nth(S, n)]]

LEMMA OnlyProperties ==
  ASSUME NEW T, NEW s \in Seq(T), NEW S \in SUBSET (1..Len(s)),
         NEW c \in Nat, NEW g, Ascends(g, c, S)
  PROVE  /\ Only(s, S) \in Seq(T)
         /\ Len(Only(s, S)) = c
         /\ \A n \in 1..c : Only(s, S)[n] = s[g[n]]
<1>1. Cardinality(S) = c /\ \A n \in 1..c : Nth(S, n) = g[n]
  <2>1. S \in SUBSET Nat
    BY LenProperties
  <2> QED
    BY <2>1, AscendsIsNth
<1>2. \A n \in 1..c : g[n] \in 1..Len(s) /\ s[g[n]] \in T
  <2>1. \A n \in 1..c : g[n] \in 1..Len(s)
    BY DEF Ascends
  <2> QED
    BY <2>1, ElementOfSeq
<1>3. Only(s, S) = [n \in 1..c |-> s[g[n]]]
  BY <1>1 DEF Only
<1>4. [n \in 1..c |-> s[g[n]]] \in [1..c -> T]
  BY <1>2
<1> QED
  BY <1>3, <1>4, LenProperties

LEMMA Listed ==
  ASSUME NEW n \in Nat, NEW S \in SUBSET (1..n)
  PROVE  \E c \in Nat : \E g : Ascends(g, c, S)
<1>1. IsFiniteSet(1..n)
  BY FS_Interval
<1>2. IsFiniteSet(S)
  BY <1>1, FS_Subset
<1>3. S \in SUBSET Nat
  OBVIOUS
<1> QED
  BY <1>2, <1>3, NthAscends

(* All entries are the sequence itself. *)
LEMMA OnlyAll ==
  ASSUME NEW T, NEW s \in Seq(T)
  PROVE  Only(s, 1..Len(s)) = s
<1> DEFINE g == [n \in 1..Len(s) |-> n]
<1>1. Len(s) \in Nat
  BY LenProperties
<1>2. Ascends(g, Len(s), 1..Len(s))
  BY <1>1 DEF Ascends
<1>3. \A n \in 1..Len(s) : g[n] = n
  OBVIOUS
<1> HIDE DEF g
<1>4. /\ Only(s, 1..Len(s)) \in Seq(T) /\ Len(Only(s, 1..Len(s))) = Len(s)
      /\ \A n \in 1..Len(s) : Only(s, 1..Len(s))[n] = s[n]
  BY <1>1, <1>2, <1>3, OnlyProperties
<1> QED
  BY <1>4, SeqEqual

(* S are indexes of s, the first p among them; R are the same ones without
   k, which is above p. *)
Drops(s, S, p, k, R) ==
  /\ p \in Nat /\ 1..p \in SUBSET S /\ S \in SUBSET (1..Len(s))
  /\ k \in S /\ k > p
  /\ R \in SUBSET S /\ \A j \in S : j \in R <=> j # k

(* Without the entry at k, an entry is removed, and not one of the first p. *)
LEMMA OnlyWithout ==
  ASSUME NEW T, NEW s \in Seq(T), NEW S, NEW p, NEW k, NEW R, Drops(s, S, p, k, R)
  PROVE  /\ Only(s, S) \in Seq(T)
         /\ \E m \in 1..Len(Only(s, S)) : m > p /\ Only(s, R) = RemoveAt(Only(s, S), m)
<1>0. /\ p \in Nat /\ 1..p \in SUBSET S /\ S \in SUBSET (1..Len(s))
      /\ k \in S /\ k > p
      /\ R \in SUBSET S /\ \A j \in S : j \in R <=> j # k
  BY DEF Drops
<1>1. Len(s) \in Nat /\ S \in SUBSET Nat
  BY <1>0, LenProperties
<1>c. PICK c \in Nat : \E g : Ascends(g, c, S)
  BY <1>0, <1>1, Listed
<1>2. PICK g : Ascends(g, c, S)
  BY <1>c
<1>3. PICK m \in 1..c : g[m] = k
  BY <1>0, <1>2 DEF Ascends
<1>4. m > p
  <2> DEFINE U == UpTo(S, k)
  <2>1. Cardinality(U) = m
    <3>1. S \in SUBSET Nat /\ c \in Nat
      BY <1>1
    <3>2. Ascends(g, c, S)
      BY <1>2
    <3>3. \A n \in 1..c : Cardinality(UpTo(S, g[n])) = n
      BY <3>1, <3>2, AscendsIsNth
    <3> QED
      BY <1>3, <3>3
  <2>2. (1..p) \cup {k} \in SUBSET U /\ U \in SUBSET (1..Len(s))
    <3>1. U \in SUBSET (1..Len(s))
      BY <1>0 DEF UpTo
    <3>2. k \in Nat /\ \A j \in 1..p : j \in S /\ j <= k
      BY <1>0, <1>1
    <3>3. \A j \in 1..p : j \in U
      BY <1>0, <3>2 DEF UpTo
    <3>4. k \in U
      BY <1>0, <3>2 DEF UpTo
    <3> QED
      BY <1>0, <3>1, <3>3, <3>4
  <2>3. IsFiniteSet(U)
    <3>1. IsFiniteSet(1..Len(s))
      BY <1>0, <1>1, FS_Interval
    <3> QED
      BY <1>0, <2>2, <3>1, FS_Subset
  <2>4. IsFiniteSet(1..p) /\ Cardinality(1..p) = p /\ k \notin 1..p
    BY <1>0, FS_Interval
  <2>5. Cardinality((1..p) \cup {k}) = p + 1
    BY <1>0, <2>4, FS_AddElement
  <2>6. p + 1 <= m
    BY <1>0, <2>1, <2>2, <2>3, <2>5, FS_Subset
  <2> QED
    BY <1>0, <2>6
<1> DEFINE h == [n \in 1..c - 1 |-> IF n < m THEN g[n] ELSE g[n + 1]]
<1>5. /\ \A n \in 1..c - 1 : n \in 1..c /\ n + 1 \in 1..c
      /\ \A i \in 1..c : g[i] \in S /\ g[i] \in Nat
      /\ \A i, j \in 1..c : i < j => g[i] < g[j]
      /\ c - 1 \in Nat
  <2>1. \A i \in 1..c : g[i] \in S
    BY <1>0, <1>2 DEF Ascends
  <2>2. \A i \in 1..c : g[i] \in Nat
    BY <1>0, <1>1, <2>1
  <2>3. \A i, j \in 1..c : i < j => g[i] < g[j]
    BY <1>0, <1>2 DEF Ascends
  <2> QED
    BY <1>0, <2>1, <2>2, <2>3
<1>6. Ascends(h, c - 1, R)
  <2>1. h \in [1..c - 1 -> R]
    <3>1. ASSUME NEW n \in 1..c - 1
          PROVE  /\ n < m => g[n] \in R
                 /\ ~(n < m) => g[n + 1] \in R
      <4>1. n \in 1..c /\ n + 1 \in 1..c /\ n \in Nat /\ m \in Nat
        BY <1>0, <1>5
      <4>2. n < m => g[n] < g[m]
        BY <1>0, <1>5, <4>1
      <4>3. ~(n < m) => g[m] < g[n + 1]
        BY <1>0, <1>5, <4>1
      <4> QED
        BY <1>0, <1>3, <1>5, <4>1, <4>2, <4>3
    <3> QED
      BY <1>0, <3>1
  <2>2. ASSUME NEW i \in 1..c - 1, NEW j \in 1..c - 1, i < j
        PROVE  h[i] < h[j]
    <3>1. i \in 1..c /\ j \in 1..c /\ i + 1 \in 1..c /\ j + 1 \in 1..c
      BY <1>0, <1>5
    <3>2. g[i] < g[j] /\ g[i + 1] < g[j + 1] /\ g[i] < g[j + 1]
      BY <1>0, <1>5, <2>2, <3>1
    <3>3. ~(i < m) => ~(j < m)
      BY <1>0, <2>2
    <3> QED
      BY <1>0, <3>2, <3>3
  <2>3. ASSUME NEW x \in R
        PROVE  \E i \in 1..c - 1 : h[i] = x
    <3>1. PICK i \in 1..c : g[i] = x /\ i # m
      BY <1>0, <1>2, <1>3 DEF Ascends
    <3>2. CASE i < m
      <4>1. i \in 1..c - 1
        BY <1>0, <3>2
      <4> QED
        BY <1>0, <3>1, <3>2, <4>1
    <3>3. CASE ~(i < m)
      <4> DEFINE n == i - 1
      <4>1. n \in 1..c - 1 /\ ~(n < m) /\ n + 1 = i
        BY <1>0, <3>1, <3>3
      <4> HIDE DEF n
      <4>2. h[n] = g[n + 1]
        BY <1>0, <4>1
      <4> QED
        BY <1>0, <3>1, <4>1, <4>2
    <3> QED
      BY <1>0, <3>2, <3>3
  <2> QED
    BY <1>0, <2>1, <2>2, <2>3 DEF Ascends
<1>7. /\ Only(s, S) \in Seq(T) /\ Len(Only(s, S)) = c
      /\ \A n \in 1..c : Only(s, S)[n] = s[g[n]]
  BY <1>0, <1>2, OnlyProperties
<1>8. \A n \in 1..c - 1 : h[n] = IF n < m THEN g[n] ELSE g[n + 1]
  OBVIOUS
<1> HIDE DEF h
<1> DEFINE d == c - 1
           t == Only(s, S)
<1>9. d \in Nat /\ R \in SUBSET (1..Len(s)) /\ Ascends(h, d, R)
  <2>1. d \in Nat /\ R \in SUBSET (1..Len(s))
    BY <1>0, <1>5
  <2> HIDE DEF h
  <2> QED
    BY <1>0, <1>6, <2>1
<1> HIDE DEF d
<1>10. /\ Only(s, R) \in Seq(T) /\ Len(Only(s, R)) = d
       /\ \A n \in 1..d : Only(s, R)[n] = s[h[n]]
  BY <1>0, <1>9, OnlyProperties
<1>11. /\ RemoveAt(t, m) \in Seq(T) /\ Len(RemoveAt(t, m)) = d
       /\ \A n \in 1..d : RemoveAt(t, m)[n] = IF n < m THEN t[n] ELSE t[n + 1]
  <2> HIDE DEF t
  <2>1. t \in Seq(T) /\ m \in 1..Len(t) /\ Len(t) - 1 = d
    BY <1>0, <1>7 DEF t, d
  <2> QED
    BY <1>0, <2>1, RemoveAtProperties
<1>12. ASSUME NEW n \in 1..d
       PROVE  Only(s, R)[n] = RemoveAt(t, m)[n]
  <2>1. n \in 1..c - 1 /\ n \in 1..c /\ n + 1 \in 1..c
    BY <1>0, <1>5 DEF d
  <2>2. h[n] = (IF n < m THEN g[n] ELSE g[n + 1])
    BY <1>0, <1>8, <2>1
  <2>3. Only(s, R)[n] = s[h[n]] /\ t[n] = s[g[n]] /\ t[n + 1] = s[g[n + 1]]
    BY <1>0, <1>7, <1>10, <2>1
  <2>4. RemoveAt(t, m)[n] = IF n < m THEN t[n] ELSE t[n + 1]
    BY <1>0, <1>11
  <2> HIDE DEF t
  <2> QED
    BY <1>0, <2>2, <2>3, <2>4
<1>13. Only(s, R) = RemoveAt(t, m)
  <2> HIDE DEF t
  <2> QED
    BY <1>0, <1>10, <1>11, <1>12, SeqEqual
<1> QED
  BY <1>0, <1>4, <1>7, <1>13

(* The entries that stay are the same after an entry that does not has been
   erased, if the indexes above it move down by one. *)
LEMMA OnlyErased ==
  ASSUME NEW T, NEW s \in Seq(T), NEW S \in SUBSET (1..Len(s)),
         NEW k \in 1..Len(s), k \notin S,
         NEW R \in SUBSET (1..Len(s) - 1),
         \A j \in 1..Len(s) - 1 : j \in R <=> IF j < k THEN j \in S ELSE j + 1 \in S
  PROVE  Only(RemoveAt(s, k), R) = Only(s, S)
<1>1. Len(s) \in Nat /\ k \in Nat
  BY LenProperties
<1>c. PICK c \in Nat : \E g : Ascends(g, c, S)
  BY <1>1, Listed
<1>2. PICK g : Ascends(g, c, S)
  BY <1>c
<1> DEFINE h == [n \in 1..c |-> IF g[n] < k THEN g[n] ELSE g[n] - 1]
<1>3. /\ \A n \in 1..c : g[n] \in S /\ g[n] \in 1..Len(s) /\ g[n] # k
      /\ \A i, j \in 1..c : i < j => g[i] < g[j]
      /\ \A j \in S : \E n \in 1..c : g[n] = j
  BY <1>2 DEF Ascends
<1>4. ASSUME NEW n \in 1..c
      PROVE  /\ g[n] \in Nat /\ h[n] \in 1..Len(s) - 1 /\ h[n] \in R
             /\ h[n] = IF g[n] < k THEN g[n] ELSE g[n] - 1
  <2>1. g[n] \in Nat /\ 1 <= g[n] /\ g[n] <= Len(s) /\ g[n] # k /\ g[n] \in S
    BY <1>1, <1>3
  <2>2. CASE g[n] < k
    <3>1. h[n] = g[n] /\ g[n] \in 1..Len(s) - 1
      BY <1>1, <2>1, <2>2
    <3>2. g[n] \in R
      BY <2>1, <2>2, <3>1
    <3> QED
      BY <2>1, <2>2, <3>1, <3>2
  <2>3. CASE ~(g[n] < k)
    <3> DEFINE i == g[n] - 1
    <3>1. h[n] = i /\ i \in 1..Len(s) - 1 /\ ~(i < k) /\ i + 1 = g[n]
      <4>1. h[n] = i
        BY <2>3
      <4>2. i \in 1..Len(s) - 1 /\ ~(i < k) /\ i + 1 = g[n]
        BY <1>1, <2>1, <2>3
      <4> QED
        BY <4>1, <4>2
    <3> HIDE DEF i
    <3>2. i \in R
      BY <2>1, <3>1
    <3> QED
      BY <2>1, <2>3, <3>1, <3>2 DEF i
  <2> QED
    BY <2>2, <2>3
<1>5. h \in [1..c -> R]
  BY <1>4
<1> HIDE DEF h
<1>6. ASSUME NEW i \in 1..c, NEW j \in 1..c, i < j
      PROVE  h[i] < h[j]
  <2>1. g[i] < g[j] /\ g[i] # k /\ g[j] # k
    BY <1>3, <1>6
  <2> QED
    BY <1>1, <1>4, <2>1
<1>7. ASSUME NEW j \in R
      PROVE  \E n \in 1..c : h[n] = j
  <2>1. j \in 1..Len(s) - 1 /\ j \in Nat
    BY <1>1
  <2>2. CASE j < k
    <3>1. PICK n \in 1..c : g[n] = j
      BY <1>3, <2>1, <2>2
    <3> QED
      BY <1>4, <2>2, <3>1
  <2>3. CASE ~(j < k)
    <3>1. j + 1 \in S
      BY <2>1, <2>3
    <3>2. PICK n \in 1..c : g[n] = j + 1
      BY <1>3, <3>1
    <3>3. ~(g[n] < k) /\ g[n] - 1 = j
      BY <1>1, <2>1, <2>3, <3>2
    <3> QED
      BY <1>4, <3>3
  <2> QED
    BY <2>2, <2>3
<1>8. Ascends(h, c, R)
  BY <1>5, <1>6, <1>7 DEF Ascends
<1> DEFINE t == RemoveAt(s, k)
<1>9. /\ t \in Seq(T) /\ Len(t) = Len(s) - 1
      /\ \A i \in 1..Len(s) - 1 : t[i] = IF i < k THEN s[i] ELSE s[i + 1]
  BY RemoveAtProperties
<1> HIDE DEF t
<1>10. /\ Only(t, R) \in Seq(T) /\ Len(Only(t, R)) = c
       /\ \A n \in 1..c : Only(t, R)[n] = t[h[n]]
  <2>1. R \in SUBSET (1..Len(t))
    BY <1>9
  <2> QED
    BY <1>8, <1>9, <2>1, OnlyProperties
<1>11. /\ Only(s, S) \in Seq(T) /\ Len(Only(s, S)) = c
       /\ \A n \in 1..c : Only(s, S)[n] = s[g[n]]
  BY <1>2, OnlyProperties
<1>12. ASSUME NEW n \in 1..c
       PROVE  Only(t, R)[n] = Only(s, S)[n]
  <2>1. t[h[n]] = s[g[n]]
    <3>1. CASE g[n] < k
      BY <1>4, <1>9, <3>1
    <3>2. CASE ~(g[n] < k)
      <4>1. h[n] = g[n] - 1 /\ h[n] + 1 = g[n] /\ ~(h[n] < k)
        BY <1>1, <1>3, <1>4, <3>2
      <4>2. t[h[n]] = s[h[n] + 1]
        BY <1>4, <1>9, <4>1
      <4> QED
        BY <4>1, <4>2
    <3> QED
      BY <3>1, <3>2
  <2> QED
    BY <1>10, <1>11, <2>1
<1> QED
  <2>1. Only(t, R) = Only(s, S)
    BY <1>10, <1>11, <1>12, SeqEqual
  <2> QED
    BY <2>1 DEF t

-----------------------------------------------------------------------------
(* Deferring is invisible *)

Watched == Unmarked \o addPollFds

LEMMA WatchedType ==
  ASSUME IInv
  PROVE  /\ Kept \in SUBSET (1..Len(pollFds)) /\ Kept = 1..Len(pollFds) \ Marked
         /\ Unmarked = Only(pollFds, Kept)
         /\ Unmarked \in Seq(Fd) /\ addPollFds \in Seq(Fd) /\ pollFds \in Seq(Fd)
         /\ Watched \in Seq(Fd)
<1>1. pollFds \in Seq(Fd) /\ addPollFds \in Seq(Fd)
  BY DEF IInv, TypeOK
<1>2. Kept \in SUBSET (1..Len(pollFds)) /\ Kept = 1..Len(pollFds) \ Marked
  BY <1>1, LenProperties DEF Kept
<1>3. Unmarked = Only(pollFds, Kept)
  BY DEF Unmarked, Only
<1>4. Only(pollFds, Kept) \in Seq(Fd)
  <2>1. Len(pollFds) \in Nat
    BY <1>1, LenProperties
  <2>c. PICK c \in Nat : \E g : Ascends(g, c, Kept)
    BY <1>2, <2>1, Listed
  <2>2. PICK g : Ascends(g, c, Kept)
    BY <2>c
  <2> QED
    BY <1>1, <1>2, <2>2, OnlyProperties
<1> QED
  BY <1>1, <1>2, <1>3, <1>4, ConcatProperties DEF Watched

(* The listening sockets' indexes are never marked. *)
LEMMA ListenersKept ==
  ASSUME IInv
  PROVE  1..NumPorts \subseteq Kept
<1>1. Len(pollFds) \in Nat /\ NumPorts \in Nat /\ NumPorts <= Len(pollFds)
  BY PortsFacts, LenProperties DEF IInv, TypeOK, ListenersFirst
<1>2. \A i \in 1..NumPorts : i \in 1..Len(pollFds) /\ i \notin NumPorts + 1 .. Len(pollFds)
  BY <1>1
<1> QED
  BY <1>2, WatchedType DEF IInv, EraseInRange

LEMMA InitWatches == Init => Deferred!Init
<1> SUFFICES ASSUME Init PROVE Watched = Ports
  BY DEF Deferred!Init, Watched
<1>1. IInv
  BY InitIInv
<1>2. Marked = {} /\ pollFds = Ports /\ addPollFds = <<>>
  BY DEF Init, Marked
<1>3. Kept = 1..Len(Ports)
  BY <1>1, <1>2, WatchedType
<1>4. Unmarked = Ports
  BY <1>1, <1>2, <1>3, WatchedType, OnlyAll
<1> QED
  BY <1>1, <1>2, <1>4, WatchedType, ConcatEmptySeq DEF Watched

(* Steps that change neither the vector nor the set of marks. *)
LEMMA SameWatched ==
  ASSUME UNCHANGED pollFds, Marked' = Marked
  PROVE  Unmarked' = Unmarked /\ Kept' = Kept
BY DEF Unmarked, Kept

(* createClient: one descriptor comes under watch. *)
LEMMA CreateWatches ==
  ASSUME IInv, NEW fd \in Fd, CreateClient(fd)
  PROVE  Deferred!Next
<1>1. Unmarked' = Unmarked
  BY SameWatched DEF CreateClient, Marked
<1>2. addPollFds' = Append(addPollFds, fd)
  BY DEF CreateClient
<1>3. Unmarked \o Append(addPollFds, fd) = Append(Unmarked \o addPollFds, fd)
  BY WatchedType, AppendIsConcat, ConcatAssociative, ConcatProperties
<1> QED
  BY <1>1, <1>2, <1>3 DEF Deferred!Next, Deferred!Watch

(* pushDelPollFd: the entry leaves, or had left already. *)
LEMMA MarkUnwatches ==
  ASSUME IInv, NEW k \in 1..Len(pollFds), PushDelPollFd(k)
  PROVE  Deferred!Next \/ UNCHANGED Watched
<1>1. /\ delIndex \in Seq(Nat) /\ k \in Nat /\ k > NumPorts /\ NumPorts \in Nat
      /\ delIndex' = Append(delIndex, k)
      /\ UNCHANGED <<pollFds, addPollFds>>
  <2>1. NumPorts \in Nat /\ k \in Nat
    BY PortsFacts, LenProperties DEF IInv, TypeOK
  <2> QED
    BY <2>1 DEF IInv, TypeOK, PushDelPollFd
<1>2. Marked' = Marked \cup {k}
  <2>1. DOMAIN delIndex = 1..Len(delIndex) /\ DOMAIN delIndex' = 1..Len(delIndex) + 1 /\ Len(delIndex) \in Nat
        /\ delIndex'[Len(delIndex) + 1] = k
        /\ \A i \in 1..Len(delIndex) : delIndex'[i] = delIndex[i]
    BY <1>1, AppendProperties, LenProperties
  <2> QED
    BY <2>1 DEF Marked
<1>3. CASE k \in Marked
  <2>1. Marked' = Marked
    BY <1>2, <1>3
  <2> QED
    BY <1>1, <2>1, SameWatched DEF Watched
<1>4. CASE k \notin Marked
  <2>1. k \in Kept /\ Kept' = Kept \ {k}
    BY <1>1, <1>2, <1>4, WatchedType DEF Kept
  <2>2. Unmarked' = Only(pollFds, Kept \ {k})
    BY <1>1, <2>1 DEF Unmarked, Only
  <2>3. PICK m \in 1..Len(Unmarked) : m > NumPorts /\ Unmarked' = RemoveAt(Unmarked, m)
    <3> DEFINE R == Kept'
    <3>1. pollFds \in Seq(Fd) /\ Kept \in SUBSET (1..Len(pollFds)) /\ Unmarked = Only(pollFds, Kept)
      BY WatchedType
    <3>2. R \in SUBSET Kept /\ \A j \in Kept : j \in R <=> j # k
      BY <2>1
    <3>3. Unmarked' = Only(pollFds, R)
      BY <2>1, <2>2
    <3> HIDE DEF R
    <3>4. Drops(pollFds, Kept, NumPorts, k, R)
      BY <1>1, <2>1, <3>1, <3>2, ListenersKept DEF Drops
    <3>5. \E m \in 1..Len(Only(pollFds, Kept)) :
             m > NumPorts /\ Only(pollFds, R) = RemoveAt(Only(pollFds, Kept), m)
      BY <3>1, <3>4, OnlyWithout
    <3> QED
      BY <3>1, <3>3, <3>5
  <2>4. Unmarked' \o addPollFds' = RemoveAt(Unmarked \o addPollFds, m)
    BY <1>1, <2>3, WatchedType, RemoveAtConcat
  <2>5. m \in DOMAIN (Unmarked \o addPollFds)
    <3>1. Len(Unmarked \o addPollFds) = Len(Unmarked) + Len(addPollFds)
          /\ Len(Unmarked) \in Nat /\ Len(addPollFds) \in Nat
          /\ DOMAIN (Unmarked \o addPollFds) = 1..Len(Unmarked \o addPollFds)
      BY WatchedType, ConcatProperties, LenProperties DEF Watched
    <3> QED
      BY <3>1
  <2>6. Deferred!Unwatch(m)
    BY <2>3, <2>4 DEF Deferred!Unwatch, Deferred!RemoveAt, RemoveAt, NumPorts
  <2> QED
    BY <2>5, <2>6 DEF Deferred!Next
<1> QED
  BY <1>3, <1>4

(* Sorting the marks and dropping repeated ones loses none. *)
LEMMA SortInvisible ==
  ASSUME IInv, SortIndexes
  PROVE  UNCHANGED Watched
<1>1. Marked' = Marked
  <2>1. delIndex' \in SortedUnique(Marked)
    BY DEF SortIndexes
  <2>2. /\ delIndex' \in [1..Cardinality(Marked) -> Marked]
        /\ \A k \in Marked : \E i \in DOMAIN delIndex' : delIndex'[i] = k
    BY <2>1 DEF SortedUnique
  <2>3. Marked' = { delIndex'[i] : i \in DOMAIN delIndex' }
    BY DEF Marked
  <2> HIDE DEF Marked
  <2>4. \A i \in DOMAIN delIndex' : delIndex'[i] \in Marked
    BY <2>2
  <2> QED
    BY <2>2, <2>3, <2>4
<1> QED
  BY <1>1, SameWatched DEF SortIndexes, Watched

(* Erasing the entry with the greatest mark moves no unmarked entry out of
   its order and takes none of them. *)
LEMMA EraseInvisible ==
  ASSUME IInv, Erase
  PROVE  UNCHANGED Watched
<1> DEFINE k == Head(delIndex)
           l == Len(pollFds)
<1>1. /\ delIndex \in Seq(Nat) /\ delIndex # <<>> /\ pollFds \in Seq(Fd) /\ l \in Nat
      /\ pollFds' = RemoveAt(pollFds, k) /\ delIndex' = Tail(delIndex)
      /\ UNCHANGED addPollFds
      /\ IsDescending(delIndex) /\ Marked \subseteq 1..l
  <2>1. pollFds \in Seq(Fd) /\ l \in Nat /\ NumPorts \in Nat
    BY PortsFacts, LenProperties DEF IInv, TypeOK
  <2>2. Marked \subseteq NumPorts + 1 .. l
    BY DEF IInv, EraseInRange
  <2>3. Marked \subseteq 1..l
    BY <2>1, <2>2
  <2> QED
    BY <2>1, <2>3 DEF IInv, TypeOK, EraseInRange, Erase
<1>2. /\ k = delIndex[1] /\ 1 \in DOMAIN delIndex
      /\ DOMAIN delIndex = 1..Len(delIndex) /\ Len(delIndex) \in Nat
      /\ DOMAIN delIndex' = 1..Len(delIndex) - 1
      /\ \A i \in 1..Len(delIndex) - 1 : delIndex'[i] = delIndex[i + 1]
  BY <1>1, HeadTailProperties, LenProperties, EmptySeq
<1>3. k \in Marked /\ k \in 1..l
  BY <1>1, <1>2 DEF Marked
<1>4. \A j \in Marked' : j \in Marked /\ j < k
  <2> SUFFICES ASSUME NEW i \in DOMAIN delIndex'
               PROVE  delIndex'[i] \in Marked /\ delIndex'[i] < k
    BY DEF Marked
  <2>1. i + 1 \in DOMAIN delIndex /\ 1 < i + 1 /\ delIndex'[i] = delIndex[i + 1]
    BY <1>2
  <2>2. delIndex[1] > delIndex[i + 1]
    BY <1>1, <1>2, <2>1 DEF IsDescending
  <2>3. delIndex[1] \in Nat /\ delIndex[i + 1] \in Nat
    BY <1>1, <1>2, <2>1, ElementOfSeq
  <2> QED
    BY <1>2, <2>1, <2>2, <2>3 DEF Marked
<1>5. \A j \in Marked : j = k \/ j \in Marked'
  <2> SUFFICES ASSUME NEW i \in DOMAIN delIndex, i # 1
               PROVE  delIndex[i] \in Marked'
    BY <1>2 DEF Marked
  <2> DEFINE n == i - 1
  <2>1. n \in 1..Len(delIndex) - 1 /\ n + 1 = i
    BY <1>2
  <2> HIDE DEF n
  <2>2. n \in DOMAIN delIndex' /\ delIndex'[n] = delIndex[i]
    BY <1>2, <2>1
  <2> QED
    BY <2>2 DEF Marked
<1> HIDE DEF k, l
<1>6. \A j \in Marked : j \in Nat /\ j <= k
  <2>1. \A j \in Marked : j \in Nat
    BY <1>1
  <2> QED
    BY <1>3, <1>4, <1>5, <2>1
<1>7. Kept = 1..l \ Marked /\ Kept' = 1..l - 1 \ Marked' /\ Kept' \in SUBSET (1..l - 1)
  <2>1. pollFds' \in Seq(Fd) /\ Len(pollFds') = l - 1
    BY <1>1, <1>3, RemoveAtProperties DEF l
  <2>2. DOMAIN pollFds = 1..l /\ DOMAIN pollFds' = 1..l - 1
    BY <1>1, <2>1, LenProperties DEF l
  <2> QED
    BY <2>2 DEF Kept
<1>8. ASSUME NEW j \in 1..l - 1
      PROVE  j \in Kept' <=> IF j < k THEN j \in Kept ELSE j + 1 \in Kept
  <2>1. j \in 1..l /\ j + 1 \in 1..l /\ j \in Nat /\ k \in Nat
    BY <1>1, <1>3
  <2>2. CASE j < k
    BY <1>4, <1>5, <1>7, <2>1, <2>2
  <2>3. CASE ~(j < k)
    <3>1. j \notin Marked'
      BY <1>4, <2>3
    <3>2. ~(j + 1 <= k)
      BY <2>1, <2>3
    <3>3. j + 1 \notin Marked
      BY <1>6, <3>2
    <3> QED
      BY <1>7, <2>1, <2>3, <3>1, <3>3
  <2> QED
    BY <2>2, <2>3
<1>9. Only(RemoveAt(pollFds, k), Kept') = Only(pollFds, Kept)
  <2> DEFINE R == Kept'
  <2>1. /\ Kept \in SUBSET (1..Len(pollFds)) /\ k \in 1..Len(pollFds) /\ k \notin Kept
        /\ R \in SUBSET (1..Len(pollFds) - 1)
        /\ \A j \in 1..Len(pollFds) - 1 : j \in R <=> IF j < k THEN j \in Kept ELSE j + 1 \in Kept
    BY <1>3, <1>7, <1>8 DEF l
  <2> HIDE DEF R
  <2>2. Only(RemoveAt(pollFds, k), R) = Only(pollFds, Kept)
    BY <1>1, <2>1, OnlyErased
  <2> QED
    BY <2>2 DEF R
<1>10. Unmarked' = Unmarked
  BY <1>1, <1>9 DEF Unmarked, Only
<1> QED
  BY <1>1, <1>10 DEF Watched

(* The queued entries join a vector with no marks left. *)
LEMMA AddInvisible ==
  ASSUME IInv, AddPending
  PROVE  UNCHANGED Watched
<1>1. /\ Marked = {} /\ Marked' = {}
      /\ pollFds' = pollFds \o addPollFds /\ addPollFds' = <<>>
  BY DEF AddPending, Marked
<1>2. IInv'
  BY AddPreserves
<1>3. Unmarked = pollFds
  BY <1>1, WatchedType, OnlyAll
<1>4. Unmarked' = pollFds'
  <2>1. pollFds' \in Seq(Fd)
    BY <1>2 DEF IInv, TypeOK
  <2>2. Kept' = 1..Len(pollFds')
    BY <1>1, <2>1, LenProperties DEF Kept
  <2>3. Unmarked' = Only(pollFds', 1..Len(pollFds'))
    BY <2>2 DEF Unmarked, Only
  <2> QED
    BY <2>1, <2>3, OnlyAll
<1>5. pollFds' \o <<>> = pollFds'
  BY <1>2, ConcatEmptySeq DEF IInv, TypeOK
<1> QED
  BY <1>1, <1>3, <1>4, <1>5 DEF Watched

LEMMA NextWatches == IInv /\ [Next]_vars => [Deferred!Next]_Watched
<1> SUFFICES ASSUME IInv, [Next]_vars PROVE Deferred!Next \/ UNCHANGED Watched
  OBVIOUS
<1>1. ASSUME NEW fd \in Fd, CreateClient(fd) PROVE Deferred!Next
  BY <1>1, CreateWatches
<1>2. ASSUME NEW k \in 1..Len(pollFds), PushDelPollFd(k) PROVE Deferred!Next \/ UNCHANGED Watched
  BY <1>2, MarkUnwatches
<1>3. CASE SortIndexes
  BY <1>3, SortInvisible
<1>4. CASE Erase
  BY <1>4, EraseInvisible
<1>5. CASE AddPending
  BY <1>5, AddInvisible
<1>6. CASE Poll \/ EndHandle \/ UNCHANGED vars
  <2>1. UNCHANGED <<pollFds, delIndex, addPollFds>>
    BY <1>6 DEF Poll, EndHandle, vars
  <2> QED
    BY <2>1, SameWatched DEF Watched, Marked
<1> QED
  BY <1>1, <1>2, <1>3, <1>4, <1>5, <1>6 DEF Next

(* The deferred bookkeeping implements the immediate one: each step is one
   watch or unwatch of WatchList, or leaves the list as it was. *)
THEOREM DeferringIsInvisible == Spec => DeferredIsWatchList
<1>1. Init => Deferred!Init
  BY InitWatches
<1>2. IInv /\ [Next]_vars => [Deferred!Next]_(Unmarked \o addPollFds)
  BY NextWatches DEF Watched
<1> QED
  BY <1>1, <1>2, PollSetInvariant, PTL DEF Spec, DeferredIsWatchList, Deferred!Spec

=============================================================================
