----------------------------- MODULE Containers -----------------------------
(***************************************************************************)
(* The containers of RiotBase that the others are made of: the resizable   *)
(* vector (RB/cpp/RiotBase/System/Vec.h), the doubly linked list whose     *)
(* ends point to themselves (DoublyLinkedCycleEndedList.h) and the         *)
(* allocator of small blocks (KsAllocator.h).                              *)
(*                                                                         *)
(* A cell of a vector holds an item or nothing that was constructed. The   *)
(* value given to a vector is not one of its own items, and the vector     *)
(* keeps no item in itself (static_prer is 0).                             *)
(***************************************************************************)
EXTENDS Integers, Sequences, FiniteSets

CONSTANTS
    Items, Raw,     \* values, and what a cell holds before one is constructed
    ItemSize,       \* sizeof( T )
    MaxItems,       \* bound
    Nodes, Null,    \* links of a list, the null pointer
    ChunkSize,      \* size_mmap, 8192
    BlockSizes,     \* the classes of small blocks: 8, 16, 20, 24, ..., 8192
    MaxChunks       \* bound

ASSUME ContainersAssumption ==
    /\ Raw \notin Items /\ Null \notin Nodes
    /\ {ItemSize, ChunkSize, MaxItems, MaxChunks} \subseteq Nat \ {0}
    /\ BlockSizes \subseteq 1 .. ChunkSize /\ ChunkSize \in BlockSizes

VARIABLES
    vec,        \* [size, rese, cells]: rese in bytes, cells the memory it has
    items,      \* the sequence that the vector stands for
    list,       \* [first, last, prev, next]
    nodes,      \* the sequence that the list stands for
    heap        \* [size, free, next, given, chunks] of one class of blocks

vecvars == <<vec, items>>
listvars == <<list, nodes>>
containervars == <<vec, items, list, nodes, heap>>

-----------------------------------------------------------------------------
\* Vec

Room(v) == v.rese \div ItemSize
Memory(n) == [i \in 1 .. n |-> Raw]

\* _mv_data_for_size: the items are constructed anew in the new memory.
Moved(v, bytes) ==
    [v EXCEPT !.rese = bytes,
              !.cells = [i \in 1 .. bytes \div ItemSize |-> IF i <= v.size THEN v.cells[i] ELSE Raw]]

\* reserve_wm: more than what is wanted
ReserveMore(v, wanted) ==
    LET n == 2 * (v.rese + 1)
        w == wanted * ItemSize
    IN  IF w <= v.rese THEN v ELSE Moved(v, IF w > n THEN w ELSE n)
Reserve(v, wanted) == IF wanted * ItemSize <= v.rese THEN v ELSE Moved(v, wanted * ItemSize)

PushBack(v, x) == LET w == ReserveMore(v, v.size + 1)
                  IN  [w EXCEPT !.cells[w.size + 1] = x, !.size = @ + 1]
PopBack(v) == [v EXCEPT !.size = @ - 1, !.cells[v.size] = Raw]

\* resize( new_size, v0 ): those in excess are destroyed, those that lack made.
Resize(v, n, x) ==
    LET w == Reserve([v EXCEPT !.cells = [i \in DOMAIN @ |-> IF i > n /\ i <= v.size THEN Raw ELSE @[i]]], n)
    IN  [w EXCEPT !.size = n,
                  !.cells = [i \in DOMAIN @ |-> IF i > v.size /\ i <= n THEN x ELSE @[i]]]

\* remove( pos ), pos from 0: what follows is moved one cell down, as many times as
\* there are items after it.
VecRemove(v, pos) ==
    PopBack([v EXCEPT !.cells = [i \in DOMAIN @ |-> IF i > pos /\ i < v.size THEN @[i + 1] ELSE @[i]]])
\* remove_unordered
RemoveUnordered(v, pos) == PopBack([v EXCEPT !.cells[pos + 1] = v.cells[v.size]])

\* remove_some: the last cells are not destroyed.
RemoveSome(v, pos, len) ==
    [v EXCEPT !.size = @ - len,
              !.cells = [i \in DOMAIN @ |-> IF i > pos /\ i <= v.size - len THEN @[i + len] ELSE @[i]]]

\* insert_some( pos, len, val )
InsertSome(v, pos, len, x) ==
    LET w == ReserveMore(v, v.size + len)
    IN  IF len = 0 THEN v
        ELSE [w EXCEPT !.size = @ + len,
                       !.cells = [i \in DOMAIN @ |-> IF i <= pos \/ i > w.size + len THEN @[i]
                                                     ELSE IF i <= pos + len THEN x ELSE w.cells[i - len]]]

\* clear: the memory is given back.
ClearVec == [size |-> 0, rese |-> 0, cells |-> Memory(0)]

\* operator=( const Vec & )
Assign(v, s) ==
    LET w == Reserve(v, Len(s))
    IN  [w EXCEPT !.size = Len(s),
                  !.cells = [i \in DOMAIN @ |-> IF i <= Len(s) THEN s[i] ELSE IF i <= v.size THEN Raw ELSE @[i]]]

\* The first index, from 0, of an item, -1 if there is none.
Least(S) == CHOOSE i \in S : \A j \in S : i <= j
FirstIndexEqualTo(v, x) ==
    LET found == {i \in 1 .. v.size : v.cells[i] = x}
    IN  IF found = {} THEN -1 ELSE Least(found) - 1
PushBackUnique(v, x) == IF FirstIndexEqualTo(v, x) = -1 THEN PushBack(v, x) ELSE v
VecRemoveFirst(v, x) == IF FirstIndexEqualTo(v, x) = -1 THEN v ELSE VecRemove(v, FirstIndexEqualTo(v, x))

-----------------------------------------------------------------------------
\* The same on a sequence.

Less(s, pos, len) == SubSeq(s, 1, pos) \o SubSeq(s, pos + len + 1, Len(s))
Times(x, n) == [i \in 1 .. n |-> x]
Insertion(s, pos, t) == SubSeq(s, 1, pos) \o t \o SubSeq(s, pos + 1, Len(s))
Smaller(s, n, x) == IF n <= Len(s) THEN SubSeq(s, 1, n) ELSE s \o Times(x, n - Len(s))
IndexesOf(s, x) == {i \in DOMAIN s : s[i] = x}
LastTo(s, pos) == LET t == SubSeq(s, 1, Len(s) - 1) IN IF pos + 1 = Len(s) THEN t ELSE [t EXCEPT ![pos + 1] = s[Len(s)]]

VecDoes(v, s) == vec' = v /\ items' = s

VecNext ==
    \/ \E x \in Items : Len(items) < MaxItems /\ VecDoes(PushBack(vec, x), Append(items, x))
    \/ items # <<>> /\ VecDoes(PopBack(vec), SubSeq(items, 1, Len(items) - 1))
    \/ \E n \in 0 .. MaxItems, x \in Items : VecDoes(Resize(vec, n, x), Smaller(items, n, x))
    \/ \E pos \in 0 .. Len(items) - 1 :
          \/ VecDoes(VecRemove(vec, pos), Less(items, pos, 1))
          \/ VecDoes(RemoveUnordered(vec, pos), LastTo(items, pos))
          \/ \E len \in 0 .. Len(items) - pos : VecDoes(RemoveSome(vec, pos, len), Less(items, pos, len))
    \/ \E pos \in 0 .. Len(items), len \in 0 .. MaxItems - Len(items), x \in Items :
          VecDoes(InsertSome(vec, pos, len, x), Insertion(items, pos, Times(x, len)))
    \/ VecDoes(ClearVec, <<>>)
    \/ \E s \in {<<>>} \cup UNION {[1 .. n -> Items] : n \in 1 .. MaxItems - 1} : VecDoes(Assign(vec, s), s)
    \/ \E x \in Items :
          \/ /\ Len(items) < MaxItems
             /\ VecDoes(PushBackUnique(vec, x), IF IndexesOf(items, x) = {} THEN Append(items, x) ELSE items)
          \/ VecDoes(VecRemoveFirst(vec, x),
                     IF IndexesOf(items, x) = {} THEN items ELSE Less(items, Least(IndexesOf(items, x)) - 1, 1))

-----------------------------------------------------------------------------
\* DoublyLinkedCycleEndedList

InList(l, n) == l.prev[n] # Null

PushNode(l, n) ==
    IF l.first = Null
    THEN [l EXCEPT !.prev[n] = n, !.next[n] = n, !.first = n, !.last = n]
    ELSE IF InList(l, n) THEN l
    ELSE [l EXCEPT !.next = [@ EXCEPT ![l.last] = n, ![n] = n], !.prev[n] = l.last, !.last = n]

\* What points to n is made to point to its neighbour.
Unlinked(l, n) ==
    CASE l.prev[n] = n /\ l.next[n] = n -> [l EXCEPT !.first = Null, !.last = Null]
      [] l.prev[n] = n /\ l.next[n] # n -> [l EXCEPT !.first = l.next[n], !.prev[l.next[n]] = l.next[n]]
      [] l.prev[n] # n /\ l.next[n] = n -> [l EXCEPT !.last = l.prev[n], !.next[l.prev[n]] = l.prev[n]]
      [] OTHER -> [l EXCEPT !.next[l.prev[n]] = l.next[n], !.prev[l.next[n]] = l.prev[n]]
RemoveKeepsLinks(l, n) == IF InList(l, n) THEN Unlinked(l, n) ELSE l      \* a mutant
RemoveNode(l, n) ==
    IF InList(l, n) THEN [Unlinked(l, n) EXCEPT !.prev[n] = Null, !.next[n] = Null] ELSE l

\* What a walk along the links meets from n on: the least set that has n and,
\* with each of its members, the one this is linked to.
Chain(link, n) ==
    {m \in DOMAIN link : \A S \in SUBSET DOMAIN link :
        {n} \cap DOMAIN link \subseteq S
        /\ (\A x \in S : {link[x]} \cap DOMAIN link \subseteq S) => m \in S}
Unset(link, S) == [n \in DOMAIN link |-> IF n \in S THEN Null ELSE link[n]]
ClearList(l) == IF l.first = Null THEN l
                ELSE LET met == Chain(l.next, l.first)
                     IN  [first |-> Null, last |-> Null,
                          prev |-> Unset(l.prev, met), next |-> Unset(l.next, met)]

\* The nodes that apply meets from n on are those of s, in this order.
Applied(link, n, s) ==
    IF s = <<>> THEN n = Null
    ELSE /\ n = s[1] /\ link[s[Len(s)]] = s[Len(s)]
         /\ \A i \in 1 .. Len(s) - 1 : link[s[i]] = s[i + 1] /\ s[i + 1] # s[i]
Backwards(s) == [i \in 1 .. Len(s) |-> s[Len(s) + 1 - i]]

IsIn(s, n) == \E i \in DOMAIN s : s[i] = n
ListDoes(l, s) == list' = l /\ nodes' = s

ListNext ==
    \/ \E n \in Nodes : ListDoes(PushNode(list, n), IF IsIn(nodes, n) THEN nodes ELSE Append(nodes, n))
    \/ \E n \in Nodes : ~ IsIn(nodes, n) /\ ListDoes(RemoveNode(list, n), nodes)
    \/ \E pos \in 0 .. Len(nodes) - 1 : ListDoes(RemoveNode(list, nodes[pos + 1]), Less(nodes, pos, 1))
    \/ ListDoes(ClearList(list), <<>>)

-----------------------------------------------------------------------------
\* KsAllocator: a chunk is cut in blocks, each of which holds the address of the
\* next one that is free; a block in use holds anything.

\* malloc( size ) and free( address, size ): the class of a size, each of which has
\* its own chunks.
ClassOf(n) == CHOOSE s \in BlockSizes : n <= s /\ \A t \in BlockSizes : n <= t => s <= t

\* The blocks that new_allocator_chunk links, by their addresses in the chunk.
BlocksOf(size) == {k * size : k \in 0 .. (IF ChunkSize < 2 * size THEN 0 ELSE (ChunkSize - 2 * size) \div size + 1)}
NewChunk(h) ==
    LET base == h.chunks * ChunkSize
        blocks == {base + b : b \in BlocksOf(h.size)}
    IN  [h EXCEPT !.chunks = @ + 1, !.free = base,
                  !.next = [a \in DOMAIN @ \cup blocks |->
                              CASE a \notin blocks -> @[a]
                                [] a \in blocks /\ a + h.size \in blocks -> a + h.size
                                [] OTHER -> -1]]
Popped(h) == [h EXCEPT !.free = h.next[h.free], !.given = @ \cup {h.free}, !.next[h.free] = -2]
Malloc(h) == IF h.free = -1 THEN Popped(NewChunk(h)) ELSE Popped(h)
Free(h, a) == [h EXCEPT !.next[a] = h.free, !.free = a, !.given = @ \ {a}]

HeapNext ==
    \/ (heap.free = -1 => heap.chunks < MaxChunks) /\ heap' = Malloc(heap)
    \/ \E a \in heap.given : heap' = Free(heap, a)

ContainersInit ==
    /\ vec = ClearVec /\ items = <<>>
    /\ list = [first |-> Null, last |-> Null, prev |-> [n \in Nodes |-> Null], next |-> [n \in Nodes |-> Null]]
    /\ nodes = <<>>
    /\ \E n \in 1 .. ChunkSize :
         heap = [size |-> ClassOf(n), free |-> -1, next |-> [a \in {} |-> 0], given |-> {}, chunks |-> 0]

\* They share nothing.
ContainersNext ==
    \/ VecNext /\ UNCHANGED <<listvars, heap>>
    \/ ListNext /\ UNCHANGED <<vecvars, heap>>
    \/ HeapNext /\ UNCHANGED <<vecvars, listvars>>

ContainersSpec == ContainersInit /\ [][ContainersNext]_containervars

-----------------------------------------------------------------------------
\* The vector holds the items of its sequence, in memory that is there.
VecIsSequence ==
    /\ vec.size = Len(items) /\ vec.size <= Room(vec) /\ DOMAIN vec.cells = 1 .. Room(vec)
    /\ \A i \in DOMAIN items : vec.cells[i] = items[i]

\* The list has the nodes of its sequence, both ways, and no other node has links.
ListIsSequence ==
    /\ Applied(list.next, list.first, nodes)
    /\ Applied(list.prev, list.last, Backwards(nodes))
    /\ \A n \in Nodes : ~ IsIn(nodes, n) => list.prev[n] = Null /\ list.next[n] = Null

FreeBlocks == Chain(heap.next, heap.free)
\* A block is free or given, within one chunk, and blocks do not overlap.
BlocksApart ==
    /\ FreeBlocks \cap heap.given = {}
    /\ FreeBlocks \cup heap.given = DOMAIN heap.next
    /\ \A a \in DOMAIN heap.next : (a % ChunkSize) + heap.size <= ChunkSize
    /\ \A a, b \in DOMAIN heap.next : a < b => a + heap.size <= b

\* What all that is stored relies on. Vec.h:700, DoublyLinkedCycleEndedList.h:154,
\* KsAllocator.cpp:23.
ContainersSound == VecIsSequence /\ ListIsSequence /\ BlocksApart
=============================================================================
