------------------------------- MODULE MmHeap -------------------------------
(***************************************************************************)
(* The heap of the program: mm_malloc, mm_free, mm_addfreechunk,           *)
(* mm_size2ndx, mm_initialize and mm_mallinfo (mm/src) behind malloc,      *)
(* calloc, realloc and free (libc/malloc.c).                               *)
(*                                                                         *)
(* Addresses and sizes count words of four bytes. A chunk starts with a    *)
(* header of one word: its size and, in `preceding', the size of the chunk *)
(* before it with the allocated flag in the top bit. A free chunk holds,   *)
(* behind its header, the links flink and blink of the list of free        *)
(* chunks; the list runs through the heads mm_nodelist[0], [1], ..., nodes *)
(* of size 0, behind each of them the chunks of its size class.            *)
(***************************************************************************)
EXTENDS Integers, FiniteSets

CONSTANTS
  HeapStart, HeapSize,  \* mm_heapstart and mm_heapsize, aligned
  MinChunk,             \* MM_MIN_CHUNK, the granule
  NNodes,               \* MM_NNODES
  AllocNode,            \* SIZEOF_MM_ALLOCNODE
  FreeNode,             \* SIZEOF_MM_FREENODE
  NodeSize,             \* sizeof(struct mm_freenode_s)
  AllocBit,             \* MM_ALLOC_BIT
  Requests,             \* the sizes asked for
  MaxCalls              \* bound on the calls

\* The list heads are the addresses 0 to NNodes - 1. Headers hold sizes below twice the
\* allocated flag, and no request makes size + header + granule wrap around.
ASSUME HeapAssumption ==
  /\ MinChunk \in Nat \ {0} /\ AllocNode \in 1 .. MinChunk /\ NNodes \in Nat \ {0}
  /\ FreeNode \in Nat \ {0} /\ NodeSize \in Nat \ {0}
  /\ AllocBit \in Nat /\ AllocNode < AllocBit
  /\ HeapStart \in Nat /\ HeapStart % MinChunk = 0 /\ HeapStart >= NNodes
  /\ HeapSize \in Nat /\ HeapSize % MinChunk = 0
  /\ HeapSize >= NodeSize + 2 * AllocNode /\ HeapSize < 2 * AllocBit
  /\ Requests \subseteq Nat /\ MaxCalls \in Nat

\* No chunk is long enough for a free node without having room for the structure: its
\* length is a multiple of the granule or, before the last guard, less the two headers.
ASSUME RestAssumption ==
  \A size \in FreeNode .. NodeSize - 1 :
    size % MinChunk # 0 /\ (size + 2 * AllocNode) % MinChunk # 0

HeapEnd == HeapStart + HeapSize - AllocNode
ListHeads == 0 .. NNodes - 1
NULL == -1

VARIABLES
  heap,      \* the chunk headers and the links of the list
  given,     \* history: the blocks the callers hold, with the size they asked for
  peak,      \* g_max_used_size
  calls      \* what the bound has used up

vars == <<heap, given, peak, calls>>

-----------------------------------------------------------------------------
(* Reading a heap h.                                                       *)

Chunks(h) == DOMAIN h.hdr
FreeChunks(h) == {c \in Chunks(h) : ~h.hdr[c].alloc}
NodeOf(h, n) == IF n \in ListHeads THEN 0 ELSE h.hdr[n].size
NextChunk(h, c) == c + h.hdr[c].size

\* A mutant: the whole size is kept beside the flag.
HeaderWide(size, before, alloc) ==
  [size |-> size, back |-> before, alloc |-> alloc \/ before >= AllocBit]

\* A header. `preceding', the size of the chunk before, has its top bit in common with
\* the flag.
Header(size, before, alloc) ==
  [size |-> size, back |-> before % AllocBit, alloc |-> alloc \/ before >= AllocBit]

\* The headers with that of chunk c written.
Put(hdr, c, size, before, alloc) ==
  [n \in DOMAIN hdr \cup {c} |-> IF n = c THEN Header(size, before, alloc) ELSE hdr[n]]

\* A mutant: the chunk behind keeps what it has.
TellNoOne(hdr, c, before) == hdr

\* next->preceding = size | (next->preceding & MM_ALLOC_BIT).
TellNext(hdr, c, before) == Put(hdr, c, hdr[c].size, before, hdr[c].alloc)

AlignUp(a) == ((a + MinChunk - 1) \div MinChunk) * MinChunk

PowerOf2[n \in Nat] == IF n = 0 THEN 1 ELSE 2 * PowerOf2[n - 1]

MaxChunk == MinChunk * PowerOf2[NNodes - 1]

Log2[n \in Nat] == IF n <= 1 THEN 0 ELSE 1 + Log2[n \div 2]

\* mm_size2ndx.
Size2Ndx(size) == IF size >= MaxChunk THEN NNodes - 1 ELSE Log2[size \div MinChunk]

-----------------------------------------------------------------------------
(* The list of free chunks.                                                *)

Unlink(h, c) ==
  [h EXCEPT !.next = [n \in DOMAIN @ \ {c} |-> IF n = h.prev[c] THEN h.next[c] ELSE @[n]],
            !.prev = [n \in DOMAIN @ \ {c} |-> IF n = h.next[c] THEN h.prev[c] ELSE @[n]]]

\* A mutant: the walk does not stop at the head of the next class.
PredecessorPast(h, c) ==
  LET walk[p \in DOMAIN h.next] ==
        LET q == h.next[p]
        IN IF q # NULL /\ NodeOf(h, q) < h.hdr[c].size THEN walk[q] ELSE p
  IN walk[Size2Ndx(h.hdr[c].size)]

\* The node mm_addfreechunk puts chunk c behind.
Predecessor(h, c) ==
  LET walk[p \in DOMAIN h.next] ==
        LET q == h.next[p]
        IN IF q # NULL /\ NodeOf(h, q) # 0 /\ NodeOf(h, q) < h.hdr[c].size
           THEN walk[q] ELSE p
  IN walk[Size2Ndx(h.hdr[c].size)]

\* mm_addfreechunk.
AddFreeChunk(h, c) ==
  LET p == Predecessor(h, c)
      q == h.next[p]
  IN [h EXCEPT !.next = [n \in DOMAIN @ \cup {c} |-> CASE n = p -> c [] n = c -> q
                                                     [] OTHER -> @[n]],
               !.prev = [n \in DOMAIN @ \cup {c} |-> CASE n = q -> c [] n = c -> p
                                                     [] OTHER -> @[n]]]

\* A mutant: a class that may hold too short chunks is passed over.
FirstFitNextClass(h, size) ==
  LET ndx == Size2Ndx(size)
      search[n \in DOMAIN h.next \cup {NULL}] ==
        IF n = NULL \/ NodeOf(h, n) >= size THEN n ELSE search[h.next[n]]
  IN search[h.next[IF size = MinChunk * PowerOf2[ndx] \/ ndx = NNodes - 1 THEN ndx ELSE ndx + 1]]

\* The first chunk of the list, from the head of the size's class on, that is no
\* smaller than size.
FirstFit(h, size) ==
  LET search[n \in DOMAIN h.next \cup {NULL}] ==
        IF n = NULL \/ NodeOf(h, n) >= size THEN n ELSE search[h.next[n]]
  IN search[h.next[Size2Ndx(size)]]

-----------------------------------------------------------------------------
(* mm_malloc and mm_free, as what they make of the heap.                   *)

\* A mutant: the header has no room of its own.
ChunkSizeBare(request) == AlignUp(request)

ChunkSize(request) == AlignUp(request + AllocNode)

\* The end of chunk c split off and listed.
Split(h, c, size) ==
  LET remaining == h.hdr[c].size - size
      remainder == c + size
      cut == [Put(h.hdr, remainder, remaining, size, FALSE) EXCEPT ![c].size = size]
  IN AddFreeChunk([h EXCEPT !.hdr = TellNext(cut, NextChunk(h, c), remaining)], remainder)

\* A mutant: a split that leaves too little for a free node.
SplitsTight(remaining) == remaining >= AllocNode
Splits(remaining) == remaining >= FreeNode

\* The chunk found is taken out of the list, split if the rest is worth it, and marked.
Taken(h, c, size) ==
  LET out == Unlink(h, c)
      rest == IF Splits(h.hdr[c].size - size) THEN Split(out, c, size) ELSE out
  IN [rest EXCEPT !.hdr[c].alloc = TRUE]

\* Chunk c and the one behind it made one, the chunk behind both told.
Merged(h, c) ==
  LET next == NextChunk(h, c)
      size == h.hdr[c].size + h.hdr[next].size
      one == [n \in Chunks(h) \ {next} |->
                IF n = c THEN [h.hdr[c] EXCEPT !.size = size] ELSE h.hdr[n]]
  IN [h EXCEPT !.hdr = TellNext(one, NextChunk(h, next), size)]

MergedWithNext(h, c) ==
  LET next == NextChunk(h, c)
  IN IF h.hdr[next].alloc THEN h ELSE Merged(Unlink(h, next), c)

\* The free of chunk c up to its listing: the heap, and the chunk to list.
Freed(h, c) ==
  LET joined == MergedWithNext([h EXCEPT !.hdr[c].alloc = FALSE], c)
      before == c - joined.hdr[c].back
  IN IF joined.hdr[before].alloc
     THEN [heap |-> joined, node |-> c]
     ELSE [heap |-> Merged(Unlink(joined, before), before), node |-> before]

\* mm_mallinfo: the walk over the chunks, and what it counts.
Walk(h) ==
  LET step[c \in Chunks(h)] ==
        IF c >= HeapEnd THEN [end |-> c, uordblks |-> AllocNode, fordblks |-> 0]
        ELSE LET r == step[NextChunk(h, c)]
                 s == h.hdr[c].size
             IN IF h.hdr[c].alloc THEN [r EXCEPT !.uordblks = @ + s]
                                  ELSE [r EXCEPT !.fordblks = @ + s]
  IN step[HeapStart]

Larger(a, b) == IF a > b THEN a ELSE b

-----------------------------------------------------------------------------
(* The calls.                                                              *)

\* mm_heap_initialize: a guard at each end and one free chunk between them.
Init ==
  LET first == HeapStart + AllocNode
      size == HeapSize - 2 * AllocNode
      ends == [c \in {HeapStart, first, HeapEnd} |->
                 CASE c = HeapStart -> Header(AllocNode, 0, TRUE)
                   [] c = first     -> Header(size, AllocNode, FALSE)
                   [] c = HeapEnd   -> Header(AllocNode, size, TRUE)]
      lists == [next |-> [n \in ListHeads |-> IF n + 1 \in ListHeads THEN n + 1 ELSE NULL],
                prev |-> [n \in ListHeads |-> n - 1]]
  IN /\ heap = AddFreeChunk([hdr |-> ends, next |-> lists.next, prev |-> lists.prev], first)
     /\ given = [p \in {} |-> 0]
     /\ peak = 0
     /\ calls = 0

\* A chunk so long that the header behind it, other than the last guard's, loses bits.
Overlong == \E c \in Chunks(heap) :
              NextChunk(heap, c) # HeapEnd /\ heap.hdr[c].size >= AllocBit

\* A chunk is listed that is shorter than the structure: its blink has been written over
\* the header of the chunk behind it.
Smashed == \E c \in FreeChunks(heap) : heap.hdr[c].size < NodeSize

\* Nothing is modelled of a heap whose headers are damaged.
Sound == ~Smashed /\ ~Overlong

Call == calls < MaxCalls /\ Sound /\ calls' = calls + 1

Blocks == DOMAIN given
Found(request) == FirstFit(heap, ChunkSize(request))

\* A mutant: the use is taken before the block is.
MeasureEarly(h) == peak' = Larger(peak, Walk(heap).uordblks)

\* mm_max_usedsize_update, at the end of every mm_malloc.
Measure(h) == peak' = Larger(peak, Walk(h).uordblks)

Grant(blocks, p, request) ==
  [b \in DOMAIN blocks \cup {p} |-> IF b = p THEN request ELSE blocks[b]]

\* malloc, and calloc for a product that does not wrap; NULL for size 0 is returned
\* before anything is done.
Malloc(request) ==
  /\ Call
  /\ request > 0 /\ Found(request) # NULL
  /\ heap' = Taken(heap, Found(request), ChunkSize(request))
  /\ given' = Grant(given, Found(request) + AllocNode, request)
  /\ Measure(heap')

MallocFails(request) ==
  /\ Call
  /\ request > 0 /\ Found(request) = NULL
  /\ Measure(heap)
  /\ UNCHANGED <<heap, given>>

\* mm_free of block p: the merged chunk enters the list.
FreeIn(h, p) ==
  LET freed == Freed(h, p - AllocNode) IN AddFreeChunk(freed.heap, freed.node)

FreeBlock(p) ==
  /\ Call
  /\ heap' = FreeIn(heap, p)
  /\ given' = [b \in Blocks \ {p} |-> given[b]]
  /\ UNCHANGED peak

\* realloc: a new block, the bytes copied, the old block freed. Of a NULL pointer it is
\* malloc; when malloc refuses, for size 0 too, the old block stays.
Realloc(p, request) ==
  /\ Call
  /\ request > 0 /\ Found(request) # NULL
  /\ LET h == Taken(heap, Found(request), ChunkSize(request))
     IN heap' = FreeIn(h, p) /\ Measure(h)
  /\ given' = [b \in (Blocks \ {p}) \cup {Found(request) + AllocNode} |->
                 IF b \in Blocks THEN given[b] ELSE request]

Next ==
  \/ \E r \in Requests : Malloc(r) \/ MallocFails(r)
  \/ \E p \in Blocks : FreeBlock(p) \/ \E r \in Requests : Realloc(p, r)

Spec == Init /\ [][Next]_vars

-----------------------------------------------------------------------------
(* Properties.                                                             *)

Nodes == ListHeads \cup FreeChunks(heap)

\* Every variable holds a value of its type.
TypeOK ==
  /\ Chunks(heap) \subseteq HeapStart .. HeapEnd
  /\ heap.hdr \in [Chunks(heap) -> [size : 1 .. HeapSize, back : 0 .. AllocBit - 1,
                                    alloc : BOOLEAN]]
  /\ DOMAIN heap.next = DOMAIN heap.prev
  /\ \A n \in DOMAIN heap.next : {heap.next[n], heap.prev[n]} \subseteq Nat \cup {NULL}
  /\ given \in [Blocks -> Nat] /\ Blocks \subseteq HeapStart .. HeapEnd
  /\ peak \in 0 .. HeapSize
  /\ calls \in 0 .. MaxCalls

\* Whatever is allocated, resized and freed in whatever order, the chunks lie one behind
\* the other from the first guard to the last, each knows the size of the one before
\* (mm_free.c:117,151 find the neighbours by these sizes), and no two free chunks touch.
ChunksTile ==
  Sound =>
    \A c \in Chunks(heap) \ {HeapEnd} :
      LET n == NextChunk(heap, c)
      IN /\ n \in Chunks(heap)
         /\ \A d \in Chunks(heap) : d <= c \/ d >= n
         /\ n # HeapEnd => heap.hdr[n].back = heap.hdr[c].size
         /\ c \in FreeChunks(heap) => n \notin FreeChunks(heap)

\* The list holds exactly the list heads, in order, and the free chunks, each behind
\* the head of its class and before the next one and no larger than its successor of
\* the class; blink undoes flink.
ListSound ==
  LET size(n) == NodeOf(heap, n)
      class(n) == IF n \in ListHeads THEN n ELSE Size2Ndx(size(n))
  IN Sound =>
       /\ DOMAIN heap.next = Nodes
       /\ heap.next[NNodes - 1] = NULL \/ heap.next[NNodes - 1] \in FreeChunks(heap)
       /\ \A n \in Nodes :
            LET m == heap.next[n]
            IN m # NULL =>
                 /\ m \in Nodes /\ heap.prev[m] = n
                 /\ m \in ListHeads => m = class(n) + 1
                 /\ m \notin ListHeads => class(m) = class(n) /\ size(n) <= size(m)
       /\ \A n \in Nodes \ {0} : heap.prev[n] \in Nodes /\ heap.next[heap.prev[n]] = n

\* The blocks the callers hold are the allocated chunks other than the guards, and each
\* has the room that was asked for: no block is lost, handed out twice, or cut by the
\* bookkeeping of another call.
BlocksKept ==
  Sound =>
    /\ {p - AllocNode : p \in Blocks} =
         (Chunks(heap) \ FreeChunks(heap)) \ {HeapStart, HeapEnd}
    /\ \A p \in Blocks : given[p] + AllocNode <= heap.hdr[p - AllocNode].size

\* The assertions mm_mallinfo has commented out (mm_mallinfo.c:129,134): the walk ends
\* at the last guard, and used and free space are the heap; and the highest use on
\* record is no lower than the present one once malloc was called.
Accounted ==
  Sound =>
    LET w == Walk(heap)
    IN /\ w.end = HeapEnd
       /\ w.uordblks + w.fordblks = HeapSize
       /\ peak = 0 \/ peak >= w.uordblks

\* The free chunks a request of r bytes would fit in.
Fitting(r) == {c \in FreeChunks(heap) : heap.hdr[c].size >= ChunkSize(r)}

\* malloc and realloc refuse a request only when no free chunk is long enough, and
\* take one of the shortest that are, whatever class they are listed in
\* (mm_malloc.c:144-153, "best fitting chunk available").
BestFit ==
  [][\A r \in Requests :
       /\ MallocFails(r) => Fitting(r) = {}
       /\ Malloc(r) => \E c \in Fitting(r) :
            /\ c + AllocNode \in DOMAIN given' \ Blocks
            /\ \A d \in Fitting(r) : heap.hdr[c].size <= heap.hdr[d].size]_vars

\* The headers are damaged only by the free of a block of less than a free node's
\* length (at most 12 bytes: mm.h:121 asks for a granule of sizeof(struct mm_freenode_s),
\* the build has 16 for 24), never by the rest a split leaves or by a merged chunk.
SmashedBySmallBlocks ==
  [][Smashed' => \E p \in Blocks \ DOMAIN given' :
                   ChunkSize(given[p]) < NodeSize]_vars
=============================================================================
