-------------------------------- MODULE Heap --------------------------------
(***************************************************************************)
(* The heap of FreeRTOS as the project links it (heap_4.c): blocks with a  *)
(* BlockLink_t in front, free ones on a list in the order of addresses,    *)
(* merged with their neighbours when they are freed.  pvPortMalloc runs    *)
(* with the scheduler suspended; vPortFree clears the allocated bit before *)
(* it suspends the scheduler, so that other tasks may run in between.      *)
(*                                                                         *)
(* Addresses count from ucHeap, which is taken to be aligned.  The header  *)
(* of a block that was merged into another one is not kept.                *)
(***************************************************************************)
EXTENDS Integers, FiniteSets

CONSTANTS
    Total,      \* configTOTAL_HEAP_SIZE
    Align,      \* portBYTE_ALIGNMENT
    Header,     \* xHeapStructSize
    SizeMax,    \* heapSIZE_MAX; sizes above half of it have the top bit set
    Requests    \* values of xWantedSize

ASSUME HeapConstants ==
    /\ Align \in Nat \ {0} /\ Header \in Nat \ {0} /\ Header % Align = 0
    /\ Total \in Nat /\ Total >= 2 * Header + Align
    /\ SizeMax \in Nat /\ SizeMax > 2 * Total
    /\ Requests \subseteq 0 .. SizeMax

End == ((Total - Header) \div Align) * Align     \* pxEnd
Start == -1                                      \* &xStart
NULL == -2
Addresses == {a \in 0 .. End : a % Align = 0}

VARIABLES
    link,       \* pxNextFreeBlock of xStart and of every block, or NULL
    size,       \* xBlockSize without its top bit; 0 where no block begins
    allocated,  \* blocks whose top bit is set
    held,       \* what the application asked for each block it holds
    freeing,    \* blocks vPortFree was called with and did not insert yet
    freeBytes,  \* xFreeBytesRemaining
    minEver,    \* xMinimumEverFreeBytesRemaining
    ready       \* pxEnd # NULL: prvHeapInit has run

heap == <<link, size, allocated, held, freeing, freeBytes, minEver, ready>>

-----------------------------------------------------------------------------
(* The free list.                                                           *)

\* xStart and the blocks on the list.
Nodes(nx) == {p \in {Start} \cup Addresses : nx[p] # NULL}

\* The node after which block b belongs: the loop over the list.
Before(nx, b) ==
    LET walk[p \in Nodes(nx)] == IF nx[p] < b THEN walk[nx[p]] ELSE p
    IN  walk[Start]

\* The first block of the list that is large enough, or End.
FirstFit(wanted) ==
    LET walk[p \in Addresses] ==
            IF size[p] < wanted /\ link[p] # NULL THEN walk[link[p]] ELSE p
    IN  walk[link[Start]]

\* Faulty Inserted: the block is not merged with the one before it.
InsertedApart(nx, sz, b) ==
    LET it == Before(nx, b)
        after == nx[it]
        joinNext == b + sz[b] = after /\ after # End
    IN  [next |-> [nx EXCEPT ![it] = b,
                             ![b] = IF joinNext THEN nx[after] ELSE after],
         size |-> [sz EXCEPT ![b] = IF joinNext THEN @ + sz[after] ELSE @,
                             ![after] = IF joinNext THEN 0 ELSE @]]

\* prvInsertBlockIntoFreeList: the list nx and the sizes sz with block b
\* merged with the block before it, with the block after it, or with both.
Inserted(nx, sz, b) ==
    LET it == Before(nx, b)
        after == nx[it]
        joinPrev == it # Start /\ it + sz[it] = b
        joinNext == b + sz[b] = after /\ after # End
        head == IF joinPrev THEN it ELSE b
        length == sz[b] + (IF joinPrev THEN sz[it] ELSE 0)
                        + (IF joinNext THEN sz[after] ELSE 0)
        behind == IF joinNext THEN nx[after] ELSE after
    IN  [next |-> [p \in DOMAIN nx |->
                     CASE p = head -> behind
                       [] p = it /\ ~joinPrev -> b
                       [] p = after /\ joinNext -> NULL
                       [] OTHER -> nx[p]],
         size |-> [p \in DOMAIN sz |->
                     CASE p = head -> length
                       [] p = b /\ joinPrev -> 0
                       [] p = after /\ joinNext -> 0
                       [] OTHER -> sz[p]]]

-----------------------------------------------------------------------------
(* pvPortMalloc and vPortFree.                                              *)

\* Faulty Needed: a size that overflows is not noticed.
NeededUnchecked(wanted) ==
    IF wanted = 0 THEN 0
    ELSE (wanted + Header + Align - (wanted % Align)) % (SizeMax + 1)

\* The size of the block for a request: the header, and rounded up; 0 if
\* that overflows.
Needed(wanted) ==
    LET more == Header + Align - (wanted % Align)
    IN  IF wanted = 0 \/ wanted > SizeMax - more THEN 0 ELSE wanted + more

TopBit(s) == s > SizeMax \div 2

\* prvHeapInit, by the first call of pvPortMalloc.
HeapInit ==
    /\ ~ready
    /\ ready' = TRUE
    /\ link' = [link EXCEPT ![Start] = 0, ![0] = End]
    /\ size' = [size EXCEPT ![0] = End]
    /\ freeBytes' = End /\ minEver' = End
    /\ UNCHANGED <<allocated, held, freeing>>

\* heapMINIMUM_BLOCK_SIZE.
MinimumBlock == 2 * Header

Split(p, n) == size[p] - n > MinimumBlock

\* Faulty Take: the block keeps its size when it is cut.
TakeUncut(p, n) ==
    LET prev == CHOOSE q \in {Start} \cup Addresses : link[q] = p
        cut == [link EXCEPT ![prev] = link[p], ![p] = NULL]
        rest == Inserted(cut, [size EXCEPT ![p + n] = size[p] - n], p + n)
    IN  /\ link' = IF Split(p, n) THEN rest.next ELSE cut
        /\ size' = IF Split(p, n) THEN rest.size ELSE size
        /\ freeBytes' = freeBytes - size'[p]

\* Faulty Take: what the block has too much is counted as free.
TakeUncounted(p, n) ==
    LET prev == CHOOSE q \in {Start} \cup Addresses : link[q] = p
        cut == [link EXCEPT ![prev] = link[p], ![p] = NULL]
        rest == Inserted(cut, [size EXCEPT ![p + n] = size[p] - n, ![p] = n],
                         p + n)
    IN  /\ link' = IF Split(p, n) THEN rest.next ELSE cut
        /\ size' = IF Split(p, n) THEN rest.size ELSE size
        /\ freeBytes' = freeBytes - n

\* Block p, with room for n, leaves the list; what it has too much goes
\* back.
Take(p, n) ==
    LET prev == CHOOSE q \in {Start} \cup Addresses : link[q] = p
        cut == [link EXCEPT ![prev] = link[p], ![p] = NULL]
        rest == Inserted(cut, [size EXCEPT ![p + n] = size[p] - n, ![p] = n],
                         p + n)
    IN  /\ link' = IF Split(p, n) THEN rest.next ELSE cut
        /\ size' = IF Split(p, n) THEN rest.size ELSE size
        /\ freeBytes' = freeBytes - size'[p]

Malloc(wanted) ==
    LET n == Needed(wanted)
        p == FirstFit(n)
    IN  /\ ready
        /\ n > 0 /\ ~TopBit(n) /\ n <= freeBytes /\ p # End
        /\ Take(p, n)
        /\ allocated' = allocated \cup {p}
        /\ held' = [held EXCEPT ![p] = wanted]
        /\ minEver' = IF freeBytes' < minEver THEN freeBytes' ELSE minEver
        /\ UNCHANGED <<freeing, ready>>

\* It returns NULL, and vApplicationMallocFailedHook is called.
MallocFails(wanted) ==
    LET n == Needed(wanted)
    IN  /\ ready
        /\ n = 0 \/ TopBit(n) \/ n > freeBytes \/ FirstFit(n) = End
        /\ UNCHANGED heap

\* vPortFree up to vTaskSuspendAll: the block is marked as free.
FreeBegin(p) ==
    /\ p \in allocated
    /\ allocated' = allocated \ {p}
    /\ held' = [held EXCEPT ![p] = 0]
    /\ freeing' = freeing \cup {p}
    /\ UNCHANGED <<link, size, freeBytes, minEver, ready>>

\* The rest of vPortFree, with the scheduler suspended.
FreeEnd(p) ==
    /\ p \in freeing
    /\ freeBytes' = freeBytes + size[p]
    /\ LET list == Inserted(link, size, p)
       IN  link' = list.next /\ size' = list.size
    /\ freeing' = freeing \ {p}
    /\ UNCHANGED <<allocated, held, minEver, ready>>

\* Before the first call of pvPortMalloc.
HeapUninitialised ==
    /\ link = [p \in {Start} \cup Addresses |-> NULL]
    /\ size = [p \in Addresses |-> 0]
    /\ allocated = {} /\ freeing = {}
    /\ held = [p \in Addresses |-> 0]
    /\ freeBytes = 0 /\ minEver = 0
    /\ ready = FALSE

HeapNext ==
    \/ HeapInit
    \/ \E wanted \in Requests : Malloc(wanted) \/ MallocFails(wanted)
    \/ \E p \in Addresses : FreeBegin(p) \/ FreeEnd(p)

HeapSpec == HeapUninitialised /\ [][HeapNext]_heap

-----------------------------------------------------------------------------
(* Properties.                                                              *)

\* The blocks of the free list, as the list gives them.
FreeList ==
    LET walk[p \in {Start} \cup Addresses] ==
            IF link[p] \in {NULL, End} THEN {} ELSE {link[p]} \cup walk[link[p]]
    IN  walk[Start]

Blocks == FreeList \cup allocated \cup freeing

\* Every variable has its type; sizes and counters stay within the heap.
HeapTypeOK ==
    /\ link \in [{Start} \cup Addresses -> Addresses \cup {NULL}]
    /\ size \in [Addresses -> 0 .. End]
    /\ allocated \subseteq Addresses /\ freeing \subseteq Addresses
    /\ held \in [Addresses -> Nat]
    /\ freeBytes \in 0 .. End /\ minEver \in 0 .. End
    /\ ready \in BOOLEAN

\* The blocks, free, in use or about to be freed, cover the heap: none
\* overlaps another, and no memory is lost to any of them.
BlocksTileHeap ==
    ready =>
        /\ 0 \in Blocks
        /\ \A p \in Blocks :
             /\ size[p] >= Header
             /\ p + size[p] = End \/ p + size[p] \in Blocks
             /\ \A q \in Blocks : q > p => q >= p + size[p]

\* The list is in the order of addresses and free neighbours are merged, so
\* that memory given back can serve larger requests again.
FreeListMerged ==
    \A p \in FreeList : link[p] > p /\ p + size[p] \notin FreeList

\* xFreeBytesRemaining is the number of bytes in the blocks of the list.
FreeBytesCount ==
    LET free == FreeList
    IN  freeBytes = Cardinality({a \in 0 .. End - 1 :
                        \E p \in free : p <= a /\ a < p + size[p]})

\* An application gets at least the memory it asked for.
BlockHoldsRequest ==
    \A p \in allocated : held[p] > 0 /\ Header + held[p] <= size[p]

\* The blocks of heap_4 cover the heap and none overlaps another, whatever was
\* asked for and freed and by whomever vPortFree was interrupted; free
\* neighbours are merged; xFreeBytesRemaining is what is free; and pvPortMalloc
\* returns at least the memory asked for.
HeapIsSound ==
    /\ HeapTypeOK /\ BlocksTileHeap /\ FreeListMerged /\ FreeBytesCount
    /\ BlockHoldsRequest
=============================================================================
