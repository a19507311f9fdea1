----------------------------- MODULE HeapProofs -----------------------------
(***************************************************************************)
(* Theorem about Heap, for a heap of any size, any alignment and header,   *)
(* and any requests: its blocks always tile the heap, free neighbours are  *)
(* merged and xFreeBytesRemaining counts what is free.                     *)
(***************************************************************************)
EXTENDS Heap, FiniteSetTheorems, WellFoundedInduction, TLAPS

-----------------------------------------------------------------------------
(* The inductive invariant, for a list nx, sizes sz and a set of blocks     *)
(* that are not on the list.                                                *)

\* The blocks on the list.
Free(nx) == Nodes(nx) \ {Start}

\* The list leads from xStart through all nodes, in the order of addresses,
\* to pxEnd.
Chain(nx) ==
    /\ nx \in [{Start} \cup Addresses -> Addresses \cup {NULL}]
    /\ nx[Start] # NULL /\ nx[End] = NULL
    /\ \A p \in Nodes(nx) :
         /\ nx[p] > p
         /\ nx[p] = End \/ nx[p] \in Nodes(nx)
         /\ \A q \in Nodes(nx) : q <= p \/ q >= nx[p]

\* The blocks of the set B tile the heap.
Tiles(sz, B) ==
    /\ sz \in [Addresses -> 0 .. End]
    /\ B \subseteq Addresses
    /\ 0 \in B
    /\ \A p \in B :
         /\ sz[p] >= Header
         /\ p + sz[p] = End \/ p + sz[p] \in B
         /\ \A q \in B : q > p => q >= p + sz[p]

\* No block is free next to a free one, save perhaps those of the set X.
MergedBut(nx, sz, X) == \A p \in Free(nx) \ X : p + sz[p] \notin Free(nx)

Shape(nx, sz, used, X) ==
    /\ Chain(nx) /\ Tiles(sz, Free(nx) \cup used)
    /\ used \cap Free(nx) = {}
    /\ MergedBut(nx, sz, X)

\* The bytes of the blocks in F.
Cells(F, sz) == {a \in 0 .. End - 1 : \E p \in F : p <= a /\ a < p + sz[p]}

HeapInv ==
    /\ HeapTypeOK
    /\ ready => Shape(link, size, allocated \cup freeing, {})
    /\ ~ready => /\ link = [p \in {Start} \cup Addresses |-> NULL]
                 /\ allocated = {} /\ freeing = {}
    /\ allocated \cap freeing = {}
    /\ freeBytes = Cardinality(Cells(Free(link), size))
    /\ BlockHoldsRequest

-----------------------------------------------------------------------------
(* Arithmetic of addresses.                                                 *)

\* Sums and differences of aligned numbers are aligned.
LEMMA AlignedSums ==
    ASSUME NEW x \in Int, NEW y \in Int, x % Align = 0, y % Align = 0
    PROVE  (x + y) % Align = 0 /\ (x - y) % Align = 0
<1>1. Align \in Nat \ {0}
  BY HeapConstants
<1>2. \A a \in Int : a = Align * (a \div Align) + (a % Align)
                     /\ a \div Align \in Int
  BY <1>1
<1>3. \A k \in Int : (k * Align) % Align = 0
  BY <1>1
<1> DEFINE u == x \div Align
           v == y \div Align
<1>4. u \in Int /\ v \in Int /\ x = Align * u /\ y = Align * v
  <2>1. u \in Int /\ x = Align * u + (x % Align)
    BY <1>2
  <2>2. v \in Int /\ y = Align * v + (y % Align)
    BY <1>2
  <2> HIDE DEF u, v
  <2> QED
    BY <1>1, <2>1, <2>2
<1> HIDE DEF u, v
<1>5. x + y = (u + v) * Align /\ x - y = (u - v) * Align
  BY <1>1, <1>4
<1>6. u + v \in Int /\ u - v \in Int
  BY <1>4
<1> QED
  BY <1>3, <1>5, <1>6

\* Where pxEnd is.
LEMMA EndIs ==
    /\ Align \in Nat /\ Align > 0 /\ Header \in Nat /\ Header > 0
    /\ End \in Nat /\ End > Header /\ End <= Total
    /\ End \in Addresses /\ 0 \in Addresses /\ End # 0
    /\ Start \notin Addresses /\ NULL \notin Addresses /\ Start # NULL
    /\ Start \in Int /\ Start < 0
    /\ Addresses \subseteq Nat
    /\ \A a \in Addresses : a <= End /\ a % Align = 0
<1> DEFINE t == Total - Header
           k == t \div Align
           r == t % Align
<1>1. /\ Align \in Nat /\ Align > 0 /\ Header \in Nat /\ Header > 0
      /\ t \in Nat /\ t >= Header + Align /\ t <= Total
  BY HeapConstants
<1> HIDE DEF t
<1>2. t = Align * k + r /\ r \in 0 .. Align - 1 /\ k \in Int
  BY <1>1
<1>4. End = k * Align
  BY DEF End, t
<1> HIDE DEF k, r
<1>3. (k * Align) % Align = 0 /\ 0 % Align = 0
  BY <1>1, <1>2
<1>5. k * Align = Align * k /\ Align * k \in Int
  BY <1>1, <1>2
<1>6. End \in Nat /\ End > Header /\ End <= Total
  BY HeapConstants, <1>1, <1>2, <1>4, <1>5
<1>7. End % Align = 0
  BY <1>3, <1>4
<1> QED
  BY <1>1, <1>3, <1>6, <1>7 DEF Addresses, Start, NULL

\* A set of naturals has a least element.
LEMMA LeastOf ==
    ASSUME NEW S, S \subseteq Nat, S # {}
    PROVE  \E n \in S : \A k \in S : n <= k
<1> DEFINE R == OpToRel(<, Nat)
<1>1. IsWellFoundedOn(R, Nat)
  BY NatLessThanWellFounded
<1>2. \A k, n \in Nat : k < n => <<k, n>> \in R
  BY DEF OpToRel
<1> HIDE DEF R
<1>3. PICK n \in S : \A k \in S : ~(<<k, n>> \in R)
  BY <1>1, WFMin
<1>4. \A k \in S : ~(k < n)
  BY <1>2, <1>3
<1> QED
  BY <1>4

\* A set of addresses, xStart among them or not, has a greatest element.
LEMMA GreatestOf ==
    ASSUME NEW S, S \subseteq {Start} \cup Addresses, S # {}
    PROVE  \E n \in S : \A k \in S : n >= k
<1> DEFINE T == {End - n : n \in S}
<1>1. \A n \in S : n \in Int /\ End - n \in Nat
  BY EndIs DEF Start
<1>2. T \subseteq Nat /\ T # {}
  BY <1>1
<1> HIDE DEF T
<1>3. PICK m \in T : \A k \in T : m <= k
  BY <1>2, LeastOf
<1> USE DEF T
<1>4. PICK n \in S : m = End - n
  BY <1>3
<1>5. \A k \in S : End - n <= End - k
  BY <1>3, <1>4
<1> QED
  BY <1>1, <1>5, EndIs

-----------------------------------------------------------------------------
(* The list and the tiling, one change at a time.                           *)

\* Block b put between node it and the next one.
Linked(nx, it, b) == [nx EXCEPT ![it] = b, ![b] = nx[it]]

\* The node after prev taken off the list.
Unlinked(nx, prev) == [nx EXCEPT ![prev] = nx[nx[prev]], ![nx[prev]] = NULL]

\* Block y becomes the end of block x.
Joined(sz, x, y) == [sz EXCEPT ![x] = sz[x] + sz[y], ![y] = 0]

\* Block x is cut, n bytes from where it begins.
CutAt(sz, x, n) == [sz EXCEPT ![x] = n, ![x + n] = sz[x] - n]

\* The nodes of a list are numbers, and pxEnd is none of them.
LEMMA ChainNodes ==
    ASSUME NEW nx, Chain(nx)
    PROVE  /\ Nodes(nx) \subseteq {Start} \cup Addresses
           /\ Nodes(nx) \subseteq Int
           /\ Start \in Nodes(nx) /\ End \notin Nodes(nx)
           /\ \A p \in Nodes(nx) : nx[p] \in Addresses /\ nx[p] \in Nat
           /\ \A p \in ({Start} \cup Addresses) \ Nodes(nx) : nx[p] = NULL
           /\ Free(nx) \subseteq Addresses
           /\ \A p \in Free(nx) : p < End
<1>1. Nodes(nx) \subseteq {Start} \cup Addresses /\ Nodes(nx) \subseteq Int
  <2>1. Nodes(nx) \subseteq {Start} \cup Addresses
    BY DEF Nodes
  <2>2. \A a \in Addresses : a \in Int
    BY EndIs
  <2>3. Start \in Int
    BY EndIs
  <2>4. \A p \in Nodes(nx) : p \in Int
    BY <2>1, <2>2, <2>3
  <2> QED
    BY <2>1, <2>4
<1>2. Start \in Nodes(nx) /\ End \notin Nodes(nx)
  BY EndIs DEF Nodes, Chain
<1>3. \A p \in Nodes(nx) : nx[p] \in Addresses /\ nx[p] \in Nat
  BY EndIs DEF Nodes, Chain
<1>4. \A p \in ({Start} \cup Addresses) \ Nodes(nx) : nx[p] = NULL
  BY DEF Nodes
<1>5. Free(nx) \subseteq Addresses
  BY <1>1 DEF Free
<1>6. ASSUME NEW p \in Free(nx) PROVE p < End
  <2>1. p \in Addresses /\ p \in Nodes(nx) /\ p # End
    BY <1>2, <1>5 DEF Free
  <2>2. p \in Nat /\ p <= End /\ End \in Nat
    BY <2>1, EndIs
  <2> QED
    BY <2>1, <2>2
<1> QED
  BY <1>1, <1>2, <1>3, <1>4, <1>5, <1>6

\* Every address beyond xStart lies between a node and the next one.
LEMMA BetweenNodes ==
    ASSUME NEW nx, Chain(nx), NEW b \in Addresses
    PROVE  \E q \in Nodes(nx) : q < b /\ b <= nx[q]
<1> DEFINE S == {q \in Nodes(nx) : q < b}
<1>1. S \subseteq {Start} \cup Addresses /\ Start \in S
  BY ChainNodes, EndIs DEF Start
<1>2. PICK q \in S : \A k \in S : q >= k
  BY <1>1, GreatestOf
<1>3. nx[q] > q /\ (nx[q] = End \/ nx[q] \in Nodes(nx)) /\ q \in Int
  BY <1>2, ChainNodes DEF Chain
<1>4. nx[q] \in Nat /\ b \in Nat /\ b <= End /\ End \in Nat
  BY <1>2, ChainNodes, EndIs
<1>5. nx[q] \in Nodes(nx) => nx[q] >= b
  <2> SUFFICES ASSUME nx[q] \in Nodes(nx), nx[q] < b PROVE FALSE
    BY <1>4
  <2>1. nx[q] \in S
    OBVIOUS
  <2> QED
    BY <2>1, <1>2, <1>3, <1>4
<1> QED
  BY <1>2, <1>3, <1>4, <1>5

\* Putting a block where it belongs.
LEMMA LinkedChain ==
    ASSUME NEW nx, Chain(nx), NEW it \in Nodes(nx),
           NEW b \in Addresses, b \notin Nodes(nx), it < b, b < nx[it]
    PROVE  /\ Chain(Linked(nx, it, b))
           /\ Nodes(Linked(nx, it, b)) = Nodes(nx) \cup {b}
           /\ Free(Linked(nx, it, b)) = Free(nx) \cup {b}
           /\ Linked(nx, it, b)[b] = nx[it]
<1> DEFINE m == Linked(nx, it, b)
<1>1. it \in {Start} \cup Addresses /\ it # b /\ b # End
  BY ChainNodes, EndIs
<1>2. /\ m \in [{Start} \cup Addresses -> Addresses \cup {NULL}]
      /\ m[it] = b /\ m[b] = nx[it]
      /\ \A p \in ({Start} \cup Addresses) \ {it, b} : m[p] = nx[p]
  BY <1>1, ChainNodes DEF Linked, Chain
<1> HIDE DEF m
<1>3. Nodes(m) = Nodes(nx) \cup {b}
  BY <1>1, <1>2, ChainNodes, EndIs DEF Nodes
<1>4. m[Start] # NULL /\ m[End] = NULL
  BY <1>1, <1>2, ChainNodes, EndIs DEF Chain
<1>5. ASSUME NEW p \in Nodes(m)
      PROVE  /\ m[p] > p
             /\ m[p] = End \/ m[p] \in Nodes(m)
             /\ \A q \in Nodes(m) : q <= p \/ q >= m[p]
  <2>0. b \in Int /\ it \in Int /\ p \in Int /\ nx[it] \in Int
        /\ \A q \in Nodes(nx) : q \in Int
    BY ChainNodes, EndIs, <1>3
  <2>1. CASE p = it
    BY <2>0, <2>1, <1>2, <1>3 DEF Chain
  <2>2. CASE p = b
    BY <2>0, <2>2, <1>2, <1>3 DEF Chain
  <2>3. CASE p # it /\ p # b
    <3>1. p \in Nodes(nx) /\ m[p] = nx[p] /\ nx[p] \in Int
      BY <2>3, <1>2, <1>3, ChainNodes
    <3>2. nx[p] > p /\ (nx[p] = End \/ nx[p] \in Nodes(nx))
      BY <3>1 DEF Chain
    <3>3. \A q \in Nodes(nx) : q <= p \/ q >= nx[p]
      BY <3>1 DEF Chain
    <3>4. b <= p \/ b >= nx[p]
      <4>1. p <= it \/ p >= nx[it]
        BY <3>1 DEF Chain
      <4>2. it <= p \/ it >= nx[p]
        BY <3>3
      <4> QED
        BY <4>1, <4>2, <2>0, <3>1, <2>3
    <3> QED
      BY <3>1, <3>2, <3>3, <3>4, <1>3
  <2> QED
    BY <2>1, <2>2, <2>3
<1>6. Chain(m)
  BY <1>2, <1>4, <1>5 DEF Chain
<1>7. Free(m) = Free(nx) \cup {b}
  BY <1>3, EndIs DEF Free
<1> QED
  BY <1>2, <1>3, <1>6, <1>7 DEF m

\* Taking a block off.
LEMMA UnlinkedChain ==
    ASSUME NEW nx, Chain(nx), NEW prev \in Nodes(nx), nx[prev] # End
    PROVE  /\ Chain(Unlinked(nx, prev))
           /\ Nodes(Unlinked(nx, prev)) = Nodes(nx) \ {nx[prev]}
           /\ Free(Unlinked(nx, prev)) = Free(nx) \ {nx[prev]}
           /\ nx[prev] \in Free(nx)
<1> DEFINE m == Unlinked(nx, prev)
           x == nx[prev]
<1>1. x \in Nodes(nx) /\ x \in Addresses /\ prev < x /\ x < nx[x] /\ x # Start
      /\ prev \in Int /\ x \in Int /\ nx[x] \in Int
      /\ prev \in {Start} \cup Addresses
  <2>1. x \in Nodes(nx) /\ prev < x
    BY DEF Chain
  <2>2. x \in Addresses /\ x \in Int /\ x # Start
    BY ChainNodes, EndIs
  <2>3. prev \in Int /\ prev \in {Start} \cup Addresses
    BY ChainNodes
  <2> HIDE DEF x
  <2>4. x < nx[x] /\ nx[x] \in Int
    BY <2>1, ChainNodes DEF Chain
  <2> QED
    BY <2>1, <2>2, <2>3, <2>4
<1> HIDE DEF x
<1>2. /\ m \in [{Start} \cup Addresses -> Addresses \cup {NULL}]
      /\ m[prev] = nx[x] /\ m[x] = NULL
      /\ \A p \in ({Start} \cup Addresses) \ {prev, x} : m[p] = nx[p]
  BY <1>1, ChainNodes DEF Unlinked, Chain, x
<1> HIDE DEF m
<1>3. Nodes(m) = Nodes(nx) \ {x}
  BY <1>1, <1>2, ChainNodes, EndIs DEF Nodes
<1>4. m[Start] # NULL /\ m[End] = NULL
  BY <1>1, <1>2, ChainNodes, EndIs DEF Chain
<1>5. ASSUME NEW p \in Nodes(m)
      PROVE  /\ m[p] > p
             /\ m[p] = End \/ m[p] \in Nodes(m)
             /\ \A q \in Nodes(m) : q <= p \/ q >= m[p]
  <2>0. p \in Int /\ \A q \in Nodes(nx) : q \in Int
    BY ChainNodes, <1>3
  <2>1. CASE p = prev
    <3>1. nx[x] = End \/ (nx[x] \in Nodes(nx) /\ nx[x] # x)
      BY <1>1 DEF Chain
    <3>2. \A q \in Nodes(m) : (q <= prev \/ q >= x) /\ (q <= x \/ q >= nx[x])
      BY <1>1, <1>3 DEF Chain, x
    <3> QED
      BY <3>1, <3>2, <2>0, <2>1, <1>1, <1>2, <1>3
  <2>2. CASE p # prev
    <3>1. p \in Nodes(nx) /\ m[p] = nx[p] /\ nx[p] \in Int /\ p # x
      BY <2>2, <1>2, <1>3, ChainNodes
    <3>2. /\ nx[p] > p /\ (nx[p] = End \/ nx[p] \in Nodes(nx))
          /\ \A q \in Nodes(nx) : q <= p \/ q >= nx[p]
      BY <3>1 DEF Chain
    <3>3. nx[p] # x
      <4>1. p <= prev \/ p >= x
        BY <3>1 DEF Chain, x
      <4>2. prev <= p \/ prev >= nx[p]
        BY <3>2
      <4> QED
        BY <4>1, <4>2, <2>0, <2>2, <1>1, <3>1, <3>2
    <3> QED
      BY <3>1, <3>2, <3>3, <1>3
  <2> QED
    BY <2>1, <2>2
<1>6. Chain(m)
  BY <1>2, <1>4, <1>5 DEF Chain
<1>7. Free(m) = Free(nx) \ {x} /\ x \in Free(nx)
  BY <1>1, <1>3 DEF Free
<1> QED
  BY <1>3, <1>6, <1>7 DEF m, x

\* Where the blocks of a tiling are and what their sizes are.
LEMMA TileBounds ==
    ASSUME NEW sz, NEW B, Tiles(sz, B), NEW p \in B
    PROVE  /\ p \in Addresses /\ p \in Nat /\ p < End
           /\ sz[p] \in Nat /\ sz[p] > 0 /\ p + sz[p] <= End
           /\ p + sz[p] \in Addresses /\ sz[p] % Align = 0
<1>1. p \in Addresses /\ p \in Nat
  BY EndIs DEF Tiles
<1>2. sz[p] \in Nat /\ sz[p] >= Header
  BY <1>1, EndIs DEF Tiles
<1>3. p + sz[p] \in Addresses
  BY EndIs DEF Tiles
<1>4. p + sz[p] <= End /\ End \in Nat /\ Header \in Nat /\ Header > 0
  BY <1>3, EndIs
<1>5. (p + sz[p]) % Align = 0 /\ p % Align = 0
  BY <1>1, <1>3, EndIs
<1>6. ((p + sz[p]) - p) % Align = 0
  <2>1. p + sz[p] \in Int /\ p \in Int
    BY <1>1, <1>2
  <2> QED
    BY <2>1, <1>5, AlignedSums
<1>7. (p + sz[p]) - p = sz[p]
  BY <1>1, <1>2
<1> QED
  BY <1>1, <1>2, <1>3, <1>4, <1>6, <1>7

\* Two neighbours become one.
LEMMA JoinedTiles ==
    ASSUME NEW sz, NEW B, Tiles(sz, B), NEW x \in B, NEW y \in B,
           x + sz[x] = y
    PROVE  Tiles(Joined(sz, x, y), B \ {y})
<1> DEFINE s == Joined(sz, x, y)
<1>1. /\ x \in Nat /\ y \in Nat /\ x < y /\ x \in Addresses /\ y \in Addresses
      /\ sz[x] \in Nat /\ sz[y] \in Nat /\ y + sz[y] <= End
      /\ sz[x] > 0 /\ sz[y] > 0 /\ End \in Nat /\ Header \in Nat
  BY TileBounds, EndIs
<1>2. /\ s \in [Addresses -> 0 .. End]
      /\ s[x] = sz[x] + sz[y]
      /\ \A p \in Addresses \ {x, y} : s[p] = sz[p]
  BY <1>1 DEF Joined, Tiles
<1>3. B \subseteq Addresses /\ 0 \in B \ {y} /\ \A p \in B : p \in Nat
  <2>1. B \subseteq Addresses /\ 0 \in B
    BY DEF Tiles
  <2>2. \A p \in B : p \in Nat
    BY TileBounds
  <2> QED
    BY <1>1, <2>1, <2>2
<1> HIDE DEF s
<1>4. ASSUME NEW p \in B \ {y}
      PROVE  /\ s[p] >= Header
             /\ p + s[p] = End \/ p + s[p] \in B \ {y}
             /\ \A q \in B \ {y} : q > p => q >= p + s[p]
  <2>0. p \in Nat /\ sz[p] \in Nat
    BY TileBounds
  <2>1. CASE p = x
    <3>1. sz[x] >= Header /\ (y + sz[y] = End \/ y + sz[y] \in B)
      BY DEF Tiles
    <3>2. \A q \in B : (q > x => q >= y) /\ (q > y => q >= y + sz[y])
      BY DEF Tiles
    <3>3. x + s[x] = y + sz[y]
      BY <1>1, <1>2
    <3> QED
      BY <3>1, <3>2, <3>3, <2>1, <1>1, <1>2, <1>3
  <2>2. CASE p # x
    <3>1. s[p] = sz[p]
      BY <2>2, <1>2, <1>3
    <3>2. sz[p] >= Header /\ (p + sz[p] = End \/ p + sz[p] \in B)
          /\ \A q \in B : q > p => q >= p + sz[p]
      BY DEF Tiles
    <3>3. p + sz[p] # y
      <4>1. p < x \/ p > x
        BY <2>0, <2>2, <1>1
      <4>2. p < x => x >= p + sz[p]
        BY DEF Tiles
      <4>3. p > x => p >= y
        BY DEF Tiles
      <4>4. sz[p] > 0
        BY TileBounds
      <4> QED
        BY <4>1, <4>2, <4>3, <4>4, <2>0, <1>1
    <3> QED
      BY <3>1, <3>2, <3>3
  <2> QED
    BY <2>1, <2>2
<1> QED
  BY <1>2, <1>3, <1>4 DEF s, Tiles

\* One block becomes two.
LEMMA CutTiles ==
    ASSUME NEW sz, NEW B, Tiles(sz, B), NEW x \in B, NEW n \in Nat,
           n >= Header, sz[x] - n >= Header, n % Align = 0
    PROVE  /\ Tiles(CutAt(sz, x, n), B \cup {x + n})
           /\ x + n \notin B /\ x + n \in Addresses
<1> DEFINE s == CutAt(sz, x, n)
           y == x + n
<1>1. /\ x \in Nat /\ x \in Addresses /\ sz[x] \in Nat /\ x + sz[x] <= End
      /\ End \in Nat /\ Header \in Nat /\ Header > 0
      /\ x + sz[x] \in Addresses
  BY TileBounds, EndIs
<1>2. y \in Addresses
  <2>1. (x + n) % Align = 0
    BY <1>1, EndIs, AlignedSums
  <2>2. x + n \in 0 .. End
    BY <1>1
  <2> QED
    BY <2>1, <2>2 DEF Addresses
<1>3. y \in Nat /\ x < y /\ y < x + sz[x] /\ n > 0 /\ y = x + n
  BY <1>1
<1>4. y \notin B
  BY <1>1, <1>3 DEF Tiles
<1>5. /\ s \in [Addresses -> 0 .. End]
      /\ s[x] = n /\ s[y] = sz[x] - n
      /\ \A p \in Addresses \ {x, y} : s[p] = sz[p]
  BY <1>1, <1>2, <1>3 DEF CutAt, Tiles
<1>6. B \subseteq Addresses /\ 0 \in B /\ \A p \in B : p \in Nat
  BY TileBounds DEF Tiles
<1> HIDE DEF s, y
<1>7. ASSUME NEW p \in B \cup {y}
      PROVE  /\ s[p] >= Header
             /\ p + s[p] = End \/ p + s[p] \in B \cup {y}
             /\ \A q \in B \cup {y} : q > p => q >= p + s[p]
  <2>1. /\ x + sz[x] = End \/ x + sz[x] \in B
        /\ \A q \in B : q > x => q >= x + sz[x]
    BY DEF Tiles
  <2>2. CASE p = x
    BY <2>1, <2>2, <1>1, <1>3, <1>5, <1>6
  <2>3. CASE p = y
    BY <2>1, <2>3, <1>1, <1>3, <1>5, <1>6
  <2>4. CASE p # x /\ p # y
    <3>1. p \in B /\ s[p] = sz[p] /\ p \in Nat /\ sz[p] \in Nat
      BY <2>4, <1>5, <1>6, TileBounds
    <3>2. sz[p] >= Header /\ (p + sz[p] = End \/ p + sz[p] \in B)
          /\ \A q \in B : q > p => q >= p + sz[p]
      BY <3>1 DEF Tiles
    <3>3. y > p => y >= p + sz[p]
      BY <3>1, <3>2, <2>1, <2>4, <1>1, <1>3
    <3> QED
      BY <3>1, <3>2, <3>3
  <2> QED
    BY <2>2, <2>3, <2>4
<1>8. Tiles(s, B \cup {y})
  BY <1>2, <1>5, <1>6, <1>7 DEF Tiles
<1> QED
  BY <1>2, <1>4, <1>8 DEF s, y

-----------------------------------------------------------------------------
(* What the loops over the list find.                                       *)

\* The loop of prvInsertBlockIntoFreeList ends at the node before b.
LEMMA BeforeIs ==
    ASSUME NEW nx, Chain(nx), NEW b \in Addresses
    PROVE  /\ Before(nx, b) \in Nodes(nx)
           /\ Before(nx, b) < b /\ b <= nx[Before(nx, b)]
<1> DEFINE Eq(f) == f = [p \in Nodes(nx) |-> IF nx[p] < b THEN f[nx[p]] ELSE p]
           walk == CHOOSE f : Eq(f)
<1>0. b \in Nat /\ b <= End /\ End \in Nat /\ Start < 0 /\ Start \in Int
  BY EndIs
<1>1. PICK q \in Nodes(nx) : q < b /\ b <= nx[q]
  BY BetweenNodes
<1>2. \A p \in Nodes(nx) : nx[p] < b => nx[p] \in Nodes(nx)
  BY <1>0, ChainNodes DEF Chain
<1>3. \A p \in Nodes(nx) : p \in Int /\ nx[p] \in Int
  BY ChainNodes
<1>4. Eq([p \in Nodes(nx) |-> IF nx[p] < b THEN q ELSE p])
  <2> DEFINE F == [p \in Nodes(nx) |-> IF nx[p] < b THEN q ELSE p]
  <2>1. ASSUME NEW p \in Nodes(nx), nx[p] < b PROVE F[nx[p]] = q
    <3>1. nx[p] \in Nodes(nx)
      BY <2>1, <1>2
    <3>2. CASE nx[nx[p]] < b
      BY <3>1, <3>2
    <3>3. CASE ~(nx[nx[p]] < b)
      <4> DEFINE r == nx[p]
      <4>1. r \in Nodes(nx) /\ r < b /\ b <= nx[r] /\ r \in Int /\ nx[r] \in Int
        BY <3>1, <3>3, <2>1, <1>0, <1>3
      <4> HIDE DEF r
      <4>2. (q <= r \/ q >= nx[r]) /\ (r <= q \/ r >= nx[q])
        BY <4>1, <1>1 DEF Chain
      <4>3. q = r
        BY <4>1, <4>2, <1>0, <1>1, <1>3
      <4> QED
        BY <4>3, <3>1, <3>3 DEF r
    <3> QED
      BY <3>2, <3>3
  <2>2. F = [p \in Nodes(nx) |-> IF nx[p] < b THEN F[nx[p]] ELSE p]
    BY <2>1
  <2> QED
    BY <2>2
<1>5. Eq(walk)
  BY <1>4
<1>6. Before(nx, b) = walk[Start]
  BY DEF Before
<1> HIDE DEF walk
<1>7. \A p \in Nodes(nx) : walk[p] = IF nx[p] < b THEN walk[nx[p]] ELSE p
  BY <1>5
<1> DEFINE Good(x) == x \in Nodes(nx) /\ x < b /\ b <= nx[x]
           Bad == {p \in Nodes(nx) : p < b /\ ~Good(walk[p])}
<1>8. Bad = {}
  <2> SUFFICES ASSUME Bad # {} PROVE FALSE
    OBVIOUS
  <2>1. Bad \subseteq {Start} \cup Addresses
    BY ChainNodes
  <2>2. PICK p \in Bad : \A k \in Bad : p >= k
    BY <2>1, GreatestOf
  <2>3. p \in Nodes(nx) /\ p < b /\ ~Good(walk[p])
    BY <2>2
  <2>4. CASE nx[p] < b
    <3>1. nx[p] \in Nodes(nx) /\ walk[p] = walk[nx[p]] /\ nx[p] > p
      BY <2>3, <2>4, <1>2, <1>7 DEF Chain
    <3>2. nx[p] \in Bad
      BY <3>1, <2>3, <2>4
    <3> QED
      BY <3>1, <3>2, <2>2, <2>3, <1>3
  <2>5. CASE ~(nx[p] < b)
    BY <2>3, <2>5, <1>7, <1>3, <1>0
  <2> QED
    BY <2>4, <2>5
<1>9. Start \in Nodes(nx) /\ Start < b
  BY ChainNodes, <1>0
<1>10. Good(walk[Start])
  BY <1>8, <1>9
<1> QED
  BY <1>6, <1>10

\* The loop of pvPortMalloc ends at a free block that is large enough, or at
\* pxEnd.
LEMMA FirstFitIs ==
    ASSUME Chain(link), size \in [Addresses -> 0 .. End], NEW wanted \in Nat
    PROVE  \/ FirstFit(wanted) = End
           \/ FirstFit(wanted) \in Free(link) /\ size[FirstFit(wanted)] >= wanted
<1> DEFINE Go(p) == size[p] < wanted /\ link[p] # NULL
           Eq(f) == f = [p \in Addresses |-> IF Go(p) THEN f[link[p]] ELSE p]
           walk == CHOOSE f : Eq(f)
           FE == Free(link) \cup {End}
           Ends(p) == {r \in FE : r >= p /\ ~Go(r)}
           Least(S) == CHOOSE n \in S : \A k \in S : n <= k
           W == [p \in Addresses |-> IF Go(p) THEN Least(Ends(link[p])) ELSE p]
<1>0. /\ End \in Nat /\ End \in Addresses /\ Addresses \subseteq Nat
      /\ \A a \in Addresses : a <= End
      /\ Start \notin Addresses
  BY EndIs
<1>1. FE \subseteq Addresses /\ End \in FE /\ ~Go(End)
  BY <1>0, ChainNodes DEF Chain
<1>2. ASSUME NEW p \in Addresses, Go(p)
      PROVE  /\ p \in Free(link) /\ link[p] \in FE /\ link[p] > p
             /\ \A r \in FE : r > p => r >= link[p]
             /\ link[p] \in Addresses
  <2>1. p \in Nodes(link) /\ p # Start
    BY <1>0, <1>2 DEF Nodes
  <2>2. link[p] > p /\ (link[p] = End \/ link[p] \in Nodes(link))
        /\ \A q \in Nodes(link) : q <= p \/ q >= link[p]
    BY <2>1 DEF Chain
  <2>3. link[p] \in Addresses /\ link[p] <= End /\ link[p] # Start
        /\ link[p] \in Nat /\ p \in Nat
    BY <2>1, <1>0, ChainNodes
  <2>4. ASSUME NEW r \in FE, r > p PROVE r >= link[p]
    <3>1. CASE r = End
      BY <3>1, <2>3, <1>0
    <3>2. CASE r \in Free(link)
      <4>1. r \in Nodes(link) /\ r \in Nat
        BY <3>2, <1>0, <1>1 DEF Free
      <4> QED
        BY <4>1, <2>2, <2>3, <2>4
    <3> QED
      BY <3>1, <3>2
  <2> QED
    BY <2>1, <2>2, <2>3, <2>4 DEF Free
<1> HIDE DEF Go, FE
<1>3. ASSUME NEW p \in FE
      PROVE  Least(Ends(p)) \in Ends(p) /\ \A k \in Ends(p) : Least(Ends(p)) <= k
  <2>1. Ends(p) \subseteq Nat
    BY <1>0, <1>1
  <2>2. End \in Ends(p)
    BY <1>0, <1>1
  <2> HIDE DEF Ends
  <2>3. \E n \in Ends(p) : \A k \in Ends(p) : n <= k
    BY <2>1, <2>2, LeastOf
  <2> QED
    BY <2>3
<1>4. ASSUME NEW p \in Addresses, Go(p)
      PROVE  W[link[p]] = Least(Ends(link[p]))
  <2> DEFINE r == link[p]
  <2>1. r \in FE /\ r \in Addresses /\ r \in Nat
    BY <1>0, <1>2, <1>4
  <2> HIDE DEF r
  <2>2. CASE ~Go(r)
    <3>1. r \in Ends(r) /\ \A k \in Ends(r) : r <= k
      BY <2>1, <2>2
    <3>2. Least(Ends(r)) \in Ends(r) /\ Least(Ends(r)) <= r
      BY <3>1, <2>1, <1>3
    <3>3. Least(Ends(r)) = r
      <4> HIDE DEF Least
      <4>1. Least(Ends(r)) \in Nat
        BY <3>2, <1>0, <1>1
      <4> QED
        BY <4>1, <3>1, <3>2, <2>1
    <3>4. W[r] = r
      BY <2>1, <2>2
    <3> QED
      BY <3>3, <3>4 DEF r
  <2>3. CASE Go(r)
    <3>1. /\ link[r] \in FE /\ link[r] > r /\ link[r] \in Nat
          /\ \A k \in FE : k > r => k >= link[r]
      BY <2>1, <2>3, <1>2, <1>0
    <3>2. Ends(r) = Ends(link[r])
      <4>1. \A k \in FE : k \in Nat
        BY <1>0, <1>1
      <4>2. ASSUME NEW k \in Ends(r) PROVE k \in Ends(link[r])
        <5>1. k # r
          BY <2>3, <4>2
        <5> QED
          BY <5>1, <3>1, <4>1, <4>2, <2>1
      <4>3. ASSUME NEW k \in Ends(link[r]) PROVE k \in Ends(r)
        BY <3>1, <4>1, <4>3, <2>1
      <4> QED
        BY <4>2, <4>3
    <3>3. W[r] = Least(Ends(link[r]))
      BY <2>1, <2>3
    <3> QED
      BY <3>2, <3>3 DEF r
  <2> QED
    BY <2>2, <2>3
<1>5. Eq(W)
  BY <1>4
<1>6. Eq(walk)
  BY <1>5
<1>7. FirstFit(wanted) = walk[link[Start]]
  BY DEF FirstFit, Go
<1> HIDE DEF walk, W
<1>8. \A p \in Addresses : walk[p] = IF Go(p) THEN walk[link[p]] ELSE p
  BY <1>6
<1> DEFINE Bad == {p \in FE : ~(walk[p] \in FE /\ ~Go(walk[p]))}
<1>9. Bad = {}
  <2> SUFFICES ASSUME Bad # {} PROVE FALSE
    OBVIOUS
  <2>1. PICK p \in Bad : \A k \in Bad : p >= k
    BY <1>1, GreatestOf
  <2>2. p \in FE /\ p \in Addresses /\ p \in Nat
    BY <2>1, <1>0, <1>1
  <2>3. CASE Go(p)
    <3>1. link[p] \in FE /\ link[p] > p /\ link[p] \in Nat /\ walk[p] = walk[link[p]]
      BY <2>2, <2>3, <1>2, <1>8, <1>0
    <3>2. link[p] \in Bad
      BY <3>1, <2>1
    <3> QED
      BY <3>1, <3>2, <2>1, <2>2
  <2>4. CASE ~Go(p)
    BY <2>1, <2>2, <2>4, <1>8
  <2> QED
    BY <2>3, <2>4
<1>10. link[Start] \in FE
  <2>1. Start \in Nodes(link) /\ link[Start] \in Addresses
    BY ChainNodes
  <2> QED
    BY <2>1, <1>0 DEF FE, Free, Chain
<1>11. FirstFit(wanted) \in FE /\ ~Go(FirstFit(wanted))
  BY <1>7, <1>9, <1>10
<1> DEFINE x == FirstFit(wanted)
<1> HIDE DEF x
<1>12. x \in FE /\ ~Go(x)
  BY <1>11 DEF x
<1>13. x \in Free(link) => link[x] # NULL /\ size[x] \in Nat
  BY <1>12, <1>1, <1>0 DEF Free, Nodes
<1>14. x = End \/ (x \in Free(link) /\ size[x] >= wanted)
  BY <1>12, <1>13 DEF FE, Go
<1> QED
  BY <1>14 DEF x

\* The blocks a walk along the list meets are the nodes beyond xStart.
LEMMA FreeListIs ==
    ASSUME Chain(link)
    PROVE  FreeList = Free(link)
<1> DEFINE D == {Start} \cup Addresses
           Stop(p) == link[p] \in {NULL, End}
           Eq(f) == f = [p \in D |->
                          IF Stop(p) THEN {} ELSE {link[p]} \cup f[link[p]]]
           walk == CHOOSE f : Eq(f)
           Behind(p) == {q \in Free(link) : q > p}
           W == [p \in D |-> IF Stop(p) THEN {} ELSE Behind(p)]
<1>0. /\ End \in Nat /\ Addresses \subseteq Nat /\ Start \in Int /\ Start < 0
      /\ \A q \in Free(link) : q \in Nat /\ q < End /\ q \in Addresses
  BY EndIs, ChainNodes
<1>1. ASSUME NEW p \in D, ~Stop(p)
      PROVE  /\ p \in Nodes(link) /\ link[p] \in Nodes(link)
             /\ link[p] \in Free(link)
             /\ link[p] \in D /\ link[p] > p
             /\ Behind(p) = {link[p]} \cup Behind(link[p])
  <2>1. p \in Nodes(link)
    BY <1>1 DEF Nodes
  <2>2. link[p] > p /\ link[p] \in Nodes(link)
        /\ \A q \in Nodes(link) : q <= p \/ q >= link[p]
    BY <2>1, <1>1 DEF Chain
  <2>3. link[p] \in Free(link) /\ link[p] \in D /\ link[p] \in Nat /\ p \in Int
    BY <2>1, <2>2, <1>0, ChainNodes, EndIs DEF Free
  <2>4. \A q \in Free(link) : q \in Nodes(link) /\ q \in Nat
    BY <1>0 DEF Free
  <2>5. \A q \in Free(link) : q > p <=> (q = link[p] \/ q > link[p])
    BY <2>2, <2>3, <2>4
  <2> QED
    BY <2>1, <2>2, <2>3, <2>5
<1>2. ASSUME NEW p \in Nodes(link), Stop(p) PROVE Behind(p) = {}
  <2>1. link[p] = End /\ p \in Int
    BY <1>2, ChainNodes, EndIs
  <2>2. \A q \in Nodes(link) : q <= p \/ q >= End
    BY <2>1 DEF Chain
  <2>3. ASSUME NEW q \in Free(link), q > p PROVE FALSE
    <3>1. q \in Nodes(link) /\ q \in Nat /\ q < End
      BY <1>0 DEF Free
    <3> QED
      BY <3>1, <2>1, <2>2, <2>3, <1>0
  <2> QED
    BY <2>3
<1>3. Eq(W)
  <2>1. ASSUME NEW p \in D, ~Stop(p) PROVE W[link[p]] = Behind(link[p])
    <3>1. link[p] \in Nodes(link) /\ link[p] \in D
      BY <1>1, <2>1
    <3> HIDE DEF Behind, Stop
    <3> QED
      BY <3>1, <1>2
  <2>2. \A p \in D : W[p] = IF Stop(p) THEN {} ELSE Behind(p)
    OBVIOUS
  <2>3. \A p \in D : ~Stop(p) => Behind(p) = {link[p]} \cup W[link[p]]
    BY <2>1, <1>1
  <2> HIDE DEF Behind, Stop, D
  <2> QED
    BY <2>2, <2>3
<1>4. Eq(walk)
  BY <1>3
<1>5. FreeList = walk[Start]
  BY DEF FreeList
<1> HIDE DEF walk, W
<1>6. \A p \in D : walk[p] = IF Stop(p) THEN {} ELSE {link[p]} \cup walk[link[p]]
  BY <1>4
<1> DEFINE Bad == {p \in Nodes(link) : walk[p] # Behind(p)}
<1>7. Bad = {}
  <2> SUFFICES ASSUME Bad # {} PROVE FALSE
    OBVIOUS
  <2>1. Bad \subseteq {Start} \cup Addresses
    BY ChainNodes
  <2>2. PICK p \in Bad : \A k \in Bad : p >= k
    BY <2>1, GreatestOf
  <2>3. p \in Nodes(link) /\ p \in D /\ p \in Int /\ walk[p] # Behind(p)
    BY <2>2, ChainNodes
  <2>4. CASE Stop(p)
    BY <2>3, <2>4, <1>2, <1>6
  <2>5. CASE ~Stop(p)
    <3>1. /\ link[p] \in Nodes(link) /\ link[p] > p /\ link[p] \in Int
          /\ Behind(p) = {link[p]} \cup Behind(link[p])
      BY <2>3, <2>5, <1>1, ChainNodes
    <3>2. walk[p] = {link[p]} \cup walk[link[p]]
      BY <2>3, <2>5, <1>6
    <3>3. walk[link[p]] # Behind(link[p])
      BY <3>1, <3>2, <2>3
    <3>4. link[p] \in Bad
      BY <3>1, <3>3
    <3> QED
      BY <3>1, <3>4, <2>2, <2>3
  <2> QED
    BY <2>4, <2>5
<1>8. walk[Start] = Behind(Start)
  BY <1>7, ChainNodes
<1>9. Behind(Start) = Free(link)
  BY <1>0
<1> QED
  BY <1>5, <1>8, <1>9

-----------------------------------------------------------------------------
(* Counting the free bytes.                                                 *)

\* Cells are finitely many.
LEMMA CellsFinite ==
    ASSUME NEW F, NEW sz
    PROVE  /\ IsFiniteSet(Cells(F, sz))
           /\ Cardinality(Cells(F, sz)) \in 0 .. End
<1>1. End \in Nat /\ 0 \in Int /\ End - 1 \in Int
  BY EndIs
<1>2. IsFiniteSet(0 .. End - 1) /\ Cardinality(0 .. End - 1) = End
  <2>1. /\ IsFiniteSet(0 .. End - 1)
        /\ Cardinality(0 .. End - 1) = IF 0 > End - 1 THEN 0
                                       ELSE (End - 1) - 0 + 1
    BY <1>1, FS_Interval
  <2> QED
    BY <2>1, <1>1
<1>3. Cells(F, sz) \subseteq 0 .. End - 1
  BY DEF Cells
<1>4. /\ IsFiniteSet(Cells(F, sz))
      /\ Cardinality(Cells(F, sz)) <= Cardinality(0 .. End - 1)
  BY <1>2, <1>3, FS_Subset
<1>5. Cardinality(Cells(F, sz)) \in Nat
  BY <1>4, FS_CardinalityType
<1> QED
  BY <1>1, <1>2, <1>4, <1>5

\* A block more: its size more.
LEMMA CellsMore ==
    ASSUME NEW sz, NEW B, Tiles(sz, B), NEW F \in SUBSET B, NEW b \in B \ F
    PROVE  Cardinality(Cells(F \cup {b}, sz)) = Cardinality(Cells(F, sz)) + sz[b]
<1> DEFINE I == b .. b + sz[b] - 1
           C == Cells(F, sz)
           U == Cells(F \cup {b}, sz)
<1>1. b \in Nat /\ sz[b] \in Nat /\ sz[b] > 0 /\ b + sz[b] <= End /\ End \in Nat
  BY TileBounds, EndIs
<1>2. IsFiniteSet(I) /\ Cardinality(I) = sz[b]
  <2>1. b \in Int /\ b + sz[b] - 1 \in Int
    BY <1>1
  <2>2. /\ IsFiniteSet(I)
        /\ Cardinality(I) = IF b > b + sz[b] - 1 THEN 0
                            ELSE (b + sz[b] - 1) - b + 1
    BY <2>1, FS_Interval
  <2> HIDE DEF I
  <2> QED
    BY <2>2, <1>1
<1>3. U = C \cup I
  BY <1>1 DEF Cells
<1>4. C \cap I = {}
  <2> SUFFICES ASSUME NEW a \in C, a \in I PROVE FALSE
    OBVIOUS
  <2>1. PICK p \in F : p <= a /\ a < p + sz[p]
    BY DEF Cells
  <2>2. p \in B /\ p # b /\ p \in Nat /\ sz[p] \in Nat /\ a \in Nat
        /\ b <= a /\ a < b + sz[b]
    BY <1>1, TileBounds DEF Cells
  <2>3. (b > p => b >= p + sz[p]) /\ (p > b => p >= b + sz[b])
    BY <2>2 DEF Tiles
  <2> QED
    BY <2>1, <2>2, <2>3, <1>1
<1>5. IsFiniteSet(C)
  BY CellsFinite
<1>6. IsFiniteSet({}) /\ Cardinality({}) = 0
  BY FS_EmptySet
<1>7. Cardinality(C) \in Nat
  BY <1>5, FS_CardinalityType
<1> HIDE DEF C, I, U
<1>8. Cardinality(C \cup I)
        = Cardinality(C) + Cardinality(I) - Cardinality(C \cap I)
  BY <1>2, <1>5, FS_Union
<1>9. Cardinality(U) = Cardinality(C) + sz[b]
  <2>1. Cardinality(C \cap I) = 0
    BY <1>4, <1>6
  <2>2. Cardinality(U) = Cardinality(C) + sz[b] - 0
    BY ONLY <1>2, <1>3, <1>8, <2>1
  <2> QED
    BY <2>2, <1>1, <1>7
<1> QED
  BY <1>9 DEF U, C

\* Cells depend on the sizes of their blocks only.
LEMMA CellsSame ==
    ASSUME NEW F, NEW sz, NEW s, \A p \in F : s[p] = sz[p]
    PROVE  Cells(F, s) = Cells(F, sz)
  BY DEF Cells

\* Two free neighbours that become one keep their bytes.
LEMMA CellsJoined ==
    ASSUME NEW sz, NEW B, Tiles(sz, B), NEW F \in SUBSET B,
           NEW x \in F, NEW y \in F, x + sz[x] = y
    PROVE  Cells(F \ {y}, Joined(sz, x, y)) = Cells(F, sz)
<1> DEFINE s == Joined(sz, x, y)
<1>1. x \in Nat /\ sz[x] \in Nat /\ sz[x] > 0 /\ sz[y] \in Nat /\ sz[y] > 0
      /\ x \in Addresses /\ y \in Addresses /\ y \in Nat /\ x # y
  BY TileBounds
<1>2. s[x] = sz[x] + sz[y] /\ \A p \in F \ {x, y} : s[p] = sz[p]
  BY <1>1 DEF Joined, Tiles
<1>3. \A p \in F : p \in Nat /\ sz[p] \in Nat
  BY TileBounds
<1> HIDE DEF s
<1>4. \A a \in Nat : (x <= a /\ a < x + s[x])
                  <=> ((x <= a /\ a < x + sz[x]) \/ (y <= a /\ a < y + sz[y]))
  BY <1>1, <1>2
<1>5. ASSUME NEW a \in Nat
      PROVE  (\E p \in F \ {y} : p <= a /\ a < p + s[p])
             <=> (\E p \in F : p <= a /\ a < p + sz[p])
  <2>1. ASSUME NEW p \in F \ {y}, p <= a, a < p + s[p]
        PROVE  \E r \in F : r <= a /\ a < r + sz[r]
    <3>1. CASE p = x
      BY <2>1, <3>1, <1>4
    <3>2. CASE p # x
      BY <2>1, <3>2, <1>2
    <3> QED
      BY <3>1, <3>2
  <2>2. ASSUME NEW p \in F, p <= a, a < p + sz[p]
        PROVE  \E r \in F \ {y} : r <= a /\ a < r + s[r]
    <3>1. CASE p \in {x, y}
      <4>1. x <= a /\ a < x + s[x]
        BY <2>2, <3>1, <1>4
      <4> QED
        BY <4>1, <1>1
    <3>2. CASE p \notin {x, y}
      BY <2>2, <3>2, <1>2
    <3> QED
      BY <3>1, <3>2
  <2> QED
    BY <2>1, <2>2
<1>6. \A a \in 0 .. End - 1 : a \in Nat
  BY EndIs
<1>7. Cells(F \ {y}, s) = Cells(F, sz)
  BY <1>5, <1>6 DEF Cells
<1> QED
  BY <1>7 DEF s

-----------------------------------------------------------------------------
(* What pvPortMalloc and vPortFree do to the blocks.                        *)

\* The block at h becomes one with the free block that follows it.
LEMMA MergeNext ==
    ASSUME NEW nx, NEW sz, NEW used, NEW h \in Free(nx),
           Shape(nx, sz, used, {h}),
           NEW m, NEW s,
           IF h + sz[h] = nx[h] /\ nx[h] # End
           THEN m = Unlinked(nx, h) /\ s = Joined(sz, h, nx[h])
           ELSE m = nx /\ s = sz
    PROVE  /\ Shape(m, s, used, {})
           /\ \A u \in used : s[u] = sz[u]
           /\ Cells(Free(m), s) = Cells(Free(nx), sz)
<1> DEFINE B == Free(nx) \cup used
           y == nx[h]
<1>1. Chain(nx) /\ Tiles(sz, B) /\ used \cap Free(nx) = {}
      /\ MergedBut(nx, sz, {h})
  BY DEF Shape
<1>2. h \in Nodes(nx) /\ h \in B /\ h \in Nat /\ sz[h] \in Nat /\ sz[h] > 0
      /\ y \in Nat /\ y > h
      /\ (\A q \in Free(nx) : q \in Nat /\ q \in Nodes(nx) /\ q < End
                              /\ q \in Addresses)
      /\ (\A q \in B : q \in Nat /\ sz[q] \in Nat /\ sz[q] > 0)
  <2>1. h \in Nodes(nx) /\ h \in B
    BY DEF Free
  <2>2. y \in Nat /\ y > h
    BY <1>1, <2>1, ChainNodes DEF Chain
  <2>3. \A q \in Free(nx) : q \in Nodes(nx) /\ q < End /\ q \in Addresses
    BY <1>1, ChainNodes DEF Free
  <2>4. \A q \in B : q \in Nat /\ sz[q] \in Nat /\ sz[q] > 0
    BY <1>1, TileBounds
  <2> QED
    BY <2>1, <2>2, <2>3, <2>4
<1>3. CASE h + sz[h] = y /\ y # End
  <2>1. m = Unlinked(nx, h) /\ s = Joined(sz, h, y)
    BY <1>3
  <2>2. Chain(m) /\ Free(m) = Free(nx) \ {y} /\ y \in Free(nx)
    BY <2>1, <1>1, <1>2, <1>3, UnlinkedChain
  <2>3. Tiles(s, B \ {y}) /\ Free(m) \cup used = B \ {y}
    <3>1. y \in B /\ y \notin used
      BY <2>2, <1>1
    <3> HIDE DEF y, B
    <3>2. Tiles(s, B \ {y})
      BY <3>1, <2>1, <1>1, <1>2, <1>3, JoinedTiles
    <3> QED
      BY <3>1, <3>2, <2>2 DEF B
  <2>4. \A u \in used \cup (Free(nx) \ {h, y}) : s[u] = sz[u]
    <3>1. \A u \in used \cup (Free(nx) \ {h, y}) :
            u # h /\ u # y /\ u \in Addresses
      BY <1>1, <1>2, <2>2 DEF Tiles
    <3> HIDE DEF y
    <3>2. sz \in [Addresses -> 0 .. End]
      BY <1>1 DEF Tiles
    <3> QED
      BY <3>1, <3>2, <2>1 DEF Joined
  <2>5. Cells(Free(m), s) = Cells(Free(nx), sz)
    <3> HIDE DEF y
    <3>1. Free(nx) \in SUBSET B
      OBVIOUS
    <3> QED
      BY <3>1, <2>1, <2>2, <1>1, <1>3, CellsJoined
  <2>6. MergedBut(m, s, {})
    <3> SUFFICES ASSUME NEW p \in Free(m) PROVE p + s[p] \notin Free(m)
      BY DEF MergedBut
    <3>1. p \in Free(nx) /\ p # y
      BY <2>2
    <3>2. CASE p = h
      <4>1. s[h] = sz[h] + sz[y] /\ y \in Nat /\ sz[y] \in Nat
        <5>1. h \in Addresses /\ y \in Addresses /\ h # y
          BY <1>2, <2>2
        <5>2. sz \in [Addresses -> 0 .. End]
          BY <1>1 DEF Tiles
        <5>3. sz[y] \in Nat
          BY <2>2, <1>2
        <5> HIDE DEF y
        <5> QED
          BY <5>1, <5>2, <5>3, <2>1, <1>2 DEF Joined
      <4>2. h + s[h] = y + sz[y]
        BY <4>1, <1>2, <1>3
      <4>3. y + sz[y] \notin Free(nx)
        BY <2>2, <1>1, <1>2 DEF MergedBut
      <4> QED
        BY <3>2, <4>2, <4>3, <2>2
    <3>3. CASE p # h
      <4>1. s[p] = sz[p]
        BY <2>4, <3>1, <3>3
      <4>2. p + sz[p] \notin Free(nx)
        BY <3>1, <3>3, <1>1 DEF MergedBut
      <4> QED
        BY <4>1, <4>2, <2>2
    <3> QED
      BY <3>2, <3>3
  <2> HIDE DEF y
  <2>7. Shape(m, s, used, {})
    <3>1. Tiles(s, Free(m) \cup used) /\ used \cap Free(m) = {}
      BY <2>3, <2>2, <1>1
    <3> QED
      BY <3>1, <2>2, <2>6 DEF Shape
  <2> QED
    BY <2>4, <2>5, <2>7
<1>4. CASE ~(h + sz[h] = y /\ y # End)
  <2>1. m = nx /\ s = sz
    BY <1>4
  <2>2. h + sz[h] \notin Free(nx)
    <3> SUFFICES ASSUME h + sz[h] \in Free(nx) PROVE FALSE
      OBVIOUS
    <3>1. h + sz[h] >= y
      BY <1>1, <1>2 DEF Chain
    <3>2. y = End \/ y \in Free(nx)
      BY <1>1, <1>2, EndIs DEF Chain, Free
    <3>3. y # End
      BY <3>1, <1>2, EndIs
    <3>4. y >= h + sz[h]
      BY <3>2, <3>3, <1>1, <1>2 DEF Tiles
    <3> QED
      BY <3>1, <3>3, <3>4, <1>2, <1>4
  <2>3. MergedBut(nx, sz, {})
    BY <2>2, <1>1 DEF MergedBut
  <2> QED
    BY <2>1, <2>3, <1>1 DEF Shape
<1> QED
  BY <1>3, <1>4

\* The list m and the sizes s are what comes of nx and sz when the block at b
\* leaves the ones in use: no other of them changes, and its bytes become free.
Returned(nx, sz, used, b, m, s) ==
    /\ Shape(m, s, used \ {b}, {})
    /\ \A u \in used \ {b} : s[u] = sz[u]
    /\ Cardinality(Cells(Free(m), s))
         = Cardinality(Cells(Free(nx), sz)) + sz[b]

\* That is what prvInsertBlockIntoFreeList does.
LEMMA InsertedShape ==
    ASSUME NEW nx, NEW sz, NEW used, Shape(nx, sz, used, {}), NEW b \in used,
           NEW m, m = Inserted(nx, sz, b).next,
           NEW s, s = Inserted(nx, sz, b).size
    PROVE  Returned(nx, sz, used, b, m, s)
<1> DEFINE B == Free(nx) \cup used
           it == Before(nx, b)
           after == nx[it]
           joinPrev == it # Start /\ it + sz[it] = b
           nx1 == IF joinPrev THEN nx ELSE Linked(nx, it, b)
           sz1 == IF joinPrev THEN Joined(sz, it, b) ELSE sz
           h == IF joinPrev THEN it ELSE b
<1>1. Chain(nx) /\ Tiles(sz, B) /\ used \cap Free(nx) = {}
      /\ MergedBut(nx, sz, {})
  BY DEF Shape
<1>2. /\ b \in B /\ b \in Addresses /\ b \in Nat /\ b < End /\ b \notin Nodes(nx)
      /\ \A q \in B : /\ q \in Nat /\ sz[q] \in Nat /\ sz[q] > 0
                      /\ q \in Addresses
      /\ nx \in [{Start} \cup Addresses -> Addresses \cup {NULL}]
      /\ sz \in [Addresses -> 0 .. End]
      /\ Start \notin Addresses
  <2>1. b \in B
    OBVIOUS
  <2>2. b \in Addresses /\ b \in Nat /\ b < End
    BY <2>1, <1>1, TileBounds
  <2>3. b \notin Nodes(nx)
    BY <2>2, <1>1, EndIs DEF Free
  <2>4. \A q \in B : q \in Nat /\ sz[q] \in Nat /\ sz[q] > 0 /\ q \in Addresses
    BY <1>1, TileBounds
  <2> QED
    BY <2>1, <2>2, <2>3, <2>4, <1>1, EndIs DEF Chain, Tiles
<1>3. /\ it \in Nodes(nx) /\ it < b /\ b < after
      /\ it \in {Start} \cup Addresses /\ it \in Int
      /\ after \in Nat /\ after \in Addresses
      /\ after = End \/ after \in Free(nx)
  <2>1. it \in Nodes(nx) /\ it < b /\ b <= after
    BY <1>1, <1>2, BeforeIs
  <2> HIDE DEF it
  <2>2. it \in {Start} \cup Addresses /\ it \in Int
        /\ after \in Nat /\ after \in Addresses
    BY <2>1, <1>1, ChainNodes
  <2>3. after = End \/ after \in Nodes(nx)
    BY <2>1, <1>1 DEF Chain
  <2>4. after # b /\ after # Start
    BY <2>2, <2>3, <1>2, EndIs
  <2>5. b < after
    BY <2>1, <2>2, <2>4, <1>2
  <2> HIDE DEF after
  <2> QED
    BY <2>1, <2>2, <2>3, <2>4, <2>5 DEF Free
<1>4. /\ m = [p \in {Start} \cup Addresses |->
                 LET joinNext == b + sz[b] = after /\ after # End
                     behind == IF joinNext THEN nx[after] ELSE after
                 IN  CASE p = h -> behind
                       [] p = it /\ ~joinPrev -> b
                       [] p = after /\ joinNext -> NULL
                       [] OTHER -> nx[p]]
      /\ s = [p \in Addresses |->
                 LET joinNext == b + sz[b] = after /\ after # End
                     length == sz[b] + (IF joinPrev THEN sz[it] ELSE 0)
                                     + (IF joinNext THEN sz[after] ELSE 0)
                 IN  CASE p = h -> length
                       [] p = b /\ joinPrev -> 0
                       [] p = after /\ joinNext -> 0
                       [] OTHER -> sz[p]]
  <2>1. DOMAIN nx = {Start} \cup Addresses /\ DOMAIN sz = Addresses
    BY <1>2
  <2> QED
    BY <2>1 DEF Inserted
<1> HIDE DEF it, after
<1>5. /\ Shape(nx1, sz1, used \ {b}, {h}) /\ h \in Free(nx1)
      /\ nx1[h] = after /\ h + sz1[h] = b + sz[b]
      /\ \A u \in used \ {b} : sz1[u] = sz[u]
      /\ Cardinality(Cells(Free(nx1), sz1))
           = Cardinality(Cells(Free(nx), sz)) + sz[b]
  <2>0. MergedBut(nx, sz, {it}) /\ \A p \in Free(nx) \ {it} : p + sz[p] # b
    <3>1. MergedBut(nx, sz, {it})
      BY <1>1 DEF MergedBut
    <3>2. ASSUME NEW p \in Free(nx) \ {it}, p + sz[p] = b PROVE FALSE
      <4>1. p \in Nodes(nx) /\ p \in Nat /\ sz[p] \in Nat /\ sz[p] > 0
        BY <1>2 DEF Free
      <4>2. p <= it \/ p >= after
        BY <4>1, <1>1, <1>3 DEF Chain, after
      <4>3. p < it /\ it # Start /\ it \in Nat
        BY <4>1, <4>2, <3>2, <1>2, <1>3, EndIs
      <4>4. it \in B
        BY <4>3, <1>3 DEF Free
      <4>5. it >= p + sz[p]
        BY <4>3, <4>4, <1>1 DEF Tiles
      <4> QED
        BY <4>1, <4>5, <3>2, <1>2, <1>3
    <3> QED
      BY <3>1, <3>2
  <2>1. CASE joinPrev
    <3>1. nx1 = nx /\ sz1 = Joined(sz, it, b) /\ h = it
      BY <2>1
    <3>2. it \in Free(nx) /\ it \in B /\ it \in Addresses /\ it \in Nat
          /\ sz[it] \in Nat /\ sz[b] \in Nat /\ it # b
      BY <2>1, <1>2, <1>3 DEF Free
    <3> HIDE DEF nx1, sz1, h
    <3>3. sz1[it] = sz[it] + sz[b]
          /\ \A p \in Addresses \ {it, b} : sz1[p] = sz[p]
      BY <3>1, <3>2, <1>2 DEF Joined
    <3>4. \A u \in (B \ {b}) \ {it} : sz1[u] = sz[u]
      BY <3>3, <1>2
    <3>5. Tiles(sz1, B \ {b})
      <4> HIDE DEF B
      <4> QED
        BY <3>1, <3>2, <2>1, <1>1, <1>2, JoinedTiles
    <3>6. Free(nx) \cup (used \ {b}) = B \ {b} /\ b \notin Free(nx)
      BY <1>1
    <3>7. MergedBut(nx, sz1, {it})
      <4>1. \A p \in Free(nx) \ {it} : sz1[p] = sz[p]
        BY <3>4, <3>6
      <4> QED
        BY <4>1, <2>0 DEF MergedBut
    <3>8. Shape(nx, sz1, used \ {b}, {it})
      BY <3>5, <3>6, <3>7, <1>1 DEF Shape
    <3>9. Cardinality(Cells(Free(nx), sz1))
            = Cardinality(Cells(Free(nx), sz)) + sz[b]
      <4>1. Cells((Free(nx) \cup {b}) \ {b}, sz1) = Cells(Free(nx) \cup {b}, sz)
        <5>1. Free(nx) \cup {b} \in SUBSET B
          BY <1>2
        <5>2. it \in Free(nx) \cup {b} /\ b \in Free(nx) \cup {b}
          BY <3>2
        <5> HIDE DEF B
        <5> QED
          BY <5>1, <5>2, <3>1, <2>1, <1>1, CellsJoined
      <4>2. (Free(nx) \cup {b}) \ {b} = Free(nx)
        BY <3>6
      <4>3. Cardinality(Cells(Free(nx) \cup {b}, sz))
              = Cardinality(Cells(Free(nx), sz)) + sz[b]
        <5>1. Free(nx) \in SUBSET B /\ b \in B \ Free(nx)
          BY <3>6, <1>2
        <5> HIDE DEF B
        <5> QED
          BY <5>1, <1>1, CellsMore
      <4> QED
        BY <4>1, <4>2, <4>3
    <3>10. it + sz1[it] = b + sz[b]
      BY <3>2, <3>3, <2>1, <1>2
    <3>11. \A u \in used \ {b} : sz1[u] = sz[u]
      BY <3>2, <3>4, <1>1
    <3> QED
      BY <3>1, <3>2, <3>8, <3>9, <3>10, <3>11 DEF after
  <2>2. CASE ~joinPrev
    <3>1. nx1 = Linked(nx, it, b) /\ sz1 = sz /\ h = b
      BY <2>2
    <3>2. \A p \in Free(nx) : p + sz[p] # b
      <4>1. it \in Free(nx) => it + sz[it] # b
        BY <2>2 DEF Free
      <4> QED
        BY <4>1, <2>0
    <3> HIDE DEF nx1, sz1, h
    <3>3. Chain(nx1) /\ Free(nx1) = Free(nx) \cup {b} /\ nx1[b] = after
      BY <3>1, <1>1, <1>2, <1>3, LinkedChain DEF after
    <3>4. Free(nx1) \cup (used \ {b}) = B /\ (used \ {b}) \cap Free(nx1) = {}
      BY <3>3, <1>1
    <3>5. MergedBut(nx1, sz, {b})
      BY <3>2, <3>3, <1>1 DEF MergedBut
    <3>6. Shape(nx1, sz, used \ {b}, {b})
      BY <3>3, <3>4, <3>5, <1>1 DEF Shape
    <3>7. Cardinality(Cells(Free(nx1), sz))
            = Cardinality(Cells(Free(nx), sz)) + sz[b]
      <4>1. Free(nx) \in SUBSET B /\ b \in B \ Free(nx)
        BY <1>1, <1>2
      <4> HIDE DEF B
      <4> QED
        BY <4>1, <3>3, <1>1, CellsMore
    <3> QED
      BY <3>1, <3>3, <3>6, <3>7
  <2> QED
    BY <2>1, <2>2
<1>6. IF h + sz1[h] = nx1[h] /\ nx1[h] # End
      THEN m = Unlinked(nx1, h) /\ s = Joined(sz1, h, nx1[h])
      ELSE m = nx1 /\ s = sz1
  <2> DEFINE joinNext == b + sz[b] = after /\ after # End
  <2>1. joinNext <=> (h + sz1[h] = nx1[h] /\ nx1[h] # End)
    BY <1>5
  <2>2. /\ it # b /\ it # after /\ b # after
        /\ b \in {Start} \cup Addresses /\ after \in {Start} \cup Addresses
        /\ joinPrev => it \in Addresses
        /\ nx[it] = after
        /\ sz[b] \in Nat
        /\ joinPrev => sz[it] \in Nat
        /\ joinNext => sz[after] \in Nat
    BY <1>2, <1>3 DEF Free, after
  <2>3. CASE joinPrev /\ joinNext
    <3>1. m = Unlinked(nx, it)
      BY <2>2, <2>3, <1>2, <1>3, <1>4 DEF Unlinked
    <3>2. s = Joined(Joined(sz, it, b), it, after)
      BY <2>2, <2>3, <1>2, <1>3, <1>4 DEF Joined
    <3> QED
      BY <3>1, <3>2, <2>1, <2>2, <2>3
  <2>4. CASE joinPrev /\ ~joinNext
    <3>1. m = nx
      BY <2>2, <2>4, <1>2, <1>3, <1>4
    <3>2. s = Joined(sz, it, b)
      <4>1. sz[b] + sz[it] + 0 = sz[it] + sz[b]
        BY <2>2, <2>4
      <4> QED
        BY <4>1, <2>2, <2>4, <1>2, <1>3, <1>4 DEF Joined
    <3> QED
      BY <3>1, <3>2, <2>1, <2>4
  <2>5. CASE ~joinPrev /\ joinNext
    <3>1. m = Unlinked(Linked(nx, it, b), b)
      BY <2>2, <2>5, <1>2, <1>3, <1>4 DEF Unlinked, Linked
    <3>2. s = Joined(sz, b, after)
      <4>1. sz[b] + 0 + sz[after] = sz[b] + sz[after]
        BY <2>2, <2>5
      <4> QED
        BY <4>1, <2>2, <2>5, <1>2, <1>3, <1>4 DEF Joined
    <3>3. Linked(nx, it, b)[b] = after
      BY <1>5, <2>5
    <3> QED
      BY <3>1, <3>2, <3>3, <2>1, <2>5
  <2>6. CASE ~joinPrev /\ ~joinNext
    <3>1. m = Linked(nx, it, b)
      BY <2>2, <2>6, <1>2, <1>3, <1>4 DEF Linked
    <3>2. s = sz
      BY <2>2, <2>6, <1>2, <1>3, <1>4
    <3> QED
      BY <3>1, <3>2, <2>1, <2>6
  <2> QED
    BY <2>3, <2>4, <2>5, <2>6
<1> HIDE DEF nx1, sz1, h
<1>7. /\ Shape(m, s, used \ {b}, {})
      /\ \A u \in used \ {b} : s[u] = sz1[u]
      /\ Cells(Free(m), s) = Cells(Free(nx1), sz1)
  <2>1. h \in Free(nx1) /\ Shape(nx1, sz1, used \ {b}, {h})
    BY <1>5
  <2> QED
    BY ONLY <1>6, <2>1, MergeNext
<1> QED
  BY <1>5, <1>7 DEF Returned

\* The size of a block for a request is aligned, and has room for the header
\* and for what was asked for.
LEMMA NeededIs ==
    ASSUME NEW wanted \in Requests, Needed(wanted) > 0
    PROVE  /\ Needed(wanted) \in Nat /\ Needed(wanted) % Align = 0
           /\ Needed(wanted) >= Header + wanted
           /\ wanted \in Nat /\ wanted > 0
<1> DEFINE r == wanted % Align
<1>1. /\ wanted \in Nat /\ Align \in Nat /\ Align > 0 /\ Header \in Nat
      /\ Header % Align = 0 /\ SizeMax \in Nat
  BY HeapConstants
<1>2. r \in 0 .. Align - 1 /\ wanted = Align * (wanted \div Align) + r
      /\ wanted \div Align \in Int
  BY <1>1
<1>3. Needed(wanted) = wanted + (Header + Align - r) /\ wanted > 0
  BY <1>1 DEF Needed
<1> HIDE DEF r
<1>4. wanted - r = (wanted \div Align) * Align
  BY <1>1, <1>2
<1>5. (wanted - r) % Align = 0 /\ Align % Align = 0
  <2>1. \A k \in Int : (k * Align) % Align = 0
    BY <1>1
  <2>2. Align = 1 * Align
    BY <1>1
  <2> QED
    BY <2>1, <2>2, <1>2, <1>4
<1>6. (Header + Align) % Align = 0
  BY <1>1, <1>5, AlignedSums
<1>7. ((Header + Align) + (wanted - r)) % Align = 0
  <2>1. Header + Align \in Int /\ wanted - r \in Int
    BY <1>1, <1>2
  <2> QED
    BY <2>1, <1>5, <1>6, AlignedSums
<1>8. Needed(wanted) = (Header + Align) + (wanted - r)
  BY <1>1, <1>2, <1>3
<1> QED
  BY <1>1, <1>2, <1>3, <1>7, <1>8

\* A block taken off the list, whole.
LEMMA UnlinkedShape ==
    ASSUME NEW nx, NEW sz, NEW used, Shape(nx, sz, used, {}),
           NEW prev \in {Start} \cup Addresses, nx[prev] \in Free(nx)
    PROVE  /\ Shape(Unlinked(nx, prev), sz, used \cup {nx[prev]}, {})
           /\ Free(Unlinked(nx, prev)) = Free(nx) \ {nx[prev]}
           /\ Cardinality(Cells(Free(nx), sz))
                = Cardinality(Cells(Free(Unlinked(nx, prev)), sz)) + sz[nx[prev]]
<1> DEFINE B == Free(nx) \cup used
           p == nx[prev]
           m == Unlinked(nx, prev)
<1>1. Chain(nx) /\ Tiles(sz, B) /\ used \cap Free(nx) = {}
      /\ MergedBut(nx, sz, {})
  BY DEF Shape
<1>2. p \in Addresses /\ p # End /\ p \in Nodes(nx)
  BY <1>1, ChainNodes DEF Free
<1>3. prev \in Nodes(nx)
  BY <1>2, EndIs DEF Nodes
<1>4. Chain(m) /\ Free(m) = Free(nx) \ {p}
  BY <1>1, <1>2, <1>3, UnlinkedChain
<1> HIDE DEF m, p
<1>5. p \in Free(nx)
  BY DEF p
<1>6. Free(m) \cup (used \cup {p}) = B /\ (used \cup {p}) \cap Free(m) = {}
  BY <1>1, <1>4, <1>5
<1>7. MergedBut(m, sz, {})
  BY <1>1, <1>4 DEF MergedBut
<1>8. Shape(m, sz, used \cup {p}, {})
  BY <1>1, <1>4, <1>6, <1>7 DEF Shape
<1>9. Cardinality(Cells(Free(nx), sz)) = Cardinality(Cells(Free(m), sz)) + sz[p]
  <2>1. Free(m) \in SUBSET B /\ p \in B \ Free(m) /\ Free(m) \cup {p} = Free(nx)
    BY <1>4, <1>5
  <2> HIDE DEF B
  <2>2. Cardinality(Cells(Free(m) \cup {p}, sz))
          = Cardinality(Cells(Free(m), sz)) + sz[p]
    BY <2>1, <1>1, CellsMore
  <2> QED
    BY <2>1, <2>2
<1> QED
  BY <1>4, <1>8, <1>9 DEF m, p

\* Block p, behind prev, is large enough for n bytes, the header included.
Fits(nx, sz, prev, p, n) ==
    /\ prev \in {Start} \cup Addresses /\ p \in Free(nx) /\ nx[prev] = p
    /\ n \in Nat /\ n % Align = 0 /\ n >= Header /\ sz[p] >= n

\* It is taken off the list, and what it has too much is put back: the list is
\* then m, and the sizes are s.
Taken(nx, sz, prev, p, n, m, s) ==
    IF sz[p] - n > MinimumBlock
    THEN /\ m = Inserted(Unlinked(nx, prev), CutAt(sz, p, n), p + n).next
         /\ s = Inserted(Unlinked(nx, prev), CutAt(sz, p, n), p + n).size
    ELSE m = Unlinked(nx, prev) /\ s = sz

\* The block then is in use and large enough, no other block in use changed,
\* and as many bytes as it has are no longer free.
Reserved(nx, sz, used, p, n, m, s) ==
    /\ Shape(m, s, used \cup {p}, {})
    /\ \A u \in used : s[u] = sz[u]
    /\ s[p] >= n
    /\ Cardinality(Cells(Free(m), s)) + s[p] = Cardinality(Cells(Free(nx), sz))

\* That is what pvPortMalloc does to the blocks.
LEMMA TakenShape ==
    ASSUME NEW nx, NEW sz, NEW used, Shape(nx, sz, used, {}),
           NEW prev, NEW p, NEW n, Fits(nx, sz, prev, p, n),
           NEW m, NEW s, Taken(nx, sz, prev, p, n, m, s)
    PROVE  Reserved(nx, sz, used, p, n, m, s)
<1> DEFINE B == Free(nx) \cup used
           cut == Unlinked(nx, prev)
           y == p + n
<1>0. /\ prev \in {Start} \cup Addresses /\ p \in Free(nx) /\ nx[prev] = p
      /\ n \in Nat /\ n % Align = 0 /\ n >= Header /\ sz[p] >= n
  BY DEF Fits
<1> USE <1>0
<1>1. /\ Tiles(sz, B) /\ used \cap Free(nx) = {} /\ p \in B
  BY DEF Shape
<1>2. /\ Shape(cut, sz, used \cup {p}, {})
      /\ Free(cut) = Free(nx) \ {p}
      /\ Cardinality(Cells(Free(nx), sz)) = Cardinality(Cells(Free(cut), sz)) + sz[p]
  BY UnlinkedShape
<1>3. p \in Nat /\ sz[p] \in Nat /\ sz[p] > 0 /\ p \in Addresses
      /\ Header \in Nat /\ Header > 0 /\ \A q \in B : q \in Addresses
  BY <1>1, TileBounds, EndIs
<1> HIDE DEF cut
<1>4. CASE sz[p] - n > MinimumBlock
  <2> DEFINE c == CutAt(sz, p, n)
  <2>1. n >= Header /\ sz[p] - n >= Header
    BY <1>3, <1>4 DEF MinimumBlock
  <2>2. Tiles(c, B \cup {y}) /\ y \notin B /\ y \in Addresses
    <3> HIDE DEF B
    <3> QED
      BY <1>1, <2>1, CutTiles
  <2>3. y # p /\ c[p] = n /\ c[y] = sz[p] - n
        /\ \A q \in Addresses \ {p, y} : c[q] = sz[q]
    <3>1. sz \in [Addresses -> 0 .. End]
      BY <1>1 DEF Tiles
    <3>2. y # p
      BY <1>3, <2>1
    <3> QED
      BY <3>1, <3>2, <1>3, <2>2 DEF CutAt
  <2> HIDE DEF c, y
  <2>4. Chain(cut) /\ (used \cup {p}) \cap Free(cut) = {}
        /\ MergedBut(cut, sz, {})
    BY <1>2 DEF Shape
  <2>5. \A q \in Free(cut) : c[q] = sz[q]
    BY <1>2, <1>3, <2>2, <2>3
  <2>6. MergedBut(cut, c, {})
    BY <2>4, <2>5 DEF MergedBut
  <2> DEFINE V == used \cup {p} \cup {y}
  <2>7. Free(cut) \cup V = B \cup {y} /\ V \cap Free(cut) = {}
    BY <1>2, <2>2, <2>4
  <2>8. Shape(cut, c, V, {})
    <3> HIDE DEF V, B
    <3> QED
      BY <2>2, <2>4, <2>6, <2>7 DEF Shape
  <2>9. m = Inserted(cut, c, y).next /\ s = Inserted(cut, c, y).size
    BY <1>4 DEF Taken, cut, c, y
  <2>10. y \in V /\ V \ {y} = used \cup {p}
    BY <1>1, <2>2, <2>3
  <2> HIDE DEF V
  <2>11. /\ Shape(m, s, V \ {y}, {})
         /\ \A u \in V \ {y} : s[u] = c[u]
         /\ Cardinality(Cells(Free(m), s)) = Cardinality(Cells(Free(cut), c)) + c[y]
    <3>1. y \in V
      BY <2>10
    <3>2. Returned(cut, c, V, y, m, s)
      BY <3>1, <2>8, <2>9, InsertedShape
    <3> QED
      BY <3>2 DEF Returned
  <2>12. Cells(Free(cut), c) = Cells(Free(cut), sz)
    BY <2>5, CellsSame
  <2>13. Cardinality(Cells(Free(cut), sz)) \in Nat
    BY CellsFinite, EndIs
  <2>14. s[p] = n /\ \A u \in used : s[u] = sz[u]
    BY <2>3, <2>10, <2>11, <1>1, <1>3, <2>2
  <2>15. Cardinality(Cells(Free(m), s)) + s[p] = Cardinality(Cells(Free(nx), sz))
    <3> DEFINE C == Cardinality(Cells(Free(cut), sz))
    <3>1. Cardinality(Cells(Free(m), s)) = C + (sz[p] - n)
      BY <2>3, <2>11, <2>12
    <3>2. Cardinality(Cells(Free(nx), sz)) = C + sz[p]
      BY <1>2
    <3>3. C \in Nat
      BY <2>13
    <3> HIDE DEF C
    <3> QED
      BY <3>1, <3>2, <3>3, <2>14, <1>3
  <2>16. Shape(m, s, used \cup {p}, {})
    BY ONLY <2>10, <2>11
  <2>17. s[p] >= n
    BY <2>14
  <2> QED
    BY <2>14, <2>15, <2>16, <2>17 DEF Reserved
<1>5. CASE ~(sz[p] - n > MinimumBlock)
  <2>1. m = cut /\ s = sz
    BY <1>5 DEF Taken, cut
  <2>2. Cardinality(Cells(Free(cut), sz)) + sz[p] = Cardinality(Cells(Free(nx), sz))
    BY <1>2
  <2> QED
    BY <2>1, <2>2, <1>2 DEF Reserved
<1> QED
  BY <1>4, <1>5

-----------------------------------------------------------------------------
(* The invariant is inductive.                                              *)

\* Before pvPortMalloc was ever called no list leads anywhere.
LEMMA EmptyList ==
    ASSUME link = [p \in {Start} \cup Addresses |-> NULL]
    PROVE  Free(link) = {} /\ FreeList = {}
<1> DEFINE D == {Start} \cup Addresses
           Eq(f) == f = [p \in D |-> IF link[p] \in {NULL, End} THEN {}
                                     ELSE {link[p]} \cup f[link[p]]]
           walk == CHOOSE f : Eq(f)
<1>1. \A p \in D : link[p] = NULL
  OBVIOUS
<1>2. Eq([p \in D |-> {}])
  BY <1>1
<1>3. Eq(walk)
  BY <1>2
<1>4. FreeList = walk[Start]
  BY DEF FreeList
<1> HIDE DEF walk
<1>5. walk[Start] = {}
  BY <1>1, <1>3
<1>6. Free(link) = {}
  BY <1>1 DEF Free, Nodes
<1> QED
  BY <1>4, <1>5, <1>6

\* No blocks, no bytes.
LEMMA NoCells ==
    ASSUME NEW sz
    PROVE  Cardinality(Cells({}, sz)) = 0
<1>1. Cells({}, sz) = {}
  BY DEF Cells
<1> QED
  BY <1>1, FS_EmptySet

\* The invariant holds before the first call.
LEMMA HeapInvInit == HeapUninitialised => HeapInv
<1> SUFFICES ASSUME HeapUninitialised PROVE HeapInv
  OBVIOUS
<1> USE DEF HeapUninitialised
<1>1. HeapTypeOK
  <2>1. End \in Nat /\ 0 \in 0 .. End
    BY EndIs
  <2>2. ready \in BOOLEAN
    BY Zenon
  <2>3. allocated \subseteq Addresses /\ freeing \subseteq Addresses
    OBVIOUS
  <2>4. /\ link \in [{Start} \cup Addresses -> Addresses \cup {NULL}]
        /\ size \in [Addresses -> 0 .. End] /\ held \in [Addresses -> Nat]
        /\ freeBytes \in 0 .. End /\ minEver \in 0 .. End
    BY <2>1
  <2> QED
    BY <2>2, <2>3, <2>4 DEF HeapTypeOK
<1>2. Free(link) = {}
  BY EmptyList
<1>3. freeBytes = Cardinality(Cells(Free(link), size))
  BY <1>2, NoCells
<1> QED
  BY <1>1, <1>3 DEF HeapInv, BlockHoldsRequest

\* prvHeapInit makes the heap one free block.
LEMMA HeapInitKeeps ==
    ASSUME HeapInv, HeapInit
    PROVE  HeapInv'
<1> USE DEF HeapInit
<1> DEFINE D == {Start} \cup Addresses
<1>0. /\ End \in Nat /\ End \in Addresses /\ 0 \in Addresses /\ End # 0
      /\ Header \in Nat /\ End > Header /\ Start \notin Addresses
      /\ NULL \notin Addresses /\ Start < 0 /\ Start \in Int /\ Start # NULL
  BY EndIs
<1>1. /\ link = [p \in D |-> NULL] /\ size \in [Addresses -> 0 .. End]
      /\ allocated = {} /\ freeing = {} /\ held \in [Addresses -> Nat]
  BY DEF HeapInv, HeapTypeOK
<1>2. /\ link' \in [D -> Addresses \cup {NULL}]
      /\ link'[Start] = 0 /\ link'[0] = End
      /\ \A p \in D \ {Start, 0} : link'[p] = NULL
  BY <1>0, <1>1
<1>3. size' \in [Addresses -> 0 .. End] /\ size'[0] = End
  BY <1>0, <1>1
<1>10. allocated' = {} /\ freeing' = {} /\ held' = held
       /\ freeBytes' = End /\ minEver' = End /\ ready' = TRUE
  BY <1>1
<1> HIDE DEF HeapInit
<1>4. Nodes(link') = {Start, 0} /\ Free(link') = {0}
  BY <1>0, <1>2 DEF Nodes, Free
<1>5. Chain(link')
  BY <1>0, <1>2, <1>4 DEF Chain
<1>6. Tiles(size', {0})
  BY <1>0, <1>3 DEF Tiles
<1>7. MergedBut(link', size', {})
  BY <1>0, <1>3, <1>4 DEF MergedBut
<1>8. Shape(link', size', {}, {})
  BY <1>4, <1>5, <1>6, <1>7 DEF Shape
<1>9. Cardinality(Cells({0}, size')) = End
  <2>1. Cardinality(Cells({} \cup {0}, size')) = Cardinality(Cells({}, size')) + size'[0]
    <3>1. {} \in SUBSET {0} /\ 0 \in {0} \ {}
      OBVIOUS
    <3>2. \A s : Tiles(s, {0}) => Cardinality(Cells({} \cup {0}, s))
                                    = Cardinality(Cells({}, s)) + s[0]
      BY <3>1, CellsMore
    <3> QED
      BY <3>2, <1>6
  <2>2. {} \cup {0} = {0}
    OBVIOUS
  <2> QED
    BY <2>1, <2>2, <1>0, <1>3, NoCells
<1>11. HeapTypeOK'
  BY <1>0, <1>1, <1>2, <1>3, <1>10 DEF HeapTypeOK
<1>12. (freeBytes = Cardinality(Cells(Free(link), size)))'
  BY <1>4, <1>9, <1>10
<1>13. Shape(link', size', allocated' \cup freeing', {})
  <2>1. allocated' \cup freeing' = {}
    BY <1>10
  <2> QED
    BY <2>1, <1>8
<1>14. BlockHoldsRequest'
  BY <1>10 DEF BlockHoldsRequest
<1> QED
  BY <1>10, <1>11, <1>12, <1>13, <1>14 DEF HeapInv

\* A successful pvPortMalloc.
LEMMA MallocKeeps ==
    ASSUME HeapInv, NEW wanted \in Requests, Malloc(wanted)
    PROVE  HeapInv'
<1> DEFINE n == Needed(wanted)
           p == FirstFit(n)
           used == allocated \cup freeing
           prev == CHOOSE q \in {Start} \cup Addresses : link[q] = p
<1>1. /\ HeapTypeOK /\ Shape(link, size, used, {}) /\ allocated \cap freeing = {}
      /\ freeBytes = Cardinality(Cells(Free(link), size)) /\ BlockHoldsRequest
  BY DEF HeapInv, Malloc
<1>2. n \in Nat /\ n % Align = 0 /\ n >= Header + wanted /\ wanted \in Nat
      /\ wanted > 0 /\ Header \in Nat /\ n >= Header /\ n > 0
  <2>1. n > 0
    BY DEF Malloc
  <2>2. /\ n \in Nat /\ n % Align = 0 /\ n >= Header + wanted /\ wanted \in Nat
        /\ wanted > 0
    BY <2>1, NeededIs
  <2> HIDE DEF n
  <2> QED
    BY <2>1, <2>2, EndIs
<1>3. /\ p # End /\ allocated' = allocated \cup {p} /\ freeing' = freeing
      /\ held' = [held EXCEPT ![p] = wanted]
      /\ minEver' = IF freeBytes' < minEver THEN freeBytes' ELSE minEver
  BY DEF Malloc
<1>19. Take(p, n)
  BY Zenon DEF Malloc
<1>20. ready /\ ready' = ready
  BY Zenon DEF Malloc
<1> HIDE DEF n
<1>4. p \in Free(link) /\ size[p] >= n
  <2>1. Chain(link) /\ size \in [Addresses -> 0 .. End]
    BY <1>1 DEF Shape, HeapTypeOK
  <2> QED
    BY <2>1, <1>2, <1>3, FirstFitIs
<1> HIDE DEF p
<1>5. prev \in {Start} \cup Addresses /\ link[prev] = p
  <2>1. Chain(link) /\ p \in Addresses /\ p \in Nodes(link)
    BY <1>1, <1>4, ChainNodes DEF Shape, Free
  <2>2. PICK q \in Nodes(link) : q < p /\ p <= link[q]
    BY <2>1, BetweenNodes
  <2>3. link[q] \in Nat /\ q \in Int /\ p \in Nat /\ q \in {Start} \cup Addresses
    BY <2>1, <2>2, ChainNodes, EndIs
  <2>4. p <= q \/ p >= link[q]
    BY <2>1, <2>2 DEF Chain
  <2>5. link[q] = p
    BY <2>2, <2>3, <2>4
  <2> QED
    BY <2>3, <2>5
<1> DEFINE cut == [link EXCEPT ![prev] = link[p], ![p] = NULL]
           c == [size EXCEPT ![p + n] = size[p] - n, ![p] = n]
           rest == Inserted(cut, c, p + n)
<1>6. /\ link' = IF Split(p, n) THEN rest.next ELSE cut
      /\ size' = IF Split(p, n) THEN rest.size ELSE size
      /\ freeBytes' = freeBytes - size'[p]
  BY <1>19 DEF Take
<1> HIDE DEF prev
<1>7. cut = Unlinked(link, prev)
  BY <1>5 DEF Unlinked
<1>8. c = CutAt(size, p, n)
  <2>1. size \in [Addresses -> 0 .. End] /\ p \in Nat
    BY <1>1, <1>4, ChainNodes, EndIs DEF HeapTypeOK, Shape
  <2>2. p + n # p
    BY <2>1, <1>2
  <2> QED
    BY <2>1, <2>2 DEF CutAt
<1>9. Taken(link, size, prev, p, n, link', size')
  BY <1>6, <1>7, <1>8 DEF Taken, Split
<1> HIDE DEF cut, c, rest, used
<1>10. ASSUME NEW m, NEW s, Taken(link, size, prev, p, n, m, s)
       PROVE  Reserved(link, size, used, p, n, m, s)
  <2>1. Shape(link, size, used, {})
    BY <1>1
  <2>2. Fits(link, size, prev, p, n)
    BY <1>2, <1>4, <1>5 DEF Fits
  <2> QED
    BY ONLY <2>1, <2>2, <1>10, TakenShape
<1>11. /\ Shape(link', size', used \cup {p}, {})
       /\ \A u \in used : size'[u] = size[u]
       /\ size'[p] >= n
       /\ Cardinality(Cells(Free(link'), size')) + size'[p]
            = Cardinality(Cells(Free(link), size))
  BY <1>9, <1>10 DEF Reserved
<1>12. p \in Addresses /\ p \notin used
  BY <1>1, <1>4, ChainNodes DEF Shape
<1>13. /\ link' \in [{Start} \cup Addresses -> Addresses \cup {NULL}]
       /\ size' \in [Addresses -> 0 .. End]
  BY <1>11 DEF Shape, Chain, Tiles
<1>14. /\ freeBytes' = Cardinality(Cells(Free(link'), size'))
       /\ freeBytes' \in 0 .. End
  <2>1. Cardinality(Cells(Free(link'), size')) \in 0 .. End
    BY CellsFinite
  <2>2. size'[p] \in Nat /\ End \in Nat
    BY <1>12, <1>13, EndIs
  <2> QED
    BY <2>1, <2>2, <1>1, <1>6, <1>11
<1>15. used \cup {p} = (allocated' \cup freeing') /\ allocated' \cap freeing' = {}
  BY <1>1, <1>3, <1>12 DEF used
<1>16. HeapTypeOK'
  <2>1. allocated' \subseteq Addresses /\ freeing' \subseteq Addresses
    BY <1>1, <1>3, <1>12 DEF HeapTypeOK
  <2>2. held' \in [Addresses -> Nat]
    BY <1>1, <1>2, <1>3 DEF HeapTypeOK
  <2>3. minEver' \in 0 .. End
    BY <1>1, <1>3, <1>14 DEF HeapTypeOK
  <2>4. ready' \in BOOLEAN
    BY <1>1, <1>20, Zenon DEF HeapTypeOK
  <2> QED
    BY <2>1, <2>2, <2>3, <2>4, <1>13, <1>14 DEF HeapTypeOK
<1>17. BlockHoldsRequest'
  <2> SUFFICES ASSUME NEW u \in allocated'
               PROVE  held'[u] > 0 /\ Header + held'[u] <= size'[u]
    BY DEF BlockHoldsRequest
  <2>0. held \in [Addresses -> Nat] /\ allocated \subseteq Addresses
    BY <1>1 DEF HeapTypeOK
  <2>1. CASE u = p
    <3>1. held'[p] = wanted /\ size'[p] \in Nat
      <4>1. held'[p] = wanted
        BY <2>0, <1>3, <1>12
      <4> QED
        BY <4>1, <1>12, <1>13, EndIs
    <3> QED
      BY <3>1, <2>1, <1>2, <1>11
  <2>2. CASE u # p
    <3>1. u \in allocated /\ u \in used /\ held'[u] = held[u]
      BY <2>0, <2>2, <1>3 DEF used
    <3>2. size'[u] = size[u]
      BY <3>1, <1>11
    <3> QED
      BY <3>1, <3>2, <1>1 DEF BlockHoldsRequest
  <2> QED
    BY <2>1, <2>2
<1>18. Shape(link', size', allocated' \cup freeing', {})
  BY <1>11, <1>15
<1> QED
  BY <1>14, <1>15, <1>16, <1>17, <1>18, <1>20 DEF HeapInv

\* vPortFree clears the top bit of the block's size.
LEMMA FreeBeginKeeps ==
    ASSUME HeapInv, NEW p \in Addresses, FreeBegin(p)
    PROVE  HeapInv'
<1> USE DEF FreeBegin
<1>1. allocated' \cup freeing' = allocated \cup freeing
      /\ allocated' \cap freeing' = {}
  BY DEF HeapInv
<1>2. ready
  BY DEF HeapInv
<1>3. HeapTypeOK'
  <2>1. held' \in [Addresses -> Nat]
    BY DEF HeapInv, HeapTypeOK
  <2>2. ready' \in BOOLEAN
    BY Zenon DEF HeapInv, HeapTypeOK
  <2> QED
    BY <2>1, <2>2 DEF HeapInv, HeapTypeOK
<1>4. BlockHoldsRequest'
  BY DEF HeapInv, BlockHoldsRequest, HeapTypeOK
<1>5. Shape(link', size', allocated' \cup freeing', {})
  BY <1>1, <1>2 DEF HeapInv
<1>6. freeBytes' = Cardinality(Cells(Free(link'), size'))
  BY DEF HeapInv
<1>7. ready' = ready
  OBVIOUS
<1> HIDE DEF FreeBegin
<1> QED
  BY <1>1, <1>2, <1>3, <1>4, <1>5, <1>6, <1>7 DEF HeapInv

\* The rest of vPortFree.
LEMMA FreeEndKeeps ==
    ASSUME HeapInv, NEW p \in Addresses, FreeEnd(p)
    PROVE  HeapInv'
<1> DEFINE used == allocated \cup freeing
<1>1. /\ p \in freeing /\ freeBytes' = freeBytes + size[p]
      /\ link' = Inserted(link, size, p).next
      /\ size' = Inserted(link, size, p).size
      /\ freeing' = freeing \ {p} /\ allocated' = allocated /\ held' = held
      /\ minEver' = minEver /\ ready' = ready
  BY DEF FreeEnd
<1>2. /\ ready /\ HeapTypeOK /\ Shape(link, size, used, {})
      /\ allocated \cap freeing = {}
      /\ freeBytes = Cardinality(Cells(Free(link), size)) /\ BlockHoldsRequest
  BY <1>1 DEF HeapInv
<1>3. p \in used /\ used \ {p} = allocated' \cup freeing'
      /\ allocated' \cap freeing' = {} /\ \A u \in allocated : u \in used \ {p}
  BY <1>1, <1>2
<1> HIDE DEF used
<1>4. \A m, s : m = Inserted(link, size, p).next /\ s = Inserted(link, size, p).size
        => Returned(link, size, used, p, m, s)
  BY <1>2, <1>3, InsertedShape
<1>5. /\ Shape(link', size', used \ {p}, {})
      /\ \A u \in used \ {p} : size'[u] = size[u]
      /\ Cardinality(Cells(Free(link'), size'))
           = Cardinality(Cells(Free(link), size)) + size[p]
  BY <1>1, <1>4 DEF Returned
<1>6. Shape(link', size', allocated' \cup freeing', {})
  BY <1>3, <1>5
<1>7. freeBytes' = Cardinality(Cells(Free(link'), size')) /\ freeBytes' \in 0 .. End
  <2>1. Cardinality(Cells(Free(link'), size')) \in 0 .. End
    BY CellsFinite
  <2> QED
    BY <2>1, <1>1, <1>2, <1>5
<1>8. HeapTypeOK'
  <2>1. /\ link' \in [{Start} \cup Addresses -> Addresses \cup {NULL}]
        /\ size' \in [Addresses -> 0 .. End]
    BY <1>5 DEF Shape, Chain, Tiles
  <2>2. ready' \in BOOLEAN
    BY <1>1, <1>2, Zenon DEF HeapTypeOK
  <2> QED
    BY <2>1, <2>2, <1>1, <1>2, <1>7 DEF HeapTypeOK
<1>9. BlockHoldsRequest'
  BY <1>1, <1>2, <1>3, <1>5 DEF BlockHoldsRequest
<1> QED
  BY <1>1, <1>2, <1>3, <1>6, <1>7, <1>8, <1>9 DEF HeapInv

\* What the invariant says of the list the program walks.
LEMMA HeapInvSound == HeapInv => HeapIsSound
<1> SUFFICES ASSUME HeapInv PROVE HeapIsSound
  OBVIOUS
<1>1. CASE ready
  <2>1. Shape(link, size, allocated \cup freeing, {})
    BY <1>1 DEF HeapInv
  <2>2. Chain(link) /\ Tiles(size, Free(link) \cup (allocated \cup freeing))
        /\ MergedBut(link, size, {})
    BY <2>1 DEF Shape
  <2>3. FreeList = Free(link)
    BY <2>2, FreeListIs
  <2>4. Blocks = Free(link) \cup (allocated \cup freeing)
    BY <2>3 DEF Blocks
  <2>5. BlocksTileHeap
    BY <2>2, <2>4 DEF BlocksTileHeap, Tiles
  <2>6. FreeListMerged
    BY <2>2, <2>3 DEF FreeListMerged, MergedBut, Chain, Free
  <2>7. FreeBytesCount
    BY <2>3 DEF FreeBytesCount, HeapInv, Cells
  <2> QED
    BY <2>5, <2>6, <2>7 DEF HeapInv, HeapIsSound
<1>2. CASE ~ready
  <2>1. FreeList = {} /\ Free(link) = {}
    BY <1>2, EmptyList DEF HeapInv
  <2>2. FreeBytesCount
    BY <2>1 DEF FreeBytesCount, HeapInv, Cells
  <2> QED
    BY <1>2, <2>1, <2>2
    DEF HeapInv, HeapIsSound, BlocksTileHeap, FreeListMerged
<1> QED
  BY <1>1, <1>2

\* heap_4, for every size of the heap, alignment, header and request: the
\* blocks cover the heap without overlapping, free neighbours are merged,
\* xFreeBytesRemaining is the number of free bytes, and what pvPortMalloc
\* returned has room for what was asked for, even while other tasks run
\* between the two halves of vPortFree.
THEOREM HeapAlwaysSound == HeapSpec => []HeapIsSound
<1>1. HeapInv /\ [HeapNext]_heap => HeapInv'
  <2> SUFFICES ASSUME HeapInv, [HeapNext]_heap PROVE HeapInv'
    OBVIOUS
  <2>1. CASE HeapInit
    BY <2>1, HeapInitKeeps
  <2>2. CASE \E wanted \in Requests : Malloc(wanted)
    BY <2>2, MallocKeeps
  <2>3. CASE \E p \in Addresses : FreeBegin(p)
    BY <2>3, FreeBeginKeeps
  <2>4. CASE \E p \in Addresses : FreeEnd(p)
    BY <2>4, FreeEndKeeps
  <2>5. CASE UNCHANGED heap
    BY <2>5 DEF heap, HeapInv, HeapTypeOK, BlockHoldsRequest
  <2>6. CASE \E wanted \in Requests : MallocFails(wanted)
    BY <2>5, <2>6 DEF MallocFails
  <2> QED
    BY <2>1, <2>2, <2>3, <2>4, <2>5, <2>6 DEF HeapNext
<1> QED
  BY <1>1, HeapInvInit, HeapInvSound, PTL DEF HeapSpec

=============================================================================
