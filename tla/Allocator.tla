----------------------------- MODULE Allocator -----------------------------
(***************************************************************************)
(* kernel/alloc.c: one pool, its chain of blocks in address order and its   *)
(* free lists by size class.                                                *)
(*                                                                          *)
(* Addresses and sizes count units of TLSF_BLOCK_ALIGN bytes, so the        *)
(* rounding up of a request is done.  A pointer is the address of a block;  *)
(* what the callers keep in their blocks is left out.  A C function is an   *)
(* operator from the pool to the pool it leaves, as the calls nest.         *)
(***************************************************************************)
EXTENDS Integers, FiniteSets, FiniteSetsExt

CONSTANTS
    PoolSize,    \* total_size
    Overhead,    \* BLOCK_OVERHEAD, at least one unit
    Requests,    \* the sizes asked for
    Alignments,  \* the alignments asked for, powers of two
    SizeMod      \* size_t counts modulo this

ASSUME PoolAssumption ==
    /\ PoolSize \in Nat /\ Overhead \in Nat \ {0} /\ PoolSize > 2 * Overhead
    /\ Requests \subseteq Nat \ {0} /\ Alignments \subseteq Nat \ {0}
    /\ SizeMod \in Nat /\ SizeMod > PoolSize

VARIABLES
    pool,      \* the headers by address, the free lists, and the two counters
    owned,     \* the size asked for of each block that a caller holds
    overrun,   \* a copy went past the end of its block
    resized,   \* history: a block was resized in place
    aligned    \* history: a block was cut for tlsf_memalign

poolVars == <<pool, owned, overrun, resized, aligned>>

NoBlock == -1
MinBlock == Overhead + 1  \* MIN_BLOCK_SIZE

\* tlsf_fls: the place of the highest bit, and so the size class.
SizeClass(size) == CHOOSE r \in 0..31 : 2^r <= size /\ size < 2^(r + 1)
SizeClasses == 0..SizeClass(PoolSize)
FreePlaces == 0..(PoolSize \div MinBlock)  \* no list is longer

block_insert_free(p, b) ==
    LET i     == SizeClass(p.hdr[b].size)
        first == p.free_list[i]
        h     == [p.hdr EXCEPT ![b].free = TRUE, ![b].next_free = first,
                               ![b].prev_free = NoBlock]
    IN  [p EXCEPT !.free_list[i] = b,
                  !.hdr = IF first = NoBlock THEN h
                          ELSE [h EXCEPT ![first].prev_free = b]]

\* The removed block keeps its own two pointers.
block_remove_free(p, b) ==
    LET x  == p.hdr[b]
        h  == [p.hdr EXCEPT ![b].free = FALSE]
        h1 == IF x.prev_free = NoBlock THEN h
              ELSE [h EXCEPT ![x.prev_free].next_free = x.next_free]
        h2 == IF x.next_free = NoBlock THEN h1
              ELSE [h1 EXCEPT ![x.next_free].prev_free = x.prev_free]
    IN  [p EXCEPT !.hdr = h2,
                  !.free_list = IF x.prev_free # NoBlock THEN @
                                ELSE [@ EXCEPT ![SizeClass(x.size)] = x.next_free]]

\* The header of a new block n that takes the part of b behind its first size units.
Carved(h, b, n, size) ==
    LET old  == h[b]
        new  == [size |-> old.size - size - Overhead, free |-> FALSE, used |-> FALSE,
                 prev_free |-> NoBlock, next_free |-> NoBlock,
                 prev_phys |-> b, next_phys |-> old.next_phys]
        full == [a \in DOMAIN h \cup {n} |-> IF a = n THEN new ELSE h[a]]
        cut  == [full EXCEPT ![b].size = size, ![b].next_phys = n]
    IN  IF old.next_phys = NoBlock THEN cut
        ELSE [cut EXCEPT ![old.next_phys].prev_phys = n]

block_split(p, b, size) ==
    LET n == b + size + Overhead
    IN  IF p.hdr[b].size - size - Overhead < MinBlock THEN p
        ELSE block_insert_free([p EXCEPT !.hdr = Carved(@, b, n, size)], n)

Absorbed_unlinked(p, b) ==  \* mutant: the block behind is not told
    LET n == p.hdr[b].next_phys
        q == p.hdr[n]
    IN  [p EXCEPT !.hdr =
          [a \in DOMAIN p.hdr \ {n} |->
            IF a # b THEN p.hdr[a]
            ELSE [p.hdr[a] EXCEPT !.size = @ + Overhead + q.size,
                                  !.next_phys = q.next_phys]]]

\* b takes in the block behind it; the header of that block is gone.
Absorbed(p, b) ==
    LET n == p.hdr[b].next_phys
        q == p.hdr[n]
        h == [a \in DOMAIN p.hdr \ {n} |->
               CASE a = b           -> [p.hdr[a] EXCEPT !.size = @ + Overhead + q.size,
                                                        !.next_phys = q.next_phys]
                 [] a = q.next_phys -> [p.hdr[a] EXCEPT !.prev_phys = b]
                 [] OTHER           -> p.hdr[a]]
    IN  [p EXCEPT !.hdr = h]

FreeAt(p, a) == a # NoBlock /\ p.hdr[a].free

\* The block in front of b, when free, takes b in; then the block behind.
MergeFront(p, b) ==
    LET front == p.hdr[b].prev_phys
    IN  IF FreeAt(p, front)
        THEN [block |-> front, pool |-> Absorbed(block_remove_free(p, front), front)]
        ELSE [block |-> b, pool |-> p]
MergeBack(m) ==
    LET back == m.pool.hdr[m.block].next_phys
    IN  IF FreeAt(m.pool, back)
        THEN [m EXCEPT !.pool = Absorbed(block_remove_free(@, back), m.block)]
        ELSE m
block_merge(p, b) == MergeBack(MergeFront(p, b))

\* Free list i: the k-th block, counted from nought; NoBlock behind its end.
FreeList(p, i) ==
    LET nth[j \in FreePlaces] ==
          IF j = 0 THEN p.free_list[i]
          ELSE IF nth[j - 1] = NoBlock THEN NoBlock ELSE p.hdr[nth[j - 1]].next_free
    IN  nth
OnList(nth) == {nth[k] : k \in FreePlaces} \ {NoBlock}
FreeBlocks(p, i) == IF p.free_list[i] = NoBlock THEN {} ELSE OnList(FreeList(p, i))

tlsf_pool_free_size(p) ==
    MapThenSumSet(LAMBDA a : p.hdr[a].size + Overhead, UNION {FreeBlocks(p, i) : i \in SizeClasses})

\* The block tlsf_malloc picks: the first of its own class that is large enough,
\* or else the head of the next class that has one.
FirstFit(p, nth, size) ==
    LET fit == {k \in FreePlaces : nth[k] # NoBlock /\ p.hdr[nth[k]].size >= size + Overhead}
    IN  IF fit = {} THEN NoBlock ELSE nth[Min(fit)]
FittingBlock(p, size) ==
    LET own   == SizeClass(size + Overhead)
        fit   == IF own \in SizeClasses THEN FirstFit(p, FreeList(p, own), size) ELSE NoBlock
        above == {i \in SizeClasses : i > own /\ p.free_list[i] # NoBlock}
    IN  IF fit # NoBlock \/ above = {} THEN fit ELSE p.free_list[Min(above)]

LowestFree(p) == [p EXCEPT !.min_free = Min({@, tlsf_pool_free_size(p)})]
TakeBlock(p, b) ==
    LowestFree([p EXCEPT !.hdr[b].used = TRUE,
                         !.used_size = (@ + p.hdr[b].size + Overhead) % SizeMod])

\* The rest of b goes back to the pool when it makes a block.
Trimmed(p, b, size) ==
    IF p.hdr[b].size >= size + Overhead + MinBlock THEN block_split(p, b, size) ELSE p

Allotted(p, b, size) ==
    IF b = NoBlock THEN [ptr |-> NoBlock, pool |-> p]
    ELSE [ptr |-> b, pool |-> TakeBlock(Trimmed(block_remove_free(p, b), b, size), b)]
tlsf_malloc(p, size) == Allotted(p, FittingBlock(p, size), size)

Returned(m) == block_insert_free(m.pool, m.block)

tlsf_free(p, b) ==
    IF p.hdr[b].used
    THEN Returned(block_merge([p EXCEPT !.hdr[b].used = FALSE,
                                        !.used_size = (@ - p.hdr[b].size - Overhead) % SizeMod], b))
    ELSE p

\* The whole old block b is copied into the new one m, which may be the smaller.
Moved(p, b, m) ==
    IF m.ptr = NoBlock THEN [ptr |-> NoBlock, pool |-> p, overrun |-> FALSE]
    ELSE [ptr |-> m.ptr, pool |-> tlsf_free(m.pool, b),
          overrun |-> p.hdr[b].size > m.pool.hdr[m.ptr].size]

\* In place when the block, or the block and the free one behind it, is large
\* enough; the counter of used bytes is not told.
tlsf_realloc(p, b, size) ==
    LET total == size + Overhead
        back  == p.hdr[b].next_phys
    IN  CASE p.hdr[b].size >= total ->
               [ptr |-> b, pool |-> Trimmed(p, b, size), overrun |-> FALSE]
          [] /\ p.hdr[b].size < total
             /\ FreeAt(p, back) /\ p.hdr[b].size + Overhead + p.hdr[back].size >= total ->
               [ptr |-> b, overrun |-> FALSE,
                pool |-> Trimmed(Absorbed(block_remove_free(p, back), b), b, size)]
          [] OTHER -> Moved(p, b, tlsf_malloc(p, size))

\* The front of block b, offset units, becomes a free block; the rest, n, is used.
\* b is taken off its free list a second time, by the pointers it had there.
FrontCut(p, b, offset) ==
    LET n == b + offset
    IN  block_insert_free(
          [block_remove_free(p, b) EXCEPT !.hdr = Carved(@, b, n, offset - Overhead)], b)
UsedRest(p, n) ==
    [p EXCEPT !.hdr[n].used = TRUE, !.used_size = (@ + p.hdr[n].size + Overhead) % SizeMod]
RestTrimmed(p, n, size) ==
    IF p.hdr[n].size >= size + MinBlock THEN block_split(p, n, size) ELSE p

\* The front of a larger block is cut off to reach the boundary.
Realigned(m, align, size) ==
    LET near   == (-(m.ptr + Overhead)) % align
        offset == IF near # 0 /\ near < MinBlock THEN near + align ELSE near
        n      == m.ptr + offset
    IN  IF m.ptr = NoBlock \/ offset = 0 THEN [ptr |-> m.ptr, pool |-> m.pool, cut |-> FALSE]
        ELSE [ptr |-> n, cut |-> TRUE,
              pool |-> RestTrimmed(UsedRest(FrontCut(m.pool, m.ptr, offset), n), n, size)]
tlsf_memalign(p, align, size) ==
    Realigned(tlsf_malloc(p, size + 2 * align + MinBlock), align, size)

-----------------------------------------------------------------------------

\* After an overrun the headers are gone, and nothing more is said.
MallocCall(size) ==
    \E m \in {tlsf_malloc(pool, size)} :
      /\ ~overrun /\ m.ptr # NoBlock
      /\ pool' = m.pool
      /\ owned' = [a \in DOMAIN owned \cup {m.ptr} |-> IF a = m.ptr THEN size ELSE owned[a]]
      /\ UNCHANGED <<overrun, resized, aligned>>

FreeCall(b) ==
    /\ ~overrun
    /\ pool' = tlsf_free(pool, b)
    /\ owned' = [a \in DOMAIN owned \ {b} |-> owned[a]]
    /\ UNCHANGED <<overrun, resized, aligned>>

ReallocCall(b, size) ==
    \E r \in {tlsf_realloc(pool, b, size)} :
      /\ ~overrun /\ r.ptr # NoBlock
      /\ pool' = r.pool
      /\ owned' = [a \in (DOMAIN owned \ {b}) \cup {r.ptr} |->
                     IF a = r.ptr THEN size ELSE owned[a]]
      /\ overrun' = r.overrun
      /\ resized' = (resized \/ (r.ptr = b /\ r.pool.hdr[b].size # pool.hdr[b].size))
      /\ UNCHANGED aligned

MemalignCall(align, size) ==
    \E m \in {tlsf_memalign(pool, align, size)} :
      /\ ~overrun /\ m.ptr # NoBlock
      /\ pool' = m.pool
      /\ owned' = [a \in DOMAIN owned \cup {m.ptr} |-> IF a = m.ptr THEN size ELSE owned[a]]
      /\ aligned' = (aligned \/ m.cut)
      /\ UNCHANGED <<overrun, resized>>

\* tlsf_create: one free block.
PoolInit ==
    /\ pool = block_insert_free(
         [hdr |-> [a \in {0} |-> [size |-> PoolSize - Overhead, free |-> FALSE, used |-> FALSE,
                        prev_free |-> NoBlock, next_free |-> NoBlock,
                        prev_phys |-> NoBlock, next_phys |-> NoBlock]],
          free_list |-> [i \in SizeClasses |-> NoBlock],
          used_size |-> 0, min_free |-> PoolSize], 0)
    /\ owned = <<>>
    /\ overrun = FALSE /\ resized = FALSE /\ aligned = FALSE

PoolNext ==
    \/ \E n \in Requests : MallocCall(n) \/ \E a \in Alignments : MemalignCall(a, n)
    \/ \E b \in DOMAIN owned : FreeCall(b) \/ \E n \in Requests : ReallocCall(b, n)
    \/ overrun /\ UNCHANGED poolVars

PoolSpec == PoolInit /\ [][PoolNext]_poolVars

-----------------------------------------------------------------------------
(* Properties. *)

EndOf(a) == a + Overhead + pool.hdr[a].size

\* Split, merge and growth in place keep the chain of blocks a tiling of the pool:
\* every block ends where its successor begins, the last one at the end of the
\* pool, and prev_phys is next_phys read backwards.
PoolTiled ==
    /\ 0 \in DOMAIN pool.hdr /\ pool.hdr[0].prev_phys = NoBlock
    /\ \A a \in DOMAIN pool.hdr :
         LET n == pool.hdr[a].next_phys
         IN  IF n = NoBlock THEN EndOf(a) = PoolSize
             ELSE n = EndOf(a) /\ n \in DOMAIN pool.hdr /\ pool.hdr[n].prev_phys = a

\* A block is on the free list of its size class exactly when it is marked free, a
\* marked block is no caller's, and the links of a list agree in both directions.
FreeListsExact ==
    ~aligned =>
    /\ \A i \in SizeClasses : FreeBlocks(pool, i) =
         {a \in DOMAIN pool.hdr : pool.hdr[a].free /\ SizeClass(pool.hdr[a].size) = i}
    /\ \A a \in DOMAIN pool.hdr : pool.hdr[a].free =>
         /\ ~pool.hdr[a].used
         /\ pool.hdr[a].next_free # NoBlock =>
              pool.hdr[pool.hdr[a].next_free].prev_free = a

\* Every pointer that was handed out and not given back is a used block of its own,
\* at least as large as was asked for, whatever was split or merged around it.
OwnersHaveRoom ==
    ~aligned => \A a \in DOMAIN owned :
      /\ a \in DOMAIN pool.hdr
      /\ pool.hdr[a].used /\ ~pool.hdr[a].free /\ pool.hdr[a].size >= owned[a]

\* Until a block is resized in place, used_size is the sum of the used blocks, and
\* min_free is below what is free now.
BooksBalance ==
    ~resized /\ ~aligned =>
      /\ pool.used_size = MapThenSumSet(LAMBDA a : pool.hdr[a].size + Overhead, DOMAIN owned)
      /\ pool.min_free <= tlsf_pool_free_size(pool)

\* The pool is sound after every sequence of alloc, free, realloc and memalign, as
\* long as no resize wrote past its block: the four parts above together
\* (block_split, block_merge, tlsf_alloc, tlsf_free, tlsf_realloc).
PoolSound ==
    ~overrun => PoolTiled /\ FreeListsExact /\ OwnersHaveRoom /\ BooksBalance

=============================================================================
