----------------------------- MODULE MemoryPool -----------------------------
(* src/module_function/memory_pool.c: a pool of blocks that hands out       *)
(* memory by moving a mark, keeps large requests on a list of their own,    *)
(* and runs cleanup handlers when it is destroyed.                          *)
(*                                                                          *)
(* Memory is what malloc returns, numbered as it is asked for; an address   *)
(* is a region: the malloc it lies in, its first byte and the byte after    *)
(* its last one, and the number of the request it answered.  What the       *)
(* owner of a region writes there is not modelled, only that it may.        *)
EXTENDS Integers, Sequences, FiniteSets, FiniteSetsExt, SequencesExt

CONSTANTS
    PoolSizes,   \* sizes given to ngx_create_pool
    Requests,    \* sizes asked for
    Files,       \* descriptors registered for cleanup, each one once
    MaxFailed,   \* refusals before a block is passed over: 4
    MaxProbe,    \* headers looked at after the first for a free one: 3
    MaxOps       \* bound: calls

(* Sizes in bytes of the records kept inside the blocks.                    *)
SIZEOF_POOL    == 64
SIZEOF_DATA    == 32
SIZEOF_LARGE   == 16
SIZEOF_CLEANUP == 24
SIZEOF_FILE    == 16
NGX_ALIGNMENT  == 8

NGX_MIN_POOL_SIZE       == 96
NGX_MAX_ALLOC_FROM_POOL == 4095

ASSUME SizesAssumption ==
    /\ PoolSizes \subseteq {n \in Nat : n >= NGX_MIN_POOL_SIZE}
    /\ Requests \subseteq Nat \ {0}
    /\ MaxFailed \in Nat /\ MaxProbe \in Nat /\ MaxOps \in Nat

VARIABLES
    phase,     \* "none", "up", "destroyed", "crashed": nothing is known any more
    pool,      \* the pool: its blocks, lists and what it has handed out
    closed,    \* per file: how often it was closed
    recycled,  \* history: reset was called with cleanup records in the pool
    ops        \* number of calls so far

vars == <<phase, pool, closed, recycled, ops>>

-----------------------------------------------------------------------------
(* Regions *)

Region(id, lo, hi, n) == [id |-> id, lo |-> lo, hi |-> hi, n |-> n]

NULL == Region(0, 0, 0, 0)

(* Two regions of the same memory with a byte in common.                    *)
Meet(r, s) == r.id = s.id /\ r.lo < s.hi /\ s.lo < r.hi

(* A region that goes past the end of its block of pool p: malloc may have  *)
(* put anything there, another block, large memory or its own records.      *)
Past(p, r) == r.hi > p.psize

Overlap(p, r, s) ==
    \/ Meet(r, s)
    \/ r.id # s.id /\ (Past(p, r) \/ Past(p, s))

Align(m) == ((m + NGX_ALIGNMENT - 1) \div NGX_ALIGNMENT) * NGX_ALIGNMENT

(* A call answers a region, or NULL, and leaves the pool in a new state.    *)
Answer(p, r) == [pool |-> p, at |-> r]

-----------------------------------------------------------------------------
(* malloc succeeds while the budget of the call lasts.                      *)
ngx_alloc(p, size) ==
    IF p.budget = 0 THEN Answer(p, NULL)
    ELSE LET r == Region(p.made + 1, 0, size, p.made + 1)
         IN  Answer([p EXCEPT !.budget = @ - 1, !.made = @ + 1, !.live = @ \cup {r.id}], r)

(* free; a second one of the same memory is undefined.                      *)
FreeAll(p, ids) == [p EXCEPT !.live = @ \ ids, !.wild = @ \/ ~(ids \subseteq p.live)]

Free(p, r) == FreeAll(p, {r.id} \ {NULL.id})

(* The mark of block b moves past the region.                               *)
Give(p, b, m, size) ==
    LET r == Region(p.blocks[b].id, m, m + size, p.made + 1)
    IN  Answer([p EXCEPT !.blocks[b].last = m + size,
                         !.regions = @ \cup {r},
                         !.made = @ + 1], r)

-----------------------------------------------------------------------------
(* Mutant: the mark of a new block is left before the region.               *)
ngx_palloc_blockUnmarked(p, size) ==
    LET a == ngx_alloc(p, p.psize)
        new == [id |-> a.at.id, last |-> Align(SIZEOF_DATA), failed |-> 0]
        q == [a.pool EXCEPT !.blocks = Append(@, new)]
        r == Region(a.at.id, Align(SIZEOF_DATA), Align(SIZEOF_DATA) + size, q.made + 1)
    IN  IF a.at = NULL THEN a
        ELSE Answer([q EXCEPT !.regions = @ \cup {r}, !.made = @ + 1], r)

(* A new block of the size of the first one, with the region at its start.  *)
(* Every block from the current one on that already has a successor is      *)
(* charged with a refusal, and those refused too often are passed over.     *)
ngx_palloc_block(p, size) ==
    LET a == ngx_alloc(p, p.psize)
        n == Len(p.blocks)
        charged == p.current .. (n - 1)
        passed == {i \in charged : p.blocks[i].failed > MaxFailed}
        old == [i \in 1 .. n |-> IF i \in charged THEN [p.blocks[i] EXCEPT !.failed = @ + 1]
                                 ELSE p.blocks[i]]
        new == [id |-> a.at.id, last |-> Align(SIZEOF_DATA), failed |-> 0]
        q == [a.pool EXCEPT !.blocks = Append(old, new),
                            !.current = IF passed = {} THEN @ ELSE Max(passed) + 1]
    IN  IF a.at = NULL THEN a ELSE Give(q, n + 1, Align(SIZEOF_DATA), size)

(* The room left is an unsigned difference: a mark that alignment has moved *)
(* past the end leaves more room than any request.                          *)
Fits(psize, m, size) == m > psize \/ psize - m >= size

ngx_palloc_small(p, size, align) ==
    LET Start(b) == IF align THEN Align(p.blocks[b].last) ELSE p.blocks[b].last
        fit == {b \in p.current .. Len(p.blocks) : Fits(p.psize, Start(b), size)}
    IN  IF fit = {} THEN ngx_palloc_block(p, size)
        ELSE Give(p, Min(fit), Start(Min(fit)), size)

(* A header for large memory, taken from the pool and pushed on the list;   *)
(* the memory is given back when there is no room for the header.           *)
PushLarge(p, r) ==
    LET h == ngx_palloc_small(p, SIZEOF_LARGE, TRUE)
    IN  IF h.at = NULL THEN Answer(Free(h.pool, r), NULL)
        ELSE Answer([h.pool EXCEPT !.large = <<[at |-> h.at, alloc |-> r]>> \o @], r)

ngx_palloc_large(p, size) ==
    LET a == ngx_alloc(p, size)
        free == {i \in 1 .. Min({Len(p.large), MaxProbe + 2}) : p.large[i].alloc = NULL}
    IN  CASE a.at = NULL              -> a
          [] a.at # NULL /\ free # {} -> Answer([a.pool EXCEPT !.large[Min(free)].alloc = a.at], a.at)
          [] a.at # NULL /\ free = {} -> PushLarge(a.pool, a.at)

palloc(p, size, align) ==
    IF size <= p.max THEN ngx_palloc_small(p, size, align) ELSE ngx_palloc_large(p, size)

-----------------------------------------------------------------------------
(* The calls.  A call may run out of memory at any of its mallocs; no call  *)
(* makes more than three.                                                   *)

Budgets == 0 .. 3

NoPool ==
    [psize |-> 0, max |-> 0, blocks |-> <<>>, current |-> 1, large |-> <<>>, cleanup |-> <<>>,
     regions |-> {}, live |-> {}, made |-> 0, wild |-> FALSE, budget |-> 0]

Init ==
    /\ phase = "none" /\ pool = NoPool
    /\ closed = [f \in Files |-> 0]
    /\ recycled = FALSE /\ ops = 0

Call == phase = "up" /\ ops < MaxOps /\ ops' = ops + 1

(* What a call leaves behind: the budget is not part of the pool.           *)
Becomes(p) == pool' = [p EXCEPT !.budget = 0]

With(budget) == [pool EXCEPT !.budget = budget]

ngx_create_pool(size) ==
    /\ phase = "none"
    /\ phase' = "up"
    /\ LET a == ngx_alloc(With(1), size) IN
         Becomes([a.pool EXCEPT
                    !.psize = size,
                    !.max = Min({size - SIZEOF_POOL, NGX_MAX_ALLOC_FROM_POOL}),
                    !.blocks = <<[id |-> a.at.id, last |-> SIZEOF_POOL, failed |-> 0]>>])
    /\ UNCHANGED <<closed, recycled, ops>>

ngx_palloc(size) ==
    /\ Call
    /\ \E b \in Budgets : Becomes(palloc(With(b), size, TRUE).pool)
    /\ UNCHANGED <<phase, closed, recycled>>

ngx_pnalloc(size) ==
    /\ Call
    /\ \E b \in Budgets : Becomes(palloc(With(b), size, FALSE).pool)
    /\ UNCHANGED <<phase, closed, recycled>>

(* The alignment is not used: the build takes the memory from malloc.       *)
ngx_pmemalign(size) ==
    /\ Call
    /\ \E b \in Budgets :
         LET a == ngx_alloc(With(b), size)
         IN  Becomes(IF a.at = NULL THEN a.pool ELSE PushLarge(a.pool, a.at).pool)
    /\ UNCHANGED <<phase, closed, recycled>>

(* Only large memory is given back, that of the first header that has it.   *)
ngx_pfree(r) ==
    LET of == {i \in DOMAIN pool.large : pool.large[i].alloc = r} IN
    /\ Call
    /\ IF of = {} THEN UNCHANGED pool
       ELSE pool' = [Free(pool, r) EXCEPT !.large[Min(of)].alloc = NULL]
    /\ UNCHANGED <<phase, closed, recycled>>

(* A record and the data of its handler.  The caller registers file f with  *)
(* handler h.  Without memory for the data the record stays unused.         *)
ngx_pool_cleanup_add(f, h) ==
    /\ Call
    /\ \A i \in DOMAIN pool.cleanup : pool.cleanup[i].fd # f
    /\ closed[f] = 0
    /\ \E b \in Budgets :
         LET c == palloc(With(b), SIZEOF_CLEANUP, TRUE)
             d == palloc(c.pool, SIZEOF_FILE, TRUE)
         IN  Becomes(IF c.at = NULL \/ d.at = NULL THEN (IF c.at = NULL THEN c.pool ELSE d.pool)
                     ELSE [d.pool EXCEPT !.cleanup =
                             <<[at |-> c.at, data |-> d.at, handler |-> h, fd |-> f]>> \o @])
    /\ UNCHANGED <<phase, closed, recycled>>

(* A record whose memory has been handed out again: nothing is known of     *)
(* what is read there, its handler and its successor included.              *)
Clobbered(p, c) == \E r \in p.regions \ {c.at, c.data} : Meet(r, c.at) \/ Meet(r, c.data)

Crash ==
    /\ \E i \in DOMAIN pool.cleanup : Clobbered(pool, pool.cleanup[i])
    /\ phase' = "crashed"
    /\ UNCHANGED <<pool, closed, recycled>>

Sound == \A i \in DOMAIN pool.cleanup : ~Clobbered(pool, pool.cleanup[i])

(* Mutant: the handler that has run stays set.                              *)
RunRecordAgain(i) ==
    /\ closed' = [closed EXCEPT ![pool.cleanup[i].fd] = @ + 1]
    /\ UNCHANGED pool

RunRecord(i) ==
    /\ closed' = [closed EXCEPT ![pool.cleanup[i].fd] = @ + 1]
    /\ pool' = [pool EXCEPT !.cleanup[i].handler = "none"]

(* The first record of ngx_pool_cleanup_file that has the descriptor.       *)
ngx_pool_run_cleanup_file(f) ==
    LET of == {i \in DOMAIN pool.cleanup :
                 pool.cleanup[i].handler = "close" /\ pool.cleanup[i].fd = f} IN
    /\ Call
    /\ \/ Crash
       \/ /\ Sound
          /\ IF of = {} THEN UNCHANGED <<pool, closed>> ELSE RunRecord(Min(of))
          /\ UNCHANGED <<phase, recycled>>

Larges(p) == {p.large[i].alloc.id : i \in {j \in DOMAIN p.large : p.large[j].alloc # NULL}}

(* Mutant: the list of large memory is kept.                                *)
ResetKeepLarge(p) ==
    [FreeAll(p, Larges(p)) EXCEPT
        !.blocks = [i \in DOMAIN @ |-> [@[i] EXCEPT !.last = SIZEOF_POOL, !.failed = 0]],
        !.current = 1, !.regions = {}]

(* Every mark goes back behind a full pool header, also in the blocks that  *)
(* have only a short one; the cleanup records stay on their list.           *)
Reset(p) ==
    [FreeAll(p, Larges(p)) EXCEPT
        !.blocks = [i \in DOMAIN @ |-> [@[i] EXCEPT !.last = SIZEOF_POOL, !.failed = 0]],
        !.current = 1, !.regions = {}, !.large = <<>>]

ngx_reset_pool ==
    /\ Call
    /\ Becomes(Reset(pool))
    /\ recycled' = (recycled \/ pool.cleanup # <<>>)
    /\ UNCHANGED <<phase, closed>>

(* The handlers, both of which close the file, then the large memory, then  *)
(* the blocks.                                                              *)
ngx_destroy_pool ==
    /\ Call
    /\ \/ Crash
       \/ /\ Sound
          /\ closed' = [f \in Files |->
                closed[f] + Cardinality({i \in DOMAIN pool.cleanup :
                                           pool.cleanup[i].fd = f /\ pool.cleanup[i].handler # "none"})]
          /\ pool' = FreeAll(FreeAll(pool, Larges(pool)), {pool.blocks[i].id : i \in DOMAIN pool.blocks})
          /\ phase' = "destroyed"
          /\ UNCHANGED recycled

(* The owner of a region past its block writes to it, or the pool does when *)
(* the region is a header or a record of its own: nothing is known any more *)
(* of the memory behind the block.                                          *)
Spoil ==
    /\ phase = "up"
    /\ \E r \in pool.regions : Past(pool, r)
    /\ phase' = "crashed"
    /\ UNCHANGED <<pool, closed, recycled, ops>>

-----------------------------------------------------------------------------
(* What a caller may hand back: large memory it holds, or any other region. *)
Held == pool.regions \cup {pool.large[i].alloc : i \in DOMAIN pool.large}

Next ==
    \/ \E s \in PoolSizes : ngx_create_pool(s)
    \/ \E s \in Requests : ngx_palloc(s) \/ ngx_pnalloc(s) \/ ngx_pmemalign(s)
    \/ \E r \in Held : ngx_pfree(r)
    \/ \E f \in Files, h \in {"close", "delete"} : ngx_pool_cleanup_add(f, h)
    \/ \E f \in Files : ngx_pool_run_cleanup_file(f)
    \/ ngx_reset_pool
    \/ ngx_destroy_pool
    \/ Spoil

Spec == Init /\ [][Next]_vars

-----------------------------------------------------------------------------
(* Properties *)

(* A pool whose size keeps the alignment.  In any other one the room left   *)
(* is computed as an unsigned difference that a mark aligned past the end   *)
(* makes huge, and regions leave their block (Spoil).                       *)
Aligned == pool.psize % NGX_ALIGNMENT = 0

(* In a pool whose size keeps the alignment every piece of memory handed    *)
(* out lies inside its block and behind its header, so that none shares a   *)
(* byte with another one, of the same block or of any other malloc: not two *)
(* requests, nor a request and a header of the pool's own lists, nor, until *)
(* ngx_reset_pool is called over them, a request and a cleanup record.      *)
NoOverlap ==
    (phase = "up" /\ Aligned) =>
        /\ \A r, s \in pool.regions : r # s => ~Overlap(pool, r, s)
        /\ \A i \in DOMAIN pool.large : pool.large[i].at \in pool.regions
        /\ \A r \in pool.regions :
             /\ r.lo >= (IF r.id = pool.blocks[1].id THEN SIZEOF_POOL ELSE SIZEOF_DATA)
             /\ ~Past(pool, r)
        /\ ~recycled => Sound

(* Memory from malloc has one owner: a block or the header that has it.     *)
(* Nothing is freed twice whatever the order of pfree, reset, failed calls  *)
(* and destroy, and the destroyed pool has freed all of it.                 *)
OwnedOnce ==
    LET blocks == {pool.blocks[i].id : i \in DOMAIN pool.blocks} IN
    /\ ~pool.wild
    /\ phase = "up" =>
         /\ pool.live = blocks \cup Larges(pool)
         /\ blocks \cap Larges(pool) = {}
         /\ \A i, k \in DOMAIN pool.large :
              (i # k /\ pool.large[i].alloc # NULL) => pool.large[i].alloc # pool.large[k].alloc
    /\ phase = "destroyed" => pool.live = {}

(* A registered file is closed exactly once, by ngx_pool_run_cleanup_file   *)
(* or by ngx_destroy_pool, and its handler reads the record it was given,   *)
(* unless reset was called over it or the pool's size lets a region leave   *)
(* its block.                                                               *)
ClosedOnce ==
    /\ phase = "crashed" => (recycled \/ ~Aligned)
    /\ \A f \in Files : closed[f] <= 1
    /\ phase = "destroyed" =>
         \A i \in DOMAIN pool.cleanup : closed[pool.cleanup[i].fd] = 1
=============================================================================
