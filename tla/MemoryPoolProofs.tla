-------------------------- MODULE MemoryPoolProofs --------------------------
(***************************************************************************)
(* Proofs about MemoryPool for all pool sizes, requests, files and numbers *)
(* of calls: memory handed out never overlaps, memory from malloc has one  *)
(* owner and is freed once, and a registered file is closed once.          *)
(***************************************************************************)
EXTENDS MemoryPool, FiniteSetTheorems, SequenceTheorems, WellFoundedInduction, NaturalsInduction, TLAPS

-----------------------------------------------------------------------------
(* Types                                                                   *)

Regions == [id : Nat, lo : Nat, hi : Nat, n : Nat]
Blocks  == [id : Nat, last : Nat, failed : Nat]
Headers == [at : Regions, alloc : Regions]
Records == [at : Regions, data : Regions, handler : {"none", "close", "delete"}, fd : Files]

Pools ==
    [psize : Nat, max : Nat, blocks : Seq(Blocks), current : Nat, large : Seq(Headers),
     cleanup : Seq(Records), regions : SUBSET Regions, live : SUBSET Nat, made : Nat,
     wild : BOOLEAN, budget : Nat]

BlockIds(p) == {p.blocks[i].id : i \in DOMAIN p.blocks}

-----------------------------------------------------------------------------
(* The inductive invariant, on a pool p                                    *)

(* The first byte a block hands out: the first block has a full pool header *)
(* in front of it, the others a short one.                                  *)
FirstByte(i) == IF i = 1 THEN SIZEOF_POOL ELSE SIZEOF_DATA

Sized(p) ==
    /\ p.psize >= NGX_MIN_POOL_SIZE
    /\ p.max <= p.psize - SIZEOF_POOL
    /\ SIZEOF_CLEANUP <= p.max

(* Every block is a malloc of its own, with its mark behind its header and, *)
(* when the size keeps the alignment, not past its end.                     *)
Blocked(p) ==
    /\ p.blocks # <<>> /\ p.current >= 1
    /\ \A i \in DOMAIN p.blocks :
         /\ p.blocks[i].id >= 1 /\ p.blocks[i].id <= p.made
         /\ p.blocks[i].last >= FirstByte(i)
         /\ p.psize % NGX_ALIGNMENT = 0 => p.blocks[i].last <= p.psize
    /\ \A i, k \in DOMAIN p.blocks : i # k => p.blocks[i].id # p.blocks[k].id

(* Region r lies in block i, between its header and its mark.               *)
Within(p, r, i) ==
    /\ r.id = p.blocks[i].id
    /\ r.lo >= FirstByte(i) /\ r.hi <= p.blocks[i].last

Placed(p) ==
    /\ \A r \in p.regions : \E i \in DOMAIN p.blocks : Within(p, r, i)
    /\ \A r, s \in p.regions : r # s => ~Meet(r, s)

(* The memory from malloc is that of the blocks, that of the headers and E, *)
(* which the call under way holds; no two of them share any.                *)
Owned(p, E) ==
    /\ ~p.wild
    /\ p.live = BlockIds(p) \cup Larges(p) \cup E
    /\ BlockIds(p) \cap Larges(p) = {}
    /\ E \cap (BlockIds(p) \cup Larges(p)) = {}
    /\ \A x \in p.live : x >= 1 /\ x <= p.made

(* No two headers have the same memory.                                     *)
Single(p) ==
    \A i, k \in DOMAIN p.large :
        (i # k /\ p.large[i].alloc # NULL /\ p.large[k].alloc # NULL)
            => p.large[i].alloc.id # p.large[k].alloc.id

Linked(p) == \A i \in DOMAIN p.large : p.large[i].at \in p.regions

(* The records of the cleanup list are memory still handed out.             *)
Kept(p) == \A i \in DOMAIN p.cleanup : p.cleanup[i].at \in p.regions /\ p.cleanup[i].data \in p.regions

Good(p, E) == Sized(p) /\ Blocked(p) /\ Placed(p) /\ Owned(p, E) /\ Single(p) /\ Linked(p)

-----------------------------------------------------------------------------
(* The inductive invariant, on the state                                    *)

(* A file has one record; its handler is set until the file is closed.      *)
Closing ==
    /\ \A i, k \in DOMAIN pool.cleanup : i # k => pool.cleanup[i].fd # pool.cleanup[k].fd
    /\ \A i \in DOMAIN pool.cleanup :
         closed[pool.cleanup[i].fd] = (IF pool.cleanup[i].handler = "none" THEN 1 ELSE 0)

Typed ==
    /\ phase \in {"none", "up", "destroyed", "crashed"}
    /\ pool \in Pools
    /\ closed \in [Files -> {0, 1}]
    /\ recycled \in BOOLEAN

ByPhase ==
    /\ phase = "none" => pool = NoPool /\ ~recycled
    /\ phase = "up" => Good(pool, {}) /\ Closing /\ (~recycled => Kept(pool))
    /\ phase = "destroyed" =>
         ~pool.wild /\ pool.live = {} /\ \A i \in DOMAIN pool.cleanup : closed[pool.cleanup[i].fd] = 1
    /\ phase = "crashed" => ~pool.wild /\ (recycled \/ ~Aligned)

IInv == Typed /\ ByPhase

-----------------------------------------------------------------------------
(* Least and greatest elements                                              *)

LEMMA LeastExists ==
  ASSUME NEW T \in SUBSET Nat, T # {} PROVE \E x \in T : \A y \in T : x <= y
<1>1. PICK m \in T : \A y \in T : <<y, m>> \notin OpToRel(<, Nat)
  BY WFMin, NatLessThanWellFounded, Zenon
<1>2. \A y \in T : ~(y < m)
  BY <1>1, Zenon DEF OpToRel
<1> QED
  BY <1>2

LEMMA MinIn ==
  ASSUME NEW T \in SUBSET Nat, T # {} PROVE Min(T) \in T
BY LeastExists, Zenon DEF Min

LEMMA MaxIn ==
  ASSUME NEW T \in SUBSET Nat, T # {}, NEW n \in Nat, \A y \in T : y <= n
  PROVE  Max(T) \in T
<1> DEFINE Above == {z \in Nat : \A y \in T : y <= z}
<1>1. PICK u \in Above : \A z \in Above : u <= z
  BY LeastExists
<1>2. ASSUME u \notin T PROVE FALSE
  <2>1. PICK t \in T : TRUE
    OBVIOUS
  <2>2. \A y \in T : y <= u - 1
    BY <1>1, <1>2
  <2>3. u - 1 \in Above
    BY <1>1, <2>1, <2>2
  <2> QED
    BY <1>1, <2>3
<1>3. \E x \in T : \A y \in T : x >= y
  BY <1>1, <1>2
<1> QED
  BY <1>3, Zenon DEF Max

LEMMA MinOfTwo ==
  ASSUME NEW a \in Int, NEW b \in Int
  PROVE  Min({a, b}) \in {a, b} /\ Min({a, b}) <= a /\ Min({a, b}) <= b
<1>1. \E x \in {a, b} : \A y \in {a, b} : x =< y
  <2>1. CASE a <= b
    BY <2>1
  <2>2. CASE b <= a
    BY <2>2
  <2> QED BY <2>1, <2>2
<1>2. Min({a, b}) \in {a, b} /\ \A y \in {a, b} : Min({a, b}) =< y
  BY <1>1, Zenon DEF Min
<1> QED BY <1>2

(* Alignment moves up, by less than NGX_ALIGNMENT, and not past an aligned  *)
(* end.                                                                     *)
LEMMA AlignIs ==
  ASSUME NEW m \in Nat
  PROVE  /\ Align(m) \in Nat /\ Align(m) >= m
         /\ \A z \in Nat : (z % NGX_ALIGNMENT = 0 /\ m <= z) => Align(m) <= z
BY DEF Align, NGX_ALIGNMENT

LEMMA AlignHeader == Align(SIZEOF_DATA) = SIZEOF_DATA
BY DEF Align, NGX_ALIGNMENT, SIZEOF_DATA

-----------------------------------------------------------------------------
(* What the operations on the pool change                                   *)

(* What an allocation leaves alone: the size, the cleanup list and all that *)
(* is handed out.                                                           *)
Grown(p, q) ==
    /\ q.psize = p.psize /\ q.max = p.max /\ q.cleanup = p.cleanup
    /\ p.regions \subseteq q.regions

LEMMA GrownTwice ==
  ASSUME NEW p, NEW q, NEW r, Grown(p, q), Grown(q, r) PROVE Grown(p, r)
BY DEF Grown

LEMMA MallocFields ==
  ASSUME NEW p \in Pools, NEW size \in Nat, p.budget # 0
  PROVE  LET a == ngx_alloc(p, size)
             q == a.pool
         IN  /\ a.at = Region(p.made + 1, 0, size, p.made + 1)
             /\ a.at \in Regions /\ a.at # NULL /\ a.at.id = p.made + 1
             /\ q \in Pools
             /\ q.psize = p.psize /\ q.max = p.max /\ q.blocks = p.blocks /\ q.current = p.current
             /\ q.large = p.large /\ q.cleanup = p.cleanup /\ q.regions = p.regions
             /\ q.live = p.live \cup {p.made + 1} /\ q.made = p.made + 1 /\ q.wild = p.wild
<1> DEFINE r == Region(p.made + 1, 0, size, p.made + 1)
           q == [p EXCEPT !.budget = @ - 1, !.made = @ + 1, !.live = @ \cup {r.id}]
<1>1. ngx_alloc(p, size) = Answer(q, r)
  BY DEF ngx_alloc
<1>2. Answer(q, r).pool = q /\ Answer(q, r).at = r
  BY DEF Answer
<1>3. r \in Regions /\ r.id = p.made + 1 /\ r # NULL
  BY DEF Pools, Regions, Region, NULL
<1>4. /\ q \in Pools
      /\ q.psize = p.psize /\ q.max = p.max /\ q.blocks = p.blocks /\ q.current = p.current
      /\ q.large = p.large /\ q.cleanup = p.cleanup /\ q.regions = p.regions
      /\ q.live = p.live \cup {p.made + 1} /\ q.made = p.made + 1 /\ q.wild = p.wild
  <2>1. p.budget - 1 \in Nat /\ p.made + 1 \in Nat /\ p.live \cup {r.id} \in SUBSET Nat
    BY <1>3 DEF Pools
  <2> HIDE DEF r
  <2> QED BY <1>3, <2>1 DEF Pools
<1> QED
  BY <1>1, <1>2, <1>3, <1>4

LEMMA MallocFails ==
  ASSUME NEW p \in Pools, NEW size \in Nat, p.budget = 0
  PROVE  ngx_alloc(p, size).at = NULL /\ ngx_alloc(p, size).pool = p
BY DEF ngx_alloc, Answer

LEMMA GiveFields ==
  ASSUME NEW p \in Pools, NEW b \in DOMAIN p.blocks, NEW m \in Nat, NEW size \in Nat
  PROVE  LET g == Give(p, b, m, size)
             q == g.pool
         IN  /\ g.at = Region(p.blocks[b].id, m, m + size, p.made + 1)
             /\ g.at \in Regions
             /\ q \in Pools
             /\ q.psize = p.psize /\ q.max = p.max /\ q.current = p.current
             /\ q.blocks = [p.blocks EXCEPT ![b].last = m + size]
             /\ q.large = p.large /\ q.cleanup = p.cleanup /\ q.regions = p.regions \cup {g.at}
             /\ q.live = p.live /\ q.made = p.made + 1 /\ q.wild = p.wild
<1> DEFINE r == Region(p.blocks[b].id, m, m + size, p.made + 1)
           bs == [p.blocks EXCEPT ![b].last = m + size]
           q == [p EXCEPT !.blocks[b].last = m + size, !.regions = @ \cup {r}, !.made = @ + 1]
<1>0. p.blocks \in Seq(Blocks) /\ p.made \in Nat /\ p.regions \in SUBSET Regions
  BY DEF Pools
<1>1. Give(p, b, m, size) = Answer(q, r)
  BY DEF Give
<1>2. Answer(q, r).pool = q /\ Answer(q, r).at = r
  BY DEF Answer
<1>3. p.blocks[b] \in Blocks
  BY <1>0
<1>4. r \in Regions
  <2>1. p.blocks[b].id \in Nat
    BY <1>3 DEF Blocks
  <2>2. m + size \in Nat
    OBVIOUS
  <2>3. p.made + 1 \in Nat
    BY <1>0
  <2> QED BY <2>1, <2>2, <2>3 DEF Regions, Region
<1>5. bs \in Seq(Blocks)
  <2>1. [p.blocks[b] EXCEPT !.last = m + size] \in Blocks
    BY <1>3 DEF Blocks
  <2>2. bs = [p.blocks EXCEPT ![b] = [p.blocks[b] EXCEPT !.last = m + size]]
    OBVIOUS
  <2> QED BY <1>0, <2>1, <2>2
<1>6. q = [p EXCEPT !.blocks = bs, !.regions = p.regions \cup {r}, !.made = p.made + 1]
  BY DEF Pools
<1>7. /\ q \in Pools
      /\ q.psize = p.psize /\ q.max = p.max /\ q.current = p.current
      /\ q.blocks = bs
      /\ q.large = p.large /\ q.cleanup = p.cleanup /\ q.regions = p.regions \cup {r}
      /\ q.live = p.live /\ q.made = p.made + 1 /\ q.wild = p.wild
  <2>1. p.made + 1 \in Nat /\ p.regions \cup {r} \in SUBSET Regions
    BY <1>0, <1>4
  <2> HIDE DEF r, bs, q
  <2> QED BY <1>5, <1>6, <2>1 DEF Pools
<1> QED
  BY <1>1, <1>2, <1>4, <1>7

(* Sizes and the owners of memory depend on these parts of the pool only.   *)
LEMMA OwnedSame ==
  ASSUME NEW p, NEW q, NEW E, Owned(p, E), BlockIds(q) = BlockIds(p), q.large = p.large,
         q.live = p.live, q.wild = p.wild, p.made \in Nat, q.made = p.made + 1, p.live \in SUBSET Nat
  PROVE  Owned(q, E)
<1>1. Larges(q) = Larges(p)
  BY DEF Larges
<1>2. \A x \in p.live : x <= p.made + 1
  BY DEF Owned
<1> QED
  BY <1>1, <1>2 DEF Owned

(* A region given behind the mark of its block and, if the size keeps the   *)
(* alignment, before its end.                                               *)
LEMMA GiveGood ==
  ASSUME NEW p \in Pools, NEW E, Good(p, E), NEW b \in DOMAIN p.blocks, NEW m \in Nat, NEW size \in Nat,
         m >= p.blocks[b].last, p.psize % NGX_ALIGNMENT = 0 => m + size <= p.psize
  PROVE  LET g == Give(p, b, m, size)
         IN  /\ Good(g.pool, E) /\ g.pool \in Pools /\ Grown(p, g.pool) /\ g.pool.large = p.large
             /\ g.at \in g.pool.regions /\ g.at \in Regions /\ g.at # NULL
<1> DEFINE g == Give(p, b, m, size)
           q == g.pool
<1>1. /\ g.at = Region(p.blocks[b].id, m, m + size, p.made + 1)
      /\ g.at \in Regions
      /\ q \in Pools
      /\ q.psize = p.psize /\ q.max = p.max /\ q.current = p.current
      /\ q.blocks = [p.blocks EXCEPT ![b].last = m + size]
      /\ q.large = p.large /\ q.cleanup = p.cleanup /\ q.regions = p.regions \cup {g.at}
      /\ q.live = p.live /\ q.made = p.made + 1 /\ q.wild = p.wild
  BY GiveFields
<1> HIDE DEF g, q
<1>2. p.blocks \in Seq(Blocks) /\ p.made \in Nat /\ p.live \in SUBSET Nat /\ p.psize \in Nat
      /\ p.regions \in SUBSET Regions
  BY DEF Pools
<1>3. \A i \in DOMAIN p.blocks : p.blocks[i] \in Blocks /\ p.blocks[i].last \in Nat /\ p.blocks[i].id \in Nat
  <2>1. \A i \in DOMAIN p.blocks : p.blocks[i] \in Blocks
    BY <1>2
  <2> QED BY <2>1 DEF Blocks
<1>4. DOMAIN q.blocks = DOMAIN p.blocks
  BY <1>1, <1>2
<1>5. \A i \in DOMAIN p.blocks :
        /\ q.blocks[i].id = p.blocks[i].id
        /\ q.blocks[i].last = IF i = b THEN m + size ELSE p.blocks[i].last
  BY <1>1, <1>2, <1>3, SMTT(40) DEF Blocks
<1>6. g.at.id = p.blocks[b].id /\ g.at.lo = m /\ g.at.hi = m + size
  BY <1>1 DEF Region
<1>7. Blocked(p) /\ Placed(p) /\ Sized(p) /\ Owned(p, E) /\ Single(p) /\ Linked(p)
  BY DEF Good
<1>f. FirstByte(b) \in Nat
  BY DEF FirstByte, SIZEOF_POOL, SIZEOF_DATA
<1>8. Sized(q)
  BY <1>1, <1>7 DEF Sized
<1>9. Blocked(q)
  <2>1. q.blocks # <<>>
    BY <1>2, <1>4, <1>7 DEF Blocked
  <2>2. ASSUME NEW i \in DOMAIN p.blocks
        PROVE  /\ q.blocks[i].id >= 1 /\ q.blocks[i].id <= q.made
               /\ q.blocks[i].last >= FirstByte(i)
               /\ q.psize % NGX_ALIGNMENT = 0 => q.blocks[i].last <= q.psize
    <3>1. q.blocks[i].id >= 1 /\ q.blocks[i].id <= q.made
      BY <1>1, <1>2, <1>3, <1>5, <1>7 DEF Blocked
    <3>2. CASE i = b
      <4>1. p.blocks[b].last >= FirstByte(b)
        BY <1>7 DEF Blocked
      <4>2. m + size >= FirstByte(b)
        BY <4>1, <1>3, <1>f
      <4> QED BY <3>1, <3>2, <4>2, <1>1, <1>5
    <3>3. CASE i # b
      BY <3>1, <3>3, <1>1, <1>5, <1>7 DEF Blocked
    <3> QED BY <3>2, <3>3
  <2> QED BY <2>1, <2>2, <1>1, <1>4, <1>5, <1>7 DEF Blocked
<1>10. Placed(q)
  <2>1. \A r \in p.regions : \E i \in DOMAIN q.blocks : Within(q, r, i)
    <3> TAKE r \in p.regions
    <3>1. PICK i \in DOMAIN p.blocks : Within(p, r, i)
      BY <1>7 DEF Placed
    <3>2. r.hi \in Nat
      BY <1>2 DEF Regions
    <3>3. r.hi <= q.blocks[i].last
      <4>1. r.hi <= p.blocks[i].last
        BY <3>1 DEF Within
      <4>2. CASE i = b
        BY <4>1, <4>2, <1>3, <1>5, <3>2
      <4>3. CASE i # b
        BY <4>1, <4>3, <1>5
      <4> QED BY <4>2, <4>3
    <3> QED BY <3>1, <3>3, <1>4, <1>5 DEF Within
  <2>2. Within(q, g.at, b)
    <3>1. p.blocks[b].last >= FirstByte(b)
      BY <1>7 DEF Blocked
    <3>2. m >= FirstByte(b)
      BY <3>1, <1>3, <1>f
    <3>3. g.at.hi <= q.blocks[b].last
      BY <1>5, <1>6
    <3> QED BY <3>2, <3>3, <1>5, <1>6 DEF Within
  <2>3. ASSUME NEW r \in p.regions PROVE ~Meet(r, g.at) /\ ~Meet(g.at, r)
    <3>1. PICK i \in DOMAIN p.blocks : Within(p, r, i)
      BY <1>7 DEF Placed
    <3>2. r.hi \in Nat
      BY <1>2 DEF Regions
    <3>3. CASE r.id = p.blocks[b].id
      <4>1. i = b
        BY <3>1, <3>3, <1>7 DEF Within, Blocked
      <4>2. r.hi <= m
        BY <3>1, <4>1, <3>2, <1>3 DEF Within
      <4> QED BY <4>2, <3>2, <1>6 DEF Meet
    <3>4. CASE r.id # p.blocks[b].id
      BY <3>4, <1>6 DEF Meet
    <3> QED BY <3>3, <3>4
  <2>4. \A r, s \in q.regions : r # s => ~Meet(r, s)
    BY <2>3, <1>1, <1>7 DEF Placed
  <2>5. \A r \in q.regions : \E i \in DOMAIN q.blocks : Within(q, r, i)
    BY <2>1, <2>2, <1>1, <1>4
  <2> QED BY <2>4, <2>5 DEF Placed
<1>11. BlockIds(q) = BlockIds(p)
  BY <1>4, <1>5 DEF BlockIds
<1>12. Owned(q, E)
  BY <1>11, <1>1, <1>2, <1>7, OwnedSame
<1>13. Single(q) /\ Linked(q) /\ Grown(p, q)
  BY <1>1, <1>7 DEF Single, Linked, Grown
<1>14. g.at # NULL
  <2>1. g.at.id >= 1
    BY <1>6, <1>7 DEF Blocked
  <2> QED BY <2>1 DEF NULL, Region
<1>15. g.at \in q.regions
  BY <1>1
<1> QED
  BY <1>1, <1>8, <1>9, <1>10, <1>12, <1>13, <1>14, <1>15 DEF Good, g, q

(* What malloc returns belongs to the call.                                 *)
LEMMA MallocGood ==
  ASSUME NEW p \in Pools, NEW E, Good(p, E), NEW size \in Nat, p.budget # 0
  PROVE  LET a == ngx_alloc(p, size)
         IN  /\ Good(a.pool, E \cup {a.at.id}) /\ a.pool \in Pools /\ Grown(p, a.pool)
             /\ a.pool.blocks = p.blocks /\ a.pool.large = p.large /\ a.pool.current = p.current
             /\ a.pool.psize = p.psize
             /\ a.at \in Regions /\ a.at # NULL /\ a.at.id >= 1 /\ a.at.id <= a.pool.made
             /\ a.at.id \notin E /\ a.at.id \notin BlockIds(p) /\ a.at.id \notin Larges(p)
<1> DEFINE a == ngx_alloc(p, size)
           q == a.pool
<1>1. /\ a.at = Region(p.made + 1, 0, size, p.made + 1)
      /\ a.at \in Regions /\ a.at # NULL /\ a.at.id = p.made + 1
      /\ q \in Pools
      /\ q.psize = p.psize /\ q.max = p.max /\ q.blocks = p.blocks /\ q.current = p.current
      /\ q.large = p.large /\ q.cleanup = p.cleanup /\ q.regions = p.regions
      /\ q.live = p.live \cup {p.made + 1} /\ q.made = p.made + 1 /\ q.wild = p.wild
  BY MallocFields
<1> HIDE DEF a, q
<1>2. p.blocks \in Seq(Blocks) /\ p.made \in Nat /\ p.live \in SUBSET Nat /\ p.psize \in Nat
  BY DEF Pools
<1>3. Blocked(p) /\ Placed(p) /\ Sized(p) /\ Owned(p, E) /\ Single(p) /\ Linked(p)
  BY DEF Good
<1>4. Sized(q) /\ Single(q) /\ Linked(q) /\ Grown(p, q)
  BY <1>1, <1>3 DEF Sized, Single, Linked, Grown
<1>5. Placed(q)
  BY <1>1, <1>3 DEF Placed, Within
<1>6. Blocked(q)
  <2>1. \A i \in DOMAIN p.blocks : p.blocks[i] \in Blocks
    BY <1>2
  <2>2. \A i \in DOMAIN p.blocks : p.blocks[i].id \in Nat
    BY <2>1 DEF Blocks
  <2>3. \A i \in DOMAIN p.blocks : p.blocks[i].id <= p.made + 1
    BY <2>2, <1>2, <1>3 DEF Blocked
  <2> QED BY <2>3, <1>1, <1>3 DEF Blocked
<1>7. p.made + 1 \notin p.live
  <2>1. ~(p.made + 1 <= p.made)
    BY <1>2
  <2> QED BY <2>1, <1>3 DEF Owned
<1>8. BlockIds(q) = BlockIds(p) /\ Larges(q) = Larges(p)
  BY <1>1 DEF BlockIds, Larges
<1>9. p.made + 1 \notin BlockIds(p) \cup Larges(p) \cup E
  BY <1>7, <1>3 DEF Owned
<1>10. Owned(q, E \cup {p.made + 1})
  <2>1. \A x \in q.live : x >= 1 /\ x <= q.made
    <3>1. \A x \in p.live : x >= 1 /\ x <= p.made + 1
      BY <1>2, <1>3 DEF Owned
    <3> QED BY <3>1, <1>1, <1>2
  <2>2. q.live = BlockIds(q) \cup Larges(q) \cup (E \cup {p.made + 1})
    BY <1>1, <1>3, <1>8 DEF Owned
  <2>3. /\ BlockIds(q) \cap Larges(q) = {}
        /\ (E \cup {p.made + 1}) \cap (BlockIds(q) \cup Larges(q)) = {}
    BY <1>3, <1>8, <1>9 DEF Owned
  <2> QED BY <2>1, <2>2, <2>3, <1>1, <1>3 DEF Owned
<1>11. Good(q, E \cup {a.at.id})
  BY <1>1, <1>4, <1>5, <1>6, <1>10 DEF Good
<1>12. a.at.id >= 1 /\ a.at.id <= q.made
  BY <1>1, <1>2
<1> QED
  BY <1>1, <1>4, <1>9, <1>11, <1>12 DEF a, q

(* What an allocation from a block does, for memory E that the call holds.  *)
Serves(p, E, g) ==
    \/ g.at = NULL /\ g.pool = p
    \/ /\ g.at # NULL /\ g.at \in Regions /\ g.at \in g.pool.regions
       /\ g.pool \in Pools /\ Good(g.pool, E) /\ Grown(p, g.pool) /\ g.pool.large = p.large

(* The list of blocks with a new one at its end.                            *)
AddBlock(p, old, x, c) ==
    [p EXCEPT !.blocks = Append(old, [id |-> x, last |-> SIZEOF_DATA, failed |-> 0]), !.current = c]

LEMMA NewBlockGood ==
  ASSUME NEW p \in Pools, NEW E, NEW x, Good(p, E \cup {x}), x \notin E, x >= 1, x <= p.made,
         x \in Nat, x \notin BlockIds(p),
         NEW old \in Seq(Blocks), Len(old) = Len(p.blocks),
         \A i \in DOMAIN p.blocks : old[i].id = p.blocks[i].id /\ old[i].last = p.blocks[i].last,
         NEW c \in Nat, c >= 1
  PROVE  LET q == AddBlock(p, old, x, c)
         IN  /\ q \in Pools /\ Good(q, E) /\ Grown(p, q) /\ q.large = p.large /\ q.psize = p.psize
             /\ Len(p.blocks) + 1 \in DOMAIN q.blocks /\ q.blocks[Len(p.blocks) + 1].last = SIZEOF_DATA
<1> DEFINE new == [id |-> x, last |-> SIZEOF_DATA, failed |-> 0]
           bs == Append(old, new)
           q == [p EXCEPT !.blocks = bs, !.current = c]
           n == Len(p.blocks)
<1>1. p.blocks \in Seq(Blocks) /\ p.made \in Nat /\ p.live \in SUBSET Nat /\ p.psize \in Nat
  BY DEF Pools
<1>2. new \in Blocks /\ new.id = x /\ new.last = SIZEOF_DATA
  BY DEF Blocks, SIZEOF_DATA
<1>3. bs \in Seq(Blocks) /\ Len(bs) = n + 1 /\ DOMAIN bs = 1 .. n + 1 /\ DOMAIN p.blocks = 1 .. n
      /\ n \in Nat /\ bs[n + 1] = new
      /\ \A i \in 1 .. n : bs[i] = old[i]
  <2> HIDE DEF new
  <2> QED BY <1>1, <1>2
<1>4. /\ q \in Pools
      /\ q.psize = p.psize /\ q.max = p.max /\ q.blocks = bs /\ q.current = c
      /\ q.large = p.large /\ q.cleanup = p.cleanup /\ q.regions = p.regions
      /\ q.live = p.live /\ q.made = p.made /\ q.wild = p.wild
  <2> HIDE DEF bs
  <2> QED BY <1>3 DEF Pools
<1> HIDE DEF q, bs, new, n
<1>5. Blocked(p) /\ Placed(p) /\ Sized(p) /\ Owned(p, E \cup {x}) /\ Single(p) /\ Linked(p)
  BY DEF Good
<1>6. /\ bs[n + 1].id = x /\ bs[n + 1].last = SIZEOF_DATA
      /\ \A i \in 1 .. n : bs[i].id = p.blocks[i].id /\ bs[i].last = p.blocks[i].last
  BY <1>2, <1>3
<1>7. Sized(q) /\ Single(q) /\ Linked(q) /\ Grown(p, q)
  BY <1>4, <1>5 DEF Sized, Single, Linked, Grown
<1>8. Blocked(q)
  <2>1. q.blocks # <<>>
    BY <1>3, <1>4
  <2>0. n >= 1
    BY <1>1, <1>3, <1>5 DEF Blocked, n
  <2>2. ASSUME NEW i \in 1 .. n + 1
        PROVE  /\ bs[i].id >= 1 /\ bs[i].id <= p.made
               /\ bs[i].last >= FirstByte(i)
               /\ p.psize % NGX_ALIGNMENT = 0 => bs[i].last <= p.psize
    <3>1. CASE i = n + 1
      <4>1. FirstByte(i) = SIZEOF_DATA
        BY <2>0, <3>1, <1>3 DEF FirstByte
      <4>2. SIZEOF_DATA <= p.psize /\ SIZEOF_DATA >= SIZEOF_DATA
        BY <1>1, <1>5 DEF Sized, SIZEOF_DATA, NGX_MIN_POOL_SIZE
      <4> QED BY <3>1, <4>1, <4>2, <1>6
    <3>2. CASE i # n + 1
      <4>1. i \in 1 .. n
        BY <3>2, <1>3
      <4> QED BY <4>1, <1>3, <1>5, <1>6 DEF Blocked
    <3> QED BY <3>1, <3>2
  <2>3. ASSUME NEW i \in 1 .. n + 1, NEW k \in 1 .. n + 1, i # k PROVE bs[i].id # bs[k].id
    <3>1. \A j \in 1 .. n : bs[j].id # x
      BY <1>3, <1>6 DEF BlockIds
    <3>2. CASE i = n + 1
      BY <2>3, <3>1, <3>2, <1>3, <1>6
    <3>3. CASE k = n + 1
      BY <2>3, <3>1, <3>3, <1>3, <1>6
    <3>4. CASE i # n + 1 /\ k # n + 1
      <4>1. i \in 1 .. n /\ k \in 1 .. n
        BY <3>4, <1>3
      <4> QED BY <2>3, <4>1, <1>3, <1>5, <1>6, SMTT(40) DEF Blocked
    <3> QED BY <3>2, <3>3, <3>4
  <2> QED BY <2>1, <2>2, <2>3, <1>3, <1>4 DEF Blocked
<1>9. Placed(q)
  <2>1. \A r \in p.regions : \E i \in DOMAIN q.blocks : Within(q, r, i)
    <3> TAKE r \in p.regions
    <3>1. PICK i \in DOMAIN p.blocks : Within(p, r, i)
      BY <1>5 DEF Placed
    <3>2. i \in 1 .. n /\ i \in 1 .. n + 1
      BY <3>1, <1>3
    <3> QED BY <3>1, <3>2, <1>3, <1>4, <1>6 DEF Within
  <2> QED BY <2>1, <1>4, <1>5 DEF Placed
<1>10. BlockIds(q) = BlockIds(p) \cup {x}
  <2>1. \A i \in 1 .. n + 1 : i = n + 1 \/ i \in 1 .. n
    BY <1>3
  <2>2. n + 1 \in 1 .. n + 1 /\ \A i \in 1 .. n : i \in 1 .. n + 1
    BY <1>3
  <2>3. BlockIds(q) = {bs[i].id : i \in 1 .. n + 1} /\ BlockIds(p) = {p.blocks[i].id : i \in 1 .. n}
    <3>1. q.blocks = bs /\ DOMAIN bs = 1 .. n + 1 /\ DOMAIN p.blocks = 1 .. n
      BY <1>3, <1>4
    <3> QED BY ONLY <3>1 DEF BlockIds
  <2>4. \A y \in BlockIds(q) : y \in BlockIds(p) \cup {x}
    BY <2>1, <2>3, <1>6
  <2>5. \A y \in BlockIds(p) \cup {x} : y \in BlockIds(q)
    BY <2>2, <2>3, <1>6
  <2> QED BY <2>4, <2>5
<1>11. Larges(q) = Larges(p)
  BY <1>4 DEF Larges
<1>12. Owned(q, E)
  BY <1>10, <1>11, <1>4, <1>5 DEF Owned
<1>13. n + 1 \in DOMAIN q.blocks /\ q.blocks[n + 1].last = SIZEOF_DATA
  BY <1>3, <1>4, <1>6
<1> QED
  BY <1>4, <1>7, <1>8, <1>9, <1>12, <1>13 DEF Good, AddBlock, q, bs, new, n

LEMMA BlockServes ==
  ASSUME NEW p \in Pools, NEW E, Good(p, E), NEW size \in Nat, SIZEOF_POOL + size <= p.psize
  PROVE  Serves(p, E, ngx_palloc_block(p, size))
<1> DEFINE a == ngx_alloc(p, p.psize)
           n == Len(p.blocks)
           charged == p.current .. (n - 1)
           passed == {i \in charged : p.blocks[i].failed > MaxFailed}
           old == [i \in 1 .. n |-> IF i \in charged THEN [p.blocks[i] EXCEPT !.failed = @ + 1]
                                    ELSE p.blocks[i]]
           new == [id |-> a.at.id, last |-> Align(SIZEOF_DATA), failed |-> 0]
           c == IF passed = {} THEN a.pool.current ELSE Max(passed) + 1
           q == [a.pool EXCEPT !.blocks = Append(old, new), !.current = c]
<1>1. p.blocks \in Seq(Blocks) /\ p.psize \in Nat /\ p.current \in Nat /\ n \in Nat /\ p.budget \in Nat
  BY DEF Pools
<1>2. p.current >= 1
  BY DEF Good, Blocked
<1>3. CASE p.budget = 0
  <2>1. a.at = NULL /\ a.pool = p
    BY <1>1, <1>3, MallocFails
  <2>2. ngx_palloc_block(p, size) = a
    BY <2>1, Zenon DEF ngx_palloc_block
  <2> QED BY <2>1, <2>2 DEF Serves
<1>4. CASE p.budget # 0
  <2>1. /\ Good(a.pool, E \cup {a.at.id}) /\ a.pool \in Pools /\ Grown(p, a.pool)
        /\ a.pool.blocks = p.blocks /\ a.pool.large = p.large /\ a.pool.current = p.current
        /\ a.pool.psize = p.psize
        /\ a.at \in Regions /\ a.at # NULL /\ a.at.id >= 1 /\ a.at.id <= a.pool.made
        /\ a.at.id \notin E /\ a.at.id \notin BlockIds(p)
    BY <1>1, <1>4, MallocGood, ZenonT(60)
  <2> HIDE DEF a
  <2>2. a.at.id \in Nat
    BY <2>1 DEF Regions
  <2>3. BlockIds(a.pool) = BlockIds(p)
    BY <2>1 DEF BlockIds
  <2>4. /\ old \in Seq(Blocks) /\ Len(old) = n
        /\ \A i \in DOMAIN p.blocks : old[i].id = p.blocks[i].id /\ old[i].last = p.blocks[i].last
    <3>1. \A i \in 1 .. n : p.blocks[i] \in Blocks
      BY <1>1
    <3>2. ASSUME NEW i \in 1 .. n
          PROVE old[i] \in Blocks /\ old[i].id = p.blocks[i].id /\ old[i].last = p.blocks[i].last
      <4> HIDE DEF charged
      <4> QED BY <3>1 DEF Blocks
    <3>3. old \in [1 .. n -> Blocks]
      <4> HIDE DEF charged
      <4>1. \A i \in 1 .. n : (IF i \in charged THEN [p.blocks[i] EXCEPT !.failed = @ + 1]
                              ELSE p.blocks[i]) \in Blocks
        BY <3>2
      <4> QED BY <4>1
    <3>4. old \in Seq(Blocks) /\ Len(old) = n
      <4> HIDE DEF old
      <4> QED BY <3>3, <1>1
    <3>5. DOMAIN p.blocks = 1 .. n
      BY <1>1
    <3> HIDE DEF old
    <3> QED BY <3>2, <3>4, <3>5
  <2>5. c \in Nat /\ c >= 1
    <3>1. CASE passed = {}
      BY <3>1, <2>1, <1>1, <1>2
    <3>2. CASE passed # {}
      <4>1. passed \in SUBSET Nat /\ \A y \in passed : y <= n
        BY <1>1
      <4>2. Max(passed) \in passed
        <5> HIDE DEF passed
        <5> QED BY <4>1, <3>2, <1>1, MaxIn
      <4>3. c = Max(passed) + 1
        BY <3>2
      <4>4. Max(passed) \in Nat
        BY <4>1, <4>2
      <4> HIDE DEF passed, c
      <4> QED BY <4>3, <4>4
    <3> QED BY <3>1, <3>2
  <2>6. new = [id |-> a.at.id, last |-> SIZEOF_DATA, failed |-> 0]
    BY AlignHeader
  <2> HIDE DEF c, old, new
  <2>7. /\ q \in Pools /\ Good(q, E) /\ Grown(a.pool, q) /\ q.large = a.pool.large /\ q.psize = a.pool.psize
        /\ n + 1 \in DOMAIN q.blocks /\ q.blocks[n + 1].last = SIZEOF_DATA
    <3> DEFINE x == a.at.id
               ap == a.pool
               w == AddBlock(ap, old, x, c)
    <3>1. /\ ap \in Pools /\ Good(ap, E \cup {x}) /\ x \notin E /\ x >= 1 /\ x <= ap.made
          /\ x \in Nat /\ x \notin BlockIds(ap)
      BY <2>1, <2>2, <2>3
    <3>2. /\ old \in Seq(Blocks) /\ Len(old) = Len(ap.blocks)
          /\ \A i \in DOMAIN ap.blocks : old[i].id = ap.blocks[i].id /\ old[i].last = ap.blocks[i].last
      BY <2>1, <2>4
    <3> HIDE DEF x, ap
    <3>3. /\ w \in Pools /\ Good(w, E) /\ Grown(ap, w) /\ w.large = ap.large /\ w.psize = ap.psize
          /\ Len(ap.blocks) + 1 \in DOMAIN w.blocks /\ w.blocks[Len(ap.blocks) + 1].last = SIZEOF_DATA
      BY <3>1, <3>2, <2>5, NewBlockGood
    <3>4. q = w
      BY <2>6 DEF x, ap, AddBlock
    <3>5. ap.blocks = p.blocks
      BY <2>1 DEF ap
    <3> HIDE DEF q, w
    <3> QED BY <3>3, <3>4, <3>5 DEF ap
  <2>8. ngx_palloc_block(p, size) = Give(q, n + 1, Align(SIZEOF_DATA), size)
    BY <2>1, Zenon DEF ngx_palloc_block, a, c, old, new
  <2> HIDE DEF q, n
  <2>9. q.psize % NGX_ALIGNMENT = 0 => SIZEOF_DATA + size <= q.psize
    BY <2>1, <2>7, <1>1 DEF SIZEOF_DATA, SIZEOF_POOL
  <2>10. SIZEOF_DATA \in Nat /\ SIZEOF_DATA >= SIZEOF_DATA
    BY DEF SIZEOF_DATA
  <2> DEFINE g == Give(q, n + 1, SIZEOF_DATA, size)
  <2>11. /\ Good(g.pool, E) /\ g.pool \in Pools /\ Grown(q, g.pool) /\ g.pool.large = q.large
         /\ g.at \in g.pool.regions /\ g.at \in Regions /\ g.at # NULL
    <3>1. SIZEOF_DATA >= q.blocks[n + 1].last
      BY <2>7, <2>10
    <3> DEFINE d == SIZEOF_DATA
               k == n + 1
    <3>2. d \in Nat /\ d >= q.blocks[k].last /\ k \in DOMAIN q.blocks
          /\ (q.psize % NGX_ALIGNMENT = 0 => d + size <= q.psize)
      BY <3>1, <2>7, <2>9, <2>10
    <3>3. g = Give(q, k, d, size)
      OBVIOUS
    <3> HIDE DEF d, k, g
    <3> QED BY <2>7, <3>2, <3>3, GiveGood
  <2>12. ngx_palloc_block(p, size) = g
    BY <2>8, AlignHeader
  <2> HIDE DEF g
  <2>13. Grown(p, g.pool) /\ g.pool.large = p.large
    BY <2>1, <2>7, <2>11, GrownTwice
  <2> QED BY <2>11, <2>12, <2>13 DEF Serves
<1> QED BY <1>3, <1>4

LEMMA SmallServes ==
  ASSUME NEW p \in Pools, NEW E, Good(p, E), NEW size \in Nat, SIZEOF_POOL + size <= p.psize,
         NEW align \in BOOLEAN
  PROVE  Serves(p, E, ngx_palloc_small(p, size, align))
<1> DEFINE Start(b) == IF align THEN Align(p.blocks[b].last) ELSE p.blocks[b].last
           fit == {b \in p.current .. Len(p.blocks) : Fits(p.psize, Start(b), size)}
<1>1. p.blocks \in Seq(Blocks) /\ p.psize \in Nat /\ p.current \in Nat /\ Len(p.blocks) \in Nat
      /\ DOMAIN p.blocks = 1 .. Len(p.blocks)
  BY DEF Pools
<1>2. Blocked(p)
  BY DEF Good
<1>3. CASE fit = {}
  <2>1. ngx_palloc_small(p, size, align) = ngx_palloc_block(p, size)
    BY <1>3, Zenon DEF ngx_palloc_small
  <2> QED BY <2>1, BlockServes
<1>4. CASE fit # {}
  <2> DEFINE b == Min(fit)
             m == Start(b)
             g == Give(p, b, m, size)
  <2>1. ngx_palloc_small(p, size, align) = g
    BY <1>4, Zenon DEF ngx_palloc_small
  <2>2. fit \in SUBSET Nat /\ fit \in SUBSET (DOMAIN p.blocks)
    BY <1>1, <1>2 DEF Blocked
  <2>3. b \in fit
    <3> HIDE DEF fit
    <3> QED BY <1>4, <2>2, MinIn
  <2>4. b \in DOMAIN p.blocks /\ Fits(p.psize, m, size)
    BY <2>2, <2>3
  <2> HIDE DEF b, fit
  <2>5. p.blocks[b] \in Blocks
    BY <2>4, <1>1
  <2>6. p.blocks[b].last \in Nat
    BY <2>5 DEF Blocks
  <2>7. m \in Nat /\ m >= p.blocks[b].last
    BY <2>6, AlignIs
  <2>8. ASSUME p.psize % NGX_ALIGNMENT = 0 PROVE m + size <= p.psize
    <3>1. p.blocks[b].last <= p.psize
      BY <2>4, <2>8, <1>2 DEF Blocked
    <3>2. m <= p.psize
      BY <3>1, <2>6, <2>8, <1>1, AlignIs
    <3> HIDE DEF m
    <3> QED BY <3>2, <2>4, <2>7, <1>1 DEF Fits
  <2> HIDE DEF m, g
  <2>9. /\ Good(g.pool, E) /\ g.pool \in Pools /\ Grown(p, g.pool) /\ g.pool.large = p.large
        /\ g.at \in g.pool.regions /\ g.at \in Regions /\ g.at # NULL
    BY <2>4, <2>7, <2>8, GiveGood DEF g
  <2> QED BY <2>1, <2>9 DEF Serves
<1> QED BY <1>3, <1>4

-----------------------------------------------------------------------------
(* Large memory                                                             *)

LEMMA FreeAllFields ==
  ASSUME NEW p \in Pools, NEW ids
  PROVE  LET q == FreeAll(p, ids)
         IN  /\ q \in Pools
             /\ q.psize = p.psize /\ q.max = p.max /\ q.blocks = p.blocks /\ q.current = p.current
             /\ q.large = p.large /\ q.cleanup = p.cleanup /\ q.regions = p.regions
             /\ q.live = p.live \ ids /\ q.made = p.made
             /\ q.wild = (p.wild \/ ~(ids \subseteq p.live))
<1> DEFINE l == p.live \ ids
           w == p.wild \/ ~(ids \subseteq p.live)
           q == [p EXCEPT !.live = l, !.wild = w]
<1>1. l \in SUBSET Nat
  BY DEF Pools
<1>2. w \in BOOLEAN
  BY Zenon
<1>3. FreeAll(p, ids) = q
  BY Zenon DEF FreeAll
<1> HIDE DEF l, w
<1>4. /\ q \in Pools
      /\ q.psize = p.psize /\ q.max = p.max /\ q.blocks = p.blocks /\ q.current = p.current
      /\ q.large = p.large /\ q.cleanup = p.cleanup /\ q.regions = p.regions
      /\ q.live = l /\ q.made = p.made /\ q.wild = w
  BY <1>1, <1>2 DEF Pools
<1> HIDE DEF q
<1> QED BY <1>3, <1>4, Zenon DEF l, w

(* What the call holds may be given back.                                   *)
LEMMA FreeGood ==
  ASSUME NEW p \in Pools, NEW E, NEW r \in Regions, Good(p, E \cup {r.id}), r.id \notin E, r.id >= 1
  PROVE  Free(p, r) \in Pools /\ Good(Free(p, r), E) /\ Grown(p, Free(p, r))
<1> DEFINE ids == {r.id} \ {NULL.id}
           q == FreeAll(p, ids)
<1>1. ids = {r.id}
  <2>1. NULL.id = 0 /\ r.id \in Nat
    BY DEF NULL, Region, Regions
  <2> QED BY <2>1
<1>2. Free(p, r) = q
  BY DEF Free
<1> HIDE DEF ids
<1>3. /\ q \in Pools
      /\ q.psize = p.psize /\ q.max = p.max /\ q.blocks = p.blocks /\ q.current = p.current
      /\ q.large = p.large /\ q.cleanup = p.cleanup /\ q.regions = p.regions
      /\ q.live = p.live \ ids /\ q.made = p.made
      /\ q.wild = (p.wild \/ ~(ids \subseteq p.live))
  BY FreeAllFields
<1> HIDE DEF q
<1>4. Blocked(p) /\ Placed(p) /\ Sized(p) /\ Owned(p, E \cup {r.id}) /\ Single(p) /\ Linked(p)
  BY DEF Good
<1>5. Sized(q) /\ Single(q) /\ Linked(q) /\ Grown(p, q) /\ Placed(q) /\ Blocked(q)
  BY <1>3, <1>4 DEF Sized, Single, Linked, Grown, Placed, Blocked, Within
<1>6. BlockIds(q) = BlockIds(p) /\ Larges(q) = Larges(p)
  BY <1>3 DEF BlockIds, Larges
<1>7. ~q.wild
  BY <1>1, <1>3, <1>4 DEF Owned
<1>8. Owned(q, E)
  BY <1>1, <1>3, <1>4, <1>6, <1>7 DEF Owned
<1> QED BY <1>2, <1>3, <1>5, <1>8 DEF Good

(* The list of large memory becomes ls, and A what it has: nothing else of  *)
(* the pool changes.                                                        *)
LEMMA LargesGood ==
  ASSUME NEW p \in Pools, NEW q \in Pools, NEW E, NEW F, Good(p, E),
         q.psize = p.psize, q.max = p.max, q.blocks = p.blocks, q.current = p.current,
         q.regions = p.regions, q.made = p.made, q.wild = p.wild,
         Single(q), Linked(q),
         q.live = BlockIds(p) \cup Larges(q) \cup F, q.live \subseteq p.live,
         BlockIds(p) \cap Larges(q) = {}, F \cap (BlockIds(p) \cup Larges(q)) = {}
  PROVE  Good(q, F)
<1>1. Blocked(p) /\ Placed(p) /\ Sized(p) /\ Owned(p, E)
  BY DEF Good
<1>2. Sized(q) /\ Placed(q) /\ Blocked(q)
  BY <1>1 DEF Sized, Placed, Blocked, Within
<1>3. BlockIds(q) = BlockIds(p)
  BY DEF BlockIds
<1>4. Owned(q, F)
  BY <1>1, <1>3 DEF Owned
<1> QED BY <1>2, <1>4 DEF Good

LEMMA InLarges ==
  ASSUME NEW p, NEW y
  PROVE  y \in Larges(p) <=>
           \E i \in DOMAIN p.large : p.large[i].alloc # NULL /\ y = p.large[i].alloc.id
BY DEF Larges

Pushed(p, at, r) == [p EXCEPT !.large = <<[at |-> at, alloc |-> r]>> \o @]

LEMMA PushedGood ==
  ASSUME NEW p \in Pools, NEW E, NEW r \in Regions, NEW at \in p.regions, at \in Regions,
         Good(p, E \cup {r.id}), r.id \notin E, r # NULL
  PROVE  Pushed(p, at, r) \in Pools /\ Good(Pushed(p, at, r), E) /\ Grown(p, Pushed(p, at, r))
<1> DEFINE h == [at |-> at, alloc |-> r]
           ls == <<h>> \o p.large
           q == [p EXCEPT !.large = ls]
           n == Len(p.large)
<1>1. p.large \in Seq(Headers) /\ n \in Nat /\ DOMAIN p.large = 1 .. n
  BY DEF Pools
<1>2. h \in Headers /\ h.at = at /\ h.alloc = r
  BY DEF Headers
<1>3. ls \in Seq(Headers) /\ DOMAIN ls = 1 .. n + 1 /\ ls[1] = h
      /\ \A i \in 2 .. n + 1 : ls[i] = p.large[i - 1]
  <2> HIDE DEF h
  <2>1. <<h>> \in Seq(Headers) /\ Len(<<h>>) = 1 /\ <<h>>[1] = h
    BY <1>2
  <2>2. Len(ls) = 1 + n /\ ls \in Seq(Headers)
        /\ \A i \in 1 .. Len(ls) : ls[i] = IF i <= 1 THEN <<h>>[i] ELSE p.large[i - 1]
    BY <1>1, <2>1, ConcatProperties
  <2> HIDE DEF ls
  <2> QED BY <1>1, <2>1, <2>2
<1>4. Pushed(p, at, r) = q
  BY DEF Pushed
<1> HIDE DEF h, ls
<1>5. /\ q \in Pools
      /\ q.psize = p.psize /\ q.max = p.max /\ q.blocks = p.blocks /\ q.current = p.current
      /\ q.large = ls /\ q.cleanup = p.cleanup /\ q.regions = p.regions
      /\ q.live = p.live /\ q.made = p.made /\ q.wild = p.wild
  BY <1>3 DEF Pools
<1> HIDE DEF q, n
<1>6. Owned(p, E \cup {r.id}) /\ Single(p) /\ Linked(p)
  BY DEF Good
<1>7. \A i \in 1 .. n + 1 : i = 1 \/ (i - 1 \in 1 .. n /\ ls[i] = p.large[i - 1])
  BY <1>1, <1>3
<1>8. \A i \in 1 .. n : i + 1 \in 1 .. n + 1 /\ ls[i + 1] = p.large[i]
  BY <1>1, <1>3
<1>9. 1 \in 1 .. n + 1
  BY <1>1
<1>l. \A y : y \in Larges(q) <=> \E i \in 1 .. n + 1 : ls[i].alloc # NULL /\ y = ls[i].alloc.id
  <2>1. q.large = ls /\ DOMAIN q.large = 1 .. n + 1
    BY <1>3, <1>5
  <2> TAKE y
  <2>2. y \in Larges(q) <=> \E i \in DOMAIN q.large : q.large[i].alloc # NULL /\ y = q.large[i].alloc.id
    BY InLarges
  <2> QED BY <2>1, <2>2
<1>10. Larges(q) = Larges(p) \cup {r.id}
  <2>1. ASSUME NEW y \in Larges(q) PROVE y \in Larges(p) \cup {r.id}
    <3>1. PICK i \in 1 .. n + 1 : ls[i].alloc # NULL /\ y = ls[i].alloc.id
      BY <2>1, <1>l
    <3>2. CASE i = 1
      BY <3>1, <3>2, <1>2, <1>3
    <3>3. CASE i # 1
      BY <3>1, <3>3, <1>1, <1>7, InLarges
    <3> QED BY <3>2, <3>3
  <2>2. ASSUME NEW y \in Larges(p) PROVE y \in Larges(q)
    <3>1. PICK i \in 1 .. n : p.large[i].alloc # NULL /\ y = p.large[i].alloc.id
      BY <2>2, <1>1, InLarges
    <3> QED BY <3>1, <1>8, <1>l
  <2>3. r.id \in Larges(q)
    BY <1>2, <1>3, <1>9, <1>l
  <2> QED BY <2>1, <2>2, <2>3
<1>11. r.id \notin Larges(p)
  BY <1>6 DEF Owned
<1>12. Single(q)
  <2> SUFFICES ASSUME NEW i \in 1 .. n + 1, NEW k \in 1 .. n + 1, i # k,
                      ls[i].alloc # NULL, ls[k].alloc # NULL
               PROVE  ls[i].alloc.id # ls[k].alloc.id
    BY <1>3, <1>5 DEF Single
  <2>0. ASSUME NEW j \in 1 .. n + 1, j # 1, ls[j].alloc # NULL PROVE ls[j].alloc.id # r.id
    BY <2>0, <1>1, <1>7, <1>11, InLarges
  <2>1. CASE i = 1
    BY <2>0, <2>1, <1>2, <1>3
  <2>2. CASE k = 1
    BY <2>0, <2>2, <1>2, <1>3
  <2>3. CASE i # 1 /\ k # 1
    <3>1. i - 1 \in 1 .. n /\ k - 1 \in 1 .. n /\ i - 1 # k - 1 /\ ls[i] = p.large[i - 1] /\ ls[k] = p.large[k - 1]
      BY <2>3, <1>7
    <3> QED BY <3>1, <1>1, <1>6 DEF Single
  <2> QED BY <2>1, <2>2, <2>3
<1>13. Linked(q)
  <2> SUFFICES ASSUME NEW i \in 1 .. n + 1 PROVE ls[i].at \in p.regions
    BY <1>3, <1>5 DEF Linked
  <2>1. CASE i = 1
    BY <2>1, <1>2, <1>3
  <2>2. CASE i # 1
    BY <2>2, <1>1, <1>6, <1>7 DEF Linked
  <2> QED BY <2>1, <2>2
<1>14. /\ q.live = BlockIds(p) \cup Larges(q) \cup E
       /\ BlockIds(p) \cap Larges(q) = {} /\ E \cap (BlockIds(p) \cup Larges(q)) = {}
  BY <1>5, <1>6, <1>10 DEF Owned
<1>15. Good(q, E)
  BY <1>5, <1>12, <1>13, <1>14, LargesGood
<1> QED BY <1>4, <1>5, <1>15 DEF Grown

Stored(p, k, r) == [p EXCEPT !.large[k].alloc = r]

LEMMA StoredFields ==
  ASSUME NEW p \in Pools, NEW k \in DOMAIN p.large, NEW r \in Regions
  PROVE  LET q == Stored(p, k, r)
         IN  /\ q \in Pools
             /\ q.psize = p.psize /\ q.max = p.max /\ q.blocks = p.blocks /\ q.current = p.current
             /\ q.cleanup = p.cleanup /\ q.regions = p.regions
             /\ q.live = p.live /\ q.made = p.made /\ q.wild = p.wild
             /\ DOMAIN q.large = DOMAIN p.large
             /\ \A i \in DOMAIN p.large :
                  /\ q.large[i].at = p.large[i].at
                  /\ q.large[i].alloc = IF i = k THEN r ELSE p.large[i].alloc
<1> DEFINE h == [p.large[k] EXCEPT !.alloc = r]
           ls == [p.large EXCEPT ![k] = h]
           q == [p EXCEPT !.large = ls]
<1>1. p.large \in Seq(Headers)
  BY DEF Pools
<1>2. \A i \in DOMAIN p.large : p.large[i] \in Headers
  BY <1>1
<1>3. h \in Headers /\ h.at = p.large[k].at /\ h.alloc = r
  BY <1>2 DEF Headers
<1>4. Stored(p, k, r) = q
  BY DEF Stored, Pools
<1> HIDE DEF h
<1>5. /\ ls \in Seq(Headers) /\ DOMAIN ls = DOMAIN p.large
      /\ \A i \in DOMAIN p.large : ls[i] = IF i = k THEN h ELSE p.large[i]
  BY <1>1, <1>3
<1> HIDE DEF ls
<1>6. /\ q \in Pools
      /\ q.psize = p.psize /\ q.max = p.max /\ q.blocks = p.blocks /\ q.current = p.current
      /\ q.cleanup = p.cleanup /\ q.regions = p.regions
      /\ q.live = p.live /\ q.made = p.made /\ q.wild = p.wild
      /\ q.large = ls
  BY <1>5 DEF Pools
<1> HIDE DEF q
<1>7. \A i \in DOMAIN p.large :
        /\ ls[i].at = p.large[i].at
        /\ ls[i].alloc = IF i = k THEN r ELSE p.large[i].alloc
  BY <1>3, <1>5
<1> QED BY <1>4, <1>5, <1>6, <1>7

(* A header that has nothing gets what the call holds.                      *)
LEMMA StoredGood ==
  ASSUME NEW p \in Pools, NEW E, NEW k \in DOMAIN p.large, p.large[k].alloc = NULL,
         NEW r \in Regions, Good(p, E \cup {r.id}), r.id \notin E, r # NULL
  PROVE  Stored(p, k, r) \in Pools /\ Good(Stored(p, k, r), E) /\ Grown(p, Stored(p, k, r))
<1> DEFINE q == Stored(p, k, r)
<1>1. /\ q \in Pools
      /\ q.psize = p.psize /\ q.max = p.max /\ q.blocks = p.blocks /\ q.current = p.current
      /\ q.cleanup = p.cleanup /\ q.regions = p.regions
      /\ q.live = p.live /\ q.made = p.made /\ q.wild = p.wild
      /\ DOMAIN q.large = DOMAIN p.large
      /\ \A i \in DOMAIN p.large :
           /\ q.large[i].at = p.large[i].at
           /\ q.large[i].alloc = IF i = k THEN r ELSE p.large[i].alloc
  BY StoredFields
<1> HIDE DEF q
<1>2. Owned(p, E \cup {r.id}) /\ Single(p) /\ Linked(p)
  BY DEF Good
<1>3. r.id \notin Larges(p)
  BY <1>2 DEF Owned
<1>4. \A y : y \in Larges(q) <=> \E i \in DOMAIN p.large : q.large[i].alloc # NULL /\ y = q.large[i].alloc.id
  <2> TAKE y
  <2>2. y \in Larges(q) <=> \E i \in DOMAIN q.large : q.large[i].alloc # NULL /\ y = q.large[i].alloc.id
    BY InLarges
  <2> QED BY <1>1, <2>2
<1>5. \A y : y \in Larges(p) <=> \E i \in DOMAIN p.large : p.large[i].alloc # NULL /\ y = p.large[i].alloc.id
  BY InLarges
<1>6. Larges(q) = Larges(p) \cup {r.id}
  <2>1. ASSUME NEW y \in Larges(q) PROVE y \in Larges(p) \cup {r.id}
    BY <1>1, <1>4, <1>5
  <2>2. ASSUME NEW y \in Larges(p) PROVE y \in Larges(q)
    <3>1. PICK i \in DOMAIN p.large : p.large[i].alloc # NULL /\ y = p.large[i].alloc.id
      BY <1>5
    <3>2. i # k
      BY <3>1
    <3> QED BY <3>1, <3>2, <1>1, <1>4
  <2>3. r.id \in Larges(q)
    BY <1>1, <1>4
  <2> QED BY <2>1, <2>2, <2>3
<1>7. Single(q)
  <2> SUFFICES ASSUME NEW i \in DOMAIN p.large, NEW j \in DOMAIN p.large, i # j,
                      q.large[i].alloc # NULL, q.large[j].alloc # NULL
               PROVE  q.large[i].alloc.id # q.large[j].alloc.id
    BY <1>1 DEF Single
  <2>1. CASE i = k
    BY <2>1, <1>1, <1>3, <1>5
  <2>2. CASE j = k
    BY <2>2, <1>1, <1>3, <1>5
  <2>3. CASE i # k /\ j # k
    BY <2>3, <1>1, <1>2 DEF Single
  <2> QED BY <2>1, <2>2, <2>3
<1>8. Linked(q)
  BY <1>1, <1>2 DEF Linked
<1>9. /\ q.live = BlockIds(p) \cup Larges(q) \cup E
      /\ BlockIds(p) \cap Larges(q) = {} /\ E \cap (BlockIds(p) \cup Larges(q)) = {}
  BY <1>1, <1>2, <1>6 DEF Owned
<1>10. Good(q, E)
  BY <1>1, <1>7, <1>8, <1>9, LargesGood
<1> QED BY <1>1, <1>10 DEF Grown, q

(* What an allocation promises: the pool is good again, and so is all that  *)
(* was handed out before.                                                   *)
Kind(p, q) == q \in Pools /\ Good(q, {}) /\ Grown(p, q)

LEMMA PushServes ==
  ASSUME NEW p \in Pools, NEW r \in Regions, Good(p, {r.id}), r # NULL, r.id >= 1
  PROVE  Kind(p, PushLarge(p, r).pool)
<1> DEFINE h == ngx_palloc_small(p, SIZEOF_LARGE, TRUE)
<1>1. SIZEOF_LARGE \in Nat /\ SIZEOF_POOL + SIZEOF_LARGE <= p.psize
  <2>1. p.psize >= NGX_MIN_POOL_SIZE /\ p.psize \in Nat
    BY DEF Good, Sized, Pools
  <2> QED BY <2>1 DEF SIZEOF_LARGE, SIZEOF_POOL, NGX_MIN_POOL_SIZE
<1>2. Serves(p, {r.id}, h)
  BY <1>1, SmallServes
<1>3. {r.id} = {} \cup {r.id} /\ r.id \notin {}
  OBVIOUS
<1> HIDE DEF h
<1>4. CASE h.at = NULL
  <2>1. h.pool = p
    BY <1>2, <1>4 DEF Serves
  <2>2. PushLarge(p, r) = Answer(Free(h.pool, r), NULL)
    BY <1>4 DEF PushLarge, h
  <2>3. PushLarge(p, r).pool = Free(p, r)
    BY <2>1, <2>2 DEF Answer
  <2>4. Free(p, r) \in Pools /\ Good(Free(p, r), {}) /\ Grown(p, Free(p, r))
    BY <1>3, FreeGood
  <2> QED BY <2>3, <2>4 DEF Kind
<1>5. CASE h.at # NULL
  <2>1. /\ h.at \in Regions /\ h.at \in h.pool.regions
        /\ h.pool \in Pools /\ Good(h.pool, {r.id}) /\ Grown(p, h.pool) /\ h.pool.large = p.large
    BY <1>2, <1>5 DEF Serves
  <2>2. PushLarge(p, r) = Answer(Pushed(h.pool, h.at, r), r)
    BY <1>5 DEF PushLarge, Pushed, h
  <2>3. PushLarge(p, r).pool = Pushed(h.pool, h.at, r)
    BY <2>2 DEF Answer
  <2>4. /\ Pushed(h.pool, h.at, r) \in Pools /\ Good(Pushed(h.pool, h.at, r), {})
        /\ Grown(h.pool, Pushed(h.pool, h.at, r))
    BY <2>1, <1>3, PushedGood
  <2> QED BY <2>1, <2>3, <2>4, GrownTwice DEF Kind
<1> QED BY <1>4, <1>5

LEMMA LargeServes ==
  ASSUME NEW p \in Pools, NEW size \in Nat, Good(p, {})
  PROVE  Kind(p, ngx_palloc_large(p, size).pool)
<1> DEFINE a == ngx_alloc(p, size)
           free == {i \in 1 .. Min({Len(p.large), MaxProbe + 2}) : p.large[i].alloc = NULL}
<1>1. p.large \in Seq(Headers) /\ Len(p.large) \in Nat /\ DOMAIN p.large = 1 .. Len(p.large) /\ p.budget \in Nat
  BY DEF Pools
<1>2. CASE p.budget = 0
  <2>1. a.at = NULL /\ a.pool = p
    BY <1>2, MallocFails
  <2>2. ngx_palloc_large(p, size) = a
    BY <2>1, Zenon DEF ngx_palloc_large
  <2>3. Grown(p, p)
    BY DEF Grown
  <2> QED BY <2>1, <2>2, <2>3 DEF Kind
<1>3. CASE p.budget # 0
  <2>0. {} \cup {a.at.id} = {a.at.id} /\ a.at.id \notin {}
    OBVIOUS
  <2>1. /\ Good(a.pool, {} \cup {a.at.id}) /\ a.pool \in Pools /\ Grown(p, a.pool)
        /\ a.pool.large = p.large
        /\ a.at \in Regions /\ a.at # NULL /\ a.at.id >= 1
    BY <1>3, MallocGood
  <2>2. CASE free # {}
    <3> DEFINE k == Min(free)
    <3>1. ngx_palloc_large(p, size) = Answer(Stored(a.pool, k, a.at), a.at)
      BY <2>1, <2>2, Zenon DEF ngx_palloc_large, Stored
    <3>2. ngx_palloc_large(p, size).pool = Stored(a.pool, k, a.at)
      BY <3>1 DEF Answer
    <3>3. free \in SUBSET (DOMAIN p.large) /\ free \in SUBSET Nat
      <4>1. MaxProbe + 2 \in Int
        BY SizesAssumption
      <4>2. Min({Len(p.large), MaxProbe + 2}) \in Int /\ Min({Len(p.large), MaxProbe + 2}) <= Len(p.large)
        <5> DEFINE x == Len(p.large)
                   y == MaxProbe + 2
        <5>1. x \in Int /\ y \in Int
          BY <4>1, <1>1
        <5> HIDE DEF x, y
        <5>2. Min({x, y}) \in {x, y} /\ Min({x, y}) <= x
          BY <5>1, MinOfTwo
        <5>3. Min({x, y}) \in Int
          BY <5>1, <5>2
        <5> QED BY <5>2, <5>3 DEF x, y
      <4> QED BY <4>2, <1>1
    <3>4. k \in free
      <4> HIDE DEF free
      <4> QED BY <2>2, <3>3, MinIn
    <3>5. k \in DOMAIN p.large /\ p.large[k].alloc = NULL
      BY <3>3, <3>4
    <3> HIDE DEF k, free, a
    <3>6. /\ Stored(a.pool, k, a.at) \in Pools /\ Good(Stored(a.pool, k, a.at), {})
          /\ Grown(a.pool, Stored(a.pool, k, a.at))
      BY <2>0, <2>1, <3>5, StoredGood
    <3> QED BY <2>1, <3>2, <3>6, GrownTwice DEF Kind
  <2>3. CASE free = {}
    <3>1. ngx_palloc_large(p, size) = PushLarge(a.pool, a.at)
      BY <2>1, <2>3, Zenon DEF ngx_palloc_large
    <3> HIDE DEF free, a
    <3>2. Kind(a.pool, PushLarge(a.pool, a.at).pool)
      BY <2>0, <2>1, PushServes
    <3> QED BY <2>1, <3>1, <3>2, GrownTwice DEF Kind
  <2> QED BY <2>2, <2>3
<1> QED BY <1>2, <1>3

(* palloc, and what it answers when the request is served from a block.     *)
LEMMA PallocServes ==
  ASSUME NEW p \in Pools, NEW size \in Nat, Good(p, {}), NEW align \in BOOLEAN
  PROVE  /\ Kind(p, palloc(p, size, align).pool)
         /\ size <= p.max => Serves(p, {}, palloc(p, size, align))
<1>1. CASE size <= p.max
  <2>1. SIZEOF_POOL + size <= p.psize
    <3>1. p.max <= p.psize - SIZEOF_POOL /\ p.max \in Nat /\ p.psize \in Nat
      BY DEF Good, Sized, Pools
    <3> QED BY <1>1, <3>1 DEF SIZEOF_POOL
  <2>2. palloc(p, size, align) = ngx_palloc_small(p, size, align)
    BY <1>1 DEF palloc
  <2>3. Serves(p, {}, ngx_palloc_small(p, size, align))
    BY <2>1, SmallServes
  <2>4. Grown(p, p)
    BY DEF Grown
  <2> QED BY <2>2, <2>3, <2>4 DEF Serves, Kind
<1>2. CASE ~(size <= p.max)
  BY <1>2, LargeServes DEF palloc
<1> QED BY <1>1, <1>2

-----------------------------------------------------------------------------
(* The calls                                                                *)

Budgeted(p, b) == [p EXCEPT !.budget = b]

LEMMA BudgetedKind ==
  ASSUME NEW p \in Pools, NEW b \in Nat
  PROVE  /\ Budgeted(p, b) \in Pools
         /\ Budgeted(p, b).max = p.max
         /\ Budgeted(p, b).cleanup = p.cleanup /\ Budgeted(p, b).regions = p.regions
         /\ Grown(p, Budgeted(p, b))
         /\ Good(p, {}) => Good(Budgeted(p, b), {})
<1> DEFINE q == Budgeted(p, b)
<1>1. /\ q \in Pools
      /\ q.psize = p.psize /\ q.max = p.max /\ q.blocks = p.blocks /\ q.current = p.current
      /\ q.large = p.large
      /\ q.cleanup = p.cleanup /\ q.regions = p.regions
      /\ q.live = p.live /\ q.made = p.made /\ q.wild = p.wild
  BY DEF Pools, Budgeted
<1> HIDE DEF q
<1>2. Grown(p, q)
  BY <1>1 DEF Grown
<1>3. ASSUME Good(p, {}) PROVE Good(q, {})
  <2>1. BlockIds(q) = BlockIds(p) /\ Larges(q) = Larges(p)
    BY <1>1 DEF BlockIds, Larges
  <2>2. Sized(q) /\ Single(q) /\ Linked(q) /\ Placed(q) /\ Blocked(q)
    BY <1>1, <1>3 DEF Good, Sized, Single, Linked, Placed, Blocked, Within
  <2>3. Owned(q, {})
    BY <1>1, <1>3, <2>1 DEF Good, Owned
  <2> QED BY <2>2, <2>3 DEF Good
<1> QED BY <1>1, <1>2, <1>3 DEF q

LEMMA KindTwice ==
  ASSUME NEW p, NEW q, NEW r, Kind(p, q), Kind(q, r) PROVE Kind(p, r)
BY GrownTwice DEF Kind

(* A pool that has only grown keeps the cleanup list and all it needs.      *)
LEMMA UpStep ==
  ASSUME IInv, phase = "up", Kind(pool, pool'), UNCHANGED <<phase, closed, recycled>>
  PROVE  IInv'
<1>1. pool'.cleanup = pool.cleanup /\ pool.regions \subseteq pool'.regions /\ pool' \in Pools /\ Good(pool', {})
  BY DEF Kind, Grown
<1>2. Closing /\ (~recycled => Kept(pool))
  BY DEF IInv, ByPhase
<1>3. Closing' /\ (~recycled => Kept(pool'))
  BY <1>1, <1>2 DEF Closing, Kept
<1>4. Typed'
  BY <1>1 DEF IInv, Typed
<1> QED BY <1>1, <1>3, <1>4 DEF IInv, ByPhase

LEMMA Allocates ==
  ASSUME IInv, phase = "up", NEW b \in Budgets, NEW size \in Nat, NEW align \in BOOLEAN,
         Becomes(palloc(With(b), size, align).pool), UNCHANGED <<phase, closed, recycled>>
  PROVE  IInv'
<1> DEFINE p == Budgeted(pool, b)
           q == palloc(p, size, align).pool
<1>0. pool \in Pools /\ Good(pool, {}) /\ b \in Nat /\ 0 \in Nat
  BY DEF IInv, Typed, ByPhase, Budgets
<1>1. p = With(b)
  BY DEF With, Budgeted
<1>2. Kind(pool, p)
  BY <1>0, BudgetedKind DEF Kind
<1> HIDE DEF p
<1>3. Kind(p, q)
  BY <1>2, PallocServes DEF Kind
<1>4. pool' = Budgeted(q, 0)
  BY <1>1 DEF Becomes, Budgeted
<1> HIDE DEF q
<1>5. Kind(q, pool')
  BY <1>0, <1>3, <1>4, BudgetedKind DEF Kind
<1>6. Kind(pool, pool')
  BY <1>2, <1>3, <1>5, KindTwice
<1> QED BY <1>6, UpStep

LEMMA MemAligns ==
  ASSUME IInv, NEW size \in Nat, ngx_pmemalign(size)
  PROVE  IInv'
<1>1. PICK b \in Budgets :
        LET a == ngx_alloc(With(b), size)
        IN  Becomes(IF a.at = NULL THEN a.pool ELSE PushLarge(a.pool, a.at).pool)
  BY DEF ngx_pmemalign
<1> DEFINE p == Budgeted(pool, b)
           a == ngx_alloc(p, size)
           q == IF a.at = NULL THEN a.pool ELSE PushLarge(a.pool, a.at).pool
<1>0. phase = "up" /\ pool \in Pools /\ Good(pool, {}) /\ b \in Nat /\ 0 \in Nat
      /\ UNCHANGED <<phase, closed, recycled>>
  BY <1>1 DEF ngx_pmemalign, Call, IInv, Typed, ByPhase, Budgets
<1>2. p = With(b)
  BY DEF With, Budgeted
<1>3. Kind(pool, p)
  BY <1>0, BudgetedKind DEF Kind
<1>4. pool' = Budgeted(q, 0)
  BY <1>1, <1>2, Zenon DEF Becomes, Budgeted
<1> HIDE DEF p
<1>5. Kind(p, q)
  <2>0. p \in Pools /\ Good(p, {}) /\ Grown(p, p) /\ p.budget \in Nat
    BY <1>3 DEF Kind, Pools, Grown
  <2>1. CASE p.budget = 0
    <3>1. a.at = NULL /\ a.pool = p
      BY <2>0, <2>1, MallocFails
    <3> QED BY <3>1, <2>0 DEF Kind
  <2>2. CASE p.budget # 0
    <3>0. {} \cup {a.at.id} = {a.at.id}
      OBVIOUS
    <3>1. /\ Good(a.pool, {} \cup {a.at.id}) /\ a.pool \in Pools /\ Grown(p, a.pool)
          /\ a.at \in Regions /\ a.at # NULL /\ a.at.id >= 1
      BY <2>0, <2>2, MallocGood
    <3>2. q = PushLarge(a.pool, a.at).pool
      BY <3>1
    <3> HIDE DEF a, q
    <3>3. Kind(a.pool, PushLarge(a.pool, a.at).pool)
      BY <3>0, <3>1, PushServes
    <3> QED BY <3>1, <3>2, <3>3, GrownTwice DEF Kind
  <2> QED BY <2>1, <2>2
<1> HIDE DEF q
<1>6. Kind(q, pool')
  BY <1>0, <1>4, <1>5, BudgetedKind DEF Kind
<1>7. Kind(pool, pool')
  BY <1>3, <1>5, <1>6, KindTwice
<1> QED BY <1>0, <1>7, UpStep

(* The memory of a header is given back and the header is free for use.     *)
LEMMA ReleasedGood ==
  ASSUME NEW p \in Pools, Good(p, {}), NEW k \in DOMAIN p.large, NEW r \in Regions, p.large[k].alloc = r
  PROVE  Kind(p, Stored(Free(p, r), k, NULL))
<1> DEFINE ids == {r.id} \ {NULL.id}
           f == FreeAll(p, ids)
           q == Stored(f, k, NULL)
<1>0. NULL \in Regions /\ NULL.id = 0 /\ r.id \in Nat
  BY DEF NULL, Region, Regions
<1>1. Free(p, r) = f
  BY DEF Free
<1> HIDE DEF ids
<1>2. /\ f \in Pools
      /\ f.psize = p.psize /\ f.max = p.max /\ f.blocks = p.blocks /\ f.current = p.current
      /\ f.large = p.large /\ f.cleanup = p.cleanup /\ f.regions = p.regions
      /\ f.live = p.live \ ids /\ f.made = p.made
      /\ f.wild = (p.wild \/ ~(ids \subseteq p.live))
  BY FreeAllFields
<1> HIDE DEF f
<1>3. k \in DOMAIN f.large
  BY <1>2
<1>4. /\ q \in Pools
      /\ q.psize = f.psize /\ q.max = f.max /\ q.blocks = f.blocks /\ q.current = f.current
      /\ q.cleanup = f.cleanup /\ q.regions = f.regions
      /\ q.live = f.live /\ q.made = f.made /\ q.wild = f.wild
      /\ DOMAIN q.large = DOMAIN f.large
      /\ \A i \in DOMAIN f.large :
           /\ q.large[i].at = f.large[i].at
           /\ q.large[i].alloc = IF i = k THEN NULL ELSE f.large[i].alloc
  BY <1>0, <1>2, <1>3, StoredFields
<1> HIDE DEF q
<1>5. Owned(p, {}) /\ Single(p) /\ Linked(p)
  BY DEF Good
<1>6. \A y : y \in Larges(p) <=> \E i \in DOMAIN p.large : p.large[i].alloc # NULL /\ y = p.large[i].alloc.id
  BY InLarges
<1>7. \A y : y \in Larges(q) <=> \E i \in DOMAIN p.large : q.large[i].alloc # NULL /\ y = q.large[i].alloc.id
  <2> TAKE y
  <2>2. y \in Larges(q) <=> \E i \in DOMAIN q.large : q.large[i].alloc # NULL /\ y = q.large[i].alloc.id
    BY InLarges
  <2> QED BY <1>2, <1>4, <2>2
<1>8. \A i \in DOMAIN p.large : q.large[i].alloc = IF i = k THEN NULL ELSE p.large[i].alloc
  BY <1>2, <1>4
<1>9. Larges(q) = Larges(p) \ ids /\ ids \subseteq Larges(p)
  <2>1. CASE r = NULL
    <3>1. ids = {}
      BY <2>1 DEF ids
    <3>2. \A i \in DOMAIN p.large : q.large[i].alloc = p.large[i].alloc
      BY <1>8, <2>1
    <3>3. \A y : y \in Larges(q) <=> y \in Larges(p)
      BY <3>2, <1>6, <1>7
    <3> QED BY <3>1, <3>3
  <2>2. CASE r # NULL
    <3>1. r.id \in Larges(p)
      BY <2>2, <1>6
    <3>2. r.id >= 1
      BY <3>1, <1>5 DEF Owned
    <3>3. ids = {r.id}
      BY <3>2, <1>0 DEF ids
    <3>4. ASSUME NEW y \in Larges(q) PROVE y \in Larges(p) /\ y # r.id
      <4>1. PICK i \in DOMAIN p.large : q.large[i].alloc # NULL /\ y = q.large[i].alloc.id
        BY <1>7
      <4>2. i # k /\ p.large[i].alloc # NULL /\ y = p.large[i].alloc.id
        BY <4>1, <1>8
      <4> QED BY <4>2, <2>2, <1>5, <1>6 DEF Single
    <3>5. ASSUME NEW y \in Larges(p), y # r.id PROVE y \in Larges(q)
      <4>1. PICK i \in DOMAIN p.large : p.large[i].alloc # NULL /\ y = p.large[i].alloc.id
        BY <1>6
      <4>2. i # k
        BY <3>5, <4>1
      <4> QED BY <4>1, <4>2, <1>7, <1>8
    <3> QED BY <3>1, <3>3, <3>4, <3>5
  <2> QED BY <2>1, <2>2
<1>10. ~f.wild
  BY <1>2, <1>5, <1>9 DEF Owned
<1>11. Single(q) /\ Linked(q)
  BY <1>2, <1>4, <1>5 DEF Single, Linked
<1>12. /\ q.live = BlockIds(p) \cup Larges(q) \cup {} /\ q.live \subseteq p.live
       /\ BlockIds(p) \cap Larges(q) = {} /\ {} \cap (BlockIds(p) \cup Larges(q)) = {}
  BY <1>2, <1>4, <1>5, <1>9 DEF Owned
<1>13. ~p.wild /\ p.wild \in BOOLEAN /\ q.wild \in BOOLEAN
  BY <1>4, <1>5 DEF Owned, Pools
<1>14. q.wild = p.wild
  BY <1>4, <1>10, <1>13
<1>15. Good(q, {})
  BY <1>2, <1>4, <1>11, <1>12, <1>14, LargesGood
<1> QED BY <1>1, <1>2, <1>4, <1>15 DEF Grown, Kind, q

LEMMA PFrees ==
  ASSUME IInv, NEW r \in Held, ngx_pfree(r)
  PROVE  IInv'
<1> DEFINE of == {i \in DOMAIN pool.large : pool.large[i].alloc = r}
<1>0. phase = "up" /\ pool \in Pools /\ Good(pool, {}) /\ UNCHANGED <<phase, closed, recycled>>
  BY DEF ngx_pfree, Call, IInv, Typed, ByPhase
<1>1. CASE of = {}
  <2>1. pool' = pool
    BY <1>1, Zenon DEF ngx_pfree
  <2>2. Kind(pool, pool')
    BY <2>1, <1>0 DEF Kind, Grown
  <2> QED BY <1>0, <2>2, UpStep
<1>2. CASE of # {}
  <2>1. pool' = Stored(Free(pool, r), Min(of), NULL)
    BY <1>2, Zenon DEF ngx_pfree, Stored
  <2>2. pool.large \in Seq(Headers)
    BY <1>0 DEF Pools
  <2>3. of \in SUBSET Nat
    BY <2>2
  <2>4. Min(of) \in of
    <3> HIDE DEF of
    <3> QED BY <1>2, <2>3, MinIn
  <2>5. Min(of) \in DOMAIN pool.large /\ pool.large[Min(of)].alloc = r
    BY <2>4
  <2> HIDE DEF of
  <2>6. r \in Regions
    <3>1. pool.large[Min(of)] \in Headers
      BY <2>2, <2>5
    <3> QED BY <3>1, <2>5 DEF Headers
  <2>7. Kind(pool, Stored(Free(pool, r), Min(of), NULL))
    BY <1>0, <2>5, <2>6, ReleasedGood
  <2> QED BY <1>0, <2>1, <2>7, UpStep
<1> QED BY <1>1, <1>2

-----------------------------------------------------------------------------
(* Cleanup records                                                          *)

Listed(p, cs) == [p EXCEPT !.cleanup = cs]

LEMMA ListedGood ==
  ASSUME NEW p \in Pools, Good(p, {}), NEW cs \in Seq(Records)
  PROVE  LET q == Listed(p, cs)
         IN  /\ q \in Pools /\ Good(q, {}) /\ q.cleanup = cs /\ q.regions = p.regions
             /\ q.live = p.live /\ q.wild = p.wild
<1> DEFINE q == Listed(p, cs)
<1>1. /\ q \in Pools
      /\ q.psize = p.psize /\ q.max = p.max /\ q.blocks = p.blocks /\ q.current = p.current
      /\ q.large = p.large
      /\ q.cleanup = cs /\ q.regions = p.regions
      /\ q.live = p.live /\ q.made = p.made /\ q.wild = p.wild
  BY DEF Pools, Listed
<1> HIDE DEF q
<1>2. BlockIds(q) = BlockIds(p) /\ Larges(q) = Larges(p)
  BY <1>1 DEF BlockIds, Larges
<1>3. Sized(q) /\ Single(q) /\ Linked(q) /\ Placed(q) /\ Blocked(q)
  BY <1>1 DEF Good, Sized, Single, Linked, Placed, Blocked, Within
<1>4. Owned(q, {})
  BY <1>1, <1>2 DEF Good, Owned
<1> QED BY <1>1, <1>3, <1>4 DEF Good, q

(* The record of a file not yet registered goes to the front of the list.   *)
LEMMA RecordStep ==
  ASSUME IInv, phase = "up", NEW f \in Files, NEW h \in {"close", "delete"}, NEW at \in Regions, NEW data \in Regions,
         \A i \in DOMAIN pool.cleanup : pool.cleanup[i].fd # f, closed[f] = 0,
         pool' \in Pools, Good(pool', {}), pool.regions \subseteq pool'.regions,
         at \in pool'.regions, data \in pool'.regions,
         pool'.cleanup = <<[at |-> at, data |-> data, handler |-> h, fd |-> f]>> \o pool.cleanup,
         UNCHANGED <<phase, closed, recycled>>
  PROVE  IInv'
<1> DEFINE rec == [at |-> at, data |-> data, handler |-> h, fd |-> f]
           cs == pool.cleanup
           n == Len(cs)
<1>1. cs \in Seq(Records) /\ n \in Nat /\ DOMAIN cs = 1 .. n
  BY DEF IInv, Typed, Pools
<1>2. rec \in Records /\ rec.at = at /\ rec.data = data /\ rec.handler = h /\ rec.fd = f
  BY DEF Records
<1>3. pool'.cleanup = <<rec>> \o cs
  OBVIOUS
<1> HIDE DEF rec
<1>4. DOMAIN pool'.cleanup = 1 .. n + 1 /\ pool'.cleanup[1] = rec
      /\ \A i \in 2 .. n + 1 : pool'.cleanup[i] = cs[i - 1]
  <2>1. <<rec>> \in Seq(Records) /\ Len(<<rec>>) = 1 /\ <<rec>>[1] = rec
    BY <1>2
  <2> DEFINE ls == <<rec>> \o cs
  <2>2. Len(ls) = 1 + n /\ ls \in Seq(Records)
        /\ \A i \in 1 .. Len(ls) : ls[i] = IF i <= 1 THEN <<rec>>[i] ELSE cs[i - 1]
    BY <1>1, <2>1, ConcatProperties
  <2> HIDE DEF ls
  <2>3. DOMAIN ls = 1 .. n + 1 /\ ls[1] = rec /\ \A i \in 2 .. n + 1 : ls[i] = cs[i - 1]
    BY <1>1, <2>1, <2>2
  <2> QED BY <1>3, <2>3 DEF ls
<1>5. Closing /\ (~recycled => Kept(pool))
  BY DEF IInv, ByPhase
<1> HIDE DEF n
<1>6. ASSUME NEW i \in 1 .. n + 1, i # 1
      PROVE  i - 1 \in 1 .. n /\ pool'.cleanup[i] = cs[i - 1]
  BY <1>1, <1>4, <1>6
<1>f. ASSUME NEW i \in 1 .. n + 1, i # 1 PROVE pool'.cleanup[i].fd # f
  <2>1. i - 1 \in DOMAIN pool.cleanup /\ pool'.cleanup[i] = pool.cleanup[i - 1]
    BY <1>1, <1>6, <1>f
  <2> QED BY <2>1
<1>g. pool'.cleanup[1].fd = f /\ pool'.cleanup[1].handler = h
  BY <1>2, <1>4
<1>7. ASSUME NEW i \in 1 .. n + 1, NEW k \in 1 .. n + 1, i # k
      PROVE  pool'.cleanup[i].fd # pool'.cleanup[k].fd
  <2>1. CASE i = 1
    BY <1>7, <2>1, <1>f, <1>g
  <2>2. CASE k = 1
    BY <1>7, <2>2, <1>f, <1>g
  <2>3. CASE i # 1 /\ k # 1
    <3>1. i - 1 \in DOMAIN pool.cleanup /\ pool'.cleanup[i] = pool.cleanup[i - 1]
      BY <2>3, <1>1, <1>6
    <3>2. k - 1 \in DOMAIN pool.cleanup /\ pool'.cleanup[k] = pool.cleanup[k - 1]
      BY <2>3, <1>1, <1>6
    <3>3. i - 1 # k - 1
      BY <1>7, <1>1
    <3> QED BY <3>1, <3>2, <3>3, <1>5 DEF Closing
  <2> QED BY <2>1, <2>2, <2>3
<1>8. ASSUME NEW i \in 1 .. n + 1
      PROVE  closed'[pool'.cleanup[i].fd] = (IF pool'.cleanup[i].handler = "none" THEN 1 ELSE 0)
  <2>1. CASE i = 1
    BY <2>1, <1>g
  <2>2. CASE i # 1
    <3>1. i - 1 \in DOMAIN pool.cleanup /\ pool'.cleanup[i] = pool.cleanup[i - 1]
      BY <2>2, <1>1, <1>6
    <3> QED BY <3>1, <1>5 DEF Closing
  <2> QED BY <2>1, <2>2
<1>9. Closing'
  BY <1>4, <1>7, <1>8 DEF Closing
<1>10. ~recycled' => Kept(pool')
  <2> SUFFICES ASSUME ~recycled, NEW i \in 1 .. n + 1
               PROVE  pool'.cleanup[i].at \in pool'.regions /\ pool'.cleanup[i].data \in pool'.regions
    BY <1>4 DEF Kept
  <2>1. CASE i = 1
    BY <2>1, <1>2, <1>4
  <2>2. CASE i # 1
    BY <2>2, <1>1, <1>5, <1>6 DEF Kept
  <2> QED BY <2>1, <2>2
<1>11. Typed'
  BY DEF IInv, Typed
<1> QED BY <1>9, <1>10, <1>11 DEF IInv, ByPhase

LEMMA CleanupAdds ==
  ASSUME IInv, NEW f \in Files, NEW h \in {"close", "delete"}, ngx_pool_cleanup_add(f, h)
  PROVE  IInv'
<1>1. PICK b \in Budgets :
         LET c == palloc(With(b), SIZEOF_CLEANUP, TRUE)
             d == palloc(c.pool, SIZEOF_FILE, TRUE)
         IN  Becomes(IF c.at = NULL \/ d.at = NULL THEN (IF c.at = NULL THEN c.pool ELSE d.pool)
                     ELSE [d.pool EXCEPT !.cleanup =
                             <<[at |-> c.at, data |-> d.at, handler |-> h, fd |-> f]>> \o @])
  BY DEF ngx_pool_cleanup_add
<1> DEFINE p == Budgeted(pool, b)
           c == palloc(p, SIZEOF_CLEANUP, TRUE)
           d == palloc(c.pool, SIZEOF_FILE, TRUE)
<1>0. /\ phase = "up" /\ pool \in Pools /\ Good(pool, {}) /\ b \in Nat /\ 0 \in Nat
      /\ UNCHANGED <<phase, closed, recycled>>
      /\ \A i \in DOMAIN pool.cleanup : pool.cleanup[i].fd # f
      /\ closed[f] = 0
  BY <1>1 DEF ngx_pool_cleanup_add, Call, IInv, Typed, ByPhase, Budgets
<1>2. p = With(b)
  BY DEF With, Budgeted
<1>3. Kind(pool, p) /\ p.cleanup = pool.cleanup /\ p.regions = pool.regions /\ p.max = pool.max
  BY <1>0, BudgetedKind DEF Kind
<1> DEFINE rec == [at |-> c.at, data |-> d.at, handler |-> h, fd |-> f]
           q == IF c.at = NULL \/ d.at = NULL THEN (IF c.at = NULL THEN c.pool ELSE d.pool)
                ELSE Listed(d.pool, <<rec>> \o d.pool.cleanup)
<1>4. pool' = Budgeted(q, 0)
  BY <1>1, <1>2, Zenon DEF Becomes, Budgeted, Listed
<1>5. SIZEOF_CLEANUP \in Nat /\ SIZEOF_FILE \in Nat /\ SIZEOF_CLEANUP <= pool.max /\ SIZEOF_FILE <= pool.max
  <2>1. SIZEOF_CLEANUP <= pool.max /\ pool.max \in Nat
    BY <1>0 DEF Good, Sized, Pools
  <2> QED BY <2>1 DEF SIZEOF_CLEANUP, SIZEOF_FILE
<1> HIDE DEF p
<1>6. Kind(p, c.pool) /\ Serves(p, {}, c)
  BY <1>3, <1>5, PallocServes DEF Kind
<1> HIDE DEF c
<1>7. c.pool.max = pool.max
  BY <1>3, <1>6 DEF Kind, Grown
<1>8. Kind(c.pool, d.pool) /\ Serves(c.pool, {}, d)
  BY <1>5, <1>6, <1>7, PallocServes DEF Kind
<1> HIDE DEF d
<1>9. CASE c.at = NULL \/ d.at = NULL
  <2>1. Kind(p, q)
    BY <1>6, <1>8, <1>9, KindTwice
  <2> HIDE DEF q
  <2>2. Kind(q, pool')
    BY <2>1, <1>0, <1>4, BudgetedKind DEF Kind
  <2>3. Kind(pool, pool')
    BY <2>1, <2>2, <1>3, KindTwice
  <2> QED BY <2>3, <1>0, UpStep
<1>10. CASE c.at # NULL /\ d.at # NULL
  <2>1. Kind(pool, d.pool)
    BY <1>3, <1>6, <1>8, KindTwice
  <2>2. /\ c.at \in Regions /\ c.at \in c.pool.regions
        /\ d.at \in Regions /\ d.at \in d.pool.regions
    BY <1>6, <1>8, <1>10 DEF Serves
  <2>3. c.at \in d.pool.regions
    BY <2>2, <1>8 DEF Kind, Grown
  <2>4. d.pool \in Pools /\ Good(d.pool, {}) /\ d.pool.cleanup = pool.cleanup
        /\ pool.regions \subseteq d.pool.regions
    BY <2>1 DEF Kind, Grown
  <2>5. q = Listed(d.pool, <<rec>> \o pool.cleanup)
    BY <1>10, <2>4
  <2>6. rec \in Records
    BY <2>2 DEF Records
  <2> HIDE DEF q, rec
  <2>7. <<rec>> \o pool.cleanup \in Seq(Records)
    <3>1. pool.cleanup \in Seq(Records) /\ <<rec>> \in Seq(Records)
      BY <1>0, <2>6 DEF Pools
    <3> QED BY <3>1, ConcatProperties
  <2> DEFINE cs == <<rec>> \o pool.cleanup
  <2> HIDE DEF cs
  <2>8. q \in Pools /\ Good(q, {}) /\ q.cleanup = cs /\ q.regions = d.pool.regions
    BY <2>4, <2>5, <2>7, ListedGood DEF cs
  <2>9. pool' \in Pools /\ Good(pool', {}) /\ pool'.cleanup = cs /\ pool'.regions = d.pool.regions
    BY <2>8, <1>0, <1>4, BudgetedKind
  <2>10. pool'.cleanup = <<[at |-> c.at, data |-> d.at, handler |-> h, fd |-> f]>> \o pool.cleanup
    BY <2>9, Zenon DEF cs, rec
  <2> QED BY <2>2, <2>3, <2>4, <2>9, <2>10, <1>0, RecordStep
<1> QED BY <1>9, <1>10

(* Records that are still handed out are not overwritten.                   *)
LEMMA KeptSound ==
  ASSUME Placed(pool), Kept(pool)
  PROVE  Sound
BY DEF Sound, Clobbered, Placed, Kept, Meet

LEMMA CrashStep ==
  ASSUME IInv, phase = "up", Crash
  PROVE  IInv'
<1>1. ~Sound /\ phase' = "crashed" /\ UNCHANGED <<pool, closed, recycled>>
  BY DEF Crash, Sound
<1>2. Placed(pool) /\ Owned(pool, {}) /\ (~recycled => Kept(pool))
  BY DEF IInv, ByPhase, Good
<1>3. recycled /\ ~pool.wild
  BY <1>1, <1>2, KeptSound DEF Owned
<1> QED BY <1>1, <1>3 DEF IInv, Typed, ByPhase

LEMMA RunStep ==
  ASSUME IInv, phase = "up", NEW k \in DOMAIN pool.cleanup, pool.cleanup[k].handler # "none",
         RunRecord(k), UNCHANGED <<phase, recycled>>
  PROVE  IInv'
<1> DEFINE rec == [pool.cleanup[k] EXCEPT !.handler = "none"]
           cs == [pool.cleanup EXCEPT ![k] = rec]
<1>0. pool \in Pools /\ Good(pool, {}) /\ pool.cleanup \in Seq(Records) /\ closed \in [Files -> {0, 1}]
      /\ Closing /\ (~recycled => Kept(pool))
  BY DEF IInv, Typed, ByPhase, Pools
<1>1. \A i \in DOMAIN pool.cleanup : pool.cleanup[i] \in Records
  BY <1>0
<1>2. rec \in Records /\ rec.at = pool.cleanup[k].at /\ rec.data = pool.cleanup[k].data
      /\ rec.handler = "none" /\ rec.fd = pool.cleanup[k].fd
  BY <1>1 DEF Records
<1>3. pool' = Listed(pool, cs)
  BY <1>0 DEF RunRecord, Listed, Pools
<1> HIDE DEF rec
<1>4. /\ cs \in Seq(Records) /\ DOMAIN cs = DOMAIN pool.cleanup
      /\ \A i \in DOMAIN pool.cleanup : cs[i] = IF i = k THEN rec ELSE pool.cleanup[i]
  BY <1>0, <1>2
<1> HIDE DEF cs
<1>5. /\ pool' \in Pools /\ Good(pool', {}) /\ pool'.cleanup = cs /\ pool'.regions = pool.regions
  BY <1>0, <1>3, <1>4, ListedGood
<1>6. \A i \in DOMAIN pool.cleanup :
        /\ cs[i].fd = pool.cleanup[i].fd /\ cs[i].at = pool.cleanup[i].at /\ cs[i].data = pool.cleanup[i].data
        /\ cs[i].handler = IF i = k THEN "none" ELSE pool.cleanup[i].handler
  BY <1>2, <1>4
<1>7. \A i \in DOMAIN pool.cleanup : pool.cleanup[i].fd \in Files
  BY <1>1 DEF Records
<1>8. closed[pool.cleanup[k].fd] = 0
  BY <1>0 DEF Closing
<1>9. closed' = [closed EXCEPT ![pool.cleanup[k].fd] = 1]
  BY <1>8 DEF RunRecord
<1>10. closed' \in [Files -> {0, 1}]
  BY <1>0, <1>9
<1>11. ASSUME NEW i \in DOMAIN pool.cleanup
       PROVE  closed'[cs[i].fd] = (IF cs[i].handler = "none" THEN 1 ELSE 0)
  <2>1. CASE i = k
    BY <2>1, <1>0, <1>6, <1>7, <1>9
  <2>2. CASE i # k
    <3>1. pool.cleanup[i].fd # pool.cleanup[k].fd
      BY <2>2, <1>0 DEF Closing
    <3>2. closed'[cs[i].fd] = closed[pool.cleanup[i].fd]
      BY <3>1, <1>0, <1>6, <1>7, <1>9
    <3> QED BY <2>2, <3>2, <1>0, <1>6 DEF Closing
  <2> QED BY <2>1, <2>2
<1>12. Closing'
  BY <1>0, <1>4, <1>5, <1>6, <1>11 DEF Closing
<1>13. ~recycled => Kept(pool')
  BY <1>0, <1>4, <1>5, <1>6 DEF Kept
<1> QED BY <1>5, <1>10, <1>12, <1>13 DEF IInv, Typed, ByPhase

LEMMA RunsCleanup ==
  ASSUME IInv, NEW f \in Files, ngx_pool_run_cleanup_file(f)
  PROVE  IInv'
<1> DEFINE of == {i \in DOMAIN pool.cleanup :
                    pool.cleanup[i].handler = "close" /\ pool.cleanup[i].fd = f}
<1>1. phase = "up"
  BY DEF ngx_pool_run_cleanup_file, Call
<1>2. CASE Crash
  BY <1>1, <1>2, CrashStep
<1>3. CASE of = {} /\ UNCHANGED <<pool, closed, phase, recycled>>
  BY <1>3 DEF IInv, Typed, ByPhase, Closing, Aligned
<1>4. CASE of # {} /\ RunRecord(Min(of)) /\ UNCHANGED <<phase, recycled>>
  <2>1. pool.cleanup \in Seq(Records)
    BY DEF IInv, Typed, Pools
  <2>2. of \in SUBSET Nat
    BY <2>1
  <2>3. Min(of) \in of
    <3> HIDE DEF of
    <3> QED BY <1>4, <2>2, MinIn
  <2>4. Min(of) \in DOMAIN pool.cleanup /\ pool.cleanup[Min(of)].handler # "none"
    BY <2>3
  <2> HIDE DEF of
  <2> QED BY <1>1, <1>4, <2>4, RunStep
<1> QED BY <1>2, <1>3, <1>4, Zenon DEF ngx_pool_run_cleanup_file

(* Reset gives the large memory back and empties every block.               *)
LEMMA ResetGood ==
  ASSUME NEW p \in Pools, Good(p, {})
  PROVE  LET q == Reset(p)
         IN  q \in Pools /\ Good(q, {}) /\ q.cleanup = p.cleanup /\ q.regions = {}
<1> DEFINE f == FreeAll(p, Larges(p))
           bs == [i \in DOMAIN p.blocks |-> [p.blocks[i] EXCEPT !.last = SIZEOF_POOL, !.failed = 0]]
           q == [f EXCEPT !.blocks = bs, !.current = 1, !.regions = {}, !.large = <<>>]
<1>1. /\ f \in Pools
      /\ f.psize = p.psize /\ f.max = p.max /\ f.blocks = p.blocks /\ f.current = p.current
      /\ f.large = p.large /\ f.cleanup = p.cleanup /\ f.regions = p.regions
      /\ f.live = p.live \ Larges(p) /\ f.made = p.made
      /\ f.wild = (p.wild \/ ~(Larges(p) \subseteq p.live))
  BY FreeAllFields
<1>2. Reset(p) = q
  <2>1. f.blocks = p.blocks
    BY <1>1
  <2> QED BY <2>1 DEF Reset
<1> HIDE DEF f
<1>3. p.blocks \in Seq(Blocks) /\ p.psize \in Nat /\ p.made \in Nat /\ p.live \in SUBSET Nat
  BY DEF Pools
<1>4. \A i \in DOMAIN p.blocks : p.blocks[i] \in Blocks
  BY <1>3
<1>5. \A i \in DOMAIN p.blocks :
        bs[i] \in Blocks /\ bs[i].id = p.blocks[i].id /\ bs[i].last = SIZEOF_POOL
  BY <1>4 DEF Blocks, SIZEOF_POOL
<1>6. DOMAIN bs = DOMAIN p.blocks /\ bs \in Seq(Blocks)
  <2>0. DOMAIN bs = DOMAIN p.blocks
    OBVIOUS
  <2>1. bs \in [DOMAIN p.blocks -> Blocks]
    <3>1. \A i \in DOMAIN p.blocks : [p.blocks[i] EXCEPT !.last = SIZEOF_POOL, !.failed = 0] \in Blocks
      BY <1>5
    <3> QED BY <3>1
  <2> HIDE DEF bs
  <2>2. DOMAIN p.blocks = 1 .. Len(p.blocks) /\ Len(p.blocks) \in Nat
    BY <1>3
  <2> QED BY <2>0, <2>1, <2>2
<1> HIDE DEF bs
<1>7. /\ q \in Pools
      /\ q.psize = f.psize /\ q.max = f.max /\ q.blocks = bs /\ q.current = 1
      /\ q.large = <<>> /\ q.cleanup = f.cleanup /\ q.regions = {}
      /\ q.live = f.live /\ q.made = f.made /\ q.wild = f.wild
  <2>1. <<>> \in Seq(Headers)
    BY EmptySeq
  <2> QED BY <1>1, <1>6, <2>1 DEF Pools
<1> HIDE DEF q
<1>8. Sized(p) /\ Blocked(p) /\ Owned(p, {})
  BY DEF Good
<1>9. Sized(q)
  BY <1>1, <1>7, <1>8 DEF Sized
<1>10. Blocked(q)
  <2>1. bs # <<>>
    BY <1>3, <1>6, <1>8 DEF Blocked
  <2>2. SIZEOF_POOL <= p.psize /\ \A i \in DOMAIN p.blocks : SIZEOF_POOL >= FirstByte(i)
    BY <1>3, <1>8 DEF Sized, SIZEOF_POOL, SIZEOF_DATA, FirstByte, NGX_MIN_POOL_SIZE
  <2>3. 1 >= 1
    OBVIOUS
  <2> QED BY <2>1, <2>2, <2>3, <1>1, <1>5, <1>6, <1>7, <1>8 DEF Blocked
<1>11. Placed(q) /\ DOMAIN q.large = {}
  BY <1>7 DEF Placed
<1>12. Single(q) /\ Linked(q) /\ Larges(q) = {}
  BY <1>11 DEF Single, Linked, Larges
<1>13. BlockIds(q) = BlockIds(p)
  BY <1>5, <1>6, <1>7 DEF BlockIds
<1>14. ~q.wild
  BY <1>1, <1>7, <1>8 DEF Owned
<1>15. Owned(q, {})
  BY <1>1, <1>7, <1>8, <1>12, <1>13, <1>14 DEF Owned
<1> QED BY <1>1, <1>2, <1>7, <1>9, <1>10, <1>11, <1>12, <1>15 DEF Good

LEMMA Resets ==
  ASSUME IInv, ngx_reset_pool
  PROVE  IInv'
<1> DEFINE q == Reset(pool)
<1>0. phase = "up" /\ pool \in Pools /\ Good(pool, {}) /\ Closing /\ 0 \in Nat
      /\ UNCHANGED <<phase, closed>> /\ recycled' = (recycled \/ pool.cleanup # <<>>)
  BY DEF ngx_reset_pool, Call, IInv, Typed, ByPhase
<1>1. q \in Pools /\ Good(q, {}) /\ q.cleanup = pool.cleanup /\ q.regions = {}
  BY <1>0, ResetGood
<1>2. pool' = Budgeted(q, 0)
  BY DEF ngx_reset_pool, Becomes, Budgeted
<1> HIDE DEF q
<1>3. pool' \in Pools /\ Good(pool', {}) /\ pool'.cleanup = pool.cleanup
  BY <1>0, <1>1, <1>2, BudgetedKind
<1>4. Closing'
  BY <1>0, <1>3 DEF Closing
<1>5. ~recycled' => Kept(pool')
  <2>1. ASSUME ~recycled' PROVE DOMAIN pool'.cleanup = {}
    <3>1. pool.cleanup = <<>>
      BY <1>0, <2>1, Zenon
    <3> QED BY <3>1, <1>3
  <2> QED BY <2>1 DEF Kept
<1>6. recycled' \in BOOLEAN
  BY <1>0, Zenon
<1> QED BY <1>0, <1>3, <1>4, <1>5, <1>6 DEF IInv, Typed, ByPhase

LEMMA Destroys ==
  ASSUME IInv, ngx_destroy_pool
  PROVE  IInv'
<1>1. phase = "up" /\ pool \in Pools /\ Good(pool, {}) /\ Closing /\ closed \in [Files -> {0, 1}]
      /\ pool.cleanup \in Seq(Records)
  BY DEF ngx_destroy_pool, Call, IInv, Typed, ByPhase, Pools
<1>2. CASE Crash
  BY <1>1, <1>2, CrashStep
<1>3. ASSUME closed' = [f \in Files |->
                closed[f] + Cardinality({i \in DOMAIN pool.cleanup :
                                           pool.cleanup[i].fd = f /\ pool.cleanup[i].handler # "none"})],
             pool' = FreeAll(FreeAll(pool, Larges(pool)), {pool.blocks[i].id : i \in DOMAIN pool.blocks}),
             phase' = "destroyed", UNCHANGED recycled
      PROVE  IInv'
  <2> DEFINE p == FreeAll(pool, Larges(pool))
  <2>1. Owned(pool, {})
    BY <1>1 DEF Good
  <2>2. /\ p \in Pools /\ p.cleanup = pool.cleanup
        /\ p.live = pool.live \ Larges(pool)
        /\ p.wild = (pool.wild \/ ~(Larges(pool) \subseteq pool.live))
    BY <1>1, FreeAllFields
  <2>3. pool' = FreeAll(p, BlockIds(pool))
    BY <1>3 DEF BlockIds
  <2> HIDE DEF p
  <2>4. /\ pool' \in Pools /\ pool'.cleanup = p.cleanup
        /\ pool'.live = p.live \ BlockIds(pool)
        /\ pool'.wild = (p.wild \/ ~(BlockIds(pool) \subseteq p.live))
    BY <2>2, <2>3, FreeAllFields
  <2>5. pool'.live = {}
    BY <2>1, <2>2, <2>4 DEF Owned
  <2>6. ~p.wild
    BY <2>1, <2>2 DEF Owned
  <2>7. BlockIds(pool) \subseteq p.live
    BY <2>1, <2>2 DEF Owned
  <2>8. ~pool'.wild
    BY <2>4, <2>6, <2>7
  <2> DEFINE Due(f) == {i \in DOMAIN pool.cleanup :
                          pool.cleanup[i].fd = f /\ pool.cleanup[i].handler # "none"}
  <2>9. ASSUME NEW i \in DOMAIN pool.cleanup
        PROVE  pool.cleanup[i].fd \in Files /\ closed'[pool.cleanup[i].fd] = 1
    <3> DEFINE f == pool.cleanup[i].fd
    <3>1. f \in Files
      <4>1. pool.cleanup[i] \in Records
        BY <1>1
      <4> QED BY <4>1 DEF Records
    <3>2. closed'[f] = closed[f] + Cardinality(Due(f))
      BY <1>3, <3>1
    <3>3. CASE pool.cleanup[i].handler = "none"
      <4>1. Due(f) = {} /\ closed[f] = 1
        BY <1>1, <3>3 DEF Closing
      <4> HIDE DEF Due
      <4> QED BY <3>1, <3>2, <4>1, FS_EmptySet
    <3>4. CASE pool.cleanup[i].handler # "none"
      <4>1. Due(f) = {i} /\ closed[f] = 0
        BY <1>1, <3>4 DEF Closing
      <4> HIDE DEF Due
      <4> QED BY <3>1, <3>2, <4>1, FS_Singleton
    <3> QED BY <3>3, <3>4
  <2>10. ASSUME NEW f \in Files PROVE closed'[f] \in {0, 1}
    <3>1. CASE \E i \in DOMAIN pool.cleanup : pool.cleanup[i].fd = f
      BY <3>1, <2>9
    <3>2. CASE ~\E i \in DOMAIN pool.cleanup : pool.cleanup[i].fd = f
      <4>1. Due(f) = {}
        BY <3>2
      <4>2. closed'[f] = closed[f] + Cardinality(Due(f))
        BY <1>3
      <4> HIDE DEF Due
      <4> QED BY <1>1, <4>1, <4>2, FS_EmptySet
    <3> QED BY <3>1, <3>2
  <2>11. closed' \in [Files -> {0, 1}]
    BY <2>10, <1>3
  <2>12. recycled' \in BOOLEAN
    BY <1>3 DEF IInv, Typed
  <2>13. \A i \in DOMAIN pool'.cleanup : closed'[pool'.cleanup[i].fd] = 1
    BY <2>2, <2>4, <2>9
  <2>14. phase' = "destroyed"
    BY <1>3
  <2>15. Typed'
    BY <2>4, <2>11, <2>12, <2>14 DEF Typed
  <2> QED BY <2>5, <2>8, <2>13, <2>14, <2>15 DEF IInv, ByPhase
<1> QED BY <1>2, <1>3 DEF ngx_destroy_pool

LEMMA Creates ==
  ASSUME IInv, NEW size \in PoolSizes, ngx_create_pool(size)
  PROVE  IInv'
<1>0. phase = "none" /\ pool = NoPool /\ ~recycled /\ phase' = "up" /\ UNCHANGED <<closed, recycled>>
  BY DEF ngx_create_pool, IInv, ByPhase
<1> DEFINE p == Budgeted(NoPool, 1)
           a == ngx_alloc(p, size)
           m == Min({size - SIZEOF_POOL, NGX_MAX_ALLOC_FROM_POOL})
           new == [id |-> a.at.id, last |-> SIZEOF_POOL, failed |-> 0]
           q == [a.pool EXCEPT !.psize = size, !.max = m, !.blocks = <<new>>]
<1>1. NoPool \in Pools /\ NoPool.made = 0 /\ NoPool.live = {} /\ NoPool.regions = {}
      /\ NoPool.large = <<>> /\ NoPool.cleanup = <<>> /\ NoPool.current = 1 /\ NoPool.wild = FALSE
  <2>1. <<>> \in Seq(Headers) /\ <<>> \in Seq(Blocks) /\ <<>> \in Seq(Records)
    BY EmptySeq
  <2> QED BY <2>1 DEF NoPool, Pools
<1>2. /\ p \in Pools /\ p.made = 0 /\ p.live = {} /\ p.regions = {} /\ p.budget = 1
      /\ p.large = <<>> /\ p.cleanup = <<>> /\ p.current = 1 /\ p.wild = FALSE
  BY <1>1 DEF Pools, Budgeted
<1>3. size \in Nat /\ size >= NGX_MIN_POOL_SIZE
  BY SizesAssumption
<1>4. pool' = Budgeted(q, 0)
  BY <1>0, Zenon DEF ngx_create_pool, Becomes, With, Budgeted
<1> HIDE DEF p
<1>5. /\ a.at.id = 1 /\ a.pool \in Pools /\ a.pool.live = {1} /\ a.pool.regions = {}
      /\ a.pool.large = <<>> /\ a.pool.cleanup = <<>> /\ a.pool.current = 1 /\ a.pool.wild = FALSE
      /\ a.pool.made = 1
  <2>1. /\ a.at.id = p.made + 1
        /\ a.pool \in Pools
        /\ a.pool.current = p.current
        /\ a.pool.large = p.large /\ a.pool.cleanup = p.cleanup /\ a.pool.regions = p.regions
        /\ a.pool.live = p.live \cup {p.made + 1} /\ a.pool.made = p.made + 1 /\ a.pool.wild = p.wild
    BY <1>2, <1>3, MallocFields
  <2> HIDE DEF a
  <2> QED BY <1>2, <2>1
<1> HIDE DEF a
<1>6. m \in Nat /\ m <= size - SIZEOF_POOL /\ SIZEOF_CLEANUP <= m
  <2> DEFINE x == size - SIZEOF_POOL
             y == NGX_MAX_ALLOC_FROM_POOL
  <2>1. x \in Int /\ y \in Int /\ x >= 32 /\ y >= 32
    BY <1>3 DEF SIZEOF_POOL, NGX_MAX_ALLOC_FROM_POOL, NGX_MIN_POOL_SIZE
  <2> HIDE DEF x, y
  <2>2. Min({x, y}) \in {x, y} /\ Min({x, y}) <= x
    BY <2>1, MinOfTwo
  <2>3. m \in {x, y} /\ m <= x
    BY <2>2 DEF x, y
  <2> HIDE DEF m
  <2>4. m \in Nat /\ m >= 32
    BY <2>1, <2>3
  <2> QED BY <2>3, <2>4 DEF x, SIZEOF_CLEANUP
<1> HIDE DEF m
<1>7. new \in Blocks /\ new.id = 1 /\ new.last = SIZEOF_POOL
  BY <1>5 DEF Blocks, SIZEOF_POOL
<1> HIDE DEF new
<1>8. <<new>> \in Seq(Blocks) /\ DOMAIN <<new>> = {1} /\ <<new>>[1] = new /\ <<new>> # <<>>
  BY <1>7
<1> DEFINE bs == <<new>>
<1> HIDE DEF bs
<1>9. /\ q \in Pools
      /\ q.psize = size /\ q.max = m /\ q.blocks = bs /\ q.current = 1
      /\ q.large = <<>> /\ q.cleanup = <<>> /\ q.regions = {}
      /\ q.live = {1} /\ q.made = 1 /\ q.wild = FALSE
  BY <1>3, <1>5, <1>6, <1>8 DEF Pools, bs
<1>10. DOMAIN bs = {1} /\ bs[1].id = 1 /\ bs[1].last = SIZEOF_POOL /\ bs # <<>>
  BY <1>7, <1>8 DEF bs
<1> HIDE DEF q
<1>11. Sized(q)
  BY <1>3, <1>6, <1>9 DEF Sized
<1>12. Blocked(q)
  <2>1. SIZEOF_POOL >= FirstByte(1) /\ SIZEOF_POOL <= size /\ 1 >= 1 /\ 1 <= 1
    BY <1>3 DEF SIZEOF_POOL, FirstByte, NGX_MIN_POOL_SIZE
  <2> QED BY <2>1, <1>9, <1>10 DEF Blocked
<1>13. DOMAIN q.large = {} /\ DOMAIN q.cleanup = {}
  BY <1>9
<1>14. Placed(q) /\ Single(q) /\ Linked(q) /\ Larges(q) = {}
  BY <1>9, <1>13 DEF Placed, Single, Linked, Larges
<1>15. BlockIds(q) = {1}
  BY <1>9, <1>10 DEF BlockIds
<1>16. Owned(q, {})
  BY <1>9, <1>14, <1>15 DEF Owned
<1>17. Good(q, {})
  BY <1>11, <1>12, <1>14, <1>16 DEF Good
<1>18. pool' \in Pools /\ Good(pool', {}) /\ pool'.cleanup = <<>>
  BY <1>4, <1>9, <1>17, BudgetedKind
<1>19. DOMAIN pool'.cleanup = {}
  BY <1>18
<1>20. Closing' /\ Kept(pool')
  BY <1>19 DEF Closing, Kept
<1> QED BY <1>0, <1>18, <1>20 DEF IInv, Typed, ByPhase

(* When the size keeps the alignment no region leaves its block.            *)
LEMMA StaysInside ==
  ASSUME pool \in Pools, Blocked(pool), Placed(pool), Aligned, NEW r \in pool.regions
  PROVE  ~Past(pool, r)
<1>0. pool.blocks \in Seq(Blocks) /\ pool.psize \in Nat /\ pool.regions \subseteq Regions
  BY DEF Pools
<1>1. PICK i \in DOMAIN pool.blocks : Within(pool, r, i)
  BY DEF Placed
<1>2. r.hi <= pool.blocks[i].last /\ pool.blocks[i].last <= pool.psize
  BY <1>1 DEF Within, Blocked, Aligned
<1>3. pool.blocks[i] \in Blocks /\ r \in Regions
  BY <1>0, <1>1
<1>4. pool.blocks[i].last \in Nat /\ r.hi \in Nat
  BY <1>3 DEF Blocks, Regions
<1> QED BY <1>0, <1>2, <1>4 DEF Past

LEMMA Spoils ==
  ASSUME IInv, Spoil
  PROVE  IInv'
<1>1. phase = "up" /\ phase' = "crashed" /\ UNCHANGED <<pool, closed, recycled>>
  BY DEF Spoil
<1>2. pool \in Pools /\ Blocked(pool) /\ Placed(pool) /\ Owned(pool, {})
  BY <1>1 DEF IInv, Typed, ByPhase, Good
<1>3. ~Aligned
  BY <1>2, StaysInside DEF Spoil
<1>4. ~pool.wild
  BY <1>2 DEF Owned
<1> QED BY <1>1, <1>3, <1>4 DEF IInv, Typed, ByPhase, Aligned

-----------------------------------------------------------------------------
(* The theorems                                                             *)

LEMMA InitInv == Init => IInv
<1> SUFFICES ASSUME Init PROVE IInv
  OBVIOUS
<1>1. pool \in Pools
  <2>1. <<>> \in Seq(Headers) /\ <<>> \in Seq(Blocks) /\ <<>> \in Seq(Records)
    BY EmptySeq
  <2> QED BY <2>1 DEF Init, NoPool, Pools
<1> QED BY <1>1 DEF Init, IInv, Typed, ByPhase

LEMMA StepInv == IInv /\ [Next]_vars => IInv'
<1> SUFFICES ASSUME IInv, [Next]_vars PROVE IInv'
  OBVIOUS
<1>0. Requests \subseteq Nat
  BY SizesAssumption
<1>1. ASSUME NEW s \in PoolSizes, ngx_create_pool(s) PROVE IInv'
  BY <1>1, Creates
<1>2. ASSUME NEW s \in Requests, ngx_palloc(s) PROVE IInv'
  <2>1. phase = "up" /\ UNCHANGED <<phase, closed, recycled>>
    BY <1>2 DEF ngx_palloc, Call
  <2>2. PICK b \in Budgets : Becomes(palloc(With(b), s, TRUE).pool)
    BY <1>2 DEF ngx_palloc
  <2> QED BY <1>0, <2>1, <2>2, Allocates
<1>3. ASSUME NEW s \in Requests, ngx_pnalloc(s) PROVE IInv'
  <2>1. phase = "up" /\ UNCHANGED <<phase, closed, recycled>>
    BY <1>3 DEF ngx_pnalloc, Call
  <2>2. PICK b \in Budgets : Becomes(palloc(With(b), s, FALSE).pool)
    BY <1>3 DEF ngx_pnalloc
  <2> QED BY <1>0, <2>1, <2>2, Allocates
<1>4. ASSUME NEW s \in Requests, ngx_pmemalign(s) PROVE IInv'
  BY <1>0, <1>4, MemAligns
<1>5. ASSUME NEW r \in Held, ngx_pfree(r) PROVE IInv'
  BY <1>5, PFrees
<1>6. ASSUME NEW f \in Files, NEW h \in {"close", "delete"}, ngx_pool_cleanup_add(f, h) PROVE IInv'
  BY <1>6, CleanupAdds
<1>7. ASSUME NEW f \in Files, ngx_pool_run_cleanup_file(f) PROVE IInv'
  BY <1>7, RunsCleanup
<1>8. CASE ngx_reset_pool
  BY <1>8, Resets
<1>9. CASE ngx_destroy_pool
  BY <1>9, Destroys
<1>10. CASE Spoil
  BY <1>10, Spoils
<1>11. CASE UNCHANGED vars
  BY <1>11 DEF vars, IInv, Typed, ByPhase, Closing, Aligned
<1> QED
  BY <1>1, <1>2, <1>3, <1>4, <1>5, <1>6, <1>7, <1>8, <1>9, <1>10, <1>11 DEF Next

LEMMA Inductive == Spec => []IInv
BY InitInv, StepInv, PTL DEF Spec

(* Whatever the order of calls and of mallocs that fail, in a pool whose    *)
(* size keeps the alignment every piece of memory ngx_palloc, ngx_pnalloc   *)
(* and the pool's own lists take lies inside its block behind the header    *)
(* and shares no byte with another, and the cleanup records are not         *)
(* overwritten unless ngx_reset_pool was called over them.                  *)
THEOREM NeverOverlap == Spec => []NoOverlap
<1>1. IInv => NoOverlap
  <2> SUFFICES ASSUME IInv, phase = "up", Aligned PROVE NoOverlap
    BY DEF NoOverlap
  <2>1. pool \in Pools /\ Blocked(pool) /\ Placed(pool) /\ Linked(pool) /\ (~recycled => Kept(pool))
    BY DEF IInv, Typed, ByPhase, Good
  <2>2. pool.blocks \in Seq(Blocks)
    BY <2>1 DEF Pools
  <2>3. 1 \in DOMAIN pool.blocks
    BY <2>1, <2>2 DEF Blocked
  <2>4. ASSUME NEW r \in pool.regions
        PROVE  r.lo >= (IF r.id = pool.blocks[1].id THEN SIZEOF_POOL ELSE SIZEOF_DATA)
    <3>1. PICK i \in DOMAIN pool.blocks : Within(pool, r, i)
      BY <2>1 DEF Placed
    <3>2. r.id = pool.blocks[1].id <=> i = 1
      BY <3>1, <2>1, <2>3 DEF Within, Blocked
    <3> QED BY <3>1, <3>2 DEF FirstByte, Within
  <2>5. \A r \in pool.regions : ~Past(pool, r)
    BY <2>1, StaysInside
  <2>6. \A r, s \in pool.regions : r # s => ~Overlap(pool, r, s)
    BY <2>1, <2>5 DEF Overlap, Placed
  <2> QED BY <2>1, <2>4, <2>5, <2>6, KeptSound DEF NoOverlap, Linked
<1> QED BY <1>1, Inductive, PTL

(* Memory from malloc has one owner and is freed once, by ngx_pfree,        *)
(* ngx_reset_pool, ngx_destroy_pool or the call that could not keep it.     *)
THEOREM OneOwner == Spec => []OwnedOnce
<1>1. IInv => OwnedOnce
  <2> SUFFICES ASSUME IInv PROVE OwnedOnce
    OBVIOUS
  <2>1. BlockIds(pool) = {pool.blocks[i].id : i \in DOMAIN pool.blocks}
    BY DEF BlockIds
  <2>2. ~pool.wild
    BY DEF IInv, Typed, ByPhase, NoPool, Good, Owned
  <2>3. ASSUME phase = "up"
        PROVE  /\ pool.live = BlockIds(pool) \cup Larges(pool)
               /\ BlockIds(pool) \cap Larges(pool) = {}
               /\ \A i, k \in DOMAIN pool.large :
                    (i # k /\ pool.large[i].alloc # NULL) => pool.large[i].alloc # pool.large[k].alloc
    <3>1. Owned(pool, {}) /\ Single(pool)
      BY <2>3 DEF IInv, ByPhase, Good
    <3> QED BY <3>1 DEF Owned, Single
  <2>4. phase = "destroyed" => pool.live = {}
    BY DEF IInv, ByPhase
  <2> QED BY <2>1, <2>2, <2>3, <2>4 DEF OwnedOnce
<1> QED BY <1>1, Inductive, PTL

(* A registered file is closed once, by ngx_pool_run_cleanup_file or by     *)
(* ngx_destroy_pool, and only a reset over the records can make the         *)
(* handlers read memory that is no longer theirs.                           *)
THEOREM ClosedExactlyOnce == Spec => []ClosedOnce
<1>1. IInv => ClosedOnce
  <2> SUFFICES ASSUME IInv PROVE ClosedOnce
    OBVIOUS
  <2>1. \A f \in Files : closed[f] <= 1
    <3>1. \A f \in Files : closed[f] \in {0, 1}
      BY DEF IInv, Typed
    <3> QED BY <3>1
  <2>2. phase = "crashed" => (recycled \/ ~Aligned)
    BY DEF IInv, ByPhase
  <2>3. phase = "destroyed" => \A i \in DOMAIN pool.cleanup : closed[pool.cleanup[i].fd] = 1
    BY DEF IInv, ByPhase
  <2> QED BY <2>1, <2>2, <2>3 DEF ClosedOnce
<1> QED BY <1>1, Inductive, PTL
=============================================================================
