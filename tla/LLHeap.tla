------------------------------- MODULE LLHeap -------------------------------
(***************************************************************************)
(* The heap pages of the allocator that TMI links into a program:          *)
(* others/tmi/src/ll_alloc.c.                                              *)
(*                                                                         *)
(* A page is cut into chunks.  In front of every chunk is a separator that *)
(* holds its size, its offset in the page and four flags: is the chunk     *)
(* unused, is the one to the left, and is either of them of the smallest   *)
(* size.  A chunk that the program frees goes to a fast list and still     *)
(* counts as used; only merge_node joins it with its unused neighbours and *)
(* puts it into a list by size or, if it is large, into the btree.         *)
(*                                                                         *)
(* Sizes and offsets are in units of 16 bytes, the size of a separator.  A *)
(* chunk is the place of its separator: <<page, offset>>.  Memory that is  *)
(* no separator is not represented, and what the program or a list link    *)
(* has overwritten is Junk.  How a chunk another thread frees gets into    *)
(* the queue of its owner is in LLQueue; here it is one step.              *)
(***************************************************************************)
EXTENDS Integers, FiniteSets, SequencesExt

CONSTANTS
    Threads,
    Sizes, Aligns,    \* what the program asks for, after sep_align
    MaxCalls,         \* bound: calls the program makes
    MaxPages,         \* bound: pages that are mapped
    PAGESIZE, MINALLOC, BTMALLOC,
    SizeMod,          \* where size_t wraps
    QS_MAX,           \* larger chunks are in the btree
    FAST_64_BIN,      \* larger chunks are not allocated from the fast lists
    FL,               \* size2fl: the fast list of a size
    HEAD_MAX,         \* the head of a queue is split if it is larger
    Junk

HEADERSIZE == 2
SEPSIZE == 1
FAST_MASK == 0..3
Bins == {FL[s] : s \in DOMAIN FL}
ListSizes == {n \in 1..QS_MAX : n # 1}

(* size2fl is monotone, and the program does not ask for chunks as small as *)
(* those in bin 0: slabs have these sizes.                                  *)
ASSUME FLAssumption ==
    /\ \A r, s \in DOMAIN FL : r <= s => FL[r] <= FL[s]
    /\ Bins = 0..Max(Bins)
    /\ \A s \in Sizes : FL[s] > 0

VARIABLES
    heap,     \* the atls of a thread, or None
    d_list,   \* the atls of dead threads
    mapped,   \* pages mapped so far
    used,     \* chunks the program holds, with what it asked for
    calls

vars == <<heap, d_list, mapped, used, calls>>
None == <<>>

-----------------------------------------------------------------------------
(* Separators                                                               *)

shift(b, n) == <<b[1], b[2] + n>>
Size(h, b) == h.sep[b].size
Has(h, b, flag) == flag \in h.sep[b].flags
Right(h, b) == shift(b, Size(h, b))

NewSep(offset, size) == [offset |-> offset, size |-> size, left |-> Junk, flags |-> {}]
Drop(h, b) == [h EXCEPT !.sep = Restrict(@, DOMAIN @ \ {b})]
SetSize(h, b, n) == [h EXCEPT !.sep[b].size = n]

set_unused(h, b, br) ==
    [h EXCEPT !.sep[br].flags = @ \cup {"LUNUSED"}, !.sep[br].left = b,
              !.sep[b].flags = @ \cup {"UNUSED"}]

(* Mutant: the right neighbour still takes the chunk for unused.            *)
SetUsedHere(h, b) == [h EXCEPT !.sep[b].flags = @ \ {"UNUSED"}]

(* The program owns the left pointer of the right neighbour now.            *)
set_used(h, b) ==
    [h EXCEPT !.sep[Right(h, b)].flags = @ \ {"LUNUSED"},
              !.sep[Right(h, b)].left = Junk,
              !.sep[b].flags = @ \ {"UNUSED"}]

(* set_size8, set_small_prev and set_small_next: the links of the small     *)
(* list are where size, offset and the next left pointer were.              *)
set_size8(h, b) ==
    [h EXCEPT !.sep[b] = [@ EXCEPT !.flags = @ \cup {"SIZE8"}, !.size = Junk,
                                   !.offset = Junk],
              !.sep[shift(b, 1)] = [@ EXCEPT !.flags = @ \cup {"LSIZE8"},
                                             !.left = Junk]]

(* What was overwritten is found again in the right neighbour.              *)
unset_size8(h, b) ==
    [h EXCEPT !.sep[shift(b, 1)].flags = @ \ {"LSIZE8"},
              !.sep[b] = [@ EXCEPT !.flags = @ \ {"SIZE8"}, !.size = 1,
                                   !.offset = h.sep[shift(b, 1)].offset - 1]]

Join(f, g) == [x \in DOMAIN f \cup DOMAIN g |-> IF x \in DOMAIN f THEN f[x] ELSE g[x]]

(* set_sep: a separator n units to the right of the one of b.               *)
set_sep(h, b, n, size) ==
    [h EXCEPT !.sep = (shift(b, n) :> NewSep(h.sep[b].offset + n, size)) @@ @]

-----------------------------------------------------------------------------
(* Free chunks                                                              *)

(* Mutant: the list keeps the bit it had.                               *)
SlistAddUnmarked(h, n, b) == [h EXCEPT !.fl[n] = <<b>> \o @]
slist_add(h, n, b) == [h EXCEPT !.fl[n] = <<b>> \o @, !.f_mask = @ \cup {n}]
fast_free(h, b) == slist_add(h, FL[Size(h, b)], b)

(* split_node_rhs: the left part is freed.  What is left is at shift(b, m). *)
split_node_rhs(h, b, m) ==
    fast_free(set_sep(SetSize(h, b, m), b, m, Size(h, b) - m), b)

(* split_node: the rest is freed, unless it is small.                       *)
split_node(h, b, m) ==
    LET r == (Size(h, b) - m) % SizeMod IN
    IF (r * 4) % SizeMod < m THEN h
    ELSE fast_free(set_sep(SetSize(h, b, m), b, m, r), shift(b, m))

(* btree_insert: the leaves are in the order of their sizes.                *)
btree_insert(h, b) ==
    LET less(c) == Size(h, c) < Size(h, b)
    IN  [h EXCEPT !.bt = SelectSeq(@, less) \o <<b>>
                         \o SelectSeq(@, LAMBDA c : ~ less(c))]

node_insert(h, b) ==
    CASE Size(h, b) > QS_MAX -> btree_insert(h, b)
      [] Size(h, b) = 1 -> [set_size8(h, b) EXCEPT !.small = Append(@, b)]
      [] OTHER -> [h EXCEPT !.qs[Size(h, b)] = <<b>> \o @,
                            !.q_mask = @ \cup {Size(h, b)}]

(* small_remove, btree_node_del and dlist_del.                              *)
NodeDel(h, b) ==
    IF Has(h, b, "SIZE8") THEN unset_size8([h EXCEPT !.small = Remove(@, b)], b)
    ELSE IF Size(h, b) > QS_MAX THEN [h EXCEPT !.bt = Remove(@, b)]
    ELSE [h EXCEPT !.qs[Size(h, b)] = Remove(@, b)]

(* merge_node_aux: an empty page that is small against what is allocated is *)
(* returned, unless scan_queue wants a chunk of its size.                   *)
Empty(h, b) == h.sep[b].offset < HEADERSIZE /\ Size(h, Right(h, b)) = 0

Return(h, b) ==
    LET other(c) == c[1] # b[1] IN
    [h EXCEPT !.a_alloced = @ - (Size(h, b) + HEADERSIZE),
              !.pages = Restrict(@, DOMAIN @ \ {b[1]}),
              !.sep = Restrict(@, {c \in DOMAIN @ : other(c)})]

merge_node_aux(h, b) ==
    LET save(g) == node_insert(set_unused(g, b, Right(g, b)), b) IN
    IF ~ Empty(h, b) \/ Size(h, b) * 4 > h.a_alloced THEN save(h)
    ELSE IF h.s_wanted # 0 /\ h.s_wanted <= Size(h, b)
         THEN save([h EXCEPT !.s_wanted = 0])
         ELSE Return(h, b)

LeftOf(h, b) == IF Has(h, b, "LSIZE8") THEN shift(b, -1) ELSE h.sep[b].left

(* b grows over its right neighbour br, which is in no list any more.       *)
Absorb(h, b, br) == Drop(SetSize(h, b, Size(h, b) + Size(h, br)), br)

MergeRight(h, b) ==
    IF Has(h, Right(h, b), "UNUSED")
    THEN Absorb(NodeDel(h, Right(h, b)), b, Right(h, b)) ELSE h

MergeLeft(h, b) ==
    IF Has(h, b, "LUNUSED")
    THEN Absorb(NodeDel(h, LeftOf(h, b)), LeftOf(h, b), b) ELSE h

merge_node(h, b) ==
    LET g == MergeRight(h, b)
    IN  merge_node_aux(MergeLeft(g, b),
                       IF Has(g, b, "LUNUSED") THEN LeftOf(g, b) ELSE b)

RECURSIVE clear_fast(_)
clear_fast(h) ==
    IF h.f_mask = {} THEN h
    ELSE LET n == Min(h.f_mask) IN
         IF h.fl[n] = <<>> THEN clear_fast([h EXCEPT !.f_mask = @ \ {n}])
         ELSE clear_fast(merge_node([h EXCEPT !.fl[n] = Tail(@)], Head(h.fl[n])))

(* The last chunk of the queue q is split if it is large.                   *)
SplitHead(h, q) ==
    LET large == Size(h, Last(q)) > HEAD_MAX
    IN  <<IF large THEN split_node(h, Last(q), 2) ELSE h, large \/ Len(q) > 1>>

(* scan_queue: free all of the queue q but its last chunk.  The result is   *)
(* the heap and whether anything was freed.                                 *)
scan_queue(h, q, wanted) ==
    SplitHead([FoldLeft(merge_node, [h EXCEPT !.s_wanted = wanted], Front(q))
                 EXCEPT !.s_wanted = 0], q)

ScanOwn(h, wanted) ==
    LET s == scan_queue(h, h.queue, wanted)
    IN  <<[s[1] EXCEPT !.queue = <<Last(h.queue)>>], s[2]>>

-----------------------------------------------------------------------------
(* Dead threads                                                             *)

(* btree_merge and fast_merge, which is clear_fast into another heap.  The  *)
(* lists of both heaps are already joined here: taking a chunk out of one   *)
(* does not ask which heap it belongs to.  The bits of q_mask stay behind.  *)
atls_merge(h1, h2) ==
    LET bins == SetToSortSeq(Bins, <)
        joined == [h1 EXCEPT !.pages = Join(@, h2.pages), !.sep = @ @@ h2.sep,
                             !.a_alloced = @ + h2.a_alloced,
                             !.small = @ \o h2.small]
        linked == FoldLeft(LAMBDA h, n : [h EXCEPT !.qs[n] = @ \o h2.qs[n]],
                           joined, SetToSortSeq(ListSizes, <))
        sorted == FoldLeft(btree_insert, linked, h2.bt)
        merged == FoldLeft(merge_node, sorted,
                           FlattenSeq([i \in DOMAIN bins |-> h2.fl[bins[i]]]))
        old(b) == b \in Range(h2.small)
    IN  [merged EXCEPT !.small = SelectSeq(@, LAMBDA b : ~ old(b))
                                 \o SelectSeq(@, old)]

(* reap_dead, for the first dead thread: its queue is scanned as well, and  *)
(* the head of that queue freed.                                            *)
reap_dead(h) ==
    LET h2 == Head(h.d_list)
        g == atls_merge([h EXCEPT !.d_list = Tail(@)], h2)
    IN  fast_free(scan_queue(g, h2.queue, 0)[1], Last(h2.queue))

-----------------------------------------------------------------------------
(* Allocation.  The result is the heap and the chunk, or Junk for none.     *)

(* fast_alloc looks at four lists.  Chunks that are too small move to the   *)
(* list below.                                                              *)
RECURSIVE FastSearch(_, _, _)
FastSearch(h, size, tmask) ==
    IF tmask = {} THEN <<h, Junk>> ELSE
    LET n == Min(tmask)
        b == Head(h.fl[n])
        g == [h EXCEPT !.fl[n] = Tail(@)]
    IN  IF h.fl[n] = <<>>
        THEN FastSearch([h EXCEPT !.f_mask = @ \ {n}], size, tmask \ {n})
        ELSE IF Size(h, b) >= size THEN <<g, b>>
        ELSE FastSearch(slist_add(g, n - 1, b), size, tmask)

fast_alloc(h, size) ==
    FastSearch(h, size, IF size > FAST_64_BIN THEN {}
                        ELSE h.f_mask \cap {FL[size] + i : i \in FAST_MASK})

(* Take b out of its list and split it.                                     *)
Take(h, b, size) == <<split_node(set_used(NodeDel(h, b), b), b, size), b>>

(* The bits of lists that have nothing left are cleared on the way.         *)
slow_alloc_aux(h, size) ==
    LET tmask == {n \in h.q_mask : n >= size}
        found == {n \in tmask : h.qs[n] # <<>>}
        passed == IF found = {} THEN tmask ELSE {n \in tmask : n < Min(found)}
        g == [h EXCEPT !.q_mask = @ \ passed]
    IN  IF found = {} THEN <<g, Junk>> ELSE Take(g, Head(h.qs[Min(found)]), size)

(* btree_get: the first leaf that is large enough.                          *)
btree_get(h, size) ==
    LET fit == SelectSeq(h.bt, LAMBDA b : Size(h, b) >= size)
    IN  IF fit = <<>> THEN <<h, Junk>> ELSE Take(h, Head(fit), size)

page_align(n) == ((n + PAGESIZE - 1) \div PAGESIZE) * PAGESIZE

(* A page with one chunk and the separator at its end.                      *)
NewPage(h, n) ==
    LET p == h.mapped + 1 IN
    [h EXCEPT !.mapped = p, !.pages = Join(@, [q \in {p} |-> n]), !.a_alloced = @ + n,
              !.sep = (<<p, 1>> :> NewSep(1, n - HEADERSIZE))
                      @@ (<<p, n - SEPSIZE>> :> NewSep(n - SEPSIZE, 0)) @@ @]

(* block_alloc_aux; bound: MaxPages.  The first try has the page, as        *)
(* get_mmap_memory of tmimem.cpp never fails: the second one, with a        *)
(* smaller page, is not taken.                                              *)
block_alloc_aux(h, size) ==
    LET wish == page_align(size + (size + h.a_alloced) \div 3)
        clip == IF wish > BTMALLOC THEN BTMALLOC ELSE wish
        g == NewPage(h, IF clip < MINALLOC THEN MINALLOC ELSE clip)
    IN  IF h.mapped = MaxPages THEN <<h, Junk>>
        ELSE <<split_node(g, <<g.mapped, 1>>, size), <<g.mapped, 1>>>>

(* Both tries of the lists by size, with clear_fast in between, and the     *)
(* btree; max is the largest size the lists are tried for.                  *)
OrBtree(a, size) == IF a[2] # Junk THEN a ELSE btree_get(a[1], size)
OrAgain(a, size) ==
    IF a[2] # Junk THEN a ELSE OrBtree(slow_alloc_aux(clear_fast(a[1]), size), size)
ListsOrBtree(h, size, max) ==
    IF size > max THEN btree_get(clear_fast(h), size)
    ELSE OrAgain(slow_alloc_aux(h, size), size)

(* block_alloc is tried when all of this fails: reap a dead thread, or scan *)
(* the queue, or map a page.                                                *)
RECURSIVE slow_alloc(_, _)
OrSlow(a, size) == IF a[2] # Junk THEN a ELSE slow_alloc(a[1], size)
OrPage(s, size) == IF s[2] THEN slow_alloc(s[1], size) ELSE block_alloc_aux(s[1], size)
OrBlock(a, size) ==
    IF a[2] # Junk THEN a
    ELSE IF a[1].d_list # <<>> THEN OrSlow(fast_alloc(reap_dead(a[1]), size), size)
    ELSE OrPage(ScanOwn(a[1], size), size)
slow_alloc(h, size) == OrBlock(ListsOrBtree(h, size, QS_MAX), size)

malloc(h, size) == OrSlow(fast_alloc(h, size), size)

(* aligned_alloc: more than enough is allocated, and the parts before and   *)
(* behind the aligned chunk are freed.  The last resort, and the rule for   *)
(* large sizes, is a mapping of its own that is not part of the heap.       *)
RECURSIVE AllocUnaligned(_, _)
OrNone(s, rsize) == IF s[2] THEN AllocUnaligned(s[1], rsize) ELSE <<s[1], Junk>>
OrReap(a, rsize) ==
    IF a[2] # Junk THEN a
    ELSE IF a[1].d_list # <<>> THEN AllocUnaligned(reap_dead(a[1]), rsize)
    ELSE OrNone(ScanOwn(a[1], rsize), rsize)
OrLists(f, rsize) ==
    IF f[2] # Junk THEN f ELSE OrReap(ListsOrBtree(f[1], rsize, QS_MAX - 1), rsize)
AllocUnaligned(h, rsize) == OrLists(fast_alloc(h, rsize), rsize)

(* The data of a chunk start behind its separator.                          *)
Aligned(b, align) == (b[2] + SEPSIZE) % align = 0

CutToAlign(a, size, align) ==
    LET b == a[2]
        lsize == (- (b[2] + SEPSIZE)) % align
        c == shift(b, lsize)
    IN  IF b = Junk THEN a ELSE
        <<split_node(IF lsize = 0 THEN a[1] ELSE split_node_rhs(a[1], b, lsize),
                     c, size), c>>

aligned_alloc(h, size, align) ==
    CutToAlign(IF size + align + 1 >= BTMALLOC THEN <<h, Junk>>
               ELSE AllocUnaligned(h, size + align + 1), size, align)

(* realloc_aux2 for a chunk of the thread: shrink it, or let it grow over   *)
(* an unused neighbour.  The chunk stays larger even if that is not enough. *)
Grown(h, b) ==
    LET g == clear_fast(h)
        m == MergeRight(g, b)
    IN  IF Has(g, Right(g, b), "UNUSED") THEN set_used(m, b) ELSE g

(* Mutant: a chunk that is too small is kept as well.                       *)
KeepsShort(h, b, size) == Size(h, b) <= size * 2
Keeps(h, b, size) == size <= Size(h, b) /\ Size(h, b) <= size * 2

realloc_local(h, b, size) ==
    LET g == IF size <= Size(h, b) THEN h ELSE Grown(h, b)
    IN  IF Keeps(h, b, size) THEN <<h, b>>
        ELSE IF size <= Size(g, b) THEN <<split_node(g, b, size), b>> ELSE <<g, Junk>>
-----------------------------------------------------------------------------
(* The calls of the program                                                 *)

(* The heap of a thread without and with what all threads share.            *)
Own(h) == [pages |-> h.pages, sep |-> h.sep, fl |-> h.fl, f_mask |-> h.f_mask,
           small |-> h.small, qs |-> h.qs, q_mask |-> h.q_mask, bt |-> h.bt,
           queue |-> h.queue, a_alloced |-> h.a_alloced, s_wanted |-> h.s_wanted]
Shared(h) == [pages |-> h.pages, sep |-> h.sep, fl |-> h.fl, f_mask |-> h.f_mask,
              small |-> h.small, qs |-> h.qs, q_mask |-> h.q_mask, bt |-> h.bt,
              queue |-> h.queue, a_alloced |-> h.a_alloced, s_wanted |-> h.s_wanted,
              d_list |-> d_list, mapped |-> mapped]

Call(t) == calls < MaxCalls /\ calls' = calls + 1 /\ heap[t] # None

(* A call of t ends with h.                                                 *)
Ends(t, h) ==
    /\ heap' = [heap EXCEPT ![t] = Own(h)]
    /\ d_list' = h.d_list
    /\ mapped' = h.mapped

Mine(t, b) == b[1] \in DOMAIN heap[t].pages

(* prepend_queue: the chunk is queued for the heap h if that owns its page. *)
Enqueue(h, b) ==
    IF h # None /\ b[1] \in DOMAIN h.pages THEN [h EXCEPT !.queue = Append(@, b)] ELSE h
prepend_queue(H, b) == [i \in DOMAIN H |-> Enqueue(H[i], b)]

(* init_atls: the first page; its first chunk is the head of the queue.     *)
init_atls ==
    LET empty == [pages |-> <<>>, sep |-> <<>>, fl |-> [n \in Bins |-> <<>>],
                  f_mask |-> {}, small |-> <<>>, qs |-> [n \in ListSizes |-> <<>>],
                  q_mask |-> {}, bt |-> <<>>, queue |-> << <<mapped + 1, 1>> >>,
                  a_alloced |-> 0, s_wanted |-> 0]
    IN  split_node(NewPage(Shared(empty), PAGESIZE), <<mapped + 1, 1>>, SEPSIZE)

(* init_tls: the atls of the last thread that died, or a new one.           *)
InitTls(t) ==
    /\ heap[t] = None
    /\ \/ /\ d_list # <<>>
          /\ heap' = [heap EXCEPT ![t] = Head(d_list)]
          /\ d_list' = Tail(d_list)
          /\ UNCHANGED mapped
       \/ d_list = <<>> /\ mapped < MaxPages /\ Ends(t, init_atls)
    /\ UNCHANGED <<used, calls>>

(* destroy_tls                                                              *)
DestroyTls(t) ==
    /\ Call(t)
    /\ d_list' = <<heap[t]>> \o d_list
    /\ heap' = [heap EXCEPT ![t] = None]
    /\ UNCHANGED <<mapped, used>>

(* What the program has asked for.                                          *)
Asked(size, align) == [size |-> size, align |-> align]
Gets(b, asked) == IF b = Junk THEN used ELSE (b :> asked) @@ used
Without(b) == Restrict(used, DOMAIN used \ {b})

Allocates(t, a, asked) == Ends(t, a[1]) /\ used' = Gets(a[2], asked)

Malloc(t) ==
    /\ Call(t)
    /\ \E size \in Sizes :
          Allocates(t, malloc(Shared(heap[t]), size), Asked(size, 1))

AlignedAlloc(t) ==
    /\ Call(t)
    /\ \E size \in Sizes, align \in Aligns :
          Allocates(t, aligned_alloc(Shared(heap[t]), size, align), Asked(size, align))

(* free of a chunk of the thread: every 2^16th call clears the fast lists;  *)
(* whether this is one is left open.                                        *)
FreeLocal(t, h, b) ==
    Ends(t, fast_free(h, b)) \/ Ends(t, clear_fast(fast_free(h, b)))

Free(t) ==
    /\ Call(t)
    /\ \E b \in DOMAIN used :
        /\ used' = Without(b)
        /\ \/ /\ Mine(t, b)
              /\ FreeLocal(t, Shared(heap[t]), b)
           \/ /\ ~ Mine(t, b)
              /\ heap' = prepend_queue(heap, b)
              /\ d_list' = prepend_queue(d_list, b)
              /\ UNCHANGED mapped

(* realloc of a chunk of the thread.  One that cannot grow in its place is  *)
(* copied and freed, or stays if there is no memory for the copy.           *)
Copies(t, b, size, m) ==
    \/ /\ m[2] # Junk
       /\ FreeLocal(t, m[1], b)
       /\ used' = (m[2] :> Asked(size, 1)) @@ Without(b)
    \/ m[2] = Junk /\ Ends(t, m[1]) /\ UNCHANGED used

Resizes(t, b, size, r) ==
    \/ /\ r[2] # Junk
       /\ Ends(t, r[1])
       /\ used' = [used EXCEPT ![b] = Asked(size, 1)]
    \/ r[2] = Junk /\ Copies(t, b, size, malloc(r[1], size))

ReallocLocal(t) ==
    /\ Call(t)
    /\ \E b \in DOMAIN used, size \in Sizes :
          Mine(t, b) /\ Resizes(t, b, size, realloc_local(Shared(heap[t]), b, size))

(* realloc of a chunk of another thread, which can only shrink: the excess  *)
(* is cut off and queued for its owner.                                     *)
Shrunk(h, b, size) ==
    IF h # None /\ b[1] \in DOMAIN h.pages
    THEN set_sep(SetSize(h, b, size), b, size, Size(h, b) - size) ELSE h

ForeignSize(b) ==
    LET h == CHOOSE h \in {heap[t] : t \in Threads} \cup Range(d_list) :
                h # None /\ b[1] \in DOMAIN h.pages
    IN  Size(h, b)

(* One that would have to grow is copied and freed.  The allocation may     *)
(* have reaped its owner.                                                   *)
CopiesForeign(t, b, size, m) ==
    \/ m[2] = Junk /\ Ends(t, m[1]) /\ UNCHANGED used
    \/ /\ m[2] # Junk
       /\ used' = (m[2] :> Asked(size, 1)) @@ Without(b)
       /\ IF b[1] \in DOMAIN m[1].pages
          THEN FreeLocal(t, m[1], b)
          ELSE /\ heap' = prepend_queue([heap EXCEPT ![t] = Own(m[1])], b)
               /\ d_list' = prepend_queue(m[1].d_list, b)
               /\ mapped' = m[1].mapped

ReallocForeign(t) ==
    /\ Call(t)
    /\ \E b \in DOMAIN used, size \in Sizes :
        /\ ~ Mine(t, b)
        /\ LET old == ForeignSize(b)
               shrunk(H) == prepend_queue([i \in DOMAIN H |-> Shrunk(H[i], b, size)],
                                          shift(b, size))
           IN  \/ /\ size <= old
                  /\ used' = [used EXCEPT ![b] = Asked(size, 1)]
                  /\ IF old <= size * 2 THEN UNCHANGED <<heap, d_list>>
                     ELSE heap' = shrunk(heap) /\ d_list' = shrunk(d_list)
                  /\ UNCHANGED mapped
               \/ size > old /\ CopiesForeign(t, b, size, malloc(Shared(heap[t]), size))

(* malloc_trim                                                              *)
MallocTrim(t) ==
    /\ Call(t)
    /\ Ends(t, clear_fast(ScanOwn(Shared(heap[t]), 0)[1]))
    /\ UNCHANGED used

Init ==
    /\ heap = [t \in Threads |-> None] /\ d_list = <<>> /\ mapped = 0
    /\ used = <<>> /\ calls = 0

Next ==
    \/ \E t \in Threads :
         \/ InitTls(t) \/ DestroyTls(t) \/ Malloc(t) \/ AlignedAlloc(t) \/ Free(t)
         \/ ReallocLocal(t) \/ ReallocForeign(t) \/ MallocTrim(t)
    \/ calls = MaxCalls /\ UNCHANGED vars

Spec == Init /\ [][Next]_vars
-----------------------------------------------------------------------------
(* Properties                                                               *)

Heaps == ({heap[t] : t \in Threads} \cup Range(d_list)) \ {None}

IsEnd(h, b) == b[2] = h.pages[b[1]] - SEPSIZE
Chunks(h) == {b \in DOMAIN h.sep : ~ IsEnd(h, b)}
Length(h, b) == IF Has(h, b, "SIZE8") THEN 1 ELSE Size(h, b)

(* merge_node, split_node: the chunks of a page follow each other from its  *)
(* header to its end.  Of two neighbours, at most one is unused, and then   *)
(* the flags and pointers in front of and behind it say so: this is what    *)
(* check_sep tests, and what merge_node relies on when it looks for its     *)
(* neighbours.  Every chunk knows its page, and a_alloced is the size of    *)
(* the pages.                                                               *)
PagesTiled ==
    \A h \in Heaps :
        /\ \A p \in DOMAIN h.pages : \A o \in {1, h.pages[p] - SEPSIZE} :
              <<p, o>> \in DOMAIN h.sep
        /\ \A b \in DOMAIN h.sep : IsEnd(h, b) => Size(h, b) = 0 /\ ~ Has(h, b, "UNUSED")
        /\ \A b \in Chunks(h) :
            LET r == shift(b, Length(h, b)) IN
            /\ r \in DOMAIN h.sep
            /\ \A n \in 1..(Length(h, b) - 1) : shift(b, n) \notin DOMAIN h.sep
            /\ Has(h, b, "UNUSED") <=> Has(h, r, "LUNUSED")
            /\ Has(h, b, "SIZE8") <=> Has(h, r, "LSIZE8")
            /\ Has(h, b, "SIZE8") <=> Has(h, b, "UNUSED") /\ Length(h, b) = 1
            /\ Has(h, b, "UNUSED") => ~ Has(h, r, "UNUSED") /\ LeftOf(h, r) = b
            /\ Has(h, b, "SIZE8") \/ h.sep[b].offset = b[2]
        /\ h.a_alloced = FoldFunction(+, 0, h.pages)

InLists(h) == h.small \o h.bt \o FlattenSeq([n \in 1..(QS_MAX - 1) |-> h.qs[n + 1]])
InBins(h) == FlattenSeq([n \in 1..Cardinality(Bins) |-> h.fl[n - 1]])
InUse(h) == SetToSeq({b \in DOMAIN used : b[1] \in DOMAIN h.pages})

(* No chunk is lost and none is handed out twice: every chunk is with the   *)
(* program, in a fast list whose bit is set, in the queue, or, if unused,   *)
(* in the list of its size or the btree, and there once.  A chunk in a fast *)
(* list is at most one bin below the one of its size, as test_fast_lists    *)
(* has it, so that fast_alloc never moves one below the first bin.          *)
ChunksAccounted ==
    \A h \in Heaps :
        LET all == InLists(h) \o InBins(h) \o h.queue \o InUse(h) IN
        /\ Range(all) = Chunks(h) /\ Len(all) = Cardinality(Chunks(h))
        /\ \A b \in Chunks(h) : Has(h, b, "UNUSED") <=> b \in Range(InLists(h))
        /\ \A b \in Range(h.small) : Length(h, b) = 1
        /\ \A n \in DOMAIN h.qs : \A b \in Range(h.qs[n]) : Size(h, b) = n
        /\ \A b \in Range(h.bt) : Size(h, b) > QS_MAX
        /\ \A n \in Bins : \A b \in Range(h.fl[n]) :
              n \in h.f_mask /\ FL[Size(h, b)] \in {n, n + 1}

(* split_node: "too big to fit in split" does not happen, and no separator  *)
(* is written behind the end of a page.                                     *)
SplitsFit ==
    \A h \in Heaps : \A b \in DOMAIN h.sep : b[2] < h.pages[b[1]]

(* malloc, aligned_alloc, realloc: as long as the program holds a chunk, no *)
(* matter what it does with others, it is as large as it asked for and      *)
(* aligned as it asked for.                                                 *)
RequestsMet ==
    \A b \in DOMAIN used : \E h \in Heaps :
        /\ b \in Chunks(h) /\ Size(h, b) >= used[b].size
        /\ Aligned(b, used[b].align)
=============================================================================
