-------------------------------- MODULE KHeap --------------------------------
(***************************************************************************)
(* The kernel heap: kmalloc and kfree of lib/kheap.c over the pages of     *)
(* alloc_kpages (arch/mips/mips/dumbvm.c) and ram_stealmem (ram.c).        *)
(*                                                                         *)
(* A request smaller than the largest block size gets a block of a page    *)
(* cut into blocks of one size; a larger one gets whole pages.  A pageref  *)
(* describes a page of blocks: its address, block size, free list and the  *)
(* number of free blocks.  The free list runs through the free blocks      *)
(* themselves; here it is the sequence of their offsets.  Interrupts are   *)
(* off throughout each operation, so an operation is one step.             *)
(***************************************************************************)
EXTENDS Naturals, FiniteSets, Sequences, FiniteSetsExt, Functions

CONSTANTS
  PageSize,   \* words in a page
  Sizes,      \* sizes[], ascending; requests from the last one on are large
  NPages,     \* pages of RAM, the kernel's own page 0 included
  NPageRefs,  \* NPAGEREFS
  HeapRequests   \* sizes of requests

ASSUME HeapAssumption ==
  /\ PageSize \in Nat \ {0} /\ NPages \in Nat /\ NPageRefs \in Nat
  /\ Sizes \in Seq(Nat \ {0}) /\ Len(Sizes) > 0
  /\ \A type \in DOMAIN Sizes : Sizes[type] <= PageSize
  /\ HeapRequests \subseteq Nat

VARIABLES
  firstpaddr, \* the first page not yet handed out
  pagerefs,   \* index -> [page, blocktype, free, nfree]
  inuse,      \* pagerefs_inuse
  sizebases,  \* block type -> pagerefs, newest first
  allbase,    \* all pagerefs, newest first
  held        \* what callers hold: [addr, size]

heap_vars == <<firstpaddr, pagerefs, inuse, sizebases, allbase, held>>

Types == DOMAIN Sizes
Refs == 0 .. NPageRefs - 1
Largest == Sizes[Len(Sizes)]
Blocks(type) == PageSize \div Sizes[type]

\* The smallest block the request fits in.
blocktype(sz) == Min({i \in Types : sz <= Sizes[i]})

\* The lowest pageref not in use.
allocpageref == Min(Refs \ inuse)

\* Page 0 stands for failure.
ram_stealmem(npages) == IF firstpaddr + npages > NPages THEN 0 ELSE firstpaddr

\* A block off the free list of pageref i, whose contents are pr.
doalloc(i, pr) ==
  /\ pagerefs' = [pagerefs EXCEPT ![i] = [pr EXCEPT !.free = Tail(@), !.nfree = @ - 1]]
  /\ held' = held \cup {[addr |-> pr.page * PageSize + Head(pr.free),
                         size |-> Sizes[pr.blocktype]]}

\* A fresh page; its free list starts with the last block.
NewPage(page, type) ==
  [page |-> page, blocktype |-> type, nfree |-> Blocks(type),
   free |-> [k \in 1 .. Blocks(type) |-> (Blocks(type) - k) * Sizes[type]]]

subpage_kmalloc(sz) ==
  LET type == blocktype(sz)
      fit == {k \in DOMAIN sizebases[type] : pagerefs[sizebases[type][k]].nfree > 0}
      page == ram_stealmem(1)
  IN IF fit # {}
     THEN /\ LET i == sizebases[type][Min(fit)] IN doalloc(i, pagerefs[i])
          /\ UNCHANGED <<firstpaddr, inuse, sizebases, allbase>>
     ELSE /\ Refs \ inuse # {} /\ page # 0
          /\ LET i == allocpageref
             IN /\ doalloc(i, NewPage(page, type))
                /\ inuse' = inuse \cup {i}
                /\ sizebases' = [sizebases EXCEPT ![type] = <<i>> \o @]
                /\ allbase' = <<i>> \o allbase
                /\ firstpaddr' = firstpaddr + 1

\* Large requests are rounded up to whole pages.
alloc_kpages(sz) ==
  LET npages == (sz + PageSize - 1) \div PageSize
      page == ram_stealmem(npages)
  IN /\ page # 0
     /\ firstpaddr' = firstpaddr + npages
     /\ held' = held \cup {[addr |-> page * PageSize, size |-> npages * PageSize]}
     /\ UNCHANGED <<pagerefs, inuse, sizebases, allbase>>

kmalloc ==
  \E sz \in HeapRequests : IF sz >= Largest THEN alloc_kpages(sz) ELSE subpage_kmalloc(sz)

\* The list without the pageref, which the walk stops at.
Unlinked(list, i) ==
  LET at == {k \in DOMAIN list : list[k] = i}
  IN IF at = {} THEN list
     ELSE SubSeq(list, 1, Min(at) - 1) \o SubSeq(list, Min(at) + 1, Len(list))

remove_lists(i, type) ==
  /\ sizebases' = [sizebases EXCEPT ![type] = Unlinked(@, i)]
  /\ allbase' = Unlinked(allbase, i)

\* (Mutant: the pageref of a page that goes stays on the lists.)
subpage_kfree_listed(b, i) ==
  LET pr == pagerefs[i]
      freed == [pr EXCEPT !.free = <<b.addr % PageSize>> \o @, !.nfree = @ + 1]
  IN /\ pagerefs' = [pagerefs EXCEPT ![i] = freed]
     /\ inuse' = IF freed.nfree = Blocks(pr.blocktype) THEN inuse \ {i} ELSE inuse
     /\ UNCHANGED <<sizebases, allbase>>

\* The page the address is on takes the block back; a page that is all free
\* goes, and its pageref with it.
subpage_kfree(b, i) ==
  LET pr == pagerefs[i]
      freed == [pr EXCEPT !.free = <<b.addr % PageSize>> \o @, !.nfree = @ + 1]
  IN /\ pagerefs' = [pagerefs EXCEPT ![i] = freed]
     /\ IF freed.nfree = Blocks(pr.blocktype)
        THEN remove_lists(i, pr.blocktype) /\ inuse' = inuse \ {i}
        ELSE UNCHANGED <<sizebases, allbase, inuse>>

\* An address on none of the pages was a large request; free_kpages does
\* nothing.
kfree ==
  /\ \E b \in held :
       LET on == {k \in DOMAIN allbase : pagerefs[allbase[k]].page = b.addr \div PageSize}
       IN /\ held' = held \ {b}
          /\ IF on # {} THEN subpage_kfree(b, allbase[Min(on)])
             ELSE UNCHANGED <<pagerefs, inuse, sizebases, allbase>>
  /\ UNCHANGED firstpaddr

HeapInit ==
  /\ firstpaddr = 1
  /\ pagerefs = [i \in Refs |-> [page |-> 0, blocktype |-> 1, free |-> <<>>, nfree |-> 0]]
  /\ inuse = {} /\ allbase = <<>> /\ held = {}
  /\ sizebases = [type \in Types |-> <<>>]

HeapNext == kmalloc \/ kfree

HeapSpec == HeapInit /\ [][HeapNext]_heap_vars

-----------------------------------------------------------------------------

\* What the heap would assert of one pageref and of all of them, were the
\* checks compiled in: the free list stays on block boundaries of its page and
\* has nfree elements, and both kinds of lists have as many pagerefs.
checksubpage(i) ==
  LET pr == pagerefs[i]
  IN /\ \A off \in Range(pr.free) : off < PageSize /\ off % Sizes[pr.blocktype] = 0
     /\ pr.nfree = Len(pr.free)
checksubpages ==
  /\ \A type \in Types : \A i \in Range(sizebases[type]) : checksubpage(i)
  /\ \A i \in Range(allbase) : checksubpage(i)
  /\ Cardinality(UNION {{type} \X DOMAIN sizebases[type] : type \in Types}) = Len(allbase)
  /\ Len(allbase) <= NPageRefs

Extent(b) == b.addr .. b.addr + b.size - 1

\* No two callers hold the same word, all they hold lies in pages that were
\* handed out, and every block of a page of blocks is either held or on its
\* free list, once; a pageref is listed under its size while it is in use, and
\* checksubpages would pass.  All this after whatever sequence of kmalloc and
\* kfree, pages and pagerefs running out and pagerefs being reused included.
HeapSound ==
  /\ \A b, c \in held : b # c => Extent(b) \cap Extent(c) = {}
  /\ \A b \in held : Extent(b) \subseteq PageSize .. firstpaddr * PageSize - 1
  /\ \A i \in inuse :
       LET pr == pagerefs[i]
           taken == {b.addr % PageSize : b \in {c \in held : c.addr \div PageSize = pr.page}}
       IN /\ Cardinality(Range(pr.free)) = Len(pr.free)
          /\ Range(pr.free) \cap taken = {}
          /\ Range(pr.free) \cup taken =
               {k * Sizes[pr.blocktype] : k \in 0 .. Blocks(pr.blocktype) - 1}
          /\ i \in Range(sizebases[pr.blocktype]) /\ i \in Range(allbase)
  /\ Cardinality(inuse) = Len(allbase)
  /\ checksubpages

=============================================================================
