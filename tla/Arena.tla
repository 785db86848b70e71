-------------------------------- MODULE Arena --------------------------------
(***************************************************************************)
(* The bump-pointer arena of src/src/arena.c: a chain of malloc'ed pages,  *)
(* of which only the last one serves requests.  Every AST node, type,      *)
(* symbol, IR instruction and interned string of the compiler lives here,  *)
(* so two overlapping allocations would corrupt the program being          *)
(* compiled without any diagnostic.                                        *)
(*                                                                         *)
(* Offsets are relative to a page's base.  malloc returns addresses that   *)
(* are aligned for every request of the compiler, and the header           *)
(* (sizeof(Arena) = 32) keeps that alignment, so an aligned offset is an   *)
(* aligned address.  size_t arithmetic wraps modulo SIZE_MAX + 1.          *)
(***************************************************************************)
EXTENDS Integers, Sequences, FiniteSets

CONSTANTS
  SIZE_MAX,      \* the largest size_t
  MaxBlock,      \* the largest block malloc ever grants (PTRDIFF_MAX)
  HDR,           \* sizeof(Arena)
  DEFAULT_CAP,   \* ARENA_DEFAULT_CAP
  InitCaps,      \* arguments of arena_create (0 = default)
  Sizes,         \* request sizes of arena_alloc
  Aligns,        \* request alignments of arena_alloc
  StrLens,       \* lengths of the strings given to arena_strdup
  MaxLive        \* bound: allocations between two resets

ASSUME ArenaConstants ==
  /\ SIZE_MAX \in Nat /\ MaxBlock \in Nat /\ HDR \in Nat \ {0}
  /\ DEFAULT_CAP \in Nat \ {0} /\ MaxLive \in Nat \ {0}
  /\ HDR < MaxBlock /\ 2 * MaxBlock <= SIZE_MAX
  /\ HDR + DEFAULT_CAP <= SIZE_MAX
  /\ InitCaps \subseteq Nat
  /\ \A c \in InitCaps : HDR + c <= SIZE_MAX
  /\ Sizes \subseteq 0 .. SIZE_MAX
  /\ Aligns \subseteq 1 .. MaxBlock
  \* A C string and its NUL are an object, and no object exceeds MaxBlock.
  /\ StrLens \subseteq Nat
  /\ \A l \in StrLens : l + 1 <= MaxBlock

VARIABLES
  status,  \* "none" | "open" | "exited" (exit(1)) | "destroyed"
  pages,   \* the chain: <<[cap, used, block], ...>>; block = bytes malloc'ed
  live,    \* allocations handed out since creation or the last reset
  ret      \* outcome of the last call: "none" | "ptr" | "null"

vars == <<status, pages, live, ret>>

Wrap(n) == n % (SIZE_MAX + 1)

\* A mutation: the rounding mask without the preceding addition.
AlignDown(n, align) == n - (n % align)

align_up(n, align) ==
  LET m == Wrap(n + align - 1) IN m - (m % align)

\* malloc: grants a block or fails; never more than MaxBlock bytes.
MallocGrants(n) == n <= MaxBlock

Page(cap) == [cap |-> cap, used |-> 0, block |-> Wrap(HDR + cap)]

\* The page the walk along "next" ends at.
Last == Len(pages)
Cur  == pages[Last]

Alloc(page, off, size, align) ==
  [page |-> page, off |-> off, size |-> size, align |-> align]

-----------------------------------------------------------------------------
Init ==
  /\ status = "none"
  /\ pages = << >>
  /\ live = {}
  /\ ret = "none"

\* malloc returned NULL: arena_create and arena_alloc print and exit(1).
OutOfMemory ==
  /\ status' = "exited"
  /\ ret' = "none"
  /\ UNCHANGED <<pages, live>>

arena_create(initial_cap) ==
  LET cap == IF initial_cap = 0 THEN DEFAULT_CAP ELSE initial_cap
      page == Page(cap)
  IN  /\ status = "none"
      /\ \/ /\ MallocGrants(page.block)
            /\ status' = "open"
            /\ pages' = <<page>>
            /\ live' = {}
            /\ ret' = "ptr"
         \/ OutOfMemory

\* arena_alloc, first half: the request fits in the last page.
AllocInPage(size, align) ==
  LET off == align_up(Cur.used, align)
  IN  /\ off <= SIZE_MAX - size
      /\ off + size <= Cur.cap
      /\ pages' = [pages EXCEPT ![Last].used = off + size]
      /\ live' = live \union {Alloc(Last, off, size, align)}
      /\ ret' = "ptr"
      /\ status' = status

\* A mutation: a request larger than the default page is forgotten.
NewCapDefault(size, align) == DEFAULT_CAP

NewCap(size, align) ==
  IF size + align > DEFAULT_CAP THEN size + align ELSE DEFAULT_CAP

\* arena_alloc, second half: append a page that serves this request.
AllocNewPage(size, align) ==
  LET off  == align_up(Cur.used, align)
      page == Page(NewCap(size, align))
      noff == align_up(0, align)
  IN  /\ off <= SIZE_MAX - size
      /\ off + size > Cur.cap
      /\ size <= SIZE_MAX - align
      /\ \/ /\ MallocGrants(page.block)
            /\ pages' = Append(pages, [page EXCEPT !.used = noff + size])
            /\ live' = live \union {Alloc(Last + 1, noff, size, align)}
            /\ ret' = "ptr"
            /\ status' = status
         \/ OutOfMemory

\* The two overflow tests of arena_alloc.
AllocOverflows(size, align) ==
  LET off == align_up(Cur.used, align)
  IN  \/ off > SIZE_MAX - size
      \/ off + size > Cur.cap /\ size > SIZE_MAX - align

\* arena_alloc as its callers see it, when the result is not NULL.
AllocReturns(size, align) ==
  /\ Cardinality(live) < MaxLive
  /\ AllocInPage(size, align) \/ AllocNewPage(size, align)

arena_alloc(size, align) ==
  /\ status = "open"
  /\ \/ AllocReturns(size, align)
     \/ /\ AllocOverflows(size, align)
        /\ ret' = "null"
        /\ UNCHANGED <<status, pages, live>>

\* A mutation: the length is taken without room for the terminating NUL.
StrdupSizeNoNul(len) == Wrap(len)

\* arena_strdup requests len + 1 bytes ...
StrdupSize(len) == Wrap(len + 1)

\* ... and writes them without testing the result.  A NULL result would be
\* undefined behaviour: StrdupSafe shows that it cannot happen.
arena_strdup(len) ==
  /\ status = "open"
  /\ AllocReturns(StrdupSize(len), 1)

\* A mutation: the loop frees the first page too.
ResetAll ==
  /\ status = "open"
  /\ pages' = << >>
  /\ live' = {}
  /\ ret' = "none"
  /\ status' = status

arena_reset ==
  /\ status = "open"
  /\ pages' = <<[pages[1] EXCEPT !.used = 0]>>
  /\ live' = {}
  /\ ret' = "none"
  /\ status' = status

arena_destroy ==
  /\ status = "open"
  /\ status' = "destroyed"
  /\ pages' = << >>
  /\ live' = {}
  /\ ret' = "none"

Next ==
  \/ \E c \in InitCaps : arena_create(c)
  \/ \E s \in Sizes, al \in Aligns : arena_alloc(s, al)
  \/ \E l \in StrLens : arena_strdup(l)
  \/ arena_reset
  \/ arena_destroy

Spec == Init /\ [][Next]_vars

-----------------------------------------------------------------------------
(* Properties *)

PageType == [cap : Nat, used : Nat, block : Nat]

AllocType ==
  [page : Nat \ {0}, off : Nat, size : Nat, align : Aligns \union {1}]

\* The state of the arena has the type its C declarations give it.
TypeOK ==
  /\ status \in {"none", "open", "exited", "destroyed"}
  /\ pages \in Seq(PageType)
  /\ live \subseteq AllocType
  /\ ret \in {"none", "ptr", "null"}
  /\ status = "open" => pages # << >>
  /\ \A a \in live : a.page \in 1 .. Len(pages)

\* No request is so large that sizeof(Arena) + new_cap wraps around.
SizesFit == \A s \in Sizes, al \in Aligns : s + al + HDR <= SIZE_MAX

\* Every allocation lies inside the block malloc returned for its page:
\* arena.c:44-46, the new page is "big enough for this allocation".
InBlock ==
  \A a \in live : HDR + a.off + a.size <= pages[a.page].block

Overlap(a, b) ==
  /\ a.page = b.page
  /\ a.off < b.off + b.size
  /\ b.off < a.off + a.size

\* Two live allocations never share a byte, whatever mixture of sizes and
\* alignments was requested and however the chain grew: two AST nodes,
\* types or instructions never overwrite each other.
Disjoint == \A a, b \in live : a # b => ~Overlap(a, b)

\* The returned pointer has the alignment its caller asked for.
Aligned == \A a \in live : a.off % a.align = 0

\* arena_strdup writes len + 1 bytes through the result of arena_alloc
\* without a NULL test (arena.c:70-72).  That is safe in every state: no
\* string is long enough for arena_alloc's overflow tests to fire, nor for
\* len + 1 to wrap to fewer bytes than are written.
StrdupSafe ==
  status = "open" =>
    \A l \in StrLens :
      /\ ~AllocOverflows(StrdupSize(l), 1)
      /\ StrdupSize(l) >= l + 1
=============================================================================
