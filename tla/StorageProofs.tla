---------------------------- MODULE StorageProofs ----------------------------
(***************************************************************************)
(* Storage is handed out once.  First the arena, for every size_t width,    *)
(* page size, alignment set and request sequence; then the frame of a        *)
(* compiled function, for any number of temporaries and any sequence of      *)
(* declarations; then the string table, which implements the abstract        *)
(* interner for every alphabet, set of strings, hash and initial capacity.   *)
(***************************************************************************)
EXTENDS Arena, Frame, StrTab, SharedFacts, SequenceTheorems, TLAPS

-----------------------------------------------------------------------------
(* The arena *)

\* Without wrap-around, align_up returns the least multiple of align that is
\* not below n.
LEMMA AlignUpCorrect ==
  ASSUME NEW n \in Nat, NEW align \in Nat \ {0}, n + align - 1 <= SIZE_MAX
  PROVE  /\ align_up(n, align) \in Nat
         /\ align_up(n, align) >= n
         /\ align_up(n, align) < n + align
         /\ align_up(n, align) % align = 0
<1> DEFINE m == n + align - 1
<1>1. m \in Nat /\ Wrap(m) = m
  BY ArenaConstants DEF Wrap
<1>2. align_up(n, align) = m - (m % align)
  BY <1>1 DEF align_up
<1>3. m % align \in 0 .. align - 1
  BY <1>1, ModBounds
<1>4. (m - (m % align)) % align = 0
  BY <1>1, RoundedIsMultiple
<1> QED BY <1>1, <1>2, <1>3, <1>4

-----------------------------------------------------------------------------
(* The inductive invariant.  InBlock is not inductive: it needs that the    *)
(* bump pointer stays within the capacity, that the capacity is what malloc *)
(* was really asked for, and that every live allocation is below the bump   *)
(* pointer of its page, so that the next one cannot reach into it.          *)

PageInv ==
  \A i \in 1 .. Len(pages) :
    /\ pages[i].used <= pages[i].cap
    /\ pages[i].block = HDR + pages[i].cap
    /\ pages[i].block <= MaxBlock

BelowUsed == \A a \in live : a.off + a.size <= pages[a.page].used

IInv == TypeOK /\ PageInv /\ BelowUsed /\ Disjoint /\ Aligned

\* The requests that reach arena_alloc: those of its callers, and those of
\* arena_strdup.
GoodRequest(s, al) ==
  /\ s \in Nat
  /\ al \in Aligns \union {1}
  /\ s + al + HDR <= SIZE_MAX

LEMMA AlignsBound == \A al \in Aligns \union {1} : al \in Nat \ {0} /\ al <= MaxBlock
  BY ArenaConstants

LEMMA PagesTyped ==
  ASSUME IInv
  PROVE  /\ Len(pages) \in Nat
         /\ \A i \in 1 .. Len(pages) : pages[i] \in PageType
<1>1. pages \in Seq(PageType)
  BY DEF IInv, TypeOK
<1> QED BY <1>1

LEMMA LastPage ==
  ASSUME IInv, status = "open"
  PROVE  /\ Last \in 1 .. Len(pages) /\ Len(pages) \in Nat
         /\ Cur \in PageType
         /\ Cur.used <= Cur.cap /\ HDR + Cur.cap <= MaxBlock
<1>1. pages \in Seq(PageType) /\ pages # << >>
  BY DEF IInv, TypeOK
<1>2. Len(pages) \in Nat /\ Len(pages) >= 1
  BY <1>1
<1>3. Cur \in PageType
  BY <1>1, <1>2 DEF Cur, Last
<1> QED BY <1>1, <1>2, <1>3 DEF IInv, PageInv, Cur, Last

LEMMA InPagePreserves ==
  ASSUME IInv, status = "open", NEW s, NEW al, GoodRequest(s, al),
         AllocInPage(s, al)
  PROVE  IInv'
<1> DEFINE off == align_up(Cur.used, al)
           new == Alloc(Last, off, s, al)
<1>1. /\ Last \in 1 .. Len(pages) /\ Len(pages) \in Nat
      /\ Cur \in PageType
      /\ Cur.used <= Cur.cap /\ HDR + Cur.cap <= MaxBlock
  BY LastPage
<1>2. /\ off \in Nat /\ off >= Cur.used /\ off % al = 0
  <2>1. Cur.used \in Nat /\ Cur.cap \in Nat
    BY <1>1 DEF PageType
  <2>2. al \in Nat \ {0} /\ al <= MaxBlock
    BY AlignsBound DEF GoodRequest
  <2>3. Cur.used + al - 1 <= SIZE_MAX
    BY <1>1, <2>1, <2>2, ArenaConstants
  <2> QED BY <2>1, <2>2, <2>3, AlignUpCorrect
<1>3. /\ off + s <= Cur.cap
      /\ pages' = [pages EXCEPT ![Last].used = off + s]
      /\ live' = live \union {new}
      /\ status' = status /\ ret' = "ptr"
  BY DEF AllocInPage
<1> HIDE DEF off
<1>4. new \in AllocType /\ s \in Nat
  BY <1>1, <1>2, AlignsBound DEF AllocType, Alloc, GoodRequest
<1>5. /\ pages' \in Seq(PageType)
      /\ Len(pages') = Len(pages)
      /\ pages'[Last] = [Cur EXCEPT !.used = off + s]
      /\ \A i \in 1 .. Len(pages) : i # Last => pages'[i] = pages[i]
  <2>1. [Cur EXCEPT !.used = off + s] \in PageType
    BY <1>1, <1>2, <1>4 DEF PageType
  <2>2. pages' = [pages EXCEPT ![Last] = [Cur EXCEPT !.used = off + s]]
    BY <1>3 DEF Cur
  <2>3. pages \in Seq(PageType)
    BY DEF IInv, TypeOK
  <2> QED BY <1>1, <2>1, <2>2, <2>3
<1>6. TypeOK'
  BY <1>1, <1>3, <1>4, <1>5 DEF IInv, TypeOK, Alloc
<1>7. PageInv'
  BY <1>1, <1>3, <1>5 DEF IInv, TypeOK, PageInv, Cur
<1>8. \A a \in live : /\ a.page \in 1 .. Len(pages)
                      /\ a.off \in Nat /\ a.size \in Nat
                      /\ a.off + a.size <= pages[a.page].used
                      /\ a.page = Last => a.off + a.size <= off
  <2>1. TAKE a \in live
  <2>2. /\ a.page \in 1 .. Len(pages)
        /\ a.off \in Nat /\ a.size \in Nat
    BY DEF IInv, TypeOK, AllocType
  <2>3. a.off + a.size <= pages[a.page].used
    BY DEF IInv, BelowUsed
  <2>4. a.page = Last => pages[a.page].used <= off
    BY <1>1, <1>2 DEF Cur, PageType
  <2>5. pages[a.page].used \in Nat
    <3>1. pages[a.page] \in PageType
      BY <2>2, PagesTyped
    <3> QED BY <3>1 DEF PageType
  <2> QED BY <1>2, <2>2, <2>3, <2>4, <2>5
<1>9. BelowUsed'
  <2>0. pages'[Last].used = off + s
    BY <1>1, <1>5 DEF PageType
  <2>1. \A a \in live : a.off + a.size <= pages'[a.page].used
    <3>1. TAKE a \in live
    <3>2. CASE a.page = Last
      BY <1>2, <1>4, <1>8, <2>0, <3>2
    <3>3. CASE a.page # Last
      BY <1>5, <1>8, <3>3
    <3> QED BY <3>2, <3>3
  <2>2. new.off + new.size <= pages'[new.page].used
    BY <1>2, <1>4, <2>0 DEF Alloc
  <2> QED BY <2>1, <2>2, <1>3 DEF BelowUsed
<1>10. Disjoint'
  <2>1. \A a \in live : ~Overlap(a, new) /\ ~Overlap(new, a)
    BY <1>2, <1>4, <1>8 DEF Overlap, Alloc
  <2> QED BY <2>1, <1>3 DEF IInv, Disjoint
<1>11. Aligned'
  BY <1>2, <1>3 DEF IInv, Aligned, Alloc
<1> QED BY <1>6, <1>7, <1>9, <1>10, <1>11 DEF IInv

LEMMA NewPagePreserves ==
  ASSUME IInv, status = "open", NEW s, NEW al, GoodRequest(s, al),
         AllocNewPage(s, al)
  PROVE  IInv'
<1> DEFINE noff == align_up(0, al)
           asked == NewCap(s, al)
           page == [Page(asked) EXCEPT !.used = noff + s]
           new  == Alloc(Last + 1, noff, s, al)
<1>1. CASE OutOfMemory
  BY <1>1 DEF OutOfMemory, IInv, TypeOK, PageInv, BelowUsed, Disjoint,
              Aligned, Overlap
<1>2. CASE /\ MallocGrants(Page(asked).block)
           /\ pages' = Append(pages, page)
           /\ live' = live \union {new}
           /\ ret' = "ptr"
           /\ status' = status
  <2>1. /\ s \in Nat /\ al \in Nat \ {0} /\ al <= MaxBlock
        /\ s + al + HDR <= SIZE_MAX
    BY AlignsBound DEF GoodRequest
  <2>2. noff \in Nat /\ noff < al /\ noff % al = 0
    BY <2>1, ArenaConstants, AlignUpCorrect
  <2>3. /\ asked \in Nat /\ noff + s <= asked /\ HDR + asked <= SIZE_MAX
    BY <2>1, <2>2, ArenaConstants DEF NewCap
  <2>4. /\ page = [cap |-> asked, used |-> noff + s, block |-> HDR + asked]
        /\ HDR + asked <= MaxBlock
    <3>1. Wrap(HDR + asked) = HDR + asked
      BY <2>3, ArenaConstants DEF Wrap
    <3>2. Page(asked) = [cap |-> asked, used |-> 0, block |-> HDR + asked]
      BY <3>1 DEF Page
    <3> HIDE DEF asked, noff
    <3> QED BY <1>2, <3>2 DEF MallocGrants
  <2> HIDE DEF noff, asked, page
  <2>5. page \in PageType
    BY <2>1, <2>2, <2>3, <2>4, ArenaConstants DEF PageType
  <2>6. /\ pages \in Seq(PageType) /\ Len(pages) \in Nat
        /\ \A i \in 1 .. Len(pages) : pages[i] \in PageType
    BY PagesTyped DEF IInv, TypeOK
  <2>7. /\ pages' \in Seq(PageType)
        /\ Len(pages') = Last + 1
        /\ pages'[Last + 1] = page
        /\ \A i \in 1 .. Len(pages) : pages'[i] = pages[i]
    BY <1>2, <2>5, <2>6 DEF Last
  <2>8. new \in AllocType
    BY <2>1, <2>2, <2>6 DEF AllocType, Alloc, GoodRequest, Last
  <2>9. \A a \in live : /\ a.page \in 1 .. Len(pages)
                        /\ a.off + a.size <= pages[a.page].used
    BY DEF IInv, TypeOK, BelowUsed
  <2>10. TypeOK'
    <3>1. pages' # << >>
      BY <2>6, <2>7 DEF Last
    <3>2. \A a \in live' : a.page \in 1 .. Len(pages')
      BY <1>2, <2>6, <2>7, <2>9 DEF Alloc, Last
    <3> QED BY <1>2, <2>7, <2>8, <3>1, <3>2 DEF IInv, TypeOK
  <2>11. PageInv'
    BY <2>3, <2>4, <2>6, <2>7 DEF IInv, PageInv, Last
  <2>12. BelowUsed'
    <3>1. \A a \in live : a.off + a.size <= pages'[a.page].used
      BY <2>7, <2>9
    <3>2. new.off + new.size <= pages'[new.page].used
      BY <2>1, <2>2, <2>4, <2>7 DEF Alloc
    <3> QED BY <1>2, <3>1, <3>2 DEF BelowUsed
  <2>13. Disjoint'
    <3>1. \A a \in live : a.page # Last + 1
      BY <2>6, <2>9 DEF Last
    <3>2. \A a \in live : ~Overlap(a, new) /\ ~Overlap(new, a)
      BY <3>1 DEF Overlap, Alloc
    <3> QED BY <1>2, <3>2 DEF IInv, Disjoint
  <2>14. Aligned'
    BY <1>2, <2>2 DEF IInv, Aligned, Alloc
  <2> QED BY <2>10, <2>11, <2>12, <2>13, <2>14 DEF IInv
<1> QED BY <1>1, <1>2 DEF AllocNewPage

\* A chain of one fresh page with nothing live satisfies the invariant.
LEMMA FreshPage ==
  ASSUME NEW p, p \in PageType, p.used = 0, p.block = HDR + p.cap,
         p.block <= MaxBlock, pages' = <<p>>, live' = {},
         status' \in {"none", "open", "exited", "destroyed"},
         ret' \in {"none", "ptr", "null"}
  PROVE  IInv'
<1>1. /\ pages' \in Seq(PageType) /\ Len(pages') = 1 /\ pages'[1] = p
      /\ pages' # << >>
  OBVIOUS
<1>2. TypeOK'
  BY <1>1 DEF TypeOK
<1>3. PageInv'
  BY <1>1 DEF PageInv, PageType
<1> QED BY <1>2, <1>3 DEF IInv, BelowUsed, Disjoint, Aligned

LEMMA InitIInv == Init => IInv
BY DEF Init, IInv, TypeOK, PageInv, BelowUsed, Disjoint, Aligned, PageType

LEMMA NextIInv == SizesFit /\ IInv /\ [Next]_vars => IInv'
<1> SUFFICES ASSUME SizesFit, IInv, [Next]_vars PROVE IInv'
  OBVIOUS
<1>1. ASSUME NEW c \in InitCaps, arena_create(c) PROVE IInv'
  <2> DEFINE asked == IF c = 0 THEN DEFAULT_CAP ELSE c
  <2>1. CASE OutOfMemory
    BY <2>1 DEF OutOfMemory, IInv, TypeOK, PageInv, BelowUsed, Disjoint,
                Aligned, Overlap
  <2>2. CASE /\ MallocGrants(Page(asked).block)
             /\ status' = "open" /\ ret' = "ptr"
             /\ pages' = <<Page(asked)>> /\ live' = {}
    <3>1. asked \in Nat /\ HDR + asked <= SIZE_MAX
      BY ArenaConstants
    <3>2. Page(asked) = [cap |-> asked, used |-> 0, block |-> HDR + asked]
      BY <3>1, ArenaConstants DEF Page, Wrap
    <3> HIDE DEF asked
    <3> QED BY <2>2, <3>1, <3>2, ArenaConstants, FreshPage
            DEF MallocGrants, PageType
  <2> QED BY <1>1, <2>1, <2>2 DEF arena_create
<1>2. ASSUME NEW s \in Sizes, NEW al \in Aligns, arena_alloc(s, al) PROVE IInv'
  <2>1. GoodRequest(s, al) /\ status = "open"
    BY <1>2, ArenaConstants DEF GoodRequest, SizesFit, arena_alloc
  <2>2. CASE AllocReturns(s, al)
    BY <2>1, <2>2, InPagePreserves, NewPagePreserves DEF AllocReturns
  <2>3. CASE ret' = "null" /\ UNCHANGED <<status, pages, live>>
    BY <2>3 DEF IInv, TypeOK, PageInv, BelowUsed, Disjoint, Aligned, Overlap
  <2> QED BY <1>2, <2>2, <2>3 DEF arena_alloc
<1>3. ASSUME NEW l \in StrLens, arena_strdup(l) PROVE IInv'
  <2>1. /\ l \in Nat /\ StrdupSize(l) = l + 1
        /\ GoodRequest(StrdupSize(l), 1)
    BY ArenaConstants DEF StrdupSize, Wrap, GoodRequest
  <2> QED BY <1>3, <2>1, InPagePreserves, NewPagePreserves
          DEF arena_strdup, AllocReturns
<1>4. CASE arena_reset
  <2> DEFINE p == [pages[1] EXCEPT !.used = 0]
  <2>1. 1 \in 1 .. Len(pages) /\ pages[1] \in PageType
    BY <1>4, LastPage, PagesTyped DEF arena_reset
  <2>2. p \in PageType /\ p.used = 0 /\ p.block = HDR + p.cap /\ p.block <= MaxBlock
    BY <2>1 DEF PageType, IInv, PageInv
  <2> HIDE DEF p
  <2>3. pages' = <<p>> /\ live' = {} /\ status' = status /\ ret' = "none"
    BY <1>4 DEF arena_reset, p
  <2> QED BY <2>2, <2>3, FreshPage DEF IInv, TypeOK
<1>5. CASE arena_destroy
  BY <1>5 DEF arena_destroy, IInv, TypeOK, PageInv, BelowUsed, Disjoint,
              Aligned, PageType
<1>6. CASE UNCHANGED vars
  BY <1>6 DEF vars, IInv, TypeOK, PageInv, BelowUsed, Disjoint, Aligned, Overlap
<1> QED BY <1>1, <1>2, <1>3, <1>4, <1>5, <1>6 DEF Next

LEMMA IInvSafe == IInv => InBlock /\ StrdupSafe
<1> SUFFICES ASSUME IInv PROVE InBlock /\ StrdupSafe
  OBVIOUS
<1>1. InBlock
  <2> SUFFICES ASSUME NEW a \in live
               PROVE  HDR + a.off + a.size <= pages[a.page].block
    BY DEF InBlock
  <2>1. /\ a.page \in 1 .. Len(pages) /\ a.off \in Nat /\ a.size \in Nat
        /\ a.off + a.size <= pages[a.page].used
    BY DEF IInv, TypeOK, AllocType, BelowUsed
  <2>2. pages[a.page] \in PageType
    BY <2>1, PagesTyped
  <2>3. /\ pages[a.page].used <= pages[a.page].cap
        /\ pages[a.page].block = HDR + pages[a.page].cap
    BY <2>1 DEF IInv, PageInv
  <2>4. /\ pages[a.page].used \in Nat /\ pages[a.page].cap \in Nat
    BY <2>2 DEF PageType
  <2>5. a.off + a.size <= pages[a.page].cap
    BY <2>1, <2>3, <2>4
  <2>6. HDR \in Nat
    BY ArenaConstants
  <2> QED BY <2>1, <2>3, <2>4, <2>5, <2>6
<1>2. StrdupSafe
  <2> SUFFICES ASSUME status = "open", NEW l \in StrLens
               PROVE  ~AllocOverflows(StrdupSize(l), 1) /\ StrdupSize(l) >= l + 1
    BY DEF StrdupSafe
  <2>1. l \in Nat /\ StrdupSize(l) = l + 1 /\ l + 1 <= MaxBlock
    BY ArenaConstants DEF StrdupSize, Wrap
  <2>2. /\ Cur.used \in Nat /\ Cur.cap \in Nat
        /\ Cur.used <= Cur.cap /\ HDR + Cur.cap <= MaxBlock
    BY LastPage DEF PageType
  <2>3. align_up(Cur.used, 1) \in Nat /\ align_up(Cur.used, 1) < Cur.used + 1
    <3>1. Cur.used + 1 - 1 <= SIZE_MAX
      BY <2>2, ArenaConstants
    <3> QED BY <2>2, <3>1, AlignUpCorrect
  <2> QED BY <2>1, <2>2, <2>3, ArenaConstants DEF AllocOverflows
<1> QED BY <1>1, <1>2

\* No sequence of arena_create, arena_alloc, arena_strdup, arena_reset and
\* malloc failures hands out memory outside its block, two overlapping
\* allocations or a misaligned one, or makes arena_strdup write through
\* NULL, as long as no request is within sizeof(Arena) of SIZE_MAX.
THEOREM ArenaSafe ==
  ASSUME SizesFit
  PROVE  Spec => [](TypeOK /\ InBlock /\ Disjoint /\ Aligned /\ StrdupSafe)
<1>1. Init => IInv
  BY InitIInv
<1>2. IInv /\ [Next]_vars => IInv'
  BY NextIInv
<1>3. IInv => TypeOK /\ InBlock /\ Disjoint /\ Aligned /\ StrdupSafe
  BY IInvSafe DEF IInv
<1> QED BY <1>1, <1>2, <1>3, PTL DEF Spec

\* arena.c keeps its chain of pages, its bump pointer and the sizes in range in
\* every reachable state: no sum it stores has wrapped around SIZE_MAX.
THEOREM ArenaTyped == ASSUME SizesFit PROVE Spec => []TypeOK
BY ArenaSafe, PTL

\* What arena_alloc returns ends inside the block that malloc gave for its
\* page, for every request and every place of the bump pointer (arena.c:38-66).
THEOREM ArenaInBlock == ASSUME SizesFit PROVE Spec => []InBlock
BY ArenaSafe, PTL

\* arena_strdup needs no NULL test: arena_alloc has no reason but malloc to
\* refuse len + 1 bytes, and then it does not return (arena.c:70-72).
THEOREM ArenaStrdup == ASSUME SizesFit PROVE Spec => []StrdupSafe
BY ArenaSafe, PTL

-----------------------------------------------------------------------------
(* The frame *)

\* Each IR_ALLOCA defines a temporary of its own.
AllocaTemps ==
  /\ \A k \in 1 .. Len(allocas) : allocas[k].temp < next_temp
  /\ \A k, l \in 1 .. Len(allocas) : k < l => allocas[k].temp < allocas[l].temp

\* The regions placed so far lie between the slots and alloca_cur.
Placed ==
  \A k \in 1 .. pos :
    /\ -alloca_cur <= Low(k)
    /\ High(k) <= -8 * next_temp

Ordered == \A k, l \in 1 .. pos : k < l => High(l) <= Low(k)

PhaseInv ==
  /\ phase = "irgen" => pos = 0
  /\ phase # "irgen" => /\ \A t \in Temps : slot[t] = -8 * t
                        /\ alloca_cur >= 8 * next_temp
  /\ phase = "done" => frame_size = FrameSize

FrameInv ==
  FrameTypeOK /\ AllocaTemps /\ Placed /\ Ordered /\ PhaseInv /\ CompleteAligned

LEMMA AllocasTyped ==
  ASSUME FrameInv
  PROVE  /\ Len(allocas) \in Nat /\ next_temp \in Nat \ {0} /\ pos \in 0 .. Len(allocas)
         /\ alloca_cur \in Nat
         /\ \A k \in 1 .. Len(allocas) :
              /\ allocas[k].temp \in Temps /\ allocas[k].temp \in Nat \ {0}
              /\ allocas[k].size \in Nat \ {0} /\ allocas[k].align \in Nat \ {0}
              /\ allocas[k].type \in Types
<1>1. allocas \in Seq(AllocaRec)
  BY DEF FrameInv, FrameTypeOK
<1>2. Len(allocas) \in Nat /\ \A k \in 1 .. Len(allocas) : allocas[k] \in AllocaRec
  BY <1>1
<1> QED BY <1>2 DEF FrameInv, FrameTypeOK, AllocaRec, AllocaTemps, Temps

LEMMA GenPreserves ==
  ASSUME FrameInv, NEW t \in Types, gen_alloca_value(t)
  PROVE  FrameInv'
<1> DEFINE a == [temp |-> next_temp, size |-> StorageFor(t), align |-> t.align, type |-> t]
<1>1. /\ phase = "irgen" /\ next_temp' = next_temp + 1
      /\ allocas' = Append(allocas, a)
      /\ UNCHANGED <<phase, pos, alloca_cur, slot, alloca_off, frame_size>>
  BY DEF gen_alloca_value, AllocaTemp
<1>2. StorageFor(t) \in Nat \ {0}
  BY FrameConstants DEF StorageFor
<1>3. a \in AllocaRec /\ a.temp = next_temp
  BY <1>2, FrameConstants, AllocasTyped DEF AllocaRec
<1> HIDE DEF a
<1>4. allocas \in Seq(AllocaRec) /\ pos = 0
  BY <1>1 DEF FrameInv, FrameTypeOK, PhaseInv
<1>5. /\ allocas' \in Seq(AllocaRec) /\ Len(allocas') = Len(allocas) + 1
      /\ \A k \in 1 .. Len(allocas) : allocas'[k] = allocas[k]
      /\ allocas'[Len(allocas) + 1] = a
  BY <1>1, <1>3, <1>4
<1>6. next_temp \in Nat \ {0} /\ Len(allocas) \in Nat
  BY AllocasTyped
<1>7. FrameTypeOK'
  BY <1>1, <1>4, <1>5, <1>6 DEF FrameInv, FrameTypeOK
<1>8. AllocaTemps'
  <2>1. \A k \in 1 .. Len(allocas) : allocas[k].temp < next_temp /\ allocas[k].temp \in Nat
    BY AllocasTyped DEF FrameInv, AllocaTemps
  <2>2. \A k \in 1 .. Len(allocas') :
          \/ k \in 1 .. Len(allocas) /\ allocas'[k] = allocas[k]
          \/ k = Len(allocas) + 1 /\ allocas'[k] = a
    BY <1>5, <1>6
  <2>3. \A k \in 1 .. Len(allocas') : allocas'[k].temp < next_temp'
    BY <1>1, <1>3, <1>6, <2>1, <2>2
  <2>4. ASSUME NEW k \in 1 .. Len(allocas'), NEW l \in 1 .. Len(allocas'), k < l
        PROVE  allocas'[k].temp < allocas'[l].temp
    <3>1. k \in 1 .. Len(allocas) /\ allocas'[k] = allocas[k]
      BY <1>5, <1>6, <2>4
    <3>2. CASE l \in 1 .. Len(allocas) /\ allocas'[l] = allocas[l]
      BY <2>4, <3>1, <3>2 DEF FrameInv, AllocaTemps
    <3>3. CASE l = Len(allocas) + 1 /\ allocas'[l] = a
      BY <1>3, <2>1, <3>1, <3>3
    <3> QED BY <2>2, <3>2, <3>3
  <2> QED BY <2>3, <2>4 DEF AllocaTemps
<1>9. Placed' /\ Ordered' /\ CompleteAligned'
  BY <1>1, <1>4 DEF Placed, Ordered, CompleteAligned
<1>10. PhaseInv'
  BY <1>1, <1>4 DEF PhaseInv
<1> QED BY <1>7, <1>8, <1>9, <1>10 DEF FrameInv

LEMMA PlacePreserves ==
  ASSUME FrameInv, PlaceAlloca
  PROVE  FrameInv'
<1> DEFINE p == pos + 1
           a == allocas[p]
           LowN(k) == alloca_off'[allocas[k].temp]
           HighN(k) == LowN(k) + allocas[k].size
<1>1. /\ phase = "allocas" /\ pos < Len(allocas)
      /\ alloca_cur' = Bottom(a)
      /\ alloca_off' = [alloca_off EXCEPT ![a.temp] = -Bottom(a)]
      /\ pos' = p
      /\ UNCHANGED <<phase, next_temp, allocas, slot, frame_size>>
  BY DEF PlaceAlloca
<1>2. /\ pos \in Nat /\ p \in 1 .. Len(allocas) /\ Len(allocas) \in Nat
      /\ alloca_cur \in Nat /\ next_temp \in Nat \ {0}
      /\ a.temp \in Temps /\ a.size \in Nat \ {0} /\ a.align \in Nat \ {0}
  BY <1>1, AllocasTyped
<1> DEFINE up == AlignUp(alloca_cur, a.align)
<1>3. up \in Nat /\ up >= alloca_cur /\ up % a.align = 0
  BY <1>2, AlignUpFacts
<1>4. Bottom(a) = up + a.size
  BY DEF Bottom
<1> HIDE DEF up
<1>5. /\ alloca_off \in [Temps -> Int] /\ slot \in [Temps -> Int]
      /\ alloca_cur >= 8 * next_temp
  BY <1>1 DEF FrameInv, FrameTypeOK, PhaseInv
<1>6. Bottom(a) \in Nat /\ Temps' = Temps
  BY <1>1, <1>2, <1>3, <1>4 DEF Temps
<1>7. FrameTypeOK'
  BY <1>1, <1>2, <1>5, <1>6 DEF FrameInv, FrameTypeOK
<1>8. AllocaTemps'
  BY <1>1 DEF FrameInv, AllocaTemps
<1>9. \A k \in 1 .. pos : /\ LowN(k) = Low(k) /\ HighN(k) = High(k)
                          /\ Low(k) \in Int /\ High(k) \in Int
  <2> SUFFICES ASSUME NEW k \in 1 .. pos
               PROVE  /\ LowN(k) = Low(k) /\ HighN(k) = High(k)
                      /\ Low(k) \in Int /\ High(k) \in Int
    OBVIOUS
  <2>1. k \in 1 .. Len(allocas) /\ k < p
    BY <1>1, <1>2
  <2>2. allocas[k].temp < a.temp /\ allocas[k].temp \in Temps
        /\ allocas[k].temp \in Nat /\ a.temp \in Nat /\ allocas[k].size \in Nat
    BY <1>2, <2>1, AllocasTyped DEF FrameInv, AllocaTemps
  <2>3. alloca_off'[allocas[k].temp] = alloca_off[allocas[k].temp]
    BY <1>1, <1>5, <2>2
  <2>4. Low(k) \in Int
    BY <1>5, <2>2 DEF Low
  <2> QED BY <2>2, <2>3, <2>4 DEF Low, High
<1>10. LowN(p) = -Bottom(a) /\ HighN(p) = -up
  <2>1. alloca_off'[a.temp] = -Bottom(a)
    BY <1>1, <1>2, <1>5
  <2> QED BY <1>2, <1>3, <1>4, <2>1
<1>11. \A k \in 1 .. p : k \in 1 .. pos \/ k = p
  BY <1>2
<1> HIDE DEF LowN, HighN
<1>12. \A k \in 1 .. p : -alloca_cur' <= LowN(k) /\ HighN(k) <= -8 * next_temp
  <2>1. \A k \in 1 .. pos : -alloca_cur' <= LowN(k) /\ HighN(k) <= -8 * next_temp
    <3> SUFFICES ASSUME NEW k \in 1 .. pos
                 PROVE  -alloca_cur' <= LowN(k) /\ HighN(k) <= -8 * next_temp
      OBVIOUS
    <3>1. -alloca_cur <= Low(k) /\ High(k) <= -8 * next_temp
      BY DEF FrameInv, Placed
    <3>2. alloca_cur' >= alloca_cur /\ alloca_cur' \in Nat
      BY <1>1, <1>2, <1>3, <1>4
    <3> HIDE DEF a
    <3> QED BY <1>2, <1>9, <3>1, <3>2
  <2>2. -alloca_cur' <= LowN(p) /\ HighN(p) <= -8 * next_temp
    <3>1. LowN(p) = -alloca_cur'
      BY <1>1, <1>10
    <3>2. up \in Int /\ 8 * next_temp <= up
      BY <1>2, <1>3, <1>5
    <3>3. -up <= -8 * next_temp
      BY <1>2, <3>2
    <3>4. alloca_cur' \in Nat
      BY <1>1, <1>6
    <3> QED BY <1>10, <3>1, <3>3, <3>4
  <2> QED BY <1>11, <2>1, <2>2
<1>13. \A k, l \in 1 .. p : k < l => HighN(l) <= LowN(k)
  <2>1. \A k, l \in 1 .. pos : k < l => HighN(l) <= LowN(k)
    BY <1>9 DEF FrameInv, Ordered
  <2>2. \A k \in 1 .. pos : HighN(p) <= LowN(k)
    BY <1>2, <1>3, <1>9, <1>10 DEF FrameInv, Placed
  <2>3. \A k \in 1 .. p : ~(p < k)
    BY <1>2
  <2> QED BY <1>2, <1>11, <2>1, <2>2, <2>3
<1>14. \A k \in 1 .. p : allocas[k].size % allocas[k].align = 0
                           => (-LowN(k)) % allocas[k].align = 0
  <2>1. \A k \in 1 .. pos : allocas[k].size % allocas[k].align = 0
                              => (-LowN(k)) % allocas[k].align = 0
    BY <1>9 DEF FrameInv, CompleteAligned
  <2>2. a.size % a.align = 0 => Bottom(a) % a.align = 0
    BY <1>2, <1>3, <1>4, MultipleSum
  <2>3. -LowN(p) = Bottom(a)
    BY <1>6, <1>10
  <2> QED BY <1>11, <2>1, <2>2, <2>3
<1>15. Placed' /\ Ordered' /\ CompleteAligned'
  <2> USE DEF LowN, HighN
  <2>1. Placed'
    BY <1>1, <1>12 DEF Placed, Low, High
  <2>2. Ordered'
    BY <1>1, <1>13 DEF Ordered, Low, High
  <2>3. CompleteAligned'
    BY <1>1, <1>14 DEF CompleteAligned, Low
  <2> QED BY <2>1, <2>2, <2>3
<1>16. PhaseInv'
  BY <1>1, <1>2, <1>3, <1>4, <1>6 DEF FrameInv, PhaseInv
<1> QED BY <1>7, <1>8, <1>15, <1>16 DEF FrameInv

LEMMA AssignPreserves ==
  ASSUME FrameInv, AssignSlots
  PROVE  FrameInv'
<1>1. /\ phase = "irgen" /\ phase' = "allocas" /\ pos = 0
      /\ slot' = [t \in Temps |-> -8 * t]
      /\ alloca_off' = [t \in Temps |-> 0]
      /\ alloca_cur' = 8 * next_temp
      /\ UNCHANGED <<next_temp, allocas, pos, frame_size>>
  BY DEF AssignSlots, TempArea, FrameInv, PhaseInv
<1>2. next_temp \in Nat \ {0} /\ Temps' = Temps /\ Temps \subseteq Nat
  BY <1>1, AllocasTyped DEF Temps
<1>3. slot' \in [Temps -> Int] /\ alloca_off' \in [Temps -> Int] /\ alloca_cur' \in Nat
  <2>1. \A t \in Temps : -8 * t \in Int
    BY <1>2
  <2> QED BY <1>1, <1>2, <2>1
<1>4. FrameTypeOK'
  BY <1>1, <1>2, <1>3 DEF FrameInv, FrameTypeOK
<1>5. AllocaTemps'
  BY <1>1 DEF FrameInv, AllocaTemps
<1>6. Placed' /\ Ordered' /\ CompleteAligned'
  BY <1>1 DEF Placed, Ordered, CompleteAligned
<1>7. PhaseInv'
  BY <1>1, <1>2, <1>3 DEF PhaseInv
<1> QED BY <1>4, <1>5, <1>6, <1>7 DEF FrameInv

\* An action that leaves the placed regions alone.
LEMMA RegionsUnchanged ==
  ASSUME FrameInv, UNCHANGED <<allocas, pos, alloca_cur, slot, alloca_off>>,
         next_temp' \in Nat, next_temp' = next_temp \/ pos = 0, next_temp' >= next_temp
  PROVE  AllocaTemps' /\ Placed' /\ Ordered' /\ CompleteAligned'
<1>1. AllocaTemps'
  <2>1. \A k \in 1 .. Len(allocas) : allocas[k].temp < next_temp'
    BY AllocasTyped DEF FrameInv, AllocaTemps
  <2> QED BY <2>1 DEF FrameInv, AllocaTemps
<1>2. \A k \in 1 .. pos : next_temp' = next_temp
  BY AllocasTyped
<1>3. Placed'
  BY <1>2 DEF FrameInv, Placed, Low, High
<1>4. Ordered' /\ CompleteAligned'
  BY DEF FrameInv, Ordered, CompleteAligned, Low, High
<1> QED BY <1>1, <1>3, <1>4

LEMMA InitFrameInv ==
  ASSUME FrameInit
  PROVE  FrameInv
<1>1. FrameTypeOK
  BY DEF FrameInit, FrameTypeOK
<1>2. AllocaTemps /\ Placed /\ Ordered /\ CompleteAligned /\ PhaseInv
  BY DEF FrameInit, AllocaTemps, Placed, Ordered, CompleteAligned, PhaseInv
<1> QED BY <1>1, <1>2 DEF FrameInv

LEMMA NextFrameInv ==
  ASSUME FrameInv, [FrameNext]_frame_vars
  PROVE  FrameInv'
<1>1. CASE ir_new_temp
  <2>1. /\ phase = "irgen" /\ next_temp' = next_temp + 1 /\ pos = 0
        /\ UNCHANGED <<phase, allocas, pos, alloca_cur, slot, alloca_off, frame_size>>
    BY <1>1 DEF ir_new_temp, FrameInv, PhaseInv
  <2>2. next_temp' \in Nat \ {0} /\ next_temp' >= next_temp
    BY <2>1, AllocasTyped
  <2>3. FrameTypeOK'
    BY <2>1, <2>2 DEF FrameInv, FrameTypeOK
  <2>4. PhaseInv'
    BY <2>1 DEF PhaseInv
  <2> QED BY <2>1, <2>2, <2>3, <2>4, RegionsUnchanged DEF FrameInv
<1>2. CASE \E t \in Types : gen_alloca_value(t)
  BY <1>2, GenPreserves
<1>3. CASE AssignSlots
  BY <1>3, AssignPreserves
<1>4. CASE PlaceAlloca
  BY <1>4, PlacePreserves
<1>5. CASE Finish
  <2>1. /\ phase' = "done" /\ phase = "allocas" /\ frame_size' = FrameSize
        /\ UNCHANGED <<next_temp, allocas, pos, alloca_cur, slot, alloca_off>>
    BY <1>5 DEF Finish
  <2>2. alloca_cur \in Nat /\ next_temp \in Nat \ {0}
    BY AllocasTyped
  <2>3. FrameSize \in Nat
    BY <2>2, AlignUpFacts DEF FrameSize
  <2>4. FrameTypeOK'
    BY <2>1, <2>3 DEF FrameInv, FrameTypeOK, Temps
  <2>5. PhaseInv'
    BY <2>1 DEF FrameInv, PhaseInv, Temps, FrameSize
  <2> QED BY <2>1, <2>2, <2>4, <2>5, RegionsUnchanged DEF FrameInv
<1>6. CASE UNCHANGED frame_vars
  <2>1. FrameTypeOK'
    BY <1>6 DEF FrameInv, FrameTypeOK, frame_vars, Temps
  <2>2. PhaseInv'
    BY <1>6 DEF FrameInv, PhaseInv, frame_vars, Temps, FrameSize
  <2>3. next_temp \in Nat /\ next_temp' = next_temp
    BY <1>6, AllocasTyped DEF frame_vars
  <2> QED BY <1>6, <2>1, <2>2, <2>3, RegionsUnchanged DEF FrameInv, frame_vars
<1> QED BY <1>1, <1>2, <1>3, <1>4, <1>5, <1>6 DEF FrameNext

LEMMA FrameInvSafe ==
  ASSUME FrameInv
  PROVE  StorageDisjoint /\ InFrame
<1>1. /\ next_temp \in Nat \ {0} /\ alloca_cur \in Nat /\ Temps \subseteq Nat
      /\ \A t \in Temps : t < next_temp /\ t >= 1
  BY AllocasTyped DEF Temps
<1>2. phase # "irgen" => \A t \in Temps : slot[t] = -8 * t
  BY DEF FrameInv, PhaseInv
<1>3. \A k \in 1 .. pos : Low(k) \in Int /\ High(k) \in Int /\ phase # "irgen"
  <2> SUFFICES ASSUME NEW k \in 1 .. pos
               PROVE  Low(k) \in Int /\ High(k) \in Int /\ phase # "irgen"
    OBVIOUS
  <2>1. phase # "irgen" /\ k \in 1 .. Len(allocas)
    BY AllocasTyped DEF FrameInv, PhaseInv
  <2>2. alloca_off \in [Temps -> Int] /\ allocas[k].temp \in Temps /\ allocas[k].size \in Nat
    BY <2>1, AllocasTyped DEF FrameInv, FrameTypeOK
  <2> QED BY <2>1, <2>2 DEF Low, High
<1>4. StorageDisjoint
  <2>1. \A k \in 1 .. pos : \A t \in Temps : High(k) <= slot[t]
    <3> SUFFICES ASSUME NEW k \in 1 .. pos, NEW t \in Temps
                 PROVE  High(k) <= slot[t]
      OBVIOUS
    <3>1. High(k) <= -8 * next_temp /\ High(k) \in Int
      BY <1>3 DEF FrameInv, Placed
    <3>2. slot[t] = -8 * t /\ t \in Nat /\ t < next_temp
      BY <1>1, <1>2, <1>3
    <3> QED BY <1>1, <3>1, <3>2
  <2>2. phase # "irgen" => \A t, u \in Temps : t < u => slot[u] + 8 <= slot[t]
    BY <1>1, <1>2
  <2> QED BY <2>1, <2>2 DEF StorageDisjoint, FrameInv, Ordered
<1>5. InFrame
  <2> SUFFICES ASSUME phase = "done"
               PROVE  /\ frame_size % 16 = 0 /\ frame_size > 0
                      /\ \A t \in Temps : -frame_size <= slot[t] /\ slot[t] + 8 <= 0
                      /\ \A k \in 1 .. pos : -frame_size <= Low(k)
    BY DEF InFrame
  <2>1. frame_size = FrameSize /\ alloca_cur >= 8 * next_temp
    BY DEF FrameInv, PhaseInv
  <2>2. frame_size = AlignUp(alloca_cur, 16)
    BY <1>1, <2>1 DEF FrameSize
  <2>3. frame_size \in Nat /\ frame_size >= alloca_cur /\ frame_size % 16 = 0
    BY <1>1, <2>2, AlignUpFacts
  <2>4. \A t \in Temps : -frame_size <= slot[t] /\ slot[t] + 8 <= 0
    BY <1>1, <1>2, <2>1, <2>3
  <2>5. \A k \in 1 .. pos : -frame_size <= Low(k)
    BY <1>1, <1>3, <2>3 DEF FrameInv, Placed
  <2> QED BY <1>1, <2>1, <2>3, <2>4, <2>5
<1> QED BY <1>4, <1>5

(* For every function - every number of temporaries, every sequence of       *)
(* declarations of complete, incomplete and variable-length types - the      *)
(* layout regalloc_run computes gives each slot and each storage region bytes *)
(* of its own, inside a 16-aligned frame, and aligns every complete variable. *)
THEOREM FrameSafe == FrameSpec => [](FrameTypeOK /\ StorageDisjoint /\ InFrame /\ CompleteAligned)
<1>1. FrameInv => FrameTypeOK /\ StorageDisjoint /\ InFrame /\ CompleteAligned
  BY FrameInvSafe DEF FrameInv
<1> QED BY InitFrameInv, NextFrameInv, <1>1, PTL DEF FrameSpec

\* Slots, regions and the frame size that regalloc_run computes stay in range in
\* each of its phases.
THEOREM FrameTyped == FrameSpec => []FrameTypeOK
BY FrameSafe, PTL

\* Every slot and every region lies between rbp and rsp, and the frame is a
\* multiple of 16, as the code of IR_CALL relies on (codegen.c:732-737).
THEOREM FrameBounds == FrameSpec => []InFrame
BY FrameSafe, PTL

-----------------------------------------------------------------------------
(* The string table *)

\* memcmp over the whole length of two strings of the same length decides
\* equality.
LEMMA MemcmpDecides ==
  ASSUME NEW s \in Strings, NEW t \in Strings, Len(s) = Len(t),
         SubSeq(s, 1, Len(t)) = SubSeq(t, 1, Len(t))
  PROVE  s = t
<1>1. s \in Seq(Bytes) /\ t \in Seq(Bytes)
  BY StrTabConstants
<1>2. SubSeq(s, 1, Len(s)) = s /\ SubSeq(t, 1, Len(t)) = t
  BY <1>1
<1> QED BY <1>2

\* The search compares exactly what it should: an entry matches if and only
\* if it holds the string, whatever the hash function.
LEMMA MatchesIff ==
  ASSUME TabTypeOK, CacheCoherent, NEW i \in 0 .. count - 1, NEW s \in Strings
  PROVE  Matches(i, s) <=> entries[i].str = s
<1>1. entries[i] \in Entry /\ entries[i].str \in Strings
  BY DEF TabTypeOK, Entry
<1>2. entries[i].len = Len(entries[i].str) /\ entries[i].hash = fnv1a(entries[i].str)
  BY DEF CacheCoherent
<1>3. ASSUME Matches(i, s) PROVE entries[i].str = s
  <2>1. /\ Len(entries[i].str) = Len(s)
        /\ SubSeq(entries[i].str, 1, Len(s)) = SubSeq(s, 1, Len(s))
    BY <1>2, <1>3 DEF Matches
  <2> QED BY <1>1, <2>1, MemcmpDecides
<1>4. ASSUME entries[i].str = s PROVE Matches(i, s)
  BY <1>2, <1>4 DEF Matches
<1> QED BY <1>3, <1>4

-----------------------------------------------------------------------------
(* Injective and CacheCoherent are inductive together: the search is exact   *)
(* only because the cached hash and length are, and a string is stored once  *)
(* only because the search is exact.                                         *)

CountOK == /\ tab_status \in {"open", "freed", "exited"}
           /\ tab_status = "open" => cap > 0

TabInv == TabTypeOK /\ CountOK /\ CacheCoherent /\ Injective

LEMMA InitTabInv == TabInit => TabInv
BY StrTabConstants
   DEF TabInit, TabInv, TabTypeOK, CountOK, CacheCoherent, Injective, Nothing, Entry

\* What InternNew does to the arrays.
LEMMA InternNewEffect ==
  ASSUME TabInv, tab_status = "open", NEW s \in Strings, InternNew(s)
  PROVE  /\ cap' \in Nat /\ cap' > count /\ cap' > 0
         /\ count' = count + 1 /\ tab_status' = "open"
         /\ result' = <<"index", count, s>>
         /\ DOMAIN entries' = 0 .. cap' - 1
         /\ \A i \in 0 .. count - 1 : entries'[i] = entries[i]
         /\ entries'[count] = [str |-> s, len |-> Len(s), hash |-> fnv1a(s)]
<1>1. /\ cap \in Nat /\ count \in 0 .. cap /\ cap > 0
      /\ DOMAIN entries = 0 .. cap - 1
  BY DEF TabInv, TabTypeOK, CountOK
<1>2. GrownCap \in Nat /\ GrownCap > count /\ GrownCap >= cap
  BY <1>1 DEF GrownCap, Full
<1>3. cap' = GrownCap /\ count' = count + 1 /\ tab_status' = "open"
      /\ result' = <<"index", count, s>>
  BY DEF InternNew
<1> DEFINE e == [str |-> s, len |-> Len(s), hash |-> fnv1a(s)]
<1>4. entries' = [j \in (0 .. GrownCap - 1) \union {count} |->
                    IF j = count THEN e ELSE Grown[j]]
  BY DEF InternNew, Store, Grown
<1>5. (0 .. GrownCap - 1) \union {count} = 0 .. GrownCap - 1
  BY <1>1, <1>2
<1>6. \A i \in 0 .. count - 1 : Grown[i] = entries[i] /\ i \in 0 .. GrownCap - 1
  BY <1>1, <1>2 DEF Grown
<1> HIDE DEF e
<1>7. \A i \in 0 .. count - 1 : entries'[i] = entries[i]
  BY <1>1, <1>4, <1>5, <1>6
<1>8. entries'[count] = e
  BY <1>1, <1>2, <1>4, <1>5
<1>9. DOMAIN entries' = 0 .. cap' - 1
  BY <1>3, <1>4, <1>5
<1> QED BY <1>1, <1>2, <1>3, <1>7, <1>8, <1>9 DEF e

LEMMA InternNewPreserves ==
  ASSUME TabInv, tab_status = "open", NEW s \in Strings, InternNew(s)
  PROVE  TabInv'
<1> DEFINE e == [str |-> s, len |-> Len(s), hash |-> fnv1a(s)]
<1>1. /\ cap' \in Nat /\ cap' > count /\ cap' > 0
      /\ count' = count + 1 /\ tab_status' = "open"
      /\ result' = <<"index", count, s>>
      /\ DOMAIN entries' = 0 .. cap' - 1
      /\ \A i \in 0 .. count - 1 : entries'[i] = entries[i]
      /\ entries'[count] = e
  BY InternNewEffect
<1>2. count \in Nat
  BY DEF TabInv, TabTypeOK
<1>3. e \in Entry
  BY StrTabConstants DEF Entry, fnv1a
<1>4. \A i \in 0 .. count' - 1 : i \in 0 .. count - 1 \/ i = count
  BY <1>1, <1>2
<1> HIDE DEF e
<1>5. TabTypeOK'
  <2>1. \A i \in 0 .. count' - 1 : entries'[i] \in Entry
    BY <1>1, <1>3, <1>4 DEF TabInv, TabTypeOK
  <2>2. count' \in 0 .. cap'
    BY <1>1, <1>2
  <2> QED BY <1>1, <1>2, <2>1, <2>2 DEF TabTypeOK
<1>6. CacheCoherent'
  <2>1. e.len = Len(e.str) /\ e.hash = fnv1a(e.str)
    BY DEF e
  <2> QED BY <1>1, <1>4, <2>1 DEF TabInv, CacheCoherent, fnv1a
<1>7. \A i \in 0 .. count - 1 : entries[i].str # s
  BY MatchesIff DEF InternNew, NotFound, LastScanned, TabInv
<1>8. Injective'
  <2> SUFFICES ASSUME NEW i \in 0 .. count' - 1, NEW j \in 0 .. count' - 1,
                      entries'[i].str = entries'[j].str
               PROVE  i = j
    BY DEF Injective
  <2>0. /\ e.str = s
        /\ \A k \in 0 .. count - 1 : entries'[k].str = entries[k].str
    BY <1>1 DEF e
  <2>1. ASSUME NEW k \in 0 .. count' - 1, k # count
        PROVE  /\ k \in 0 .. count - 1
               /\ entries'[k].str = entries[k].str /\ entries'[k].str # s
    <3>1. k \in 0 .. count - 1
      BY <1>4, <2>1
    <3> QED BY <1>7, <2>0, <3>1
  <2>2. entries'[count].str = s
    BY <1>1, <2>0
  <2>3. CASE i # count /\ j # count
    <3>1. /\ i \in 0 .. count - 1 /\ j \in 0 .. count - 1
          /\ entries[i].str = entries[j].str
      BY <2>1, <2>3
    <3> QED BY <3>1 DEF TabInv, Injective
  <2>4. CASE i = count \/ j = count
    BY <2>1, <2>2, <2>4
  <2> QED BY <2>3, <2>4
<1> QED BY <1>1, <1>5, <1>6, <1>8 DEF TabInv, CountOK

LEMMA NextTabInv == TabInv /\ [TabNext]_tab_vars => TabInv'
<1> SUFFICES ASSUME TabInv, [TabNext]_tab_vars PROVE TabInv'
  OBVIOUS
<1> USE DEF TabInv
<1>1. ASSUME NEW s \in Strings, strtab_intern(s) PROVE TabInv'
  <2>1. CASE InternExisting(s)
    <3>1. PICK i \in 0 .. count - 1 :
                 /\ result' = <<"index", i, s>>
                 /\ UNCHANGED <<tab_status, entries, count, cap>>
      BY <2>1 DEF InternExisting
    <3>2. count \in Nat
      BY DEF TabTypeOK
    <3>3. TabTypeOK'
      BY <3>1, <3>2 DEF TabTypeOK
    <3>4. CountOK' /\ CacheCoherent' /\ Injective'
      BY <3>1 DEF CountOK, CacheCoherent, Injective, fnv1a
    <3> QED BY <3>3, <3>4
  <2>2. CASE InternNew(s)
    BY <1>1, <2>2, InternNewPreserves DEF strtab_intern
  <2>3. CASE InternOutOfMemory(s)
    BY <2>3 DEF InternOutOfMemory, TabTypeOK, CountOK, CacheCoherent, Injective,
                Nothing
  <2> QED BY <1>1, <2>1, <2>2, <2>3 DEF strtab_intern
<1>2. ASSUME NEW i \in -1 .. MaxCap, strtab_get(i) PROVE TabInv'
  <2>1. UNCHANGED <<tab_status, entries, count, cap>>
    BY <1>2 DEF strtab_get
  <2>2. \/ result' = Nothing
        \/ result'[1] = "index" /\ result'[2] \in Nat
        \/ result'[1] = "string" /\ result'[2] \in Strings
    <3>1. CASE i < 0 \/ i >= count
      BY <1>2, <3>1 DEF strtab_get
    <3>2. CASE i \in 0 .. count - 1
      <4>1. entries[i].str \in Strings
        BY <3>2 DEF TabTypeOK, Entry
      <4>2. result' = <<"string", entries[i].str, i>>
        BY <1>2, <3>2 DEF strtab_get, TabTypeOK
      <4> QED BY <4>1, <4>2
    <3>3. i \in Int /\ count \in Nat
      BY StrTabConstants DEF TabTypeOK
    <3> QED BY <3>1, <3>2, <3>3
  <2> QED BY <2>1, <2>2 DEF TabTypeOK, CountOK, CacheCoherent, Injective, fnv1a
<1>3. CASE strtab_free
  BY <1>3 DEF strtab_free, TabTypeOK, CountOK, CacheCoherent, Injective, Nothing
<1>4. CASE UNCHANGED tab_vars
  BY <1>4 DEF tab_vars, TabTypeOK, CountOK, CacheCoherent, Injective, Nothing
<1> QED BY <1>1, <1>2, <1>3, <1>4 DEF TabNext

\* The interning table never stores past its arrays, never caches a wrong
\* hash or length, and never gives one string two indices, for every hash
\* function and every sequence of calls (strtab.c:46-94).
THEOREM StrTabSafe == TabSpec => [](TabTypeOK /\ CacheCoherent /\ Injective)
<1>1. TabInit => TabInv
  BY InitTabInv
<1>2. TabInv /\ [TabNext]_tab_vars => TabInv'
  BY NextTabInv
<1>3. TabInv => TabTypeOK /\ CacheCoherent /\ Injective
  BY DEF TabInv
<1> QED BY <1>1, <1>2, <1>3, PTL DEF TabSpec

-----------------------------------------------------------------------------
(* Refinement *)

LEMMA AbsTableFacts ==
  ASSUME TabInv, tab_status # "exited"
  PROVE  /\ AbsTable \in Seq(Strings)
         /\ Len(AbsTable) = count
         /\ \A i \in 1 .. count : AbsTable[i] = entries[i - 1].str
<1>1. count \in Nat /\ \A i \in 1 .. count : entries[i - 1].str \in Strings
  BY DEF TabInv, TabTypeOK, Entry
<1>2. AbsTable = [i \in 1 .. count |-> entries[i - 1].str]
  BY DEF AbsTable
<1> QED BY <1>1, <1>2

LEMMA AppendIs ==
  ASSUME NEW t \in Seq(Strings), NEW x \in Strings
  PROVE  Append(t, x) = [i \in 1 .. Len(t) + 1 |->
                           IF i = Len(t) + 1 THEN x ELSE t[i]]
<1> DEFINE f == [i \in 1 .. Len(t) + 1 |-> IF i = Len(t) + 1 THEN x ELSE t[i]]
<1>1. Len(t) \in Nat /\ \A i \in 1 .. Len(t) : t[i] \in Strings
  BY LenProperties, ElementOfSeq
<1>2. f \in Seq(Strings) /\ Len(f) = Len(t) + 1
  BY <1>1
<1>3. /\ Append(t, x) \in Seq(Strings) /\ Len(Append(t, x)) = Len(t) + 1
      /\ \A i \in 1 .. Len(t) : Append(t, x)[i] = t[i]
      /\ Append(t, x)[Len(t) + 1] = x
  BY AppendProperties
<1>4. \A i \in 1 .. Len(t) + 1 : Append(t, x)[i] = f[i]
  BY <1>1, <1>3
<1> QED BY <1>2, <1>3, <1>4, SeqEqual

LEMMA InternNewRefines ==
  ASSUME TabInv, tab_status = "open", NEW s \in Strings, InternNew(s)
  PROVE  Abs!InternNew(s)
<1>1. /\ count' = count + 1 /\ tab_status' = "open"
      /\ result' = <<"index", count, s>>
      /\ \A i \in 0 .. count - 1 : entries'[i] = entries[i]
      /\ entries'[count].str = s
  <2>1. entries'[count] = [str |-> s, len |-> Len(s), hash |-> fnv1a(s)]
    BY InternNewEffect
  <2>2. entries'[count].str = s
    BY <2>1
  <2> QED BY <2>2, InternNewEffect
<1>2. TabInv'
  BY InternNewPreserves
<1>3. /\ AbsTable \in Seq(Strings) /\ Len(AbsTable) = count /\ count \in Nat
      /\ \A i \in 1 .. count : AbsTable[i] = entries[i - 1].str
  BY AbsTableFacts DEF TabInv, TabTypeOK
<1>4. AbsTable = [i \in 1 .. count |-> entries[i - 1].str]
  BY DEF AbsTable
<1>5. AbsTable' = [i \in 1 .. count + 1 |-> entries'[i - 1].str]
  BY <1>1 DEF AbsTable
<1>6. \A i \in 1 .. count : entries'[i - 1].str = AbsTable[i]
  BY <1>1, <1>3
<1>7. AbsTable' = Append(AbsTable, s)
  <2>1. AbsTable' = [i \in 1 .. Len(AbsTable) + 1 |->
                       IF i = Len(AbsTable) + 1 THEN s ELSE AbsTable[i]]
    BY <1>1, <1>3, <1>5, <1>6
  <2>2. Append(AbsTable, s) =
          [i \in 1 .. Len(AbsTable) + 1 |->
             IF i = Len(AbsTable) + 1 THEN s ELSE AbsTable[i]]
    <3>1. AbsTable \in Seq(Strings)
      BY <1>3, Zenon
    <3> QED BY <3>1, AppendIs, Zenon
  <2> QED BY <2>1, <2>2
<1>8. \A i \in 1 .. count : AbsTable[i] # s
  <2>1. \A i \in 0 .. count - 1 : ~Matches(i, s)
    BY DEF InternNew, NotFound, LastScanned
  <2>2. \A i \in 0 .. count - 1 : entries[i].str # s
    BY <2>1, MatchesIff DEF TabInv
  <2> QED BY <1>3, <2>2
<1> QED BY <1>1, <1>3, <1>7, <1>8 DEF Abs!InternNew, Abs!Known

LEMMA StepRefines == TabInv /\ [TabNext]_tab_vars => [Abs!Next]_Abs!vars
<1> SUFFICES ASSUME TabInv, [TabNext]_tab_vars PROVE [Abs!Next]_Abs!vars
  OBVIOUS
<1>1. ASSUME NEW s \in Strings, strtab_intern(s) PROVE Abs!Next
  <2>1. CASE InternExisting(s)
    <3>1. PICK i \in 0 .. count - 1 : find_slot(i, s) /\ result' = <<"index", i, s>>
      BY <2>1 DEF InternExisting
    <3>2. entries[i].str = s
      BY <3>1, MatchesIff DEF find_slot, TabInv
    <3>3. /\ Len(AbsTable) = count /\ count \in Nat
          /\ AbsTable[i + 1] = entries[i].str /\ i + 1 \in 1 .. count
      BY <1>1, AbsTableFacts DEF TabInv, TabTypeOK, strtab_intern
    <3>4. AbsTable' = AbsTable
      BY <2>1 DEF InternExisting, AbsTable
    <3>5. Abs!InternKnown(s)
      BY <3>1, <3>2, <3>3, <3>4 DEF Abs!InternKnown
    <3> QED BY <3>5 DEF Abs!Next
  <2>2. CASE InternNew(s)
    BY <1>1, <2>2, InternNewRefines DEF strtab_intern, Abs!Next
  <2>3. CASE InternOutOfMemory(s)
    BY <2>3 DEF InternOutOfMemory, AbsTable, Nothing, Abs!Next, Abs!Free
  <2> QED BY <1>1, <2>1, <2>2, <2>3 DEF strtab_intern
<1>2. ASSUME NEW i \in -1 .. MaxCap, strtab_get(i) PROVE Abs!Next
  <2>1. AbsTable' = AbsTable
    BY <1>2 DEF strtab_get, AbsTable
  <2>2. CASE i < 0 \/ i >= count
    BY <1>2, <2>1, <2>2 DEF strtab_get, Nothing, Abs!Next, Abs!GetNothing
  <2>3. CASE i \in 0 .. count - 1
    <3>1. /\ Len(AbsTable) = count /\ count \in Nat
          /\ AbsTable[i + 1] = entries[i].str
      BY <1>2, <2>3, AbsTableFacts DEF TabInv, TabTypeOK, strtab_get
    <3>2. result' = <<"string", AbsTable[i + 1], i>>
      BY <1>2, <2>3, <3>1 DEF strtab_get
    <3>3. Abs!Get(i) /\ i \in 0 .. Len(AbsTable) - 1
      BY <2>1, <2>3, <3>1, <3>2 DEF Abs!Get
    <3> QED BY <3>3 DEF Abs!Next
  <2>4. i \in Int /\ count \in Nat
    BY StrTabConstants DEF TabInv, TabTypeOK
  <2> QED BY <2>2, <2>3, <2>4
<1>3. CASE strtab_free
  <2>1. AbsTable' = << >>
    BY <1>3 DEF strtab_free, AbsTable
  <2> QED BY <1>3, <2>1 DEF strtab_free, Nothing, Abs!Next, Abs!Free
<1>4. CASE UNCHANGED tab_vars
  BY <1>4 DEF tab_vars, AbsTable, Abs!vars
<1> QED BY <1>1, <1>2, <1>3, <1>4 DEF TabNext

\* The hash table with its growing arrays implements the abstract interner.
THEOREM StrTabImplements == TabSpec => Implements
<1>1. TabInit => Abs!Init
  <2>1. ASSUME TabInit PROVE AbsTable = << >>
    BY <2>1 DEF TabInit, AbsTable
  <2> QED BY <2>1 DEF TabInit, Abs!Init, Nothing
<1>2. TabInv /\ [TabNext]_tab_vars => [Abs!Next]_Abs!vars
  BY StepRefines
<1>3. TabInit => TabInv
  BY InitTabInv
<1>4. TabInv /\ [TabNext]_tab_vars => TabInv'
  BY NextTabInv
<1> QED BY <1>1, <1>2, <1>3, <1>4, PTL DEF TabSpec, Implements, Abs!Spec

\* count never exceeds the capacity and everything below it is initialised: the
\* three arrays of strtab.c grow together, before the store that needs it.
THEOREM StrTabTyped == TabSpec => []TabTypeOK
BY StrTabSafe, PTL
=============================================================================
