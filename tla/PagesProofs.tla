----------------------------- MODULE PagesProofs -----------------------------
(***************************************************************************)
(* The page allocator is correct for every number of pages, every page     *)
(* size and whatever the callers leave in the pages they hold.             *)
(*                                                                         *)
(* The argument: the properties that concern the list and the two history  *)
(* variables are inductive together once two facts are added, that every   *)
(* page on the list carries the magic number, and that the pages a         *)
(* kpfree_range still has to free are held.                                *)
(***************************************************************************)
EXTENDS Pages, MemLayoutLemmas, TLAPS

OnList(p) == \E i \in 1..Len(fifo) : fifo[i] = p

FreeMagic == \A i \in 1..Len(fifo) : magic[fifo[i]] = TRUE

RangeAhead ==
  range.busy =>
    /\ mm_is_page_aligned(range.curr)
    /\ range.start <= range.curr
    /\ PagesIn(range.curr, range.last) \subseteq held

\* The part of the invariant that the free list alone decides.
ListInv == FreeListWhole /\ FreeOrHeld /\ FreeMagic

IInv == TypeOK /\ ListInv /\ MagicAssertHolds /\ RangeAhead /\ RangeExact

-----------------------------------------------------------------------------
(* What the operations of list.h that pages.c calls do to a ring, for      *)
(* every set of nodes and every sequence on the ring.                      *)

\* The nodes of a ring are the head and the entries of its sequence.
LEMMA AtTyped ==
  ASSUME NEW N, NEW head \in N, NEW P \in SUBSET (N \ {head}), NEW s \in Seq(P),
         NEW i \in Int
  PROVE  /\ At(head, s, i) \in N
         /\ i \in 1..Len(s) => At(head, s, i) = s[i] /\ s[i] \in P
         /\ i \notin 1..Len(s) => At(head, s, i) = head
BY DEF At

\* A store into the fields of a node off the ring leaves the ring alone.
LEMMA StoreOffRing ==
  ASSUME NEW N, NEW head \in N, NEW P \in SUBSET (N \ {head}), NEW s \in Seq(P),
         NEW h \in Heap(N), Ring(h, head, s),
         NEW n \in N, n # head, \A i \in 1..Len(s) : s[i] # n,
         NEW u \in N \cup {NULL}, NEW v \in N \cup {NULL}
  PROVE  /\ SetPrev(SetNext(h, n, u), n, v) \in Heap(N)
         /\ Ring(SetPrev(SetNext(h, n, u), n, v), head, s)
<1> DEFINE g == SetPrev(SetNext(h, n, u), n, v)
<1>1. g \in Heap(N)
  BY DEF SetPrev, SetNext, Heap
<1>2. \A x \in N : x # n => g.next[x] = h.next[x] /\ g.prev[x] = h.prev[x]
  BY DEF SetPrev, SetNext, Heap
<1>3. \A i \in Int : At(head, s, i) \in N /\ At(head, s, i) # n
  BY DEF At
<1>4. QED
  BY <1>1, <1>2, <1>3 DEF Ring

\* list_add_tail appends to the sequence of the ring.
LEMMA AddTailAppends ==
  ASSUME NEW N, NEW head \in N, NEW P \in SUBSET (N \ {head}), NEW s \in Seq(P),
         NEW h \in Heap(N), Ring(h, head, s), Distinct(s),
         NEW p \in P, \A i \in 1..Len(s) : s[i] # p
  PROVE  /\ list_add_tail(h, p, head) \in Heap(N)
         /\ Ring(list_add_tail(h, p, head), head, Append(s, p))
         /\ Distinct(Append(s, p))
<1> DEFINE g    == list_add_tail(h, p, head)
           t    == Append(s, p)
           last == At(head, s, Len(s))
<1>1. h.prev[head] = last
  BY DEF Ring, At
<1>2. last \in N /\ last # p /\ p # head
  BY DEF At
<1>3. /\ g.next = [h.next EXCEPT ![p] = head, ![last] = p]
      /\ g.prev = [h.prev EXCEPT ![head] = p, ![p] = last]
      /\ g \in Heap(N)
  BY <1>1, <1>2 DEF list_add_tail, __list_add, SetNext, SetPrev, Heap
<1>4. t \in Seq(P) /\ Len(t) = Len(s) + 1
  OBVIOUS
<1>5. ASSUME NEW i \in 0..Len(t)
      PROVE  /\ g.next[At(head, t, i)] = At(head, t, i + 1)
             /\ g.prev[At(head, t, i + 1)] = At(head, t, i)
  <2>1. CASE i < Len(s)
    <3>1. At(head, t, i) = At(head, s, i) /\ At(head, t, i + 1) = s[i + 1]
      BY <2>1 DEF At
    <3>2. /\ h.next[At(head, s, i)] = s[i + 1]
          /\ h.prev[s[i + 1]] = At(head, s, i)
      BY <2>1 DEF Ring, At
    <3>3. /\ At(head, s, i) # last /\ At(head, s, i) # p /\ At(head, s, i) \in N
          /\ s[i + 1] # head /\ s[i + 1] # p /\ s[i + 1] \in N
      BY <2>1 DEF At, Distinct
    <3>4. QED
      BY <3>1, <3>2, <3>3, <1>2, <1>3 DEF Heap
  <2>2. CASE i = Len(s)
    BY <2>2, <1>2, <1>3 DEF Ring, At, Distinct, Heap
  <2>3. CASE i = Len(s) + 1
    BY <2>3, <1>2, <1>3 DEF Ring, At, Distinct, Heap
  <2>4. QED
    BY <2>1, <2>2, <2>3
<1>6. Distinct(t)
  BY DEF Distinct
<1>7. QED
  BY <1>3, <1>5, <1>6 DEF Ring

\* The first entry of a ring that is not empty, and the test for an empty one.
LEMMA FirstEntry ==
  ASSUME NEW N, NEW head \in N, NEW P \in SUBSET (N \ {head}), NEW s \in Seq(P),
         NEW h \in Heap(N), Ring(h, head, s), NULL \notin P
  PROVE  /\ s = <<>> => list_first_entry_or_null(h, head) = NULL
         /\ s # <<>> => /\ list_first_entry_or_null(h, head) = Head(s)
                        /\ Head(s) = s[1] /\ s[1] \in P
<1>1. h.next[head] = At(head, s, 1)
  BY DEF Ring, At
<1>2. QED
  BY <1>1 DEF At, list_first_entry_or_null

\* list_del of the first entry leaves the tail of the sequence.
LEMMA DelFirstTail ==
  ASSUME NEW N, NEW head \in N, NEW P \in SUBSET (N \ {head}), NEW s \in Seq(P),
         NEW h \in Heap(N), Ring(h, head, s), Distinct(s), s # <<>>
  PROVE  /\ list_del(h, s[1]) \in Heap(N)
         /\ Ring(list_del(h, s[1]), head, Tail(s))
         /\ Distinct(Tail(s))
<1> DEFINE e      == s[1]
           second == At(head, s, 2)
           g      == list_del(h, e)
           t      == Tail(s)
<1>1. e \in P /\ e # head /\ Len(s) \in Nat /\ Len(s) >= 1
  OBVIOUS
<1>2. h.next[e] = second /\ h.prev[e] = head
  BY <1>1 DEF Ring, At
<1>3. second \in N /\ second # e
  BY <1>1 DEF At, Distinct
<1>4. /\ g.next = [h.next EXCEPT ![head] = second, ![e] = NULL]
      /\ g.prev = [h.prev EXCEPT ![second] = head, ![e] = NULL]
      /\ g \in Heap(N)
  BY <1>1, <1>2, <1>3 DEF list_del, __list_del_entry, __list_del, SetNext, SetPrev, Heap
<1>5. t \in Seq(P) /\ Len(t) = Len(s) - 1 /\ \A i \in 1..Len(t) : t[i] = s[i + 1]
  BY <1>1
<1>6. \A i \in 1..(Len(t) + 1) : At(head, t, i) = At(head, s, i + 1)
  BY <1>1, <1>5 DEF At
<1>7. ASSUME NEW i \in 0..Len(t)
      PROVE  /\ g.next[At(head, t, i)] = At(head, t, i + 1)
             /\ g.prev[At(head, t, i + 1)] = At(head, t, i)
  <2>1. CASE i = 0
    BY <2>1, <1>1, <1>3, <1>4, <1>5, <1>6 DEF At, Heap
  <2>2. CASE i > 0
    <3>1. /\ h.next[At(head, s, i + 1)] = At(head, s, i + 2)
          /\ h.prev[At(head, s, i + 2)] = At(head, s, i + 1)
      BY <1>1, <1>5 DEF Ring
    <3>2. At(head, s, i + 1) # e /\ At(head, s, i + 1) # head /\ At(head, s, i + 1) \in N
      BY <2>2, <1>1, <1>5 DEF At, Distinct
    <3>3. At(head, s, i + 2) # e /\ At(head, s, i + 2) # second /\ At(head, s, i + 2) \in N
      BY <2>2, <1>1, <1>5 DEF At, Distinct
    <3>4. At(head, t, i) = At(head, s, i + 1) /\ At(head, t, i + 1) = At(head, s, i + 2)
      BY <2>2, <1>5, <1>6
    <3>5. QED
      BY <3>1, <3>2, <3>3, <3>4, <1>1, <1>3, <1>4 DEF Heap
  <2>3. QED
    BY <2>1, <2>2
<1>8. Distinct(t)
  BY <1>5 DEF Distinct
<1>9. QED
  BY <1>4, <1>7, <1>8 DEF Ring

-----------------------------------------------------------------------------
(* Constants. *)

\* The registry is not a page, and no page is at address 0.
LEMMA PagesAreNodes ==
  /\ pr_freepages \in Node
  /\ Page \in SUBSET (Node \ {pr_freepages})
  /\ NULL \notin Page
  /\ NULL = 0
  /\ Page \subseteq Nat
BY PagesAssumption DEF Node, Page, PagesIn

-----------------------------------------------------------------------------
(* The steps the actions share. *)

\* Giving back a held page keeps the list invariant.
LEMMA GiveBackKeepsList ==
  ASSUME TypeOK, ListInv, NEW page \in held, give_back(page)
  PROVE  /\ ListInv'
         /\ heap' \in Heap(Node) /\ magic' \in [Page -> BOOLEAN]
         /\ fifo' \in Seq(Page) /\ held' = held \ {page}
<1>1. page \in Page /\ ~OnList(page)
  BY DEF TypeOK, ListInv, FreeOrHeld, OnList
<1>2. /\ heap' \in Heap(Node)
      /\ Ring(heap', pr_freepages, Append(fifo, page))
      /\ Distinct(Append(fifo, page))
  BY <1>1, PagesAreNodes, AddTailAppends
     DEF give_back, append, TypeOK, ListInv, FreeListWhole, OnList
<1>3. /\ fifo' = Append(fifo, page) /\ fifo' \in Seq(Page)
      /\ Len(fifo') = Len(fifo) + 1 /\ fifo'[Len(fifo) + 1] = page
      /\ \A i \in 1..Len(fifo) : fifo'[i] = fifo[i]
  BY <1>1 DEF give_back, append, TypeOK
<1>4. FreeListWhole'
  BY <1>2, <1>3 DEF FreeListWhole
<1>5. magic' \in [Page -> BOOLEAN] /\ held' = held \ {page}
  BY <1>1 DEF give_back, append, TypeOK
<1>6. FreeMagic'
  <2>1. ASSUME NEW i \in 1..Len(fifo')
        PROVE  magic'[fifo'[i]] = TRUE
    <3>1. CASE i = Len(fifo) + 1
      BY <3>1, <1>1, <1>3 DEF give_back, append, TypeOK
    <3>2. CASE i \in 1..Len(fifo)
      BY <3>2, <1>1, <1>3 DEF give_back, append, TypeOK, ListInv, FreeMagic
    <3>3. Len(fifo) \in Nat /\ Len(fifo') = Len(fifo) + 1
      BY <1>3 DEF TypeOK
    <3>4. i = Len(fifo) + 1 \/ i \in 1..Len(fifo)
      BY <3>3
    <3>5. QED
      BY <3>1, <3>2, <3>4
  <2>2. QED
    BY <2>1 DEF FreeMagic
<1>7. FreeOrHeld'
  <2>1. ASSUME NEW p \in Page
        PROVE  p \in held' <=> ~\E i \in 1..Len(fifo') : fifo'[i] = p
    <3>1. p \in held <=> ~OnList(p)
      BY DEF ListInv, FreeOrHeld, OnList
    <3>2. (\E i \in 1..Len(fifo') : fifo'[i] = p) <=> (OnList(p) \/ p = page)
      BY <1>3 DEF OnList, TypeOK
    <3>3. p \in held' <=> (p \in held /\ p # page)
      BY <1>5
    <3>4. QED
      BY <3>1, <3>2, <3>3, <1>1
  <2>2. QED
    BY <2>1 DEF FreeOrHeld
<1>8. QED
  BY <1>2, <1>3, <1>4, <1>5, <1>6, <1>7 DEF ListInv

\* kpalloc takes the oldest page of the list, and its assertion holds.
LEMMA KpallocTakesOldest ==
  ASSUME TypeOK, ListInv, kpalloc
  PROVE  /\ fifo # <<>> /\ fifo[1] \in Page /\ fifo[1] \notin held
         /\ fifo' = Tail(fifo) /\ held' = held \cup {fifo[1]}
         /\ heap' = list_del(heap, fifo[1])
         /\ UNCHANGED <<magic, status, range>>
<1>1. /\ fifo # <<>>
      /\ list_first_entry_or_null(heap, pr_freepages) = fifo[1]
      /\ fifo[1] \in Page
  <2>1. /\ heap \in Heap(Node) /\ fifo \in Seq(Page)
        /\ Ring(heap, pr_freepages, fifo)
    BY DEF TypeOK, ListInv, FreeListWhole
  <2>2. list_first_entry_or_null(heap, pr_freepages) # NULL
    BY DEF kpalloc
  <2>3. /\ pr_freepages \in Node /\ Page \in SUBSET (Node \ {pr_freepages})
        /\ NULL \notin Page
    BY PagesAreNodes
  <2>4. /\ fifo = <<>> => list_first_entry_or_null(heap, pr_freepages) = NULL
        /\ fifo # <<>> => /\ list_first_entry_or_null(heap, pr_freepages) = Head(fifo)
                          /\ Head(fifo) = fifo[1] /\ fifo[1] \in Page
    BY <2>1, <2>3, FirstEntry
  <2>5. QED
    BY <2>2, <2>4
<1>2. 1 \in 1..Len(fifo)
  BY <1>1 DEF TypeOK
<1>3. magic[fifo[1]] = TRUE
  BY <1>2 DEF ListInv, FreeMagic
<1>4. fifo[1] \notin held
  BY <1>1, <1>2 DEF ListInv, FreeOrHeld
<1>5. QED
  BY <1>1, <1>3, <1>4 DEF kpalloc

LEMMA KpallocKeepsList ==
  ASSUME TypeOK, ListInv, kpalloc
  PROVE  /\ ListInv'
         /\ heap' \in Heap(Node) /\ fifo' \in Seq(Page) /\ held' \in SUBSET Page
<1>1. /\ fifo # <<>> /\ fifo[1] \in Page /\ fifo[1] \notin held
      /\ fifo' = Tail(fifo) /\ held' = held \cup {fifo[1]}
      /\ heap' = list_del(heap, fifo[1]) /\ magic' = magic
  BY KpallocTakesOldest
<1>2. heap' \in Heap(Node) /\ FreeListWhole'
  BY <1>1, PagesAreNodes, DelFirstTail DEF TypeOK, ListInv, FreeListWhole
<1>3. /\ fifo' \in Seq(Page) /\ Len(fifo') = Len(fifo) - 1
      /\ \A i \in 1..Len(fifo') : fifo'[i] = fifo[i + 1]
  BY <1>1 DEF TypeOK
<1>4. FreeMagic'
  BY <1>1, <1>3 DEF TypeOK, ListInv, FreeMagic
<1>5. FreeOrHeld'
  <2>1. ASSUME NEW p \in Page
        PROVE  p \in held' <=> ~\E i \in 1..Len(fifo') : fifo'[i] = p
    <3>1. p \in held <=> ~OnList(p)
      BY DEF ListInv, FreeOrHeld, OnList
    <3>2. (\E i \in 1..Len(fifo') : fifo'[i] = p) <=> (OnList(p) /\ p # fifo[1])
      <4>1. ASSUME NEW i \in 1..Len(fifo'), fifo'[i] = p
            PROVE  OnList(p) /\ p # fifo[1]
        BY <4>1, <1>1, <1>3 DEF OnList, TypeOK, ListInv, FreeListWhole, Distinct
      <4>2. ASSUME NEW j \in 1..Len(fifo), fifo[j] = p, p # fifo[1]
            PROVE  \E i \in 1..Len(fifo') : fifo'[i] = p
        <5>1. j - 1 \in 1..Len(fifo') /\ fifo'[j - 1] = p
          BY <4>2, <1>3 DEF TypeOK
        <5>2. QED
          BY <5>1
      <4>3. QED
        BY <4>1, <4>2 DEF OnList
    <3>3. OnList(fifo[1])
      BY <1>1 DEF OnList, TypeOK
    <3>4. QED
      BY <3>1, <3>2, <3>3, <1>1
  <2>2. QED
    BY <2>1 DEF FreeOrHeld
<1>6. QED
  BY <1>1, <1>2, <1>3, <1>4, <1>5 DEF ListInv, TypeOK

-----------------------------------------------------------------------------
(* The invariant is inductive: one lemma for each group of actions. *)

LEMMA InitInv == Init => IInv
<1> SUFFICES ASSUME Init PROVE IInv
  OBVIOUS
<1>1. heap \in Heap(Node)
  <2>1. Junk \cup {pr_freepages} \subseteq Node \cup {NULL}
    BY PagesAssumption DEF Node
  <2>2. QED
    BY <2>1 DEF Init, Heap
<1>2. TypeOK
  BY <1>1 DEF Init, TypeOK, NoRange
<1>3. ListInv
  <2>1. Ring(heap, pr_freepages, <<>>)
    BY DEF Init, Ring, At
  <2>2. QED
    BY <2>1 DEF Init, ListInv, FreeListWhole, FreeOrHeld, FreeMagic, Distinct
<1>4. QED
  BY <1>2, <1>3 DEF Init, IInv, MagicAssertHolds, RangeAhead, RangeExact, NoRange

LEMMA KpallocInv == IInv /\ kpalloc => IInv'
<1> SUFFICES ASSUME IInv, kpalloc PROVE IInv'
  OBVIOUS
<1>1. TypeOK /\ ListInv /\ ~range.busy
  BY DEF IInv, kpalloc, Idle
<1>2. /\ ListInv'
      /\ heap' \in Heap(Node) /\ fifo' \in Seq(Page) /\ held' \in SUBSET Page
      /\ UNCHANGED <<magic, status, range>>
  BY <1>1, KpallocKeepsList, KpallocTakesOldest
<1>3. TypeOK'
  BY <1>1, <1>2 DEF TypeOK
<1>4. QED
  BY <1>1, <1>2, <1>3 DEF IInv, MagicAssertHolds, RangeAhead, RangeExact

LEMMA KpfreeInv ==
  ASSUME IInv, NEW address \in 0..RamEnd, kpfree(address)
  PROVE  IInv'
<1>1. TypeOK /\ ListInv /\ ~range.busy /\ range' = range
  BY DEF IInv, kpfree, Idle
<1>2. CASE valid(address)
  <2>1. address \in held /\ give_back(address) /\ status' = status
    BY <1>2 DEF kpfree, free_page
  <2>2. /\ ListInv'
        /\ heap' \in Heap(Node) /\ magic' \in [Page -> BOOLEAN]
        /\ fifo' \in Seq(Page) /\ held' = held \ {address}
    BY <1>1, <2>1, GiveBackKeepsList
  <2>3. TypeOK'
    BY <1>1, <2>1, <2>2 DEF TypeOK
  <2>4. QED
    BY <1>1, <2>1, <2>2, <2>3 DEF IInv, MagicAssertHolds, RangeAhead, RangeExact
<1>3. CASE ~valid(address)
  <2>1. status' = "address_assert" /\ UNCHANGED <<heap, magic, fifo, held>>
    BY <1>3 DEF kpfree, free_page
  <2>2. TypeOK' /\ ListInv'
    BY <1>1, <2>1
       DEF TypeOK, ListInv, FreeListWhole, FreeOrHeld, FreeMagic
  <2>3. QED
    BY <1>1, <2>1, <2>2 DEF IInv, MagicAssertHolds, RangeAhead, RangeExact
<1>4. QED
  BY <1>2, <1>3

\* Rounding start up leaves no page of the allocator below the cursor.
LEMMA RangeCallInv ==
  ASSUME IInv, NEW start \in RamStart..RamEnd, NEW end \in RamStart..RamEnd,
         kpfree_range(start, end)
  PROVE  IInv'
<1> DEFINE first == MM_PAGEUP(start)
           last  == MM_PAGEUP(end)
<1>1. /\ start \in Nat /\ start + PGSIZE <= ADDRSPACE
      /\ end \in Nat /\ end + PGSIZE <= ADDRSPACE
  BY PagesAssumption, LayoutAssumption, SpaceIsNat
<1>2. /\ first \in Nat /\ mm_is_page_aligned(first) /\ start <= first
      /\ last \in Nat
  BY <1>1, PageUp, SpaceIsNat
<1>3. /\ range' = [start |-> start, curr |-> first, last |-> last,
                   before |-> held, busy |-> TRUE]
      /\ PagesIn(first, last) \subseteq held
      /\ UNCHANGED <<heap, magic, status, fifo, held>>
  BY DEF kpfree_range, range_call
<1>4. TypeOK'
  BY <1>1, <1>2, <1>3 DEF IInv, TypeOK
<1>5. ListInv' /\ MagicAssertHolds'
  BY <1>3 DEF IInv, ListInv, FreeListWhole, FreeOrHeld, FreeMagic, MagicAssertHolds
<1>6. RangeAhead'
  BY <1>2, <1>3 DEF RangeAhead
<1>7. RangeExact'
  <2>1. ASSUME NEW p \in Page, start <= p, p < first
        PROVE  FALSE
    <3>1. p \in Int /\ mm_is_page_aligned(p)
      BY PagesAssumption DEF Page, PagesIn
    <3>2. first <= p
      BY <1>1, <2>1, <3>1, NoPageBelowRoundUp, SpaceIsNat
    <3>3. QED
      BY <1>2, <2>1, <3>1, <3>2
  <2>2. {p \in Page : start <= p /\ p < first} = {}
    BY <2>1
  <2>3. range'.start = start /\ range'.curr = first /\ range'.before = held
    BY <1>3
  <2>4. QED
    BY <1>3, <2>2, <2>3 DEF RangeExact
<1>8. QED
  BY <1>4, <1>5, <1>6, <1>7 DEF IInv

\* One page given back: the cursor and the pages freed advance together.
LEMMA RangeStepInv == IInv /\ kpfree_range_step => IInv'
<1> SUFFICES ASSUME IInv, kpfree_range_step PROVE IInv'
  OBVIOUS
<1> DEFINE curr == range.curr
<1>1. /\ TypeOK /\ ListInv /\ range.busy
      /\ mm_is_page_aligned(curr) /\ range.start <= curr /\ curr < range.last
      /\ PagesIn(curr, range.last) \subseteq held
      /\ held = range.before \ {p \in Page : range.start <= p /\ p < curr}
  BY DEF IInv, kpfree_range_step, range_step, RangeAhead, RangeExact
<1>2. /\ curr \in Nat /\ range.last \in Nat /\ range.start \in Nat
      /\ range.before \in SUBSET Page /\ PGSIZE \in Nat \ {0}
  BY <1>1, LayoutAssumption DEF TypeOK
<1>3. curr \in held
  BY <1>1, <1>2 DEF PagesIn
<1>4. give_back(curr) /\ status' = status
  <2>1. valid(curr)
    BY <1>1, <1>3, PagesAreNodes DEF TypeOK, valid
  <2>2. QED
    BY <2>1 DEF kpfree_range_step, range_step, free_page
<1>5. /\ ListInv'
      /\ heap' \in Heap(Node) /\ magic' \in [Page -> BOOLEAN]
      /\ fifo' \in Seq(Page) /\ held' = held \ {curr}
  BY <1>1, <1>3, <1>4, GiveBackKeepsList
<1>6. /\ range'.start = range.start /\ range'.curr = curr + PGSIZE
      /\ range'.last = range.last /\ range'.before = range.before
      /\ range'.busy = range.busy
      /\ range' \in [start : Nat, curr : Nat, last : Nat, before : SUBSET Page,
                     busy : BOOLEAN]
  <2>1. /\ range' = [range EXCEPT !.curr = range.curr + PGSIZE]
        /\ range \in [start : Nat, curr : Nat, last : Nat, before : SUBSET Page,
                     busy : BOOLEAN]
        /\ range.curr + PGSIZE \in Nat
    BY <1>1, <1>2 DEF kpfree_range_step, range_step, TypeOK
  <2>2. QED
    BY <2>1
<1>7. TypeOK' /\ MagicAssertHolds'
  BY <1>1, <1>4, <1>5, <1>6 DEF IInv, TypeOK, MagicAssertHolds
<1>8. RangeAhead'
  <2>1. mm_is_page_aligned(curr + PGSIZE)
    BY <1>1, <1>2, AlignedStep DEF mm_is_page_aligned
  <2>2. PagesIn(curr + PGSIZE, range.last) \subseteq held \ {curr}
    BY <1>1, <1>2 DEF PagesIn
  <2>3. QED
    BY <1>1, <1>2, <1>5, <1>6, <2>1, <2>2 DEF RangeAhead
<1>9. RangeExact'
  <2>1. ASSUME NEW p \in Page
        PROVE  (p < curr + PGSIZE) <=> (p < curr \/ p = curr)
    <3>1. p \in Int /\ p % PGSIZE = 0 /\ curr % PGSIZE = 0
      BY <1>1, PagesAssumption DEF Page, PagesIn, mm_is_page_aligned
    <3>2. curr < p => curr + PGSIZE <= p
      BY <1>2, <3>1, AlignedGap
    <3>3. QED
      BY <1>2, <3>1, <3>2
  <2>2. {p \in Page : range.start <= p /\ p < curr + PGSIZE}
          \ {curr} = {p \in Page : range.start <= p /\ p < curr}
    BY <1>2, <2>1 DEF Page, PagesIn
  <2>3. held' = range.before \ {p \in Page : range.start <= p /\ p < curr + PGSIZE}
    BY <1>1, <1>2, <1>3, <1>5, <2>1 DEF TypeOK
  <2>4. QED
    BY <1>6, <2>3 DEF RangeExact
<1>10. QED
  BY <1>5, <1>7, <1>8, <1>9 DEF IInv

\* Whatever a caller stores in a page it holds, the ring does not see it.
LEMMA WritePageInv ==
  ASSUME IInv, NEW page \in Page, NEW next \in Junk, NEW prev \in Junk,
         WritePage(page, next, prev)
  PROVE  IInv'
<1>1. /\ TypeOK /\ ListInv /\ page \in held
      /\ magic' = [magic EXCEPT ![page] = FALSE]
      /\ heap' = SetPrev(SetNext(heap, page, next), page, prev)
      /\ UNCHANGED <<status, range, fifo, held>>
  BY DEF IInv, WritePage
<1>2. \A i \in 1..Len(fifo) : fifo[i] # page
  BY <1>1 DEF ListInv, FreeOrHeld
<1>3. /\ heap \in Heap(Node) /\ fifo \in Seq(Page)
      /\ Ring(heap, pr_freepages, fifo)
      /\ pr_freepages \in Node /\ Page \in SUBSET (Node \ {pr_freepages})
      /\ page \in Node /\ page # pr_freepages
      /\ next \in Node \cup {NULL} /\ prev \in Node \cup {NULL}
  BY <1>1, PagesAreNodes, PagesAssumption DEF TypeOK, ListInv, FreeListWhole
<1>4. heap' \in Heap(Node) /\ Ring(heap', pr_freepages, fifo)
  BY <1>1, <1>2, <1>3, StoreOffRing
<1>5. TypeOK'
  BY <1>1, <1>4 DEF TypeOK
<1>6. FreeMagic'
  <2>1. ASSUME NEW i \in 1..Len(fifo)
        PROVE  magic'[fifo[i]] = TRUE
    <3>1. fifo[i] # page /\ fifo[i] \in Page
      BY <1>2, <1>3
    <3>2. magic'[fifo[i]] = magic[fifo[i]]
      BY <1>1, <3>1 DEF TypeOK
    <3>3. QED
      BY <1>1, <3>2 DEF ListInv, FreeMagic
  <2>2. QED
    BY <1>1, <2>1 DEF FreeMagic
<1>7. ListInv'
  BY <1>1, <1>4, <1>6 DEF ListInv, FreeListWhole, FreeOrHeld
<1>8. QED
  BY <1>1, <1>5, <1>7 DEF IInv, MagicAssertHolds, RangeAhead, RangeExact

LEMMA Inductive == IInv /\ [Next]_vars => IInv'
<1> SUFFICES ASSUME IInv, [Next]_vars PROVE IInv'
  OBVIOUS
<1> USE DEF IInv, ListInv, TypeOK, FreeListWhole, FreeOrHeld, FreeMagic,
            MagicAssertHolds, RangeAhead, RangeExact
<1>1. CASE kpalloc
  BY <1>1, KpallocInv
<1>2. CASE kpalloc_exhausted
  BY <1>2 DEF kpalloc_exhausted
<1>3. CASE \E address \in 0..RamEnd : kpfree(address)
  BY <1>3, KpfreeInv
<1>4. CASE \E start, end \in RamStart..RamEnd : kpfree_range(start, end)
  BY <1>4, RangeCallInv
<1>5. CASE kpfree_range_step
  BY <1>5, RangeStepInv
<1>6. CASE kpfree_range_return
  BY <1>6 DEF kpfree_range_return, range_return, NoRange
<1>7. CASE \E page \in Page, next, prev \in Junk : WritePage(page, next, prev)
  BY <1>7, WritePageInv
<1>8. CASE UNCHANGED vars
  BY <1>8 DEF vars
<1>9. QED
  BY <1>1, <1>2, <1>3, <1>4, <1>5, <1>6, <1>7, <1>8 DEF Next

LEMMA Invariance == Spec => []IInv
  BY InitInv, Inductive, PTL DEF Spec

-----------------------------------------------------------------------------
(* Theorems. *)

\* Every variable of the allocator keeps its type.
THEOREM TypeCorrect == Spec => []TypeOK
<1>1. IInv => TypeOK
  BY DEF IInv
<1>2. QED
  BY <1>1, Invariance, PTL

\* The list_head pointers kpalloc and kpfree (kernel/mm/pages.c) leave in the
\* pages form one ring that holds exactly the free pages, each once, in the
\* order in which they were given back.
THEOREM FreeListIsWhole == Spec => []FreeListWhole
<1>1. IInv => FreeListWhole
  BY DEF IInv, ListInv
<1>2. QED
  BY <1>1, Invariance, PTL

\* Every page is either on the free list or with a caller: kpalloc never hands
\* out a page twice and kpfree loses none.
THEOREM NoPageSharedOrLost == Spec => []FreeOrHeld
<1>1. IInv => FreeOrHeld
  BY DEF IInv, ListInv
<1>2. QED
  BY <1>1, Invariance, PTL

\* The kassert of kpalloc on the magic number (pages.c:35) never fails.
THEOREM MagicAssertNeverFails == Spec => []MagicAssertHolds
<1>1. IInv => MagicAssertHolds
  BY DEF IInv
<1>2. QED
  BY <1>1, Invariance, PTL

\* While it runs, kpfree_range has given back the whole pages between start
\* and its cursor and nothing else.
THEOREM RangeIsExact == Spec => []RangeExact
<1>1. IInv => RangeExact
  BY DEF IInv
<1>2. QED
  BY <1>1, Invariance, PTL

-----------------------------------------------------------------------------
(* The allocator implements the queue of frames. *)

LEMMA StepRefines == IInv /\ [Next]_vars => [FQ!Next]_<<fifo, held>>
<1> SUFFICES ASSUME IInv, [Next]_vars PROVE [FQ!Next]_<<fifo, held>>
  OBVIOUS
<1> DEFINE Gives(page) == page \in held /\ give_back(page)
<1>1. ASSUME NEW page, Gives(page) PROVE FQ!Next
  <2>1. page \in Page
    BY <1>1 DEF IInv, TypeOK
  <2>2. FQ!Free(page)
    BY <1>1 DEF give_back, append, FQ!Free
  <2>3. QED
    BY <2>1, <2>2 DEF FQ!Next
<1>2. CASE kpalloc
  <2>1. /\ fifo # <<>> /\ fifo' = Tail(fifo) /\ held' = held \cup {fifo[1]}
    BY <1>2, KpallocTakesOldest DEF IInv
  <2>2. FQ!Alloc
    BY <2>1 DEF FQ!Alloc, IInv, TypeOK
  <2>3. QED
    BY <2>2 DEF FQ!Next
<1>3. CASE \E address \in 0..RamEnd : kpfree(address)
  BY <1>1, <1>3 DEF kpfree, free_page
<1>4. CASE kpfree_range_step
  <2>1. range.curr \in held
    BY <1>4 DEF IInv, TypeOK, kpfree_range_step, range_step, RangeAhead, PagesIn
  <2>2. give_back(range.curr) \/ UNCHANGED <<fifo, held>>
    BY <1>4 DEF kpfree_range_step, range_step, free_page
  <2>3. QED
    BY <1>1, <2>1, <2>2
<1>5. CASE \/ kpalloc_exhausted \/ kpfree_range_return \/ UNCHANGED vars
           \/ \E start, end \in RamStart..RamEnd : kpfree_range(start, end)
           \/ \E page \in Page, next, prev \in Junk : WritePage(page, next, prev)
  BY <1>5 DEF kpalloc_exhausted, kpfree_range_return, range_return, kpfree_range,
                 range_call, WritePage, vars
<1>6. QED
  BY <1>2, <1>3, <1>4, <1>5 DEF Next

\* The allocator is a first-in first-out queue of page frames.
THEOREM AllocatorIsAFrameQueue == Spec => FrameQueueSpec
<1>1. Init => FQ!Init
  BY DEF Init, FQ!Init
<1>2. QED
  BY <1>1, StepRefines, Invariance, PTL DEF Spec, FrameQueueSpec, FQ!Spec

=============================================================================
