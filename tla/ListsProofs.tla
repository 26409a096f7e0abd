----------------------------- MODULE ListsProofs -----------------------------
(***************************************************************************)
(* The lists of utils/include/list.h hold what their clients put on them:  *)
(* for every set of heads and of entries, whatever calls come in whatever  *)
(* order, and whatever the pointers of a node were before a call stores to *)
(* it.                                                                     *)
(*                                                                         *)
(* The argument has three layers.  One lemma per kind of stores says what  *)
(* they do to one ring, also when the nodes they touch are the same node   *)
(* (an empty ring, adjacent entries, an end of the list), and that nodes   *)
(* off the ring keep their pointers.  Then the same of all the lists at    *)
(* once: the rings that share no entry are not disturbed.  The invariant   *)
(* ListInv joins that with where a safe loop is: the entries the loop has  *)
(* not seen are still the end of its list (or the start of it, backwards), *)
(* and n is the one after the next, so that taking the entry at hand, or   *)
(* moving it elsewhere, takes nothing from the loop.                       *)
(*                                                                         *)
(* The hlists have the same three layers over chains: what a store does to *)
(* the fields around one node, to every chain at once, and to a loop.      *)
(***************************************************************************)
EXTENDS ListClients, SequenceTheorems, TLAPS

-----------------------------------------------------------------------------
(* What the stores of list.h do to one ring, over any set of nodes. *)

\* The nodes of a ring are its head and the entries of its sequence.
LEMMA AtNodes ==
  ASSUME NEW N, NEW head \in N, NEW s \in Seq(N \ {head})
  PROVE  /\ Len(s) \in Nat
         /\ \A i \in Int : At(head, s, i) \in N
         /\ \A i \in 1..Len(s) : At(head, s, i) = s[i] /\ s[i] \in N /\ s[i] # head
         /\ At(head, s, 0) = head /\ At(head, s, Len(s) + 1) = head
BY DEF At

\* Going once around a ring, no node is met twice.
LEMMA AtOnce ==
  ASSUME NEW N, NEW head \in N, NEW s \in Seq(N \ {head}), Distinct(s)
  PROVE  /\ \A i, j \in 0..Len(s) : At(head, s, i) = At(head, s, j) => i = j
         /\ \A i, j \in 1..(Len(s) + 1) : At(head, s, i) = At(head, s, j) => i = j
BY DEF At, Distinct

\* Two steps around a ring start at different nodes and end at different nodes.
LEMMA LinksApart ==
  ASSUME NEW N, NEW head \in N, NEW s \in Seq(N \ {head}), Distinct(s),
         NEW i \in 0..Len(s), NEW j \in 0..Len(s), i # j
  PROVE  At(head, s, i) # At(head, s, j) /\ At(head, s, i + 1) # At(head, s, j + 1)
BY AtOnce

\* Node x is neither the head nor an entry.
Off(head, s, x) == x # head /\ \A i \in 1..Len(s) : s[i] # x

\* y follows x on a ring.
Joined(h, x, y) == h.next[x] = y /\ h.prev[y] = x

\* The fields of a node are the same in two heaps.
Same(h, g, x) == g.next[x] = h.next[x] /\ g.prev[x] = h.prev[x]

\* A node off a ring is none of its nodes.
LEMMA OffRing ==
  ASSUME NEW head, NEW s, NEW x, Off(head, s, x), NEW i \in Int
  PROVE  At(head, s, i) # x
BY DEF At, Off

\* A ring none of whose nodes is stored to stays.
LEMMA RingKept ==
  ASSUME NEW N, NEW head \in N, NEW s \in Seq(N \ {head}), NEW h, NEW g,
         Ring(h, head, s), \A x \in N : ~Off(head, s, x) => Same(h, g, x)
  PROVE  Ring(g, head, s)
<1>1. \A i \in Int : At(head, s, i) \in N /\ ~Off(head, s, At(head, s, i))
  BY DEF At, Off
<1>2. QED
  BY <1>1 DEF Ring, Same

\* A store into the fields of one node.
LEMMA StoreNode ==
  ASSUME NEW N, NEW h \in Heap(N), NEW n \in N, NEW u \in N \cup {NULL}, NEW v \in N \cup {NULL}
  PROVE  /\ SetNext(h, n, u) \in Heap(N) /\ SetPrev(h, n, v) \in Heap(N)
         /\ SetNext(h, n, u).next[n] = u /\ SetPrev(h, n, v).prev[n] = v
         /\ \A x \in N : /\ x # n => Same(h, SetNext(h, n, u), x) /\ Same(h, SetPrev(h, n, v), x)
                         /\ SetNext(h, n, u).prev[x] = h.prev[x]
                         /\ SetPrev(h, n, v).next[x] = h.next[x]
BY DEF SetNext, SetPrev, Heap, Same

\* A node whose pointers are itself is an empty ring.
LEMMA InitRing ==
  ASSUME NEW N, NEW head \in N, NEW h \in Heap(N)
  PROVE  /\ INIT_LIST_HEAD(h, head) \in Heap(N)
         /\ Ring(INIT_LIST_HEAD(h, head), head, <<>>)
         /\ \A x \in N : x # head => Same(h, INIT_LIST_HEAD(h, head), x)
BY DEF INIT_LIST_HEAD, SetNext, SetPrev, Heap, Same, Ring, At

\* What becomes of a sequence when an element comes after its k-th, when its k-th
\* goes, and when another takes the place of its k-th.
InsertedAt(s, k, e, t) ==
  /\ Len(t) = Len(s) + 1
  /\ \A i \in 1..Len(t) : t[i] = IF i <= k THEN s[i] ELSE IF i = k + 1 THEN e ELSE s[i - 1]

DeletedAt(s, k, t) ==
  /\ Len(t) = Len(s) - 1
  /\ \A i \in 1..Len(t) : t[i] = IF i < k THEN s[i] ELSE s[i + 1]

ReplacedAt(s, k, e, t) ==
  /\ Len(t) = Len(s)
  /\ \A i \in 1..Len(t) : t[i] = IF i = k THEN e ELSE s[i]

\* A node stored between the k-th node and the one after it joins the ring there.
LEMMA InsertRing ==
  ASSUME NEW N, NEW head \in N, NEW s \in Seq(N \ {head}), NEW h \in Heap(N),
         Ring(h, head, s), Distinct(s), NEW k \in 0..Len(s), NEW new \in N, Off(head, s, new),
         NEW t \in Seq(N \ {head}), InsertedAt(s, k, new, t),
         NEW g, g = __list_add(h, new, At(head, s, k), At(head, s, k + 1))
  PROVE  /\ g \in Heap(N) /\ Ring(g, head, t) /\ Distinct(t)
         /\ \A x \in N : x # new /\ Off(head, s, x) => Same(h, g, x)
<1> USE DEF InsertedAt
<1> DEFINE a == At(head, s, k)
           b == At(head, s, k + 1)
<1>1. a \in N /\ b \in N /\ a # new /\ b # new
  <2>1. k \in Int /\ k + 1 \in Int
    OBVIOUS
  <2>2. a \in N /\ b \in N
    BY <2>1, AtNodes
  <2>3. a # new /\ b # new
    BY <2>1, OffRing
  <2>. QED
    BY <2>2, <2>3
<1>2. /\ g.next = [[h.next EXCEPT ![new] = b] EXCEPT ![a] = new]
      /\ g.prev = [[h.prev EXCEPT ![b] = new] EXCEPT ![new] = a]
      /\ g \in Heap(N)
  BY <1>1 DEF __list_add, SetNext, SetPrev, Heap
<1> HIDE DEF a, b
<1>3. /\ g.next[a] = new /\ g.next[new] = b /\ g.prev[b] = new /\ g.prev[new] = a
      /\ \A x \in N : x # new /\ x # a => g.next[x] = h.next[x]
      /\ \A x \in N : x # new /\ x # b => g.prev[x] = h.prev[x]
  BY <1>1, <1>2 DEF Heap
<1>4. \A i \in 0..(Len(t) + 1) :
        At(head, t, i) = IF i <= k THEN At(head, s, i)
                         ELSE IF i = k + 1 THEN new ELSE At(head, s, i - 1)
  BY DEF At
<1>5. ASSUME NEW i \in 0..Len(t)
      PROVE  /\ g.next[At(head, t, i)] = At(head, t, i + 1)
             /\ g.prev[At(head, t, i + 1)] = At(head, t, i)
  <2>1. CASE i < k
    <3>1. At(head, t, i) = At(head, s, i) /\ At(head, t, i + 1) = At(head, s, i + 1)
      BY <1>4, <2>1
    <3>2. At(head, s, i) # a /\ At(head, s, i + 1) # b
      BY <2>1, AtOnce DEF a, b
    <3>3. h.next[At(head, s, i)] = At(head, s, i + 1) /\ h.prev[At(head, s, i + 1)] = At(head, s, i)
      BY <2>1 DEF Ring
    <3>. QED
      BY <1>3, <3>1, <3>2, <3>3, AtNodes, OffRing
  <2>2. CASE i = k \/ i = k + 1
    <3>1. k \in 0..(Len(t) + 1) /\ k + 1 \in 0..(Len(t) + 1) /\ k + 2 \in 0..(Len(t) + 1)
      OBVIOUS
    <3>2. At(head, t, k) = a /\ At(head, t, k + 1) = new /\ At(head, t, k + 2) = b
      BY <1>4, <3>1 DEF a, b
    <3>. QED
      BY <1>3, <2>2, <3>2
  <2>3. CASE i > k + 1
    <3>1. At(head, t, i) = At(head, s, i - 1) /\ At(head, t, i + 1) = At(head, s, i)
      BY <1>4, <2>3
    <3>2. At(head, s, i - 1) # a /\ At(head, s, i) # b
      BY <2>3, AtOnce DEF a, b
    <3>3. h.next[At(head, s, i - 1)] = At(head, s, i) /\ h.prev[At(head, s, i)] = At(head, s, i - 1)
      BY <2>3 DEF Ring
    <3>. QED
      BY <1>3, <3>1, <3>2, <3>3, <2>3, AtNodes, OffRing
  <2>. QED
    BY <2>1, <2>2, <2>3
<1>6. Distinct(t)
  <2>1. ASSUME NEW i \in 1..Len(t), t[i] = new PROVE i = k + 1
    <3>1. i <= k => s[i] # new
      BY DEF Off
    <3>2. i > k + 1 => s[i - 1] # new
      BY DEF Off
    <3>. QED
      BY <2>1, <3>1, <3>2
  <2>2. ASSUME NEW i \in 1..Len(t), NEW j \in 1..Len(t), t[i] = t[j], i # k + 1, j # k + 1
        PROVE i = j
    <3>1. PICK m \in 1..Len(s) : t[i] = s[m] /\ m = IF i <= k THEN i ELSE i - 1
      BY <2>2
    <3>2. PICK n \in 1..Len(s) : t[j] = s[n] /\ n = IF j <= k THEN j ELSE j - 1
      BY <2>2
    <3>3. m = n
      BY <2>2, <3>1, <3>2 DEF Distinct
    <3>4. CASE i <= k /\ j > k + 1
      BY <3>1, <3>2, <3>3, <3>4
    <3>5. CASE j <= k /\ i > k + 1
      BY <3>1, <3>2, <3>3, <3>5
    <3>6. CASE (i <= k /\ j <= k) \/ (i > k + 1 /\ j > k + 1)
      BY <3>1, <3>2, <3>3, <3>6
    <3>. QED
      BY <2>2, <3>4, <3>5, <3>6
  <2>. QED
    BY <2>1, <2>2 DEF Distinct
<1>7. \A x \in N : x # new /\ Off(head, s, x) => Same(h, g, x)
  BY <1>3, OffRing DEF Same, a, b
<1>. QED
  BY <1>2, <1>5, <1>6, <1>7 DEF Ring

\* Taking the k-th entry off the ring.
LEMMA DeleteRing ==
  ASSUME NEW N, NEW head \in N, NEW s \in Seq(N \ {head}), NEW h \in Heap(N),
         Ring(h, head, s), Distinct(s), NEW k \in 1..Len(s),
         NEW t \in Seq(N \ {head}), DeletedAt(s, k, t),
         NEW g, g = __list_del_entry(h, s[k])
  PROVE  /\ g \in Heap(N) /\ Ring(g, head, t) /\ Distinct(t) /\ Off(head, t, s[k])
         /\ \A x \in N : Off(head, s, x) => Same(h, g, x)
<1> USE DEF DeletedAt
<1> DEFINE a == At(head, s, k - 1)
           b == At(head, s, k + 1)
<1>1. a \in N /\ b \in N /\ s[k] \in N /\ At(head, s, k) = s[k]
  BY AtNodes
<1>2. h.prev[s[k]] = a /\ h.next[s[k]] = b
  BY <1>1 DEF Ring
<1>3. /\ g.next = [h.next EXCEPT ![a] = b] /\ g.prev = [h.prev EXCEPT ![b] = a]
      /\ g \in Heap(N)
  BY <1>1, <1>2 DEF __list_del_entry, __list_del, SetNext, SetPrev, Heap
<1> HIDE DEF a, b
<1>4. /\ g.next[a] = b /\ g.prev[b] = a
      /\ \A x \in N : x # a => g.next[x] = h.next[x]
      /\ \A x \in N : x # b => g.prev[x] = h.prev[x]
  BY <1>1, <1>3 DEF Heap
<1>5. \A i \in 0..(Len(t) + 1) :
        At(head, t, i) = IF i < k THEN At(head, s, i) ELSE At(head, s, i + 1)
  BY DEF At
<1>6. ASSUME NEW i \in 0..Len(t)
      PROVE  /\ g.next[At(head, t, i)] = At(head, t, i + 1)
             /\ g.prev[At(head, t, i + 1)] = At(head, t, i)
  <2>1. CASE i < k - 1
    <3>1. At(head, t, i) = At(head, s, i) /\ At(head, t, i + 1) = At(head, s, i + 1)
      BY <1>5, <2>1
    <3>2. At(head, s, i) # a /\ At(head, s, i + 1) # b
      BY <2>1, AtOnce DEF a, b
    <3>3. h.next[At(head, s, i)] = At(head, s, i + 1) /\ h.prev[At(head, s, i + 1)] = At(head, s, i)
      BY <2>1 DEF Ring
    <3>. QED
      BY <1>4, <3>1, <3>2, <3>3, AtNodes
  <2>2. CASE i = k - 1
    BY <1>4, <1>5, <2>2 DEF a, b
  <2>3. CASE i >= k
    <3>1. At(head, t, i) = At(head, s, i + 1) /\ At(head, t, i + 1) = At(head, s, i + 2)
      BY <1>5, <2>3
    <3>4. At(head, s, i + 1) \in N /\ At(head, s, i + 2) \in N
      BY AtNodes
    <3>2. At(head, s, i + 1) # a /\ At(head, s, i + 2) # b
      BY <2>3, AtOnce DEF a, b
    <3>3. h.next[At(head, s, i + 1)] = At(head, s, i + 2) /\ h.prev[At(head, s, i + 2)] = At(head, s, i + 1)
      BY <2>3 DEF Ring
    <3>. QED
      BY <1>4, <3>1, <3>2, <3>3, <3>4
  <2>. QED
    BY <2>1, <2>2, <2>3
<1>7. Distinct(t) /\ Off(head, t, s[k])
  BY DEF Distinct, Off
<1>8. \A x \in N : Off(head, s, x) => Same(h, g, x)
  BY <1>4, OffRing DEF Same, a, b
<1>. QED
  BY <1>3, <1>6, <1>7, <1>8 DEF Ring

\* A node stored over the k-th entry takes its place.
LEMMA ReplaceRing ==
  ASSUME NEW N, NEW head \in N, NEW s \in Seq(N \ {head}), NEW h \in Heap(N),
         Ring(h, head, s), Distinct(s), NEW k \in 1..Len(s), NEW new \in N, Off(head, s, new),
         NEW t \in Seq(N \ {head}), ReplacedAt(s, k, new, t),
         NEW g, g = list_replace(h, s[k], new)
  PROVE  /\ g \in Heap(N) /\ Ring(g, head, t) /\ Distinct(t) /\ Off(head, t, s[k])
         /\ \A x \in N : x # new /\ Off(head, s, x) => Same(h, g, x)
<1> USE DEF ReplacedAt
<1> DEFINE a == At(head, s, k - 1)
           b == At(head, s, k + 1)
<1>1. a \in N /\ b \in N /\ s[k] \in N /\ At(head, s, k) = s[k]
  <2>1. k - 1 \in Int /\ k + 1 \in Int
    OBVIOUS
  <2>. QED
    BY <2>1, AtNodes
<1>2. a # new /\ b # new /\ s[k] # new
  <2>1. k - 1 \in Int /\ k + 1 \in Int
    OBVIOUS
  <2>. QED
    BY <2>1, OffRing DEF Off
<1>3. h.prev[s[k]] = a /\ h.next[s[k]] = b
  BY <1>1 DEF Ring
<1>4. b # s[k]
  BY <1>1, AtOnce
<1>5. /\ g.next = [[h.next EXCEPT ![new] = b] EXCEPT ![a] = new]
      /\ g.prev = [[h.prev EXCEPT ![b] = new] EXCEPT ![new] = a]
      /\ g \in Heap(N)
  BY <1>1, <1>2, <1>3, <1>4 DEF list_replace, SetNext, SetPrev, Heap
<1> HIDE DEF a, b
<1>6. /\ g.next[a] = new /\ g.next[new] = b /\ g.prev[b] = new /\ g.prev[new] = a
      /\ \A x \in N : x # new /\ x # a => g.next[x] = h.next[x]
      /\ \A x \in N : x # new /\ x # b => g.prev[x] = h.prev[x]
  BY <1>1, <1>2, <1>5 DEF Heap
<1>7. \A i \in 0..(Len(t) + 1) : At(head, t, i) = IF i = k THEN new ELSE At(head, s, i)
  BY DEF At
<1>8. ASSUME NEW i \in 0..Len(t)
      PROVE  /\ g.next[At(head, t, i)] = At(head, t, i + 1)
             /\ g.prev[At(head, t, i + 1)] = At(head, t, i)
  <2>1. CASE i # k - 1 /\ i # k
    <3>1. At(head, t, i) = At(head, s, i) /\ At(head, t, i + 1) = At(head, s, i + 1)
      BY <1>7, <2>1
    <3>2. At(head, s, i) # a /\ At(head, s, i + 1) # b
      <4>1. k - 1 \in 0..Len(s) /\ k + 1 \in 1..(Len(s) + 1) /\ i + 1 # k + 1 /\ i + 1 \in 1..(Len(s) + 1)
        BY <2>1
      <4>2. i \in 0..Len(s) /\ i # k - 1
        BY <2>1
      <4>. QED
        BY <4>1, <4>2, AtOnce DEF a, b
    <3>3. h.next[At(head, s, i)] = At(head, s, i + 1) /\ h.prev[At(head, s, i + 1)] = At(head, s, i)
      BY DEF Ring
    <3>4. At(head, s, i) \in N /\ At(head, s, i + 1) \in N
      <4>1. i \in Int /\ i + 1 \in Int
        OBVIOUS
      <4>. QED
        BY <4>1, AtNodes
    <3>. QED
      BY <1>6, <3>1, <3>2, <3>3, <3>4, OffRing
  <2>2. CASE i = k - 1 \/ i = k
    BY <1>6, <1>7, <2>2 DEF a, b
  <2>. QED
    BY <2>1, <2>2
<1>9. Distinct(t) /\ Off(head, t, s[k])
  BY <1>2 DEF Distinct, Off
<1>10. \A x \in N : x # new /\ Off(head, s, x) => Same(h, g, x)
  BY <1>6, OffRing DEF Same, a, b
<1>. QED
  BY <1>5, <1>8, <1>9, <1>10 DEF Ring

\* A node stored over the head becomes the head.
LEMMA ReplaceHead ==
  ASSUME NEW N, NEW head \in N, NEW s \in Seq(N \ {head}), NEW h \in Heap(N),
         Ring(h, head, s), Distinct(s), NEW new \in N, Off(head, s, new),
         NEW g, g = list_replace(h, head, new)
  PROVE  /\ g \in Heap(N) /\ Ring(g, new, s)
         /\ \A x \in N : x # new /\ Off(head, s, x) => Same(h, g, x)
<1> DEFINE a == At(head, s, Len(s))
           b == At(head, s, 1)
<1>1. /\ a \in N /\ b \in N /\ h.prev[head] = a /\ h.next[head] = b /\ head # new
      /\ a # new /\ b # new
  BY AtNodes, OffRing DEF Ring, Off
<1>2. CASE s = <<>>
  <2>1. a = head /\ b = head
    BY <1>2 DEF At
  <2>2. /\ g.next = [h.next EXCEPT ![new] = new] /\ g.prev = [[h.prev EXCEPT ![head] = new] EXCEPT ![new] = new]
        /\ g \in Heap(N)
    BY <1>1, <2>1 DEF list_replace, SetNext, SetPrev, Heap
  <2>3. g.next[new] = new /\ g.prev[new] = new
    BY <2>2 DEF Heap
  <2>4. Ring(g, new, s)
    BY <1>2, <2>3 DEF Ring, At
  <2>. QED
    BY <2>2, <2>4 DEF Same, Off, Heap
<1>3. CASE s # <<>>
  <2>1. b # head /\ b = s[1] /\ a = s[Len(s)] /\ Len(s) >= 1
    BY <1>3, AtNodes DEF At
  <2>2. /\ g.next = [[h.next EXCEPT ![new] = b] EXCEPT ![a] = new]
        /\ g.prev = [[h.prev EXCEPT ![b] = new] EXCEPT ![new] = a]
        /\ g \in Heap(N)
    BY <1>1, <2>1 DEF list_replace, SetNext, SetPrev, Heap
  <2> HIDE DEF a, b
  <2>3. /\ g.next[a] = new /\ g.next[new] = b /\ g.prev[b] = new /\ g.prev[new] = a
        /\ \A x \in N : x # new /\ x # a => g.next[x] = h.next[x]
        /\ \A x \in N : x # new /\ x # b => g.prev[x] = h.prev[x]
    BY <1>1, <2>2 DEF Heap
  <2>4. ASSUME NEW i \in 0..Len(s)
        PROVE  /\ g.next[At(new, s, i)] = At(new, s, i + 1)
               /\ g.prev[At(new, s, i + 1)] = At(new, s, i)
    <3>1. CASE i = 0 \/ i = Len(s)
      <4>1. /\ At(new, s, 0) = new /\ At(new, s, Len(s) + 1) = new
            /\ At(new, s, 1) = b /\ At(new, s, Len(s)) = a
        BY <2>1 DEF At
      <4>2. \A j \in 1..(Len(s) - 1) : h.next[s[j]] = s[j + 1]
        BY DEF Ring, At
      <4>3. CASE Len(s) = 1
        BY <2>1, <2>3, <3>1, <4>1, <4>3
      <4>4. CASE Len(s) # 1
        BY <2>1, <2>3, <3>1, <4>1, <4>4
      <4>. QED
        BY <4>3, <4>4
    <3>2. CASE i # 0 /\ i # Len(s)
      <4>1. /\ At(new, s, i) = s[i] /\ At(new, s, i + 1) = s[i + 1]
            /\ At(head, s, i) = s[i] /\ At(head, s, i + 1) = s[i + 1]
        BY <3>2 DEF At
      <4>2. s[i] \in N /\ s[i + 1] \in N /\ s[i] # new /\ s[i + 1] # new
        BY <3>2 DEF Off
      <4>3. s[i] # a /\ s[i + 1] # b
        BY <2>1, <3>2 DEF Distinct
      <4>4. h.next[s[i]] = s[i + 1] /\ h.prev[s[i + 1]] = s[i]
        BY <4>1 DEF Ring
      <4>. QED
        BY <2>3, <4>1, <4>2, <4>3, <4>4
    <3>. QED
      BY <3>1, <3>2
  <2>5. \A x \in N : x # new /\ Off(head, s, x) => Same(h, g, x)
    BY <2>3, OffRing DEF Same, a, b
  <2>. QED
    BY <2>2, <2>4, <2>5 DEF Ring
<1>. QED
  BY <1>2, <1>3

\* t is the ring of head and s without s[k], read from s[k] on.
ReadFrom(head, s, k, t) ==
  \E d \in Nat :
    /\ Len(t) = Len(s) /\ d + k = Len(s) + 1
    /\ \A i \in 1..(d - 1) : t[i] = s[k + i]
    /\ t[d] = head
    /\ \A i \in 1..(k - 1) : t[d + i] = s[i]

\* A ring may be read from any of its entries on.
LEMMA RotateRing ==
  ASSUME NEW N, NEW head \in N, NEW s \in Seq(N \ {head}), NEW h,
         Ring(h, head, s), Distinct(s), NEW k \in 1..Len(s), NEW e, e = s[k],
         NEW t \in Seq(N \ {e}), ReadFrom(head, s, k, t)
  PROVE  /\ Ring(h, e, t) /\ Distinct(t)
         /\ \A x \in N : Off(head, s, x) <=> Off(e, t, x)
<1>0. PICK d \in Nat : /\ Len(t) = Len(s) /\ d + k = Len(s) + 1
                       /\ \A i \in 1..(d - 1) : t[i] = s[k + i]
                       /\ t[d] = head
                       /\ \A i \in 1..(k - 1) : t[d + i] = s[i]
  BY DEF ReadFrom
<1> USE <1>0
<1>1. PICK n \in Nat : n = Len(s) /\ d \in 1..n /\ d + k = n + 1
  OBVIOUS
<1>2. ASSUME NEW i \in 0..d PROVE At(e, t, i) = At(head, s, k + i)
  <2>1. CASE i = 0
    BY <1>1, <2>1 DEF At
  <2>2. CASE i = d
    BY <1>1, <2>2 DEF At
  <2>3. CASE i \in 1..(d - 1)
    BY <1>1, <2>3 DEF At
  <2>4. i = 0 \/ i = d \/ i \in 1..(d - 1)
    <3>1. ASSUME NEW c \in Nat, NEW j \in 0..c PROVE j = 0 \/ j = c \/ j \in 1..(c - 1)
      OBVIOUS
    <3>. QED
      BY <3>1
  <2>. QED
    BY <2>1, <2>2, <2>3, <2>4
<1>3. ASSUME NEW i \in 0..k PROVE At(e, t, d + i) = At(head, s, i)
  <2>1. CASE i = 0
    BY <1>1, <2>1 DEF At
  <2>2. CASE i = k
    BY <1>1, <2>2 DEF At
  <2>3. CASE i \in 1..(k - 1)
    <3>1. d + i \in 1..n
      BY <1>1, <2>3
    <3>. QED
      BY <1>1, <2>3, <3>1 DEF At
  <2>. QED
    BY <2>1, <2>2, <2>3
<1>4. ASSUME NEW i \in 0..n
      PROVE  /\ h.next[At(e, t, i)] = At(e, t, i + 1)
             /\ h.prev[At(e, t, i + 1)] = At(e, t, i)
  <2>1. CASE i < d
    <3>1. At(e, t, i) = At(head, s, k + i) /\ At(e, t, i + 1) = At(head, s, (k + i) + 1)
      BY <1>1, <1>2, <2>1
    <3>2. k + i \in 0..Len(s)
      BY <1>1, <2>1
    <3>. QED
      BY <3>1, <3>2 DEF Ring
  <2>2. CASE i >= d
    <3>1. PICK j \in 0..(k - 1) : i = d + j
      <4>1. i - d \in 0..(k - 1) /\ i = d + (i - d)
        BY <1>1, <2>2
      <4>. QED
        BY <4>1
    <3>2. At(e, t, i) = At(head, s, j) /\ At(e, t, i + 1) = At(head, s, j + 1)
      <4>1. j + 1 \in 0..k /\ j \in 0..k /\ d + (j + 1) = i + 1
        BY <3>1
      <4>. QED
        BY <1>3, <3>1, <4>1
    <3>. QED
      BY <1>1, <3>1, <3>2 DEF Ring
  <2>. QED
    BY <1>1, <2>1, <2>2
<1>5. ASSUME NEW i \in 1..n
      PROVE  \E p \in 1..(n + 1) : /\ t[i] = At(head, s, p) /\ (i <= d => p = k + i)
                                   /\ (i > d => i = d + p /\ p < k)
  <2>1. At(e, t, i) = t[i]
    BY <1>1 DEF At
  <2>2. CASE i <= d
    <3>1. k + i \in 1..(n + 1) /\ t[i] = At(head, s, k + i)
      BY <1>1, <1>2, <2>1, <2>2
    <3>. QED
      BY <1>1, <2>2, <3>1
  <2>3. CASE i > d
    <3>1. i - d \in 0..k /\ i = d + (i - d) /\ i - d \in 1..(n + 1) /\ i - d < k
      BY <1>1, <2>3
    <3>2. t[i] = At(head, s, i - d)
      BY <1>3, <2>1, <3>1
    <3>. QED
      BY <2>3, <3>1, <3>2
  <2>. QED
    BY <1>1, <2>2, <2>3
<1>6. ASSUME NEW i \in 1..n, NEW j \in 1..n, t[i] = t[j] PROVE i = j
  <2>1. PICK p \in 1..(n + 1) : /\ t[i] = At(head, s, p) /\ (i <= d => p = k + i)
                                /\ (i > d => i = d + p /\ p < k)
    BY <1>5
  <2>2. PICK q \in 1..(n + 1) : /\ t[j] = At(head, s, q) /\ (j <= d => q = k + j)
                                /\ (j > d => j = d + q /\ q < k)
    BY <1>5
  <2>3. p = q
    <3>1. p \in 1..(Len(s) + 1) /\ q \in 1..(Len(s) + 1)
      BY <1>1
    <3>2. At(head, s, p) = At(head, s, q)
      BY <1>6, <2>1, <2>2
    <3>. QED
      BY <3>1, <3>2, AtOnce
  <2>. QED
    BY <1>1, <2>1, <2>2, <2>3
<1>7. ASSUME NEW x \in N, Off(head, s, x) PROVE Off(e, t, x)
  <2>1. ASSUME NEW i \in 1..n PROVE t[i] # x
    BY <1>1, <1>5, <1>7, OffRing
  <2>. QED
    BY <1>1, <1>7, <2>1 DEF Off
<1>8. ASSUME NEW x \in N, Off(e, t, x) PROVE Off(head, s, x)
  <2>1. x # head
    BY <1>1, <1>8 DEF Off
  <2>2. ASSUME NEW i \in 1..n PROVE s[i] # x
    <3>1. CASE i > k
      <4>1. PICK j \in 1..(d - 1) : i = k + j /\ j \in 1..n
        <5>1. i - k \in 1..(d - 1) /\ i = k + (i - k) /\ i - k \in 1..n
          BY <1>1, <3>1
        <5>. QED
          BY <5>1
      <4>. QED
        BY <1>1, <1>8, <4>1 DEF Off
    <3>2. CASE i < k
      <4>1. i \in 1..(k - 1) /\ d + i \in 1..n
        BY <1>1, <3>2
      <4>. QED
        BY <1>1, <1>8, <4>1 DEF Off
    <3>3. CASE i = k
      BY <1>8, <3>3 DEF Off
    <3>. QED
      BY <3>1, <3>2, <3>3
  <2>. QED
    BY <1>1, <2>1, <2>2 DEF Off
<1>. QED
  BY <1>1, <1>4, <1>6, <1>7, <1>8 DEF Ring, Distinct

\* s is p, then w, then r elements, and t is s with the w elements moved to the end.
Moved(s, p, w, r, t) ==
  /\ Len(s) = p + w + r
  /\ Len(t) = p + w + r
  /\ \A i \in 1..p : t[i] = s[i]
  /\ \A i \in 1..r : t[p + i] = s[p + w + i]
  /\ \A i \in 1..w : t[p + r + i] = s[p + i]

\* t is s with the stretch from e to f moved to the end.
MovedToEnd(s, e, f, t) ==
  \E p \in Nat, w \in Nat \ {0}, r \in Nat : Moved(s, p, w, r, t) /\ e = s[p + 1] /\ f = s[p + w]

\* A stretch of w entries unlinked and stored before the head becomes the end
\* of the ring.
LEMMA BulkRing ==
  ASSUME NEW N, NEW head \in N, NEW s \in Seq(N \ {head}), NEW h \in Heap(N),
         Ring(h, head, s), Distinct(s),
         NEW t \in Seq(N \ {head}), NEW e, NEW f, MovedToEnd(s, e, f, t),
         NEW g, g = list_bulk_move_tail(h, head, e, f)
  PROVE  /\ g \in Heap(N) /\ Ring(g, head, t) /\ Distinct(t)
         /\ \A x \in N : Off(head, s, x) => Off(head, t, x) /\ Same(h, g, x)
<1>0. PICK p \in Nat, w \in Nat \ {0}, r \in Nat : Moved(s, p, w, r, t) /\ e = s[p + 1] /\ f = s[p + w]
  BY DEF MovedToEnd
<1>a. Len(s) = p + w + r /\ Len(t) = p + w + r
  BY <1>0 DEF Moved
<1>b. /\ \A i \in 1..p : t[i] = s[i]
      /\ \A i \in 1..r : t[p + i] = s[p + w + i]
      /\ \A i \in 1..w : t[p + r + i] = s[p + i]
  BY <1>0 DEF Moved
<1> USE <1>a
<1>1. PICK n \in Nat : n = Len(s) /\ n = Len(t) /\ n = p + w + r /\ n >= 1
  OBVIOUS
<1>2. PICK a, b, z, first, last \in N :
        /\ a = At(head, s, p) /\ b = At(head, s, p + w + 1) /\ z = At(head, s, n)
        /\ first = At(head, s, p + 1) /\ last = At(head, s, p + w)
  <2>1. p \in Int /\ p + w + 1 \in Int /\ n \in Int /\ p + 1 \in Int /\ p + w \in Int
    BY <1>1
  <2>. QED
    BY <2>1, AtNodes
<1>3. first = s[p + 1] /\ last = s[p + w] /\ first = e /\ last = f
  BY <1>0, <1>1, <1>2 DEF At
<1>4. h.prev[first] = a /\ h.next[a] = first /\ h.next[last] = b /\ h.prev[b] = last /\ h.prev[head] = z /\ h.next[z] = head
  <2>1. p \in 0..Len(s) /\ p + w \in 0..Len(s) /\ n \in 0..Len(s) /\ At(head, s, n + 1) = head
    BY <1>1 DEF At
  <2>. QED
    BY <1>2, <2>1 DEF Ring
<1>5. a # last /\ first # b /\ last # head /\ first # head
  <2>1. /\ p \in 0..Len(s) /\ p + w \in 0..Len(s) /\ p # p + w
        /\ p + 1 \in 1..(Len(s) + 1) /\ p + w + 1 \in 1..(Len(s) + 1) /\ p + 1 # p + w + 1
    BY <1>1
  <2>2. a # last /\ first # b
    BY <1>2, <2>1, AtOnce
  <2>3. p + 1 \in 1..Len(s) /\ p + w \in 1..Len(s)
    BY <1>1
  <2>4. \A i \in 1..Len(s) : s[i] # head
    BY AtNodes
  <2>. QED
    BY <1>3, <2>2, <2>3, <2>4
<1>6. \A i \in 0..p : At(head, t, i) = At(head, s, i)
  BY <1>b, <1>1 DEF At
<1>7. \A i \in 1..r : At(head, t, p + i) = At(head, s, p + w + i)
  <2>1. ASSUME NEW i \in 1..r PROVE At(head, t, p + i) = At(head, s, p + w + i)
    <3>1. p + i \in 1..Len(t) /\ p + w + i \in 1..Len(s)
      OBVIOUS
    <3>. QED
      BY <1>b, <3>1 DEF At
  <2>. QED
    BY <2>1
<1>8. \A i \in 1..w : At(head, t, p + r + i) = At(head, s, p + i)
  <2>1. ASSUME NEW i \in 1..w PROVE At(head, t, p + r + i) = At(head, s, p + i)
    <3>1. p + r + i \in 1..Len(t) /\ p + i \in 1..Len(s)
      OBVIOUS
    <3>. QED
      BY <1>b, <3>1 DEF At
  <2>. QED
    BY <2>1
<1>9. At(head, t, n + 1) = head
  BY <1>1 DEF At
<1>10. CASE r = 0
  <2>1. b = head /\ z = last
    BY <1>1, <1>2, <1>10 DEF At
  <2>2. g = h
    <3>1. /\ g.next = [[[h.next EXCEPT ![a] = head] EXCEPT ![a] = first] EXCEPT ![last] = head]
          /\ g.prev = [[[h.prev EXCEPT ![head] = a] EXCEPT ![first] = a] EXCEPT ![head] = last]
          /\ g = [next |-> g.next, prev |-> g.prev]
      BY <1>2, <1>3, <1>4, <1>5, <2>1 DEF list_bulk_move_tail, SetNext, SetPrev, Heap
    <3>2. h.next \in [N -> N \cup {NULL}] /\ h.prev \in [N -> N \cup {NULL}]
          /\ h = [next |-> h.next, prev |-> h.prev]
      BY DEF Heap
    <3>3. g.next = h.next
      BY <1>4, <1>5, <2>1, <3>1, <3>2
    <3>4. g.prev = h.prev
      BY <1>4, <1>5, <2>1, <3>1, <3>2
    <3>. QED
      BY <3>1, <3>2, <3>3, <3>4
  <2>3. \A i \in 1..n : t[i] = s[i]
    <3>1. \A i \in 1..n : i \in 1..p \/ \E j \in 1..w : i = p + j
      <4>1. ASSUME NEW i \in 1..n, i > p PROVE i - p \in 1..w /\ i = p + (i - p)
        BY <1>1, <1>10, <4>1
      <4>. QED
        BY <4>1
    <3>2. ASSUME NEW j \in 1..w PROVE t[p + j] = s[p + j]
      <4>1. p + r + j = p + j
        BY <1>10
      <4>. QED
        BY <1>b, <4>1
    <3>3. \A i \in 1..p : t[i] = s[i]
      BY <1>b
    <3>. QED
      BY <3>1, <3>2, <3>3
  <2>4. s = t
    BY <1>1, <2>3
  <2>. QED
    BY <2>2, <2>4 DEF Same
<1>11. CASE r # 0
  <2>1. b # head /\ z # a /\ z # last /\ z # head /\ b = s[p + w + 1]
    <3>1. /\ p \in 0..Len(s) /\ p + w \in 0..Len(s) /\ n \in 0..Len(s) /\ n # p /\ n # p + w
          /\ n \in 1..Len(s) /\ p + w + 1 \in 1..Len(s)
      BY <1>1, <1>11
    <3>2. z # a /\ z # last
      BY <1>2, <3>1, AtOnce
    <3>3. b = s[p + w + 1] /\ z = s[n]
      BY <1>2, <3>1 DEF At
    <3>4. s[p + w + 1] # head /\ s[n] # head
      BY <3>1, AtNodes
    <3>. QED
      BY <3>2, <3>3, <3>4
  <2>2. /\ g.next = [[[h.next EXCEPT ![a] = b] EXCEPT ![z] = first] EXCEPT ![last] = head]
        /\ g.prev = [[[h.prev EXCEPT ![b] = a] EXCEPT ![first] = z] EXCEPT ![head] = last]
        /\ g \in Heap(N)
    <3> DEFINE h1 == SetNext(h, a, b)
               h2 == SetPrev(h1, b, a)
               h3 == SetNext(h2, z, first)
               h4 == SetPrev(h3, first, z)
               h5 == SetNext(h4, last, head)
    <3>1. SetNext(h, h.prev[first], h.next[last]) = h1
      BY <1>4
    <3>2. h1.next[last] = b /\ h1.prev[first] = a
      BY <1>2, <1>4, <1>5 DEF SetNext, Heap
    <3>3. h2.prev[head] = z
      BY <1>2, <1>4, <2>1 DEF SetNext, SetPrev, Heap
    <3>4. h3.prev[head] = z
      BY <3>3 DEF SetNext
    <3>5. list_bulk_move_tail(h, head, first, last) = SetPrev(h5, head, last)
      BY <3>1, <3>2, <3>3, <3>4 DEF list_bulk_move_tail
    <3>6. g = SetPrev(h5, head, last)
      BY <1>3, <3>5
    <3>7. g \in Heap(N)
      <4>1. h1 \in Heap(N)
        BY <1>2, StoreNode
      <4>2. h2 \in Heap(N)
        BY <1>2, <4>1, StoreNode
      <4>3. h3 \in Heap(N)
        BY <1>2, <4>2, StoreNode
      <4>4. h4 \in Heap(N)
        BY <1>2, <4>3, StoreNode
      <4>5. h5 \in Heap(N)
        BY <1>2, <4>4, StoreNode
      <4>. QED
        BY <1>2, <3>6, <4>5, StoreNode
    <3>. QED
      BY <3>6, <3>7 DEF SetNext, SetPrev
  <2>3. /\ g.next[a] = b /\ g.next[z] = first /\ g.next[last] = head
        /\ g.prev[b] = a /\ g.prev[first] = z /\ g.prev[head] = last
        /\ \A x \in N : x # a /\ x # z /\ x # last => g.next[x] = h.next[x]
        /\ \A x \in N : x # b /\ x # first /\ x # head => g.prev[x] = h.prev[x]
    BY <1>2, <1>5, <2>1, <2>2 DEF Heap
  <2>4. ASSUME NEW i \in 0..n, i # p, i # p + w, i # n
        PROVE  Joined(g, At(head, s, i), At(head, s, i + 1))
    <3>1. /\ p \in 0..Len(s) /\ p + w \in 0..Len(s) /\ n \in 0..Len(s) /\ i \in 0..Len(s)
          /\ i \in Int /\ i + 1 \in Int
      BY <1>1
    <3>2. /\ p + 1 \in 1..(Len(s) + 1) /\ p + w + 1 \in 1..(Len(s) + 1) /\ i + 1 \in 1..(Len(s) + 1)
          /\ n + 1 \in 1..(Len(s) + 1) /\ At(head, s, n + 1) = head
          /\ i + 1 # p + 1 /\ i + 1 # p + w + 1 /\ i + 1 # n + 1
      BY <1>1, <2>4 DEF At
    <3>3. At(head, s, i) # a /\ At(head, s, i) # last /\ At(head, s, i) # z
      BY <1>2, <2>4, <3>1, AtOnce
    <3>4. At(head, s, i + 1) # first /\ At(head, s, i + 1) # b /\ At(head, s, i + 1) # head
      BY <1>2, <3>2, AtOnce
    <3>5. At(head, s, i) \in N /\ At(head, s, i + 1) \in N
      BY <3>1, AtNodes
    <3>. QED
      BY <2>3, <3>1, <3>3, <3>4, <3>5 DEF Ring, Joined
  <2>5. ASSUME NEW i \in 0..n
        PROVE  Joined(g, At(head, t, i), At(head, t, i + 1))
    <3>1. CASE i < p
      <4>1. At(head, t, i) = At(head, s, i) /\ At(head, t, i + 1) = At(head, s, i + 1)
        BY <1>6, <3>1
      <4>. QED
        BY <1>1, <2>4, <3>1, <4>1
    <3>2. CASE i = p
      <4>1. At(head, t, p) = a /\ At(head, t, p + 1) = b
        BY <1>2, <1>6, <1>7, <1>11
      <4>. QED
        BY <2>3, <3>2, <4>1 DEF Joined
    <3>3. ASSUME NEW j \in 1..(r - 1), i = p + j
          PROVE  Joined(g, At(head, t, i), At(head, t, i + 1))
      <4>1. At(head, t, i) = At(head, s, p + w + j)
        BY <1>7, <3>3
      <4>2. At(head, t, i + 1) = At(head, s, (p + w + j) + 1)
        <5>1. j + 1 \in 1..r /\ i + 1 = p + (j + 1) /\ (p + w + j) + 1 = p + w + (j + 1)
          BY <3>3
        <5>. QED
          BY <1>7, <5>1
      <4>3. p + w + j \in 0..n /\ p + w + j # p /\ p + w + j # p + w /\ p + w + j # n
        BY <1>1
      <4>. QED
        BY <2>4, <4>1, <4>2, <4>3 DEF Joined
    <3>4. CASE i = p + r
      <4>1. At(head, t, p + r) = z
        BY <1>1, <1>2, <1>7, <1>11
      <4>2. At(head, t, p + r + 1) = first
        BY <1>2, <1>8
      <4>. QED
        BY <2>3, <3>4, <4>1, <4>2 DEF Joined
    <3>5. ASSUME NEW j \in 1..(w - 1), i = p + r + j
          PROVE  Joined(g, At(head, t, i), At(head, t, i + 1))
      <4>1. At(head, t, i) = At(head, s, p + j)
        <5>1. j \in 1..w
          OBVIOUS
        <5>. QED
          BY <1>8, <3>5, <5>1
      <4>2. At(head, t, i + 1) = At(head, s, (p + j) + 1)
        <5>1. j + 1 \in 1..w /\ i + 1 = p + r + (j + 1) /\ (p + j) + 1 = p + (j + 1)
          BY <3>5
        <5>. QED
          BY <1>8, <5>1
      <4>3. p + j \in 0..n /\ p + j # p /\ p + j # p + w /\ p + j # n
        BY <1>1, <1>11
      <4>. QED
        BY <2>4, <4>1, <4>2, <4>3 DEF Joined
    <3>6. CASE i = n
      <4>1. At(head, t, n) = last
        <5>1. w \in 1..w /\ p + r + w = n
          BY <1>1
        <5>. QED
          BY <1>2, <1>8, <5>1
      <4>. QED
        BY <1>9, <2>3, <3>6, <4>1 DEF Joined
    <3>7. i < p \/ i = p \/ i - p \in 1..(r - 1) \/ i = p + r \/ i - (p + r) \in 1..(w - 1) \/ i = n
      <4>1. CASE i <= p
        BY <4>1
      <4>2. CASE i > p /\ i <= p + r
        BY <4>2
      <4>3. CASE i > p + r
        BY <1>1, <4>3
      <4>. QED
        BY <4>1, <4>2, <4>3
    <3>8. (i - p \in 1..(r - 1) => i = p + (i - p)) /\ (i - (p + r) \in 1..(w - 1) => i = p + r + (i - (p + r)))
      BY <1>1
    <3>. QED
      BY <3>1, <3>2, <3>3, <3>4, <3>5, <3>6, <3>7, <3>8
  <2>6. Ring(g, head, t)
    BY <1>1, <2>5 DEF Ring, Joined
  <2>7. ASSUME NEW i \in 1..n
        PROVE  \E q \in 1..n : /\ t[i] = s[q] /\ (i <= p => q = i)
                               /\ (i > p /\ i <= p + r => q = w + i /\ q > p + w)
                               /\ (i > p + r => i = r + q /\ q > p /\ q <= p + w)
    <3>1. CASE i <= p
      BY <1>b, <1>1, <3>1
    <3>2. CASE i > p /\ i <= p + r
      <4>1. i - p \in 1..r /\ i = p + (i - p) /\ p + w + (i - p) = w + i /\ w + i \in 1..n
        BY <1>1, <3>2
      <4>2. t[i] = s[w + i]
        BY <1>b, <4>1
      <4>. QED
        BY <1>1, <3>2, <4>1, <4>2
    <3>3. CASE i > p + r
      <4>1. i - (p + r) \in 1..w /\ i = p + r + (i - (p + r)) /\ p + (i - (p + r)) = i - r /\ i - r \in 1..n
        BY <1>1, <3>3
      <4>2. t[i] = s[i - r]
        BY <1>b, <4>1
      <4>. QED
        BY <1>1, <3>3, <4>1, <4>2
    <3>. QED
      BY <1>1, <3>1, <3>2, <3>3
  <2>8. Distinct(t)
    <3>1. ASSUME NEW i \in 1..n, NEW j \in 1..n, t[i] = t[j] PROVE i = j
      <4>1. PICK q \in 1..n : /\ t[i] = s[q] /\ (i <= p => q = i)
                              /\ (i > p /\ i <= p + r => q = w + i /\ q > p + w)
                              /\ (i > p + r => i = r + q /\ q > p /\ q <= p + w)
        BY <2>7
      <4>2. PICK m \in 1..n : /\ t[j] = s[m] /\ (j <= p => m = j)
                              /\ (j > p /\ j <= p + r => m = w + j /\ m > p + w)
                              /\ (j > p + r => j = r + m /\ m > p /\ m <= p + w)
        BY <2>7
      <4>3. q = m
        BY <1>1, <3>1, <4>1, <4>2 DEF Distinct
      <4>. QED
        BY <4>1, <4>2, <4>3
    <3>. QED
      BY <1>1, <3>1 DEF Distinct
  <2>9. \A x \in N : Off(head, s, x) => Off(head, t, x) /\ Same(h, g, x)
    <3>1. ASSUME NEW x \in N, Off(head, s, x) PROVE Off(head, t, x)
      BY <1>1, <2>7, <3>1 DEF Off
    <3>2. ASSUME NEW x \in N, Off(head, s, x) PROVE Same(h, g, x)
      <4>1. x # a /\ x # b /\ x # z /\ x # first /\ x # last /\ x # head
        <5>1. p \in Int /\ p + w + 1 \in Int /\ n \in Int /\ p + 1 \in Int /\ p + w \in Int
          OBVIOUS
        <5>2. \A i \in Int : At(head, s, i) # x
          BY <3>2, OffRing
        <5>. QED
          BY <1>2, <3>2, <5>1, <5>2 DEF Off
      <4>. QED
        BY <2>3, <4>1 DEF Same
    <3>. QED
      BY <3>1, <3>2
  <2>. QED
    BY <2>2, <2>6, <2>8, <2>9
<1>. QED
  BY <1>10, <1>11

\* The stores of a cut after the entry e of a ring that starts with c; b follows e.
CutStores(h, list, head, c, e, b) ==
  SetPrev(SetNext(SetNext(SetPrev(SetPrev(SetNext(h, list, c), c, list), list, e), e, list), head, b), b, head)

\* Both cuts make these stores, whatever the pointers of list were.
LEMMA CutIsStores ==
  ASSUME NEW N, NEW head \in N, NEW s \in Seq(N \ {head}), NEW h \in Heap(N),
         Ring(h, head, s), Distinct(s), NEW k \in 1..Len(s), NEW list \in N, Off(head, s, list)
  PROVE  /\ __list_cut_position(h, list, head, s[k])
              = CutStores(h, list, head, s[1], s[k], At(head, s, k + 1))
         /\ list_cut_before(h, list, head, At(head, s, k + 1))
              = CutStores(h, list, head, s[1], s[k], At(head, s, k + 1))
<1>1. PICK c, e, b \in N : c = s[1] /\ e = s[k] /\ b = At(head, s, k + 1)
  <2>1. k + 1 \in Int
    OBVIOUS
  <2>2. At(head, s, k + 1) \in N /\ s[1] \in N /\ s[k] \in N
    BY <2>1, AtNodes
  <2>. QED
    BY <2>2
<1>2. h.next[head] = c /\ h.next[e] = b /\ h.prev[b] = e
  BY <1>1, AtNodes DEF Ring, At
<1>3. c # list /\ b # c /\ e # list /\ b # list /\ head # list
  <2>1. c # list /\ e # list /\ head # list
    BY <1>1 DEF Off
  <2>2. k + 1 \in Int
    OBVIOUS
  <2>3. b # list
    BY <1>1, <2>2, OffRing
  <2>4. At(head, s, 1) = c /\ 1 \in 1..(Len(s) + 1) /\ k + 1 \in 1..(Len(s) + 1) /\ 1 # k + 1
    BY <1>1 DEF At
  <2>5. b # c
    BY <1>1, <2>4, AtOnce
  <2>. QED
    BY <2>1, <2>3, <2>5
<1>4. __list_cut_position(h, list, head, e) = CutStores(h, list, head, c, e, b)
  <2>1. SetNext(h, list, c).next[list] = c
    BY <1>1 DEF SetNext, Heap
  <2>. QED
    BY <1>2, <2>1 DEF __list_cut_position, CutStores
<1>5. list_cut_before(h, list, head, b) = CutStores(h, list, head, c, e, b)
  <2> DEFINE h1 == SetNext(h, list, c)
             h2 == SetPrev(h1, c, list)
             h3 == SetPrev(h2, list, e)
  <2>1. h1.next[list] = c
    BY <1>1 DEF SetNext, Heap
  <2>2. h2.prev[b] = e
    BY <1>1, <1>2, <1>3 DEF SetNext, SetPrev, Heap
  <2>3. h3.prev[list] = e
    BY <1>1, <1>3 DEF SetNext, SetPrev, Heap
  <2>4. h.next[head] # b
    BY <1>2, <1>3
  <2>. QED
    BY <1>2, <2>1, <2>2, <2>3, <2>4 DEF list_cut_before, CutStores
<1>. QED
  BY <1>1, <1>4, <1>5

\* The stores of a cut after the k-th entry.
CutAt(h, list, head, s, k) == CutStores(h, list, head, s[1], s[k], At(head, s, k + 1))

\* t is the first k elements of s, and u the others.
SplitAt(s, k, t, u) ==
  /\ Len(t) = k /\ Len(s) = k + Len(u)
  /\ \A i \in 1..k : t[i] = s[i]
  /\ \A i \in 1..Len(u) : u[i] = s[k + i]

\* They leave the first k entries on the ring of list, and the rest on their own.
LEMMA CutRing ==
  ASSUME NEW N, NEW head \in N, NEW s \in Seq(N \ {head}), NEW h \in Heap(N),
         Ring(h, head, s), Distinct(s), NEW k \in 1..Len(s), NEW list \in N, Off(head, s, list),
         NEW t \in Seq(N \ {list}), NEW u \in Seq(N \ {head}), SplitAt(s, k, t, u),
         NEW g, g = CutAt(h, list, head, s, k)
  PROVE  /\ g \in Heap(N) /\ Ring(g, list, t) /\ Ring(g, head, u) /\ Distinct(t) /\ Distinct(u)
         /\ \A x \in N : x # list /\ Off(head, s, x) => Same(h, g, x)
<1>0. PICK r \in Nat : /\ Len(s) = k + r /\ Len(t) = k /\ Len(u) = r
                       /\ \A i \in 1..k : t[i] = s[i]
                       /\ \A i \in 1..r : u[i] = s[k + i]
  BY DEF SplitAt
<1> USE <1>0
<1>1. PICK c, e, b \in N : c = s[1] /\ e = s[k] /\ b = At(head, s, k + 1)
  <2>1. k + 1 \in Int /\ 1 \in 1..Len(s) /\ k \in 1..Len(s)
    OBVIOUS
  <2>2. At(head, s, k + 1) \in N /\ s[1] \in N /\ s[k] \in N
    BY <2>1, AtNodes
  <2>. QED
    BY <2>2
<1>2. At(head, s, 1) = c /\ At(head, s, k) = e /\ At(head, s, 0) = head
  BY <1>1 DEF At
<1>3. c # list /\ e # list /\ b # list /\ head # list /\ c # b /\ e # head /\ c # head
  <2>1. k + 1 \in Int /\ 1 \in 1..Len(s) /\ k \in 1..Len(s)
    OBVIOUS
  <2>2. c # list /\ e # list /\ head # list
    BY <1>1, <2>1 DEF Off
  <2>3. b # list
    BY <1>1, <2>1, OffRing
  <2>4. 0 \in 0..Len(s) /\ k \in 0..Len(s) /\ k # 0 /\ 0 + 1 = 1
    OBVIOUS
  <2>5. b # c
    <3>1. At(head, s, 0 + 1) # At(head, s, k + 1)
      BY <2>4, LinksApart
    <3>. QED
      BY <1>1, <1>2, <2>4, <3>1
  <2>6. e # head /\ c # head
    BY <1>1, <2>1, AtNodes
  <2>. QED
    BY <2>2, <2>3, <2>5, <2>6
<1>4. /\ g \in Heap(N)
      /\ g.next = [[[h.next EXCEPT ![list] = c] EXCEPT ![e] = list] EXCEPT ![head] = b]
      /\ g.prev = [[[h.prev EXCEPT ![c] = list] EXCEPT ![list] = e] EXCEPT ![b] = head]
  <2>1. g = CutStores(h, list, head, c, e, b)
    BY <1>1 DEF CutAt
  <2>2. SetNext(h, list, c) \in Heap(N)
    BY <1>1, StoreNode
  <2>3. SetPrev(SetNext(h, list, c), c, list) \in Heap(N)
    BY <1>1, <2>2, StoreNode
  <2>4. SetPrev(SetPrev(SetNext(h, list, c), c, list), list, e) \in Heap(N)
    BY <1>1, <2>3, StoreNode
  <2>5. SetNext(SetPrev(SetPrev(SetNext(h, list, c), c, list), list, e), e, list) \in Heap(N)
    BY <1>1, <2>4, StoreNode
  <2>6. SetNext(SetNext(SetPrev(SetPrev(SetNext(h, list, c), c, list), list, e), e, list), head, b) \in Heap(N)
    BY <1>1, <2>5, StoreNode
  <2>7. g \in Heap(N)
    BY <1>1, <2>1, <2>6, StoreNode DEF CutStores
  <2>. QED
    BY <2>1, <2>7 DEF CutStores, SetNext, SetPrev
<1>5. /\ Joined(g, list, c) /\ Joined(g, e, list) /\ Joined(g, head, b)
      /\ \A x \in N : x # list /\ x # e /\ x # head => g.next[x] = h.next[x]
      /\ \A x \in N : x # list /\ x # c /\ x # b => g.prev[x] = h.prev[x]
  BY <1>1, <1>3, <1>4 DEF Heap, Joined
<1>6. ASSUME NEW i \in 1..(k + r), i # k PROVE Joined(g, At(head, s, i), At(head, s, i + 1))
  <2>1. /\ i \in 0..Len(s) /\ 0 \in 0..Len(s) /\ k \in 0..Len(s)
        /\ i \in Int /\ i + 1 \in Int /\ i # 0 /\ i # k
    BY <1>6
  <2>2. /\ 1 \in 1..(Len(s) + 1) /\ k + 1 \in 1..(Len(s) + 1) /\ i + 1 \in 1..(Len(s) + 1)
        /\ i + 1 # 1 /\ i + 1 # k + 1
    BY <1>6
  <2>3. At(head, s, i) # e /\ At(head, s, i) # head
    <3>1. At(head, s, i) # At(head, s, k) /\ At(head, s, i) # At(head, s, 0)
      BY <2>1, LinksApart
    <3>. QED
      BY <1>2, <3>1
  <2>4. At(head, s, i + 1) # c /\ At(head, s, i + 1) # b
    <3>1. At(head, s, i + 1) # At(head, s, 0 + 1)
      BY <2>1, LinksApart
    <3>2. At(head, s, i + 1) # At(head, s, k + 1)
      BY <2>1, LinksApart
    <3>3. 0 + 1 = 1
      OBVIOUS
    <3>. QED
      BY <1>1, <1>2, <3>1, <3>2, <3>3
  <2>5. At(head, s, i) # list /\ At(head, s, i + 1) # list
    BY <2>1, OffRing
  <2>6. At(head, s, i) \in N /\ At(head, s, i + 1) \in N
    BY <2>1, AtNodes
  <2>7. h.next[At(head, s, i)] = At(head, s, i + 1) /\ h.prev[At(head, s, i + 1)] = At(head, s, i)
    BY <2>1 DEF Ring
  <2>. QED
    BY <1>5, <2>3, <2>4, <2>5, <2>6, <2>7 DEF Joined
<1>7. Ring(g, list, t)
  <2>1. ASSUME NEW i \in 0..k PROVE Joined(g, At(list, t, i), At(list, t, i + 1))
    <3>1. CASE i = 0
      <4>1. At(list, t, 0) = list /\ At(list, t, 1) = c
        BY <1>1 DEF At
      <4>. QED
        BY <1>5, <3>1, <4>1
    <3>2. CASE i = k
      <4>1. At(list, t, k) = e /\ At(list, t, k + 1) = list
        BY <1>1 DEF At
      <4>. QED
        BY <1>5, <3>2, <4>1
    <3>3. CASE i # 0 /\ i # k
      <4>1. At(list, t, i) = At(head, s, i) /\ At(list, t, i + 1) = At(head, s, i + 1)
        BY <3>3 DEF At
      <4>. QED
        BY <1>6, <3>3, <4>1
    <3>. QED
      BY <3>1, <3>2, <3>3
  <2>. QED
    BY <2>1 DEF Ring, Joined
<1>8. Ring(g, head, u)
  <2>1. ASSUME NEW i \in 1..(r + 1) PROVE At(head, u, i) = At(head, s, k + i)
    BY DEF At
  <2>2. ASSUME NEW i \in 0..r PROVE Joined(g, At(head, u, i), At(head, u, i + 1))
    <3>1. CASE i = 0
      <4>1. At(head, u, 0) = head /\ At(head, u, 1) = b
        <5>1. At(head, u, 0) = head
          BY DEF At
        <5>2. 1 \in 1..(r + 1)
          OBVIOUS
        <5>. QED
          BY <1>1, <2>1, <5>1, <5>2
      <4>. QED
        BY <1>5, <3>1, <4>1
    <3>2. CASE i # 0
      <4>1. i \in 1..(r + 1) /\ i + 1 \in 1..(r + 1) /\ k + (i + 1) = (k + i) + 1
        BY <3>2
      <4>2. At(head, u, i) = At(head, s, k + i) /\ At(head, u, i + 1) = At(head, s, (k + i) + 1)
        BY <2>1, <4>1
      <4>3. k + i \in 1..(k + r) /\ k + i # k
        BY <3>2
      <4>. QED
        BY <1>6, <4>2, <4>3
    <3>. QED
      BY <3>1, <3>2
  <2>. QED
    BY <2>2 DEF Ring, Joined
<1>9. Distinct(t) /\ Distinct(u)
  BY DEF Distinct
<1>10. ASSUME NEW x \in N, x # list, Off(head, s, x) PROVE Same(h, g, x)
  <2>1. k + 1 \in Int /\ 1 \in 1..Len(s) /\ k \in 1..Len(s)
    OBVIOUS
  <2>2. b # x
    BY <1>1, <1>10, <2>1, OffRing
  <2>3. c # x /\ e # x /\ head # x
    BY <1>1, <1>10, <2>1 DEF Off
  <2>. QED
    BY <1>5, <1>10, <2>2, <2>3 DEF Same
<1>. QED
  BY <1>4, <1>7, <1>8, <1>9, <1>10

\* t is s with the elements of u after its k-th.
SplicedAt(s, k, u, t) ==
  /\ Len(t) = Len(s) + Len(u)
  /\ \A i \in 1..k : t[i] = s[i]
  /\ \A i \in 1..Len(u) : t[k + i] = u[i]
  /\ \A i \in 1..(Len(s) - k) : t[k + Len(u) + i] = s[k + i]

\* The stores of a splice after the k-th entry.
SpliceAt(h, list, head, s, k) == __list_splice(h, list, At(head, s, k), At(head, s, k + 1))

\* The entries of the ring of list, stored between the k-th node of another ring
\* and the one after it, join that ring there.
LEMMA SpliceRing ==
  ASSUME NEW N, NEW head \in N, NEW s \in Seq(N \ {head}), NEW h \in Heap(N),
         Ring(h, head, s), Distinct(s), NEW k \in 0..Len(s),
         NEW list \in N, NEW u \in Seq(N \ {list}), Ring(h, list, u), Distinct(u), u # <<>>,
         Off(head, s, list), \A i \in 1..Len(u) : Off(head, s, u[i]),
         NEW t \in Seq(N \ {head}), SplicedAt(s, k, u, t),
         NEW g, g = SpliceAt(h, list, head, s, k)
  PROVE  /\ g \in Heap(N) /\ Ring(g, head, t) /\ Distinct(t)
         /\ \A x \in N : Off(head, t, x) => Same(h, g, x)
<1>0. PICK r \in Nat, m \in Nat \ {0} :
        /\ k \in Nat /\ Len(s) = k + r /\ Len(u) = m /\ Len(t) = k + m + r
        /\ \A i \in 1..m : Off(head, s, u[i])
        /\ \A i \in 1..k : t[i] = s[i]
        /\ \A i \in 1..m : t[k + i] = u[i]
        /\ \A i \in 1..r : t[k + m + i] = s[k + i]
  <2>1. Len(s) - k \in Nat /\ Len(s) = k + (Len(s) - k) /\ Len(u) \in Nat \ {0}
    OBVIOUS
  <2>2. /\ Len(t) = k + Len(u) + (Len(s) - k)
        /\ \A i \in 1..k : t[i] = s[i]
        /\ \A i \in 1..Len(u) : t[k + i] = u[i]
        /\ \A i \in 1..(Len(s) - k) : t[k + Len(u) + i] = s[k + i]
    BY <2>1 DEF SplicedAt
  <2>3. k \in Nat /\ \A i \in 1..Len(u) : Off(head, s, u[i])
    OBVIOUS
  <2>. QED
    BY <2>1, <2>2, <2>3
<1> USE <1>0
<1>1. PICK a, b, f, l \in N : a = At(head, s, k) /\ b = At(head, s, k + 1) /\ f = u[1] /\ l = u[m]
  <2>1. k \in Int /\ k + 1 \in Int /\ 1 \in 1..Len(u) /\ m \in 1..Len(u)
    OBVIOUS
  <2>2. At(head, s, k) \in N /\ At(head, s, k + 1) \in N
    BY <2>1, AtNodes
  <2>3. u[1] \in N /\ u[m] \in N
    BY <2>1, AtNodes
  <2>. QED
    BY <2>2, <2>3
<1>2. /\ \A i \in Int : At(head, s, i) \in N
      /\ \A i \in Int, j \in 1..m : At(head, s, i) # u[j] /\ u[j] \in N /\ u[j] # head
  <2>1. \A i \in Int : At(head, s, i) \in N
    BY AtNodes
  <2>2. ASSUME NEW i \in Int, NEW j \in 1..m PROVE At(head, s, i) # u[j] /\ u[j] \in N /\ u[j] # head
    <3>1. At(head, s, i) # u[j]
      BY OffRing
    <3>2. u[j] \in N
      BY AtNodes
    <3>. QED
      BY <3>1, <3>2 DEF Off
  <2>. QED
    BY <2>1, <2>2
<1>3. a # f /\ a # l /\ b # f /\ b # l
  BY <1>1, <1>2
<1>4. h.next[list] = f /\ h.prev[list] = l
  <2>1. At(list, u, 0) = list /\ At(list, u, 1) = f /\ At(list, u, m) = l /\ At(list, u, m + 1) = list
    BY <1>1 DEF At
  <2>2. 0 \in 0..Len(u) /\ m \in 0..Len(u)
    OBVIOUS
  <2>. QED
    BY <2>1, <2>2 DEF Ring
<1>5. /\ g.next = [[h.next EXCEPT ![a] = f] EXCEPT ![l] = b]
      /\ g.prev = [[h.prev EXCEPT ![f] = a] EXCEPT ![b] = l]
      /\ g \in Heap(N)
  BY <1>1, <1>4 DEF SpliceAt, __list_splice, SetNext, SetPrev, Heap
<1>6. /\ Joined(g, a, f) /\ Joined(g, l, b)
      /\ \A x \in N : x # a /\ x # l => g.next[x] = h.next[x]
      /\ \A x \in N : x # f /\ x # b => g.prev[x] = h.prev[x]
  BY <1>1, <1>3, <1>5 DEF Heap, Joined
<1>7. ASSUME NEW i \in 0..(k + r), i # k PROVE Joined(g, At(head, s, i), At(head, s, i + 1))
  <2>1. i \in 0..Len(s) /\ k \in 0..Len(s) /\ i # k /\ i \in Int /\ i + 1 \in Int
    BY <1>7
  <2>2. k + 1 \in 1..(Len(s) + 1) /\ i + 1 \in 1..(Len(s) + 1) /\ i + 1 # k + 1
    BY <1>7
  <2>3. At(head, s, i) # a
    BY <1>1, <2>1, AtOnce
  <2>4. At(head, s, i + 1) # b
    <3>2. At(head, s, i + 1) # At(head, s, k + 1)
      BY <2>1, LinksApart
    <3>. QED
      BY <1>1, <3>2
  <2>5. At(head, s, i) # l /\ At(head, s, i + 1) # f
    BY <1>1, <1>2, <2>1
  <2>. QED
    BY <1>2, <1>6, <2>1, <2>3, <2>4, <2>5 DEF Ring, Joined
<1>8. ASSUME NEW i \in 1..(m - 1) PROVE Joined(g, u[i], u[i + 1])
  <2>1. At(list, u, i) = u[i] /\ At(list, u, i + 1) = u[i + 1] /\ i \in 0..Len(u)
    BY DEF At
  <2>2. h.next[u[i]] = u[i + 1] /\ h.prev[u[i + 1]] = u[i]
    BY <2>1 DEF Ring
  <2>3. u[i] # l /\ u[i + 1] # f
    BY <1>1 DEF Distinct
  <2>4. i \in 1..m /\ i + 1 \in 1..m /\ k \in Int /\ k + 1 \in Int
    OBVIOUS
  <2>5. u[i] # a /\ u[i + 1] # b /\ u[i] \in N /\ u[i + 1] \in N
    BY <1>1, <1>2, <2>4
  <2>. QED
    BY <1>6, <2>2, <2>3, <2>5 DEF Joined
<1>9. ASSUME NEW i \in 0..k PROVE At(head, t, i) = At(head, s, i)
  BY DEF At
<1>10. ASSUME NEW i \in 1..m PROVE At(head, t, k + i) = u[i]
  BY DEF At
<1>11. ASSUME NEW i \in 1..(r + 1) PROVE At(head, t, k + m + i) = At(head, s, k + i)
  <2>1. CASE i \in 1..r
    <3>1. k + m + i \in 1..Len(t) /\ k + i \in 1..Len(s)
      BY <2>1
    <3>. QED
      BY <2>1, <3>1 DEF At
  <2>2. CASE i = r + 1
    <3>1. k + m + i \notin 1..Len(t) /\ k + i \notin 1..Len(s)
      BY <2>2
    <3>. QED
      BY <3>1 DEF At
  <2>. QED
    BY <2>1, <2>2
<1>12. ASSUME NEW i \in 0..(k + m + r) PROVE Joined(g, At(head, t, i), At(head, t, i + 1))
  <2>1. CASE i < k
    <3>1. i \in 0..k /\ i + 1 \in 0..k /\ i \in 0..(k + r) /\ i # k
      BY <2>1
    <3>. QED
      BY <1>7, <1>9, <3>1
  <2>2. CASE i = k
    <3>1. k \in 0..k /\ 1 \in 1..m
      OBVIOUS
    <3>2. At(head, t, k) = a /\ At(head, t, k + 1) = f
      BY <1>1, <1>9, <1>10, <3>1
    <3>. QED
      BY <1>6, <2>2, <3>2
  <2>3. ASSUME NEW j \in 1..(m - 1), i = k + j PROVE Joined(g, At(head, t, i), At(head, t, i + 1))
    <3>1. j \in 1..m /\ j + 1 \in 1..m /\ i + 1 = k + (j + 1)
      BY <2>3
    <3>2. At(head, t, i) = u[j] /\ At(head, t, i + 1) = u[j + 1]
      BY <1>10, <2>3, <3>1
    <3>. QED
      BY <1>8, <3>2
  <2>4. CASE i = k + m
    <3>1. m \in 1..m /\ 1 \in 1..(r + 1) /\ i + 1 = k + m + 1
      BY <2>4
    <3>2. At(head, t, i) = l /\ At(head, t, i + 1) = b
      BY <1>1, <1>10, <1>11, <2>4, <3>1
    <3>. QED
      BY <1>6, <3>2
  <2>5. ASSUME NEW j \in 1..r, i = k + m + j PROVE Joined(g, At(head, t, i), At(head, t, i + 1))
    <3>1. j \in 1..(r + 1) /\ j + 1 \in 1..(r + 1) /\ i + 1 = k + m + (j + 1) /\ (k + j) + 1 = k + (j + 1)
      BY <2>5
    <3>2. At(head, t, i) = At(head, s, k + j) /\ At(head, t, i + 1) = At(head, s, (k + j) + 1)
      BY <1>11, <2>5, <3>1
    <3>3. k + j \in 0..(k + r) /\ k + j # k
      OBVIOUS
    <3>. QED
      BY <1>7, <3>2, <3>3
  <2>6. ASSUME i > k, i < k + m PROVE i - k \in 1..(m - 1) /\ i = k + (i - k)
    BY <2>6
  <2>7. ASSUME i > k + m PROVE i - (k + m) \in 1..r /\ i = k + m + (i - (k + m))
    BY <2>7
  <2>8. i < k \/ i = k \/ (i > k /\ i < k + m) \/ i = k + m \/ i > k + m
    OBVIOUS
  <2>. QED
    BY <2>1, <2>2, <2>3, <2>4, <2>5, <2>6, <2>7, <2>8
<1>13. Ring(g, head, t)
  BY <1>12 DEF Ring, Joined
<1>14. ASSUME NEW i \in 1..(k + m + r)
       PROVE  \/ i <= k /\ t[i] = s[i]
              \/ i > k /\ i <= k + m /\ \E j \in 1..m : t[i] = u[j] /\ i = k + j
              \/ i > k + m /\ \E j \in 1..r : t[i] = s[k + j] /\ i = k + m + j
  <2>1. CASE i <= k
    BY <2>1
  <2>2. CASE i > k /\ i <= k + m
    <3>1. i - k \in 1..m /\ i = k + (i - k)
      BY <2>2
    <3>. QED
      BY <2>2, <3>1
  <2>3. CASE i > k + m
    <3>1. i - (k + m) \in 1..r /\ i = k + m + (i - (k + m))
      BY <2>3
    <3>. QED
      BY <2>3, <3>1
  <2>. QED
    BY <2>1, <2>2, <2>3
<1>15. Distinct(t)
  <2>1. \A i \in 1..(k + r), j \in 1..m : s[i] # u[j]
    BY DEF Off
  <2>2. ASSUME NEW i \in 1..(k + m + r), NEW j \in 1..(k + m + r), t[i] = t[j] PROVE i = j
    <3>1. CASE i <= k /\ t[i] = s[i]
      <4>1. CASE j <= k /\ t[j] = s[j]
        <5>1. i \in 1..Len(s) /\ j \in 1..Len(s)
          BY <3>1, <4>1
        <5>. QED
          BY <2>2, <3>1, <4>1, <5>1 DEF Distinct
      <4>2. ASSUME NEW q \in 1..m, t[j] = u[q] PROVE FALSE
        <5>1. i \in 1..(k + r)
          BY <3>1
        <5>. QED
          BY <2>1, <2>2, <3>1, <4>2, <5>1
      <4>3. ASSUME NEW q \in 1..r, t[j] = s[k + q] PROVE FALSE
        <5>1. i \in 1..Len(s) /\ k + q \in 1..Len(s) /\ i # k + q
          BY <3>1
        <5>. QED
          BY <2>2, <3>1, <4>3, <5>1 DEF Distinct
      <4>. QED
        BY <1>14, <4>1, <4>2, <4>3
    <3>2. ASSUME NEW p \in 1..m, t[i] = u[p], i = k + p PROVE i = j
      <4>1. CASE j <= k /\ t[j] = s[j]
        <5>1. j \in 1..(k + r)
          BY <4>1
        <5>. QED
          BY <2>1, <2>2, <3>2, <4>1, <5>1
      <4>2. ASSUME NEW q \in 1..m, t[j] = u[q], j = k + q PROVE i = j
        <5>1. p = q
          BY <2>2, <3>2, <4>2 DEF Distinct
        <5>. QED
          BY <3>2, <4>2, <5>1
      <4>3. ASSUME NEW q \in 1..r, t[j] = s[k + q] PROVE FALSE
        <5>1. k + q \in 1..(k + r)
          OBVIOUS
        <5>. QED
          BY <2>1, <2>2, <3>2, <4>3, <5>1
      <4>. QED
        BY <1>14, <4>1, <4>2, <4>3
    <3>3. ASSUME NEW p \in 1..r, t[i] = s[k + p], i = k + m + p PROVE i = j
      <4>0. k + p \in 1..(k + r)
        OBVIOUS
      <4>1. CASE j <= k /\ t[j] = s[j]
        <5>1. j \in 1..Len(s) /\ k + p \in 1..Len(s) /\ j # k + p
          BY <4>1
        <5>. QED
          BY <2>2, <3>3, <4>1, <5>1 DEF Distinct
      <4>2. ASSUME NEW q \in 1..m, t[j] = u[q] PROVE FALSE
        BY <2>1, <2>2, <3>3, <4>0, <4>2
      <4>3. ASSUME NEW q \in 1..r, t[j] = s[k + q], j = k + m + q PROVE i = j
        <5>1. k + p \in 1..Len(s) /\ k + q \in 1..Len(s)
          OBVIOUS
        <5>3. s[k + p] = s[k + q]
          BY <2>2, <3>3, <4>3
        <5>2. k + p = k + q
          BY <5>1, <5>3 DEF Distinct
        <5>. QED
          BY <3>3, <4>3, <5>2
      <4>. QED
        BY <1>14, <4>1, <4>2, <4>3
    <3>. QED
      BY <1>14, <3>1, <3>2, <3>3
  <2>. QED
    BY <2>2 DEF Distinct
<1>16. ASSUME NEW x \in N, Off(head, t, x) PROVE Same(h, g, x)
  <2>1. a # x
    <3>1. At(head, t, k) = a
      BY <1>1, <1>9
    <3>. QED
      BY <1>16, <3>1, OffRing
  <2>2. f # x /\ l # x
    <3>1. 1 \in 1..m /\ m \in 1..m /\ k + 1 \in 1..Len(t) /\ k + m \in 1..Len(t)
      OBVIOUS
    <3>2. t[k + 1] = f /\ t[k + m] = l
      BY <1>1, <3>1
    <3>. QED
      BY <1>16, <3>1, <3>2 DEF Off
  <2>3. b # x
    <3>1. 1 \in 1..(r + 1) /\ k + m + 1 \in Int
      OBVIOUS
    <3>2. At(head, t, k + m + 1) = b
      BY <1>1, <1>11, <3>1
    <3>. QED
      BY <1>16, <3>1, <3>2, OffRing
  <2>. QED
    BY <1>6, <1>16, <2>1, <2>2, <2>3 DEF Same
<1>. QED
  BY <1>5, <1>13, <1>15, <1>16

\* t is s read from its k-th element on, around the end.
RotatedAt(s, k, t) ==
  /\ Len(t) = Len(s)
  /\ \A i \in 1..(Len(s) - k + 1) : t[i] = s[(k - 1) + i]
  /\ \A i \in 1..(k - 1) : t[(Len(s) - k + 1) + i] = s[i]

\* The head moved to just before the k-th entry: the ring starts there.
LEMMA RotateToFront ==
  ASSUME NEW N, NEW head \in N, NEW s \in Seq(N \ {head}), NEW h \in Heap(N),
         Ring(h, head, s), Distinct(s), NEW k \in 1..Len(s),
         NEW t \in Seq(N \ {head}), RotatedAt(s, k, t),
         NEW e, e = s[k],
         NEW g, g = list_rotate_to_front(h, e, head)
  PROVE  /\ g \in Heap(N) /\ Ring(g, head, t) /\ Distinct(t)
         /\ \A x \in N : Off(head, s, x) => Off(head, t, x) /\ Same(h, g, x)
<1>0a. PICK n \in Nat : n = Len(s) /\ n >= 1
  OBVIOUS
<1>0b. PICK j \in Nat : n = j + 1
  <2>1. n - 1 \in Nat /\ n = (n - 1) + 1
    BY <1>0a
  <2>. QED
    BY <2>1
<1>0c. PICK d \in Nat : d = n - k + 1
  <2>1. n - k + 1 \in Nat
    BY <1>0a
  <2>. QED
    BY <2>1
<1>1. n = Len(s) /\ n >= 1 /\ n = j + 1 /\ d = n - k + 1 /\ d \in 1..n /\ d + k = n + 1
  BY <1>0a, <1>0b, <1>0c
<1>2. e \in N /\ e # head /\ \A i \in 1..n : s[i] \in N /\ s[i] # head /\ (i # k => s[i] # e)
  BY <1>1, AtNodes DEF Distinct
<1>3. PICK u \in Seq(N \ {e}) : /\ Len(u) = n
                                /\ \A i \in 1..(d - 1) : u[i] = s[k + i]
                                /\ u[d] = head
                                /\ \A i \in 1..(k - 1) : u[d + i] = s[i]
  <2> DEFINE f == [i \in 1..n |-> IF i < d THEN s[k + i] ELSE IF i = d THEN head ELSE s[i - d]]
  <2>1. ASSUME NEW i \in 1..n PROVE (IF i < d THEN s[k + i] ELSE IF i = d THEN head ELSE s[i - d]) \in N \ {e}
    <3>1. i < d => k + i \in 1..n /\ k + i # k
      BY <1>1
    <3>2. i > d => i - d \in 1..n /\ i - d # k
      BY <1>1
    <3>3. CASE i < d
      BY <1>2, <3>1, <3>3
    <3>4. CASE i = d
      BY <1>2, <3>4
    <3>5. CASE i > d
      BY <1>1, <1>2, <3>2, <3>5
    <3>. QED
      BY <1>1, <3>3, <3>4, <3>5
  <2>2. f \in Seq(N \ {e}) /\ Len(f) = n
    BY <2>1
  <2>3. \A i \in 1..(d - 1) : f[i] = s[k + i]
    BY <1>1
  <2>4. f[d] = head
    BY <1>1
  <2>5. ASSUME NEW i \in 1..(k - 1) PROVE f[d + i] = s[i]
    <3>1. d + i \in 1..n /\ d + i > d /\ (d + i) - d = i
      BY <1>1
    <3>. QED
      BY <3>1
  <2>. QED
    BY <2>2, <2>3, <2>4, <2>5
<1>4. Ring(h, e, u) /\ Distinct(u) /\ \A x \in N : Off(head, s, x) <=> Off(e, u, x)
  <2>1. ReadFrom(head, s, k, u)
    BY <1>1, <1>3 DEF ReadFrom
  <2>. QED
    BY <2>1, RotateRing
<1>5. PICK v \in Seq(N \ {e}) : DeletedAt(u, d, v)
  <2> DEFINE f == [i \in 1..j |-> IF i < d THEN u[i] ELSE u[i + 1]]
  <2>1. f \in Seq(N \ {e}) /\ Len(f) = Len(u) - 1
    BY <1>1, <1>3
  <2>2. DeletedAt(u, d, f)
    BY <2>1, <1>1, <1>3 DEF DeletedAt
  <2>. QED
    BY <2>1, <2>2
<1>6. PICK g1 : g1 = __list_del_entry(h, head)
  OBVIOUS
<1>7. /\ g1 \in Heap(N) /\ Ring(g1, e, v) /\ Distinct(v) /\ Off(e, v, head)
      /\ \A x \in N : Off(e, u, x) => Same(h, g1, x)
  <2>1. d \in 1..Len(u) /\ g1 = __list_del_entry(h, u[d])
    BY <1>1, <1>3, <1>6
  <2>2. /\ g1 \in Heap(N) /\ Ring(g1, e, v) /\ Distinct(v) /\ Off(e, v, u[d])
        /\ \A x \in N : Off(e, u, x) => Same(h, g1, x)
    BY <1>2, <1>4, <1>5, <2>1, DeleteRing
  <2>. QED
    BY <1>3, <2>2
<1>8. Len(v) = j /\ j \in 0..Len(v)
  <2>1. Len(v) = n - 1
    BY <1>3, <1>5 DEF DeletedAt
  <2>. QED
    BY <1>1, <2>1
<1>9. PICK w \in Seq(N \ {e}) : InsertedAt(v, j, head, w)
  <2>1. Append(v, head) \in Seq(N \ {e}) /\ InsertedAt(v, j, head, Append(v, head))
    BY <1>2, <1>8 DEF InsertedAt
  <2>. QED
    BY <2>1
<1>10. g = __list_add(g1, head, At(e, v, j), At(e, v, j + 1))
  <2>1. At(e, v, j + 1) = e
    BY <1>8 DEF At
  <2>2. g1.prev[At(e, v, j + 1)] = At(e, v, j)
    BY <1>7, <1>8 DEF Ring
  <2>. QED
    BY <1>6, <2>1, <2>2 DEF list_rotate_to_front, list_move_tail, list_add_tail
<1>11. /\ g \in Heap(N) /\ Ring(g, e, w) /\ Distinct(w)
       /\ \A x \in N : x # head /\ Off(e, v, x) => Same(g1, g, x)
  BY <1>2, <1>7, <1>8, <1>9, <1>10, InsertRing
<1>12. Len(w) = n /\ w[n] = head /\ \A i \in 1..j : w[i] = v[i]
  <2>1. Len(w) = j + 1
    BY <1>8, <1>9 DEF InsertedAt
  <2>2. w[j + 1] = head
    BY <2>1, <1>9 DEF InsertedAt
  <2>3. \A i \in 1..j : w[i] = v[i]
    BY <2>1, <1>9 DEF InsertedAt
  <2>. QED
    BY <1>1, <2>1, <2>2, <2>3
<1>13. Len(t) = n /\ t[1] = e /\ \A i \in 1..j : t[1 + i] = w[i]
  <2>1. Len(t) = n /\ (\A i \in 1..d : t[i] = s[(k - 1) + i]) /\ \A i \in 1..(k - 1) : t[d + i] = s[i]
    BY <1>1 DEF RotatedAt
  <2>2. t[1] = e
    <3>1. 1 \in 1..d /\ (k - 1) + 1 = k
      BY <1>1
    <3>. QED
      BY <2>1, <3>1
  <2>3. ASSUME NEW i \in 1..j PROVE t[1 + i] = w[i]
    <3>1. CASE i < d
      <4>1. 1 + i \in 1..d /\ (k - 1) + (1 + i) = k + i /\ i \in 1..(d - 1)
        BY <1>1, <3>1
      <4>2. w[i] = v[i] /\ v[i] = u[i] /\ u[i] = s[k + i]
        BY <1>3, <1>5, <1>8, <1>12, <3>1, <4>1 DEF DeletedAt
      <4>. QED
        BY <2>1, <4>1, <4>2
    <3>2. CASE i >= d
      <4>1. PICK m \in 1..(k - 1) : i + 1 = d + m /\ 1 + i = d + m
        <5>1. (i + 1) - d \in 1..(k - 1) /\ i + 1 = d + ((i + 1) - d) /\ 1 + i = d + ((i + 1) - d)
          BY <1>1, <3>2
        <5>. QED
          BY <5>1
      <4>2. w[i] = v[i] /\ v[i] = u[i + 1]
        BY <1>5, <1>8, <1>12, <3>2 DEF DeletedAt
      <4>3. u[i + 1] = s[m] /\ t[1 + i] = s[m]
        BY <1>3, <2>1, <4>1
      <4>. QED
        BY <4>2, <4>3
    <3>. QED
      BY <1>1, <3>1, <3>2
  <2>. QED
    BY <2>1, <2>2, <2>3
<1>14. Ring(g, head, t) /\ Distinct(t) /\ \A x \in N : Off(e, w, x) <=> Off(head, t, x)
  <2>1. n \in 1..Len(w) /\ head = w[n]
    BY <1>1, <1>12
  <2>2. ReadFrom(e, w, n, t)
    <3>1. Len(t) = Len(w) /\ 1 \in Nat /\ 1 + n = Len(w) + 1
      BY <1>1, <1>12, <1>13
    <3>2. (\A i \in 1..(1 - 1) : t[i] = w[n + i]) /\ t[1] = e /\ \A i \in 1..(n - 1) : t[1 + i] = w[i]
      BY <1>1, <1>13
    <3>. QED
      BY <3>1, <3>2 DEF ReadFrom
  <2>. QED
    BY <1>2, <1>11, <2>1, <2>2, RotateRing
<1>15. ASSUME NEW x \in N, Off(head, s, x) PROVE Off(head, t, x) /\ Same(h, g, x)
  <2>1. Off(e, u, x) /\ x # head
    BY <1>4, <1>15 DEF Off
  <2>2. Off(e, v, x)
    BY <1>1, <1>3, <1>5, <2>1 DEF Off, DeletedAt
  <2>3. Off(e, w, x)
    BY <1>1, <1>8, <1>12, <2>1, <2>2 DEF Off
  <2>. QED
    BY <1>7, <1>11, <1>14, <2>1, <2>2, <2>3 DEF Same
<1>. QED
  BY <1>11, <1>14, <1>15

-----------------------------------------------------------------------------
(* The lists of several heads. *)

Rings == [ListHeads -> Seq(Entries)]

\* No entry is on two lists, or twice on one.
Apart(r) ==
  \A x, y \in ListHeads : \A i \in 1..Len(r[x]), j \in 1..Len(r[y]) : r[x][i] = r[y][j] => x = y /\ i = j

\* Entry e is on no list.
IsLoose(r, e) == \A x \in ListHeads : \A i \in 1..Len(r[x]) : r[x][i] # e

\* The heap h holds the lists r of the heads l; the other heads have no list.
Good(h, r, l) ==
  /\ h \in Heap(Nodes) /\ r \in Rings /\ l \in SUBSET ListHeads
  /\ Apart(r)
  /\ \A x \in ListHeads \ l : r[x] = <<>>
  /\ \A x \in l : Ring(h, x, r[x])

\* What a client may use of one of the lists.
LEMMA GoodLists ==
  ASSUME NEW h, NEW r, NEW l, Good(h, r, l), NEW x \in ListHeads
  PROVE  /\ x \in Nodes /\ r[x] \in Seq(Entries) /\ r[x] \in Seq(Nodes \ {x}) /\ Distinct(r[x])
         /\ Len(r[x]) \in Nat /\ \A i \in 1..Len(r[x]) : r[x][i] \in Entries /\ r[x][i] \in Nodes /\ x \in l
         /\ x \in l => Ring(h, x, r[x])
<1>1. r[x] \in Seq(Entries)
  BY DEF Good, Rings
<1>2. Entries \subseteq Nodes \ {x} /\ x \in Nodes
  BY ListsAssumption DEF Nodes
<1>3. r[x] \in Seq(Nodes \ {x})
  BY <1>1, <1>2
<1>4. Distinct(r[x])
  BY DEF Good, Apart, Distinct
<1>5. x \notin l => r[x] = <<>>
  BY DEF Good
<1>. QED
  BY <1>1, <1>2, <1>3, <1>4, <1>5 DEF Good

\* A head, and an entry that is loose or on another list, is off a list.
LEMMA OffOthers ==
  ASSUME NEW h, NEW r, NEW l, Good(h, r, l), NEW x \in ListHeads
  PROVE  /\ \A y \in ListHeads : y # x => Off(x, r[x], y)
         /\ \A e \in Entries : IsLoose(r, e) => Off(x, r[x], e)
         /\ \A y \in ListHeads : y # x => \A i \in 1..Len(r[y]) : Off(x, r[x], r[y][i])
<1>1. \A i \in 1..Len(r[x]) : r[x][i] \in Entries
  BY GoodLists
<1>2. \A y \in ListHeads : y # x => Off(x, r[x], y)
  BY <1>1, ListsAssumption DEF Off
<1>3. \A e \in Entries : IsLoose(r, e) => Off(x, r[x], e)
  BY ListsAssumption DEF Off, IsLoose
<1>4. ASSUME NEW y \in ListHeads, y # x, NEW i \in 1..Len(r[y]) PROVE Off(x, r[x], r[y][i])
  <2>1. r[y][i] \in Entries
    BY GoodLists
  <2>2. r[y][i] # x
    BY <2>1, ListsAssumption
  <2>3. \A j \in 1..Len(r[x]) : r[x][j] # r[y][i]
    BY <1>4 DEF Good, Apart
  <2>. QED
    BY <2>2, <2>3 DEF Off
<1>. QED
  BY <1>2, <1>3, <1>4

\* When only the lists of H change, and take entries from one another or loose
\* ones, and only their nodes and loose ones are stored to, the rest stays.
LEMMA RingsChange ==
  ASSUME NEW h, NEW r, NEW l, Good(h, r, l),
         NEW g \in Heap(Nodes), NEW q \in Rings, NEW m \in SUBSET ListHeads, NEW H \in SUBSET ListHeads,
         \A x \in ListHeads \ H : q[x] = r[x] /\ (x \in m <=> x \in l),
         \A x \in H : /\ Distinct(q[x])
                      /\ \A i \in 1..Len(q[x]) : \/ IsLoose(r, q[x][i])
                                                 \/ \E y \in H : ~Off(y, r[y], q[x][i])
                      /\ x \in m => Ring(g, x, q[x])
                      /\ x \notin m => q[x] = <<>>,
         \A x, y \in H : x # y => \A i \in 1..Len(q[x]) : Off(y, q[y], q[x][i]),
         \A n \in Nodes : (\A x \in H : Off(x, r[x], n)) /\ ~(n \in Entries /\ IsLoose(r, n)) => Same(h, g, n)
  PROVE  Good(g, q, m)
<1>1. ASSUME NEW x \in H, NEW y \in ListHeads \ H, NEW i \in 1..Len(q[x]), NEW j \in 1..Len(q[y])
      PROVE  q[x][i] # q[y][j]
  <2>1. q[y] = r[y] /\ y \in ListHeads /\ j \in 1..Len(r[y])
    OBVIOUS
  <2>2. CASE IsLoose(r, q[x][i])
    BY <2>1, <2>2 DEF IsLoose
  <2>3. ASSUME NEW z \in H, ~Off(z, r[z], q[x][i]) PROVE q[x][i] # q[y][j]
    <3>1. Off(z, r[z], r[y][j])
      <4>1. z \in ListHeads /\ y # z
        OBVIOUS
      <4>. QED
        BY <2>1, <4>1, OffOthers
    <3>. QED
      BY <2>1, <2>3, <3>1
  <2>. QED
    BY <2>2, <2>3
<1>2. Apart(q)
  <2>1. ASSUME NEW x \in ListHeads, NEW y \in ListHeads, NEW i \in 1..Len(q[x]), NEW j \in 1..Len(q[y]),
               q[x][i] = q[y][j]
        PROVE  x = y /\ i = j
    <3>1. CASE x \in H /\ y \in H /\ x = y
      BY <2>1, <3>1 DEF Distinct
    <3>2. CASE x \in H /\ y \in H /\ x # y
      BY <2>1, <3>2 DEF Off
    <3>3. CASE x \in H /\ y \notin H
      BY <1>1, <2>1, <3>3
    <3>4. CASE x \notin H /\ y \in H
      BY <1>1, <2>1, <3>4
    <3>5. CASE x \notin H /\ y \notin H
      BY <2>1, <3>5 DEF Good, Apart
    <3>. QED
      BY <3>1, <3>2, <3>3, <3>4, <3>5
  <2>. QED
    BY <2>1 DEF Apart
<1>3. ASSUME NEW x \in m PROVE Ring(g, x, q[x])
  <2>1. CASE x \in H
    BY <2>1
  <2>2. CASE x \notin H
    <3>1. x \in l /\ x \in ListHeads /\ q[x] = r[x]
      BY <2>2
    <3>2. x \in Nodes /\ r[x] \in Seq(Nodes \ {x}) /\ Ring(h, x, r[x])
      BY <3>1, GoodLists
    <3>3. ASSUME NEW n \in Nodes, ~Off(x, r[x], n) PROVE Same(h, g, n)
      <4>1. ASSUME NEW y \in H PROVE Off(y, r[y], n)
        <5>1. y # x /\ y \in ListHeads
          BY <2>2
        <5>2. CASE n = x
          BY <3>1, <5>1, <5>2, OffOthers
        <5>3. CASE n # x
          <6>1. PICK i \in 1..Len(r[x]) : r[x][i] = n
            BY <3>3, <5>3 DEF Off
          <6>. QED
            BY <3>1, <5>1, <6>1, OffOthers
        <5>. QED
          BY <5>2, <5>3
      <4>2. ~(n \in Entries /\ IsLoose(r, n))
        <5>1. n \in Entries => n # x
          BY <3>1, ListsAssumption
        <5>. QED
          BY <3>1, <3>3, <5>1 DEF Off, IsLoose
      <4>. QED
        BY <4>1, <4>2
    <3>. QED
      BY <3>1, <3>2, <3>3, RingKept
  <2>. QED
    BY <2>1, <2>2
<1>4. ASSUME NEW x \in ListHeads \ m PROVE q[x] = <<>>
  BY DEF Good
<1>. QED
  BY <1>2, <1>3, <1>4 DEF Good

\* The same when only the list of x changes.
LEMMA RingChange ==
  ASSUME NEW h, NEW r, NEW l, Good(h, r, l), NEW x \in ListHeads,
         NEW g \in Heap(Nodes), NEW q \in Rings, \A y \in ListHeads : y # x => q[y] = r[y],
         Distinct(q[x]), Ring(g, x, q[x]),
         \A i \in 1..Len(q[x]) : IsLoose(r, q[x][i]) \/ ~Off(x, r[x], q[x][i]),
         \A n \in Nodes : Off(x, r[x], n) /\ ~(n \in Entries /\ IsLoose(r, n)) => Same(h, g, n)
  PROVE  Good(g, q, l \cup {x})
<1>1. PICK H, m \in SUBSET ListHeads : H = {x} /\ m = l \cup {x}
  BY DEF Good
<1>2. /\ \A y \in ListHeads \ H : q[y] = r[y] /\ (y \in m <=> y \in l)
      /\ \A y, z \in H : y # z => \A i \in 1..Len(q[y]) : Off(z, q[z], q[y][i])
  BY <1>1
<1>3. ASSUME NEW y \in H
      PROVE  /\ Distinct(q[y])
             /\ \A i \in 1..Len(q[y]) : IsLoose(r, q[y][i]) \/ \E z \in H : ~Off(z, r[z], q[y][i])
             /\ y \in m => Ring(g, y, q[y])
             /\ y \notin m => q[y] = <<>>
  <2>1. y = x /\ x \in H /\ x \in m
    BY <1>1
  <2>. QED
    BY <2>1
<1>4. ASSUME NEW n \in Nodes, \A y \in H : Off(y, r[y], n), ~(n \in Entries /\ IsLoose(r, n))
      PROVE  Same(h, g, n)
  BY <1>1, <1>4
<1>5. Good(g, q, m)
  BY <1>2, <1>3, <1>4, RingsChange
<1>. QED
  BY <1>1, <1>5

\* Stores to loose entries change no list.
LEMMA LooseStore ==
  ASSUME NEW h, NEW r, NEW l, Good(h, r, l), NEW e \in Entries, IsLoose(r, e),
         NEW g \in Heap(Nodes), \A n \in Nodes : n # e => Same(h, g, n)
  PROVE  Good(g, r, l)
<1>1. ASSUME NEW x \in l PROVE Ring(g, x, r[x])
  <2>1. x \in ListHeads
    BY DEF Good
  <2>2. x \in Nodes /\ r[x] \in Seq(Nodes \ {x}) /\ Ring(h, x, r[x])
    BY <2>1, GoodLists
  <2>3. Off(x, r[x], e)
    BY <2>1, OffOthers
  <2>. QED
    BY <2>2, <2>3, RingKept
<1>. QED
  BY <1>1 DEF Good

\* A loose entry joins the list of x after its k-th entry.
LEMMA InsertGood ==
  ASSUME NEW h, NEW r, NEW l, Good(h, r, l), NEW x \in l, NEW k \in 0..Len(r[x]),
         NEW e \in Entries, IsLoose(r, e),
         NEW q \in Rings, InsertedAt(r[x], k, e, q[x]),
         \A y \in ListHeads : y # x => q[y] = r[y],
         NEW g, g = __list_add(h, e, At(x, r[x], k), At(x, r[x], k + 1))
  PROVE  Good(g, q, l)
<1>1. x \in ListHeads
  BY DEF Good
<1>2. /\ x \in Nodes /\ r[x] \in Seq(Nodes \ {x}) /\ Distinct(r[x]) /\ Ring(h, x, r[x])
      /\ \A i \in 1..Len(r[x]) : r[x][i] \in Nodes
  BY <1>1, GoodLists
<1>3. q[x] \in Seq(Nodes \ {x}) /\ e \in Nodes /\ h \in Heap(Nodes)
  BY <1>1, ListsAssumption DEF Rings, Nodes, Good
<1>4. Off(x, r[x], e)
  BY <1>1, OffOthers
<1>5. PICK s, t : s = r[x] /\ t = q[x]
  OBVIOUS
<1>6. /\ s \in Seq(Nodes \ {x}) /\ Ring(h, x, s) /\ Distinct(s) /\ k \in 0..Len(s) /\ Off(x, s, e)
      /\ t \in Seq(Nodes \ {x}) /\ InsertedAt(s, k, e, t)
      /\ g = __list_add(h, e, At(x, s, k), At(x, s, k + 1))
  BY <1>2, <1>3, <1>4, <1>5
<1>7. /\ g \in Heap(Nodes) /\ Ring(g, x, t) /\ Distinct(t)
      /\ \A n \in Nodes : n # e /\ Off(x, s, n) => Same(h, g, n)
  BY ONLY <1>2, <1>3, <1>6, InsertRing
<1>8. ASSUME NEW i \in 1..Len(t) PROVE IsLoose(r, t[i]) \/ ~Off(x, r[x], t[i])
  <2>1. CASE i <= k
    <3>1. t[i] = s[i] /\ i \in 1..Len(s)
      BY <1>6, <2>1 DEF InsertedAt
    <3>. QED
      BY <1>5, <3>1 DEF Off
  <2>2. CASE i = k + 1
    BY <1>6, <2>2 DEF InsertedAt
  <2>3. CASE i > k + 1
    <3>1. t[i] = s[i - 1] /\ i - 1 \in 1..Len(s)
      BY <1>6, <2>3 DEF InsertedAt
    <3>. QED
      BY <1>5, <3>1 DEF Off
  <2>. QED
    BY <2>1, <2>2, <2>3
<1>9. l \cup {x} = l
  OBVIOUS
<1>10. ASSUME NEW n \in Nodes, Off(x, r[x], n), ~(n \in Entries /\ IsLoose(r, n)) PROVE Same(h, g, n)
  BY <1>5, <1>7, <1>10
<1>11. g \in Heap(Nodes) /\ Distinct(q[x]) /\ Ring(g, x, q[x])
       /\ \A i \in 1..Len(q[x]) : IsLoose(r, q[x][i]) \/ ~Off(x, r[x], q[x][i])
  BY <1>5, <1>7, <1>8
<1>12. Good(g, q, l \cup {x})
  BY <1>1, <1>10, <1>11, RingChange
<1>. QED
  BY <1>9, <1>12

\* The k-th entry of x leaves it, and is loose.
LEMMA DeleteGood ==
  ASSUME NEW h, NEW r, NEW l, Good(h, r, l), NEW x \in ListHeads, NEW k \in 1..Len(r[x]),
         NEW e, e = r[x][k],
         NEW q \in Rings, DeletedAt(r[x], k, q[x]),
         \A y \in ListHeads : y # x => q[y] = r[y],
         NEW g, g = __list_del_entry(h, e)
  PROVE  Good(g, q, l) /\ IsLoose(q, e) /\ e \in Entries /\ x \in l
<1>2. /\ x \in Nodes /\ r[x] \in Seq(Nodes \ {x}) /\ Distinct(r[x]) /\ Ring(h, x, r[x]) /\ x \in l
      /\ r[x][k] \in Entries
  BY GoodLists
<1>3. q[x] \in Seq(Nodes \ {x}) /\ h \in Heap(Nodes)
  BY ListsAssumption DEF Rings, Nodes, Good
<1>5. PICK s, t : s = r[x] /\ t = q[x]
  OBVIOUS
<1>6. /\ s \in Seq(Nodes \ {x}) /\ Ring(h, x, s) /\ Distinct(s) /\ k \in 1..Len(s)
      /\ t \in Seq(Nodes \ {x}) /\ DeletedAt(s, k, t)
      /\ g = __list_del_entry(h, s[k])
  BY <1>2, <1>3, <1>5
<1>7. /\ g \in Heap(Nodes) /\ Ring(g, x, t) /\ Distinct(t) /\ Off(x, t, s[k])
      /\ \A n \in Nodes : Off(x, s, n) => Same(h, g, n)
  BY ONLY <1>2, <1>3, <1>6, DeleteRing
<1>8. ASSUME NEW i \in 1..Len(t) PROVE ~Off(x, r[x], t[i])
  <2>1. CASE i < k
    <3>1. t[i] = s[i] /\ i \in 1..Len(s)
      BY <1>6, <2>1 DEF DeletedAt
    <3>. QED
      BY <1>5, <3>1 DEF Off
  <2>2. CASE i >= k
    <3>1. t[i] = s[i + 1] /\ i + 1 \in 1..Len(s)
      BY <1>6, <2>2 DEF DeletedAt
    <3>. QED
      BY <1>5, <3>1 DEF Off
  <2>. QED
    BY <2>1, <2>2
<1>9. l \cup {x} = l
  BY <1>2
<1>10. Good(g, q, l)
  <2>1. ASSUME NEW n \in Nodes, Off(x, r[x], n), ~(n \in Entries /\ IsLoose(r, n)) PROVE Same(h, g, n)
    BY <1>5, <1>7, <2>1
  <2>2. g \in Heap(Nodes) /\ Distinct(q[x]) /\ Ring(g, x, q[x])
         /\ \A i \in 1..Len(q[x]) : IsLoose(r, q[x][i]) \/ ~Off(x, r[x], q[x][i])
    BY <1>5, <1>7, <1>8
  <2>3. Good(g, q, l \cup {x})
    BY <2>1, <2>2, RingChange
  <2>. QED
    BY <1>9, <2>3
<1>11. IsLoose(q, e)
  <2>1. ASSUME NEW y \in ListHeads, NEW i \in 1..Len(q[y]) PROVE q[y][i] # e
    <3>1. CASE y = x
      BY <1>5, <1>7, <3>1 DEF Off
    <3>2. CASE y # x
      BY <3>2 DEF Good, Apart
    <3>. QED
      BY <3>1, <3>2
  <2>. QED
    BY <2>1 DEF IsLoose
<1>. QED
  BY <1>2, <1>10, <1>11

\* A loose entry takes the place of the k-th of x, which is loose afterwards.
LEMMA ReplaceGood ==
  ASSUME NEW h, NEW r, NEW l, Good(h, r, l), NEW x \in ListHeads, NEW k \in 1..Len(r[x]),
         NEW e, e = r[x][k], NEW new \in Entries, IsLoose(r, new),
         NEW q \in Rings, ReplacedAt(r[x], k, new, q[x]),
         \A y \in ListHeads : y # x => q[y] = r[y],
         NEW g, g = list_replace(h, e, new)
  PROVE  Good(g, q, l) /\ IsLoose(q, e) /\ e \in Entries
<1>2. /\ x \in Nodes /\ r[x] \in Seq(Nodes \ {x}) /\ Distinct(r[x]) /\ Ring(h, x, r[x]) /\ x \in l
      /\ r[x][k] \in Entries
  BY GoodLists
<1>3. q[x] \in Seq(Nodes \ {x}) /\ h \in Heap(Nodes) /\ new \in Nodes
  BY ListsAssumption DEF Rings, Nodes, Good
<1>4. Off(x, r[x], new)
  BY OffOthers
<1>5. PICK s, t : s = r[x] /\ t = q[x]
  OBVIOUS
<1>6. /\ s \in Seq(Nodes \ {x}) /\ Ring(h, x, s) /\ Distinct(s) /\ k \in 1..Len(s) /\ Off(x, s, new)
      /\ t \in Seq(Nodes \ {x}) /\ ReplacedAt(s, k, new, t)
      /\ g = list_replace(h, s[k], new)
  BY <1>2, <1>3, <1>4, <1>5
<1>7. /\ g \in Heap(Nodes) /\ Ring(g, x, t) /\ Distinct(t) /\ Off(x, t, s[k])
      /\ \A n \in Nodes : n # new /\ Off(x, s, n) => Same(h, g, n)
  BY ONLY <1>2, <1>3, <1>6, ReplaceRing
<1>8. ASSUME NEW i \in 1..Len(t) PROVE IsLoose(r, t[i]) \/ ~Off(x, r[x], t[i])
  <2>1. CASE i = k
    BY <1>6, <2>1 DEF ReplacedAt
  <2>2. CASE i # k
    <3>1. t[i] = s[i] /\ i \in 1..Len(s)
      BY <1>6, <2>2 DEF ReplacedAt
    <3>. QED
      BY <1>5, <3>1 DEF Off
  <2>. QED
    BY <2>1, <2>2
<1>9. l \cup {x} = l
  BY <1>2
<1>10. Good(g, q, l)
  <2>1. ASSUME NEW n \in Nodes, Off(x, r[x], n), ~(n \in Entries /\ IsLoose(r, n)) PROVE Same(h, g, n)
    BY <1>5, <1>7, <2>1
  <2>2. g \in Heap(Nodes) /\ Distinct(q[x]) /\ Ring(g, x, q[x])
         /\ \A i \in 1..Len(q[x]) : IsLoose(r, q[x][i]) \/ ~Off(x, r[x], q[x][i])
    BY <1>5, <1>7, <1>8
  <2>3. Good(g, q, l \cup {x})
    BY <2>1, <2>2, RingChange
  <2>. QED
    BY <1>9, <2>3
<1>11. IsLoose(q, e)
  <2>1. ASSUME NEW y \in ListHeads, NEW i \in 1..Len(q[y]) PROVE q[y][i] # e
    <3>1. CASE y = x
      BY <1>5, <1>7, <3>1 DEF Off
    <3>2. CASE y # x
      BY <3>2 DEF Good, Apart
    <3>. QED
      BY <3>1, <3>2
  <2>. QED
    BY <2>1 DEF IsLoose
<1>. QED
  BY <1>2, <1>10, <1>11

\* INIT_LIST_HEAD of a head whose list is empty, or that is no list.
LEMMA InitGood ==
  ASSUME NEW h, NEW r, NEW l, Good(h, r, l), NEW x \in ListHeads, r[x] = <<>>
  PROVE  Good(INIT_LIST_HEAD(h, x), r, l \cup {x})
<1>1. PICK g : g = INIT_LIST_HEAD(h, x)
  OBVIOUS
<1>2. h \in Heap(Nodes) /\ x \in Nodes /\ r \in Rings
  BY DEF Good, Nodes
<1>3. g \in Heap(Nodes) /\ Ring(g, x, r[x]) /\ \A n \in Nodes : n # x => Same(h, g, n)
  BY <1>1, <1>2, InitRing
<1>4. ASSUME NEW n \in Nodes, Off(x, r[x], n), ~(n \in Entries /\ IsLoose(r, n)) PROVE Same(h, g, n)
  BY <1>3, <1>4 DEF Off
<1>5. Distinct(r[x]) /\ \A i \in 1..Len(r[x]) : IsLoose(r, r[x][i]) \/ ~Off(x, r[x], r[x][i])
  BY DEF Distinct
<1>6. Good(g, r, l \cup {x})
  BY <1>2, <1>3, <1>4, <1>5, RingChange
<1>. QED
  BY <1>1, <1>6

\* A stretch of the list of x goes to its end.
LEMMA BulkGood ==
  ASSUME NEW h, NEW r, NEW l, Good(h, r, l), NEW x \in l,
         NEW q \in Rings, NEW e, NEW f, MovedToEnd(r[x], e, f, q[x]),
         \A y \in ListHeads : y # x => q[y] = r[y],
         NEW g, g = list_bulk_move_tail(h, x, e, f)
  PROVE  Good(g, q, l)
<1>1. x \in ListHeads
  BY DEF Good
<1>2. /\ x \in Nodes /\ r[x] \in Seq(Nodes \ {x}) /\ Distinct(r[x]) /\ Ring(h, x, r[x])
  BY <1>1, GoodLists
<1>3. q[x] \in Seq(Nodes \ {x}) /\ h \in Heap(Nodes)
  BY <1>1, ListsAssumption DEF Rings, Nodes, Good
<1>5. PICK s, t : s = r[x] /\ t = q[x]
  OBVIOUS
<1>6. /\ s \in Seq(Nodes \ {x}) /\ Ring(h, x, s) /\ Distinct(s)
      /\ t \in Seq(Nodes \ {x}) /\ MovedToEnd(s, e, f, t)
      /\ g = list_bulk_move_tail(h, x, e, f)
  BY <1>1, <1>2, <1>3, <1>5
<1>7. /\ g \in Heap(Nodes) /\ Ring(g, x, t) /\ Distinct(t)
      /\ \A n \in Nodes : Off(x, s, n) => Off(x, t, n) /\ Same(h, g, n)
  BY ONLY <1>2, <1>3, <1>6, BulkRing
<1>8. ASSUME NEW i \in 1..Len(t) PROVE ~Off(x, r[x], t[i])
  <2>1. t[i] \in Nodes
    BY <1>6
  <2>2. ~Off(x, t, t[i])
    BY DEF Off
  <2>. QED
    BY <1>5, <1>7, <2>1, <2>2
<1>9. l \cup {x} = l
  OBVIOUS
<1>10. ASSUME NEW n \in Nodes, Off(x, r[x], n), ~(n \in Entries /\ IsLoose(r, n)) PROVE Same(h, g, n)
  BY <1>5, <1>7, <1>10
<1>11. g \in Heap(Nodes) /\ Distinct(q[x]) /\ Ring(g, x, q[x])
       /\ \A i \in 1..Len(q[x]) : IsLoose(r, q[x][i]) \/ ~Off(x, r[x], q[x][i])
  BY <1>5, <1>7, <1>8
<1>12. Good(g, q, l \cup {x})
  BY <1>1, <1>10, <1>11, RingChange
<1>. QED
  BY <1>9, <1>12

\* The same when the lists of two heads change.
LEMMA TwoRingsChange ==
  ASSUME NEW h, NEW r, NEW l, Good(h, r, l), NEW x \in ListHeads, NEW y \in ListHeads, x # y,
         NEW g \in Heap(Nodes), NEW q \in Rings, \A z \in ListHeads : z # x /\ z # y => q[z] = r[z],
         NEW m \in SUBSET ListHeads, \A z \in ListHeads : z # x /\ z # y => (z \in m <=> z \in l),
         Distinct(q[x]), Distinct(q[y]),
         x \in m => Ring(g, x, q[x]), x \notin m => q[x] = <<>>,
         y \in m => Ring(g, y, q[y]), y \notin m => q[y] = <<>>,
         \A i \in 1..Len(q[x]) : Off(y, q[y], q[x][i]) /\ (~Off(x, r[x], q[x][i]) \/ ~Off(y, r[y], q[x][i])),
         \A i \in 1..Len(q[y]) : Off(x, q[x], q[y][i]) /\ (~Off(x, r[x], q[y][i]) \/ ~Off(y, r[y], q[y][i])),
         \A n \in Nodes : Off(x, r[x], n) /\ Off(y, r[y], n) => Same(h, g, n)
  PROVE  Good(g, q, m)
<1>1. PICK H \in SUBSET ListHeads : H = {x, y}
  OBVIOUS
<1>2. /\ \A z \in ListHeads \ H : q[z] = r[z] /\ (z \in m <=> z \in l)
  BY <1>1
<1>3. ASSUME NEW z \in H
      PROVE  /\ Distinct(q[z])
             /\ \A i \in 1..Len(q[z]) : IsLoose(r, q[z][i]) \/ \E v \in H : ~Off(v, r[v], q[z][i])
             /\ z \in m => Ring(g, z, q[z])
             /\ z \notin m => q[z] = <<>>
  <2>1. x \in H /\ y \in H /\ (z = x \/ z = y)
    BY <1>1
  <2>2. CASE z = x
    BY <2>1, <2>2
  <2>3. CASE z = y
    BY <2>1, <2>3
  <2>. QED
    BY <2>1, <2>2, <2>3
<1>4. ASSUME NEW z \in H, NEW v \in H, z # v, NEW i \in 1..Len(q[z]) PROVE Off(v, q[v], q[z][i])
  <2>1. CASE z = x /\ v = y
    BY <2>1
  <2>2. CASE z = y /\ v = x
    BY <2>2
  <2>. QED
    BY <1>1, <1>4, <2>1, <2>2
<1>5. ASSUME NEW n \in Nodes, \A z \in H : Off(z, r[z], n), ~(n \in Entries /\ IsLoose(r, n))
      PROVE  Same(h, g, n)
  <2>1. x \in H /\ y \in H
    BY <1>1
  <2>. QED
    BY <1>5, <2>1
<1>. QED
  BY <1>2, <1>3, <1>4, <1>5, RingsChange

\* The stretches of a ring read from one of its entries on.
LEMMA RotateGood ==
  ASSUME NEW h, NEW r, NEW l, Good(h, r, l), NEW x \in l, NEW k \in 1..Len(r[x]),
         NEW q \in Rings, RotatedAt(r[x], k, q[x]),
         \A y \in ListHeads : y # x => q[y] = r[y],
         NEW e, e = r[x][k],
         NEW g, g = list_rotate_to_front(h, e, x)
  PROVE  Good(g, q, l)
<1>1. x \in ListHeads
  BY DEF Good
<1>2. /\ x \in Nodes /\ r[x] \in Seq(Nodes \ {x}) /\ Distinct(r[x]) /\ Ring(h, x, r[x])
  BY <1>1, GoodLists
<1>3. q[x] \in Seq(Nodes \ {x}) /\ h \in Heap(Nodes)
  BY <1>1, ListsAssumption DEF Rings, Nodes, Good
<1>5. PICK s, t : s = r[x] /\ t = q[x]
  OBVIOUS
<1>6. /\ s \in Seq(Nodes \ {x}) /\ Ring(h, x, s) /\ Distinct(s) /\ k \in 1..Len(s)
      /\ t \in Seq(Nodes \ {x}) /\ RotatedAt(s, k, t) /\ e = s[k]
      /\ g = list_rotate_to_front(h, e, x)
  BY <1>1, <1>2, <1>3, <1>5
<1>7. /\ g \in Heap(Nodes) /\ Ring(g, x, t) /\ Distinct(t)
      /\ \A n \in Nodes : Off(x, s, n) => Off(x, t, n) /\ Same(h, g, n)
  BY ONLY <1>2, <1>3, <1>6, RotateToFront
<1>8. ASSUME NEW i \in 1..Len(t) PROVE ~Off(x, r[x], t[i])
  <2>1. t[i] \in Nodes
    BY <1>6
  <2>2. ~Off(x, t, t[i])
    BY DEF Off
  <2>. QED
    BY <1>5, <1>7, <2>1, <2>2
<1>9. l \cup {x} = l
  OBVIOUS
<1>10. ASSUME NEW n \in Nodes, Off(x, r[x], n), ~(n \in Entries /\ IsLoose(r, n)) PROVE Same(h, g, n)
  BY <1>5, <1>7, <1>10
<1>11. g \in Heap(Nodes) /\ Distinct(q[x]) /\ Ring(g, x, q[x])
       /\ \A i \in 1..Len(q[x]) : IsLoose(r, q[x][i]) \/ ~Off(x, r[x], q[x][i])
  BY <1>5, <1>7, <1>8
<1>12. Good(g, q, l \cup {x})
  BY <1>1, <1>10, <1>11, RingChange
<1>. QED
  BY <1>9, <1>12

\* A head takes over the list of another.
LEMMA ReplaceHeadGood ==
  ASSUME NEW h, NEW r, NEW l, Good(h, r, l), NEW x \in l, NEW y \in ListHeads \ l,
         NEW q \in Rings, q[x] = <<>>, q[y] = r[x],
         \A z \in ListHeads : z # x /\ z # y => q[z] = r[z],
         NEW g, g = list_replace_init(h, x, y)
  PROVE  Good(g, q, l \cup {y})
<1>1. x \in ListHeads /\ x # y /\ r[y] = <<>> /\ y \in Nodes
  BY DEF Good, Nodes
<1>2. /\ x \in Nodes /\ r[x] \in Seq(Nodes \ {x}) /\ Distinct(r[x]) /\ Ring(h, x, r[x])
      /\ \A i \in 1..Len(r[x]) : r[x][i] \in Entries
  BY <1>1, GoodLists
<1>3. h \in Heap(Nodes) /\ Off(x, r[x], y)
  BY <1>1, OffOthers DEF Good
<1>4. PICK s, f : s = r[x] /\ f = list_replace(h, x, y)
  OBVIOUS
<1>5. f \in Heap(Nodes) /\ Ring(f, y, s) /\ \A n \in Nodes : n # y /\ Off(x, s, n) => Same(h, f, n)
  BY ONLY <1>1, <1>2, <1>3, <1>4, ReplaceHead
<1>6. g = INIT_LIST_HEAD(f, x)
  BY <1>4 DEF list_replace_init
<1>7. g \in Heap(Nodes) /\ Ring(g, x, <<>>) /\ \A n \in Nodes : n # x => Same(f, g, n)
  BY <1>2, <1>5, <1>6, InitRing
<1>8. Off(y, s, x) /\ s \in Seq(Nodes \ {y}) /\ \A i \in 1..Len(s) : s[i] # x /\ s[i] # y /\ s[i] \in Nodes
  <2>1. \A i \in 1..Len(s) : s[i] # x /\ s[i] # y /\ s[i] \in Nodes
    BY <1>1, <1>2, <1>4, ListsAssumption DEF Nodes
  <2>. QED
    BY <1>1, <1>2, <1>4, <2>1 DEF Off
<1>9. Ring(g, y, s)
  <2>1. \A n \in Nodes : ~Off(y, s, n) => Same(f, g, n)
    BY <1>7, <1>8
  <2>. QED
    BY <1>1, <1>5, <1>8, <2>1, RingKept
<1>10. ASSUME NEW n \in Nodes, Off(x, r[x], n), Off(y, r[y], n) PROVE Same(h, g, n)
  <2>1. n # x /\ n # y
    BY <1>10 DEF Off
  <2>2. Same(h, f, n) /\ Same(f, g, n)
    BY <1>4, <1>5, <1>7, <1>10, <2>1
  <2>. QED
    BY <2>2 DEF Same
<1>11. PICK m \in SUBSET ListHeads : m = l \cup {y}
  BY DEF Good
<1>12. /\ x \in m /\ y \in m /\ \A z \in ListHeads : z # x /\ z # y => (z \in m <=> z \in l)
  BY <1>11
<1>13. Distinct(q[x]) /\ Distinct(q[y]) /\ Ring(g, x, q[x]) /\ Ring(g, y, q[y])
  BY <1>2, <1>4, <1>7, <1>9 DEF Distinct
<1>14. \A i \in 1..Len(q[x]) : Off(y, q[y], q[x][i]) /\ (~Off(x, r[x], q[x][i]) \/ ~Off(y, r[y], q[x][i]))
  OBVIOUS
<1>15. \A i \in 1..Len(q[y]) : Off(x, q[x], q[y][i]) /\ (~Off(x, r[x], q[y][i]) \/ ~Off(y, r[y], q[y][i]))
  BY <1>4, <1>8 DEF Off
<1>16. Good(g, q, m)
  BY <1>1, <1>7, <1>10, <1>12, <1>13, <1>14, <1>15, TwoRingsChange
<1>. QED
  BY <1>11, <1>16

\* The first k entries of x go to y, which has none.
LEMMA CutGood ==
  ASSUME NEW h, NEW r, NEW l, Good(h, r, l), NEW x \in l, NEW y \in ListHeads, x # y, r[y] = <<>>,
         NEW k \in 1..Len(r[x]),
         NEW q \in Rings, SplitAt(r[x], k, q[y], q[x]),
         \A z \in ListHeads : z # x /\ z # y => q[z] = r[z],
         NEW g, g = CutAt(h, y, x, r[x], k)
  PROVE  Good(g, q, l \cup {y})
<1>1. x \in ListHeads /\ y \in Nodes /\ h \in Heap(Nodes)
  BY DEF Good, Nodes
<1>2. /\ x \in Nodes /\ r[x] \in Seq(Nodes \ {x}) /\ Distinct(r[x]) /\ Ring(h, x, r[x])
  BY <1>1, GoodLists
<1>3. Off(x, r[x], y)
  BY <1>1, OffOthers
<1>4. PICK s, t, u : s = r[x] /\ t = q[y] /\ u = q[x]
  OBVIOUS
<1>5. t \in Seq(Entries) /\ u \in Seq(Entries) /\ Entries \subseteq Nodes \ {x} /\ Entries \subseteq Nodes \ {y}
  BY <1>1, <1>4, ListsAssumption DEF Rings, Nodes
<1>6. t \in Seq(Nodes \ {y}) /\ u \in Seq(Nodes \ {x}) /\ SplitAt(s, k, t, u) /\ k \in 1..Len(s)
      /\ g = CutAt(h, y, x, s, k) /\ s \in Seq(Nodes \ {x}) /\ Distinct(s) /\ Ring(h, x, s) /\ Off(x, s, y)
  BY <1>2, <1>3, <1>4, <1>5
<1>7. /\ g \in Heap(Nodes) /\ Ring(g, y, t) /\ Ring(g, x, u) /\ Distinct(t) /\ Distinct(u)
      /\ \A n \in Nodes : n # y /\ Off(x, s, n) => Same(h, g, n)
  BY ONLY <1>1, <1>2, <1>6, CutRing
<1>8. PICK m \in SUBSET ListHeads : m = l \cup {y}
  BY DEF Good
<1>9. /\ x \in m /\ y \in m /\ \A z \in ListHeads : z # x /\ z # y => (z \in m <=> z \in l)
  BY <1>8
<1>10. \A n \in Nodes : Off(x, r[x], n) /\ Off(y, r[y], n) => Same(h, g, n)
  BY <1>4, <1>7 DEF Off
<1>11. /\ k \in Nat /\ Len(t) = k /\ Len(u) \in Nat /\ Len(s) = k + Len(u)
       /\ \A i \in 1..k : t[i] = s[i] /\ i \in 1..Len(s) /\ t[i] \in Entries
       /\ \A j \in 1..Len(u) : u[j] = s[k + j] /\ k + j \in 1..Len(s) /\ u[j] \in Entries
  BY <1>5, <1>6 DEF SplitAt
<1>12. \A i \in 1..k, j \in 1..Len(u) : t[i] # u[j]
  <2>1. ASSUME NEW i \in 1..k, NEW j \in 1..Len(u), s[i] = s[k + j] PROVE FALSE
    <3>1. i = k + j
      BY <1>6, <1>11, <2>1 DEF Distinct
    <3>. QED
      BY <1>11, <3>1
  <2>. QED
    BY <1>11, <2>1
<1>13. \A e \in Entries : e # x /\ e # y
  BY <1>5
<1>14. \A i \in 1..Len(q[x]) : Off(y, q[y], q[x][i]) /\ (~Off(x, r[x], q[x][i]) \/ ~Off(y, r[y], q[x][i]))
  BY <1>4, <1>11, <1>12, <1>13 DEF Off
<1>15. \A i \in 1..Len(q[y]) : Off(x, q[x], q[y][i]) /\ (~Off(x, r[x], q[y][i]) \/ ~Off(y, r[y], q[y][i]))
  BY <1>4, <1>11, <1>12, <1>13 DEF Off
<1>16. Distinct(q[x]) /\ Distinct(q[y]) /\ Ring(g, x, q[x]) /\ Ring(g, y, q[y]) /\ g \in Heap(Nodes)
  BY <1>4, <1>7
<1>17. Good(g, q, m)
  BY <1>1, <1>9, <1>10, <1>14, <1>15, <1>16, TwoRingsChange
<1>. QED
  BY <1>8, <1>17

\* The list of y joins that of x after its k-th entry; y is left as it was, and
\* is no list.
LEMMA SpliceGood ==
  ASSUME NEW h, NEW r, NEW l, Good(h, r, l), NEW x \in l, NEW y \in l, x # y, r[y] # <<>>,
         NEW k \in 0..Len(r[x]),
         NEW q \in Rings, SplicedAt(r[x], k, r[y], q[x]), q[y] = <<>>,
         \A z \in ListHeads : z # x /\ z # y => q[z] = r[z],
         NEW g, g = SpliceAt(h, y, x, r[x], k)
  PROVE  Good(g, q, l \ {y})
<1>1. x \in ListHeads /\ y \in ListHeads /\ h \in Heap(Nodes)
  BY DEF Good
<1>2. /\ x \in Nodes /\ r[x] \in Seq(Nodes \ {x}) /\ Distinct(r[x]) /\ Ring(h, x, r[x])
      /\ y \in Nodes /\ r[y] \in Seq(Nodes \ {y}) /\ Distinct(r[y]) /\ Ring(h, y, r[y])
      /\ \A i \in 1..Len(r[y]) : r[y][i] \in Entries
      /\ \A i \in 1..Len(r[x]) : r[x][i] \in Entries
  BY <1>1, GoodLists
<1>3. Off(x, r[x], y) /\ \A i \in 1..Len(r[y]) : Off(x, r[x], r[y][i])
  BY <1>1, OffOthers
<1>4. PICK s, t, u : s = r[x] /\ t = q[x] /\ u = r[y]
  OBVIOUS
<1>5. t \in Seq(Entries) /\ Entries \subseteq Nodes \ {x} /\ Entries \subseteq Nodes \ {y}
  BY <1>1, <1>4, ListsAssumption DEF Rings, Nodes
<1>6. /\ t \in Seq(Nodes \ {x}) /\ SplicedAt(s, k, u, t) /\ k \in 0..Len(s)
      /\ g = SpliceAt(h, y, x, s, k) /\ s \in Seq(Nodes \ {x}) /\ Distinct(s) /\ Ring(h, x, s)
      /\ u \in Seq(Nodes \ {y}) /\ Distinct(u) /\ Ring(h, y, u) /\ u # <<>>
      /\ Off(x, s, y) /\ \A i \in 1..Len(u) : Off(x, s, u[i])
  BY <1>2, <1>3, <1>4, <1>5
<1>7. /\ g \in Heap(Nodes) /\ Ring(g, x, t) /\ Distinct(t)
      /\ \A n \in Nodes : Off(x, t, n) => Same(h, g, n)
  BY ONLY <1>1, <1>2, <1>6, SpliceRing
<1>8. ASSUME NEW i \in 1..Len(t)
      PROVE  (\E j \in 1..Len(s) : t[i] = s[j]) \/ (\E j \in 1..Len(u) : t[i] = u[j])
  <2>1. /\ Len(t) = Len(s) + Len(u) /\ Len(s) \in Nat /\ Len(u) \in Nat /\ k \in Nat /\ k <= Len(s) /\ i \in Nat
    BY <1>6 DEF SplicedAt
  <2>2. CASE i <= k
    <3>1. t[i] = s[i] /\ i \in 1..Len(s)
      BY <1>6, <2>1, <2>2 DEF SplicedAt
    <3>. QED
      BY <3>1
  <2>3. CASE i > k /\ i <= k + Len(u)
    <3>1. PICK j \in 1..Len(u) : i = k + j
      <4>1. i - k \in 1..Len(u) /\ i = k + (i - k)
        BY <2>1, <2>3
      <4>. QED
        BY <4>1
    <3>2. t[k + j] = u[j]
      BY <1>6, <3>1 DEF SplicedAt
    <3>. QED
      BY <3>1, <3>2
  <2>4. CASE i > k + Len(u)
    <3>1. PICK j \in 1..(Len(s) - k) : i = k + Len(u) + j
      <4>1. i - (k + Len(u)) \in 1..(Len(s) - k) /\ i = k + Len(u) + (i - (k + Len(u)))
        BY <2>1, <2>4
      <4>. QED
        BY <4>1
    <3>2. t[k + Len(u) + j] = s[k + j]
      BY <1>6, <3>1 DEF SplicedAt
    <3>3. k + j \in 1..Len(s)
      BY <2>1, <3>1
    <3>. QED
      BY <3>1, <3>2, <3>3
  <2>. QED
    BY <2>1, <2>2, <2>3, <2>4
<1>9. \A n \in Nodes : Off(x, r[x], n) /\ Off(y, r[y], n) => Same(h, g, n)
  <2>1. \A n \in Nodes : Off(x, s, n) /\ Off(y, u, n) => Off(x, t, n)
    BY <1>8 DEF Off
  <2>. QED
    BY <1>4, <1>7, <2>1
<1>10. PICK m \in SUBSET ListHeads : m = l \ {y}
  BY DEF Good
<1>11. /\ x \in m /\ y \notin m /\ \A z \in ListHeads : z # x /\ z # y => (z \in m <=> z \in l)
  BY <1>10
<1>12. \A i \in 1..Len(q[x]) : Off(y, q[y], q[x][i]) /\ (~Off(x, r[x], q[x][i]) \/ ~Off(y, r[y], q[x][i]))
  <2>1. ASSUME NEW i \in 1..Len(t) PROVE t[i] # y /\ (~Off(x, s, t[i]) \/ ~Off(y, u, t[i]))
    <3>1. t[i] # y
      BY <1>5
    <3>2. ~Off(x, s, t[i]) \/ ~Off(y, u, t[i])
      BY <1>8 DEF Off
    <3>. QED
      BY <3>1, <3>2
  <2>. QED
    BY <1>4, <2>1 DEF Off
<1>13. Distinct(q[x]) /\ Distinct(q[y]) /\ Ring(g, x, q[x]) /\ g \in Heap(Nodes)
  BY <1>4, <1>7 DEF Distinct
<1>14. \A i \in 1..Len(q[y]) : Off(x, q[x], q[y][i]) /\ (~Off(x, r[x], q[y][i]) \/ ~Off(y, r[y], q[y][i]))
  OBVIOUS
<1>15. Good(g, q, m)
  BY <1>1, <1>9, <1>11, <1>12, <1>13, <1>14, TwoRingsChange
<1>. QED
  BY <1>10, <1>15

-----------------------------------------------------------------------------
(* The sequences of the calls. *)

\* The elements of a subsequence.
LEMMA Stretch ==
  ASSUME NEW S, NEW s \in Seq(S), NEW a \in 1..(Len(s) + 1), NEW b \in (a - 1)..Len(s)
  PROVE  /\ SubSeq(s, a, b) \in Seq(S) /\ Len(SubSeq(s, a, b)) = b - a + 1
         /\ \A i \in 1..(b - a + 1) : SubSeq(s, a, b)[i] = s[a - 1 + i]
<1>1. /\ Len(s) \in Nat /\ a \in Int /\ b \in Int /\ a \in Nat /\ b \in Nat
  OBVIOUS
<1>2. \A i \in a..b : s[i] \in S
  OBVIOUS
<1>3. PICK t : t = SubSeq(s, a, b)
  OBVIOUS
<1>4. /\ t \in Seq(S) /\ Len(t) = IF a <= b THEN b - a + 1 ELSE 0
      /\ \A i \in 1..b - a + 1 : t[i] = s[a + i - 1]
  BY <1>1, <1>2, <1>3, SubSeqProperties
<1>5. Len(t) = b - a + 1
  BY <1>1, <1>4
<1>6. ASSUME NEW i \in 1..(b - a + 1) PROVE t[i] = s[a - 1 + i]
  <2>1. a + i - 1 = a - 1 + i
    BY <1>1
  <2>. QED
    BY <1>4, <2>1
<1>. QED
  BY <1>3, <1>4, <1>5, <1>6

\* Adding at the end and at the start.
LEMMA AppendInserts ==
  ASSUME NEW S, NEW s \in Seq(S), NEW e \in S
  PROVE  /\ Append(s, e) \in Seq(S) /\ InsertedAt(s, Len(s), e, Append(s, e))
         /\ <<e>> \o s \in Seq(S) /\ InsertedAt(s, 0, e, <<e>> \o s)
<1>1. Append(s, e) \in Seq(S) /\ InsertedAt(s, Len(s), e, Append(s, e))
  BY DEF InsertedAt
<1>2. <<e>> \in Seq(S) /\ Len(<<e>>) = 1 /\ <<e>>[1] = e
  OBVIOUS
<1>3. /\ <<e>> \o s \in Seq(S) /\ Len(<<e>> \o s) = Len(s) + 1
      /\ (<<e>> \o s)[1] = e
      /\ \A i \in 2..(Len(s) + 1) : (<<e>> \o s)[i] = s[i - 1]
  BY <1>2
<1>4. InsertedAt(s, 0, e, <<e>> \o s)
  BY <1>3 DEF InsertedAt
<1>. QED
  BY <1>1, <1>3, <1>4

\* Taking out the k-th.
LEMMA RemoveAtDeletes ==
  ASSUME NEW S, NEW s \in Seq(S), NEW k \in 1..Len(s)
  PROVE  RemoveAt(s, k) \in Seq(S) /\ DeletedAt(s, k, RemoveAt(s, k))
<1> DEFINE a == SubSeq(s, 1, k - 1)
           b == SubSeq(s, k + 1, Len(s))
<1>1. /\ 1 \in 1..(Len(s) + 1) /\ k - 1 \in (1 - 1)..Len(s)
      /\ k + 1 \in 1..(Len(s) + 1) /\ Len(s) \in ((k + 1) - 1)..Len(s)
  OBVIOUS
<1>2. a \in Seq(S) /\ Len(a) = k - 1 /\ \A i \in 1..(k - 1) : a[i] = s[i]
  BY <1>1, Stretch
<1>3. b \in Seq(S) /\ Len(b) = Len(s) - k /\ \A i \in 1..(Len(s) - k) : b[i] = s[k + i]
  BY <1>1, Stretch
<1> HIDE DEF a, b
<1>4. /\ a \o b \in Seq(S) /\ Len(a \o b) = Len(s) - 1
      /\ \A i \in 1..(k - 1) : (a \o b)[i] = a[i]
      /\ \A i \in k..(Len(s) - 1) : (a \o b)[i] = b[i - (k - 1)]
  <2>1. /\ a \o b \in Seq(S) /\ Len(a \o b) = Len(a) + Len(b)
        /\ \A i \in 1..Len(a) + Len(b) : (a \o b)[i] = IF i <= Len(a) THEN a[i] ELSE b[i - Len(a)]
    BY <1>2, <1>3, ConcatProperties
  <2>. QED
    BY <1>2, <1>3, <2>1
<1>5. ASSUME NEW i \in k..(Len(s) - 1) PROVE (a \o b)[i] = s[i + 1]
  <2>1. (a \o b)[i] = b[i - (k - 1)]
    BY <1>4
  <2>2. i - (k - 1) \in 1..(Len(s) - k) /\ k + (i - (k - 1)) = i + 1
    OBVIOUS
  <2>. QED
    BY <1>3, <2>1, <2>2
<1>6. RemoveAt(s, k) = a \o b
  BY DEF RemoveAt, a, b
<1>7. PICK t : t = a \o b
  OBVIOUS
<1>8. ASSUME NEW i \in 1..Len(t) PROVE t[i] = IF i < k THEN s[i] ELSE s[i + 1]
  <2>1. i \in 1..(k - 1) \/ i \in k..(Len(s) - 1)
    BY <1>4, <1>7
  <2>2. CASE i \in 1..(k - 1)
    BY <1>2, <1>4, <1>7, <2>2
  <2>3. CASE i \in k..(Len(s) - 1)
    BY <1>5, <1>7, <2>3
  <2>. QED
    BY <2>1, <2>2, <2>3
<1>. QED
  BY <1>4, <1>6, <1>7, <1>8 DEF DeletedAt

\* Taking out the first.
LEMMA TailDeletes ==
  ASSUME NEW S, NEW s \in Seq(S), s # <<>>
  PROVE  Tail(s) \in Seq(S) /\ DeletedAt(s, 1, Tail(s)) /\ Head(s) = s[1] /\ s[1] \in S /\ 1 \in 1..Len(s)
BY DEF DeletedAt

\* The two parts of a sequence.
LEMMA CutSplits ==
  ASSUME NEW S, NEW s \in Seq(S), NEW m \in 0..Len(s)
  PROVE  /\ SubSeq(s, 1, m) \in Seq(S) /\ SubSeq(s, m + 1, Len(s)) \in Seq(S)
         /\ SplitAt(s, m, SubSeq(s, 1, m), SubSeq(s, m + 1, Len(s)))
<1> DEFINE a == SubSeq(s, 1, m)
           b == SubSeq(s, m + 1, Len(s))
<1>1. /\ 1 \in 1..(Len(s) + 1) /\ m \in (1 - 1)..Len(s)
      /\ m + 1 \in 1..(Len(s) + 1) /\ Len(s) \in ((m + 1) - 1)..Len(s)
  OBVIOUS
<1>2. a \in Seq(S) /\ Len(a) = m /\ \A i \in 1..m : a[i] = s[i]
  BY <1>1, Stretch
<1>3. b \in Seq(S) /\ Len(b) = Len(s) - m /\ \A i \in 1..(Len(s) - m) : b[i] = s[m + i]
  BY <1>1, Stretch
<1>. QED
  BY <1>2, <1>3 DEF SplitAt

\* One sequence before or after another.
LEMMA ConcatSplices ==
  ASSUME NEW S, NEW s \in Seq(S), NEW u \in Seq(S)
  PROVE  /\ u \o s \in Seq(S) /\ SplicedAt(s, 0, u, u \o s)
         /\ s \o u \in Seq(S) /\ SplicedAt(s, Len(s), u, s \o u)
BY DEF SplicedAt

\* The sequence from its k-th element on, around the end.
LEMMA FrontRotates ==
  ASSUME NEW S, NEW s \in Seq(S), NEW k \in 1..Len(s)
  PROVE  /\ SubSeq(s, k, Len(s)) \o SubSeq(s, 1, k - 1) \in Seq(S)
         /\ RotatedAt(s, k, SubSeq(s, k, Len(s)) \o SubSeq(s, 1, k - 1))
<1> DEFINE a == SubSeq(s, 1, k - 1)
           b == SubSeq(s, k, Len(s))
<1>1. /\ 1 \in 1..(Len(s) + 1) /\ k - 1 \in (1 - 1)..Len(s)
      /\ k \in 1..(Len(s) + 1) /\ Len(s) \in (k - 1)..Len(s)
  OBVIOUS
<1>2. a \in Seq(S) /\ Len(a) = k - 1 /\ \A i \in 1..(k - 1) : a[i] = s[i]
  BY <1>1, Stretch
<1>3. b \in Seq(S) /\ Len(b) = Len(s) - k + 1 /\ \A i \in 1..(Len(s) - k + 1) : b[i] = s[(k - 1) + i]
  BY <1>1, Stretch
<1> HIDE DEF a, b
<1>4. /\ b \o a \in Seq(S) /\ Len(b \o a) = Len(s)
      /\ \A i \in 1..(Len(s) - k + 1) : (b \o a)[i] = b[i]
      /\ \A i \in 1..(k - 1) : (b \o a)[(Len(s) - k + 1) + i] = a[i]
  BY <1>2, <1>3
<1>5. RotatedAt(s, k, b \o a)
  BY <1>2, <1>3, <1>4 DEF RotatedAt
<1>. QED
  BY <1>4, <1>5 DEF a, b

\* t is a followed by b, counted in each part.
Joins(a, b, t) ==
  /\ Len(t) = Len(a) + Len(b)
  /\ \A i \in 1..Len(a) : t[i] = a[i]
  /\ \A i \in 1..Len(b) : t[Len(a) + i] = b[i]

LEMMA Parts ==
  ASSUME NEW S, NEW a \in Seq(S), NEW b \in Seq(S), NEW t, t = a \o b
  PROVE  t \in Seq(S) /\ Joins(a, b, t)
BY DEF Joins

\* The sequence that list_bulk_move_tail is meant to leave.
LEMMA BulkMoves ==
  ASSUME NEW S, NEW s \in Seq(S), NEW i \in 1..Len(s), NEW j \in i..Len(s),
         NEW t, t = SubSeq(s, 1, i - 1) \o SubSeq(s, j + 1, Len(s)) \o SubSeq(s, i, j)
  PROVE  t \in Seq(S) /\ MovedToEnd(s, s[i], s[j], t)
<1> DEFINE a == SubSeq(s, 1, i - 1)
           b == SubSeq(s, j + 1, Len(s))
           c == SubSeq(s, i, j)
<1>1. /\ 1 \in 1..(Len(s) + 1) /\ i - 1 \in (1 - 1)..Len(s)
      /\ i \in 1..(Len(s) + 1) /\ j \in (i - 1)..Len(s)
      /\ j + 1 \in 1..(Len(s) + 1) /\ Len(s) \in ((j + 1) - 1)..Len(s)
  OBVIOUS
<1>2. PICK p \in Nat, w \in Nat \ {0}, d \in Nat : i = p + 1 /\ j = p + w /\ Len(s) = p + w + d
  <2>1. /\ i - 1 \in Nat /\ j - i + 1 \in Nat \ {0} /\ Len(s) - j \in Nat
        /\ i = (i - 1) + 1 /\ j = (i - 1) + (j - i + 1) /\ Len(s) = (i - 1) + (j - i + 1) + (Len(s) - j)
    OBVIOUS
  <2>. QED
    BY <2>1
<1>3. a \in Seq(S) /\ Len(a) = p /\ \A n \in 1..p : a[n] = s[n]
  BY <1>1, <1>2, Stretch
<1>4. b \in Seq(S) /\ Len(b) = d /\ \A n \in 1..d : b[n] = s[p + w + n]
  BY <1>1, <1>2, Stretch
<1>5. c \in Seq(S) /\ Len(c) = w /\ \A n \in 1..w : c[n] = s[p + n]
  BY <1>1, <1>2, Stretch
<1>6. t = a \o b \o c
  OBVIOUS
<1> HIDE DEF a, b, c
<1>7. PICK v : v = a \o b
  OBVIOUS
<1>8. /\ v \in Seq(S) /\ Len(v) = p + d
      /\ \A n \in 1..p : v[n] = a[n]
      /\ \A n \in 1..d : v[p + n] = b[n]
  <2>1. v \in Seq(S) /\ Joins(a, b, v)
    BY <1>3, <1>4, <1>7, Parts
  <2>. QED
    BY <1>3, <1>4, <2>1 DEF Joins
<1>9. /\ t \in Seq(S) /\ Len(t) = (p + d) + w
      /\ \A n \in 1..(p + d) : t[n] = v[n]
      /\ \A n \in 1..w : t[p + d + n] = c[n]
  <2>1. t = v \o c
    BY <1>6, <1>7
  <2>2. t \in Seq(S) /\ Joins(v, c, t)
    BY <1>5, <1>8, <2>1, Parts
  <2>. QED
    BY <1>5, <1>8, <2>2 DEF Joins
<1>10. \A n \in 1..p : t[n] = s[n]
  <2>1. \A n \in 1..p : n \in 1..(p + d)
    OBVIOUS
  <2>. QED
    BY <1>3, <1>7, <1>8, <1>9, <2>1
<1>12. \A n \in 1..d : t[p + n] = s[p + w + n]
  <2>1. \A n \in 1..d : p + n \in 1..(p + d)
    OBVIOUS
  <2>. QED
    BY <1>4, <1>7, <1>8, <1>9, <2>1
<1>13. Moved(s, p, w, d, t)
  <2>1. Len(t) = p + w + d /\ p \in Nat /\ w \in Nat /\ d \in Nat
    <3>1. p \in Nat /\ w \in Nat /\ d \in Nat
      BY <1>2
    <3>2. (p + d) + w = p + w + d
      BY <3>1
    <3>. QED
      BY <1>9, <3>1, <3>2
  <2>2. \A n \in 1..w : t[p + d + n] = s[p + n]
    BY <1>5, <1>9
  <2>. QED
    BY <1>2, <1>10, <1>12, <2>1, <2>2 DEF Moved
<1>. QED
  BY <1>2, <1>9, <1>13 DEF MovedToEnd

-----------------------------------------------------------------------------
(* The lists of the client. *)

RingsGood == Good(heap, ring, live)

\* Entry e is the k-th of the list of x.
Is(e, x, k) == x \in ListHeads /\ k \in 1..Len(ring[x]) /\ ring[x][k] = e

\* The place of an entry on a list.
LEMMA OnIs ==
  ASSUME RingsGood, NEW x \in ListHeads, NEW e
  PROVE  /\ e \in On(x) <=> \E k \in 1..Len(ring[x]) : ring[x][k] = e
         /\ e \in On(x) => Is(e, x, Place(x, e)) /\ Place(x, e) \in 1..Len(ring[x]) /\ x \in live
         /\ \A k : Is(e, x, k) => e \in On(x) /\ Place(x, e) = k
<1>1. ring[x] \in Seq(Entries) /\ DOMAIN ring[x] = 1..Len(ring[x]) /\ Distinct(ring[x])
  <2>1. ring[x] \in Seq(Entries) /\ Distinct(ring[x])
    BY GoodLists DEF RingsGood
  <2>. QED
    BY <2>1
<1>2. e \in On(x) <=> \E k \in 1..Len(ring[x]) : ring[x][k] = e
  BY <1>1 DEF On, ToSet
<1>3. e \in On(x) => Place(x, e) \in 1..Len(ring[x]) /\ ring[x][Place(x, e)] = e
  BY <1>1, <1>2 DEF Place
<1>4. ASSUME NEW k, Is(e, x, k) PROVE e \in On(x) /\ Place(x, e) = k
  <2>1. e \in On(x) /\ ring[x][k] = e /\ k \in 1..Len(ring[x])
    BY <1>2, <1>4 DEF Is
  <2>. QED
    BY <1>1, <1>3, <2>1 DEF Distinct
<1>5. e \in On(x) => x \in live
  BY <1>2 DEF RingsGood, Good
<1>. QED
  BY <1>2, <1>3, <1>4, <1>5 DEF Is

\* An entry is on a list, or loose.
LEMMA Known ==
  ASSUME RingsGood, NEW e \in Entries
  PROVE  /\ e \in OnSome => \E x \in live : Is(e, x, Place(x, e)) /\ e \in On(x)
         /\ e \in Loose => IsLoose(ring, e)
         /\ ~IsLoose(ring, e) => \E x \in live : e \in On(x)
<1>1. live \subseteq ListHeads
  BY DEF RingsGood, Good
<1>2. e \in OnSome => \E x \in live : Is(e, x, Place(x, e)) /\ e \in On(x)
  BY <1>1, OnIs DEF OnSome
<1>3. ~IsLoose(ring, e) => \E x \in live : e \in On(x)
  BY OnIs DEF IsLoose
<1>. QED
  BY <1>2, <1>3 DEF Loose, OnSome

\* An entry is on one list, once.
LEMMA OnePlace ==
  ASSUME RingsGood, NEW e, NEW x, NEW k, Is(e, x, k), NEW y, NEW j, Is(e, y, j)
  PROVE  x = y /\ k = j
BY DEF Is, RingsGood, Good, Apart

\* Removed takes the entry out of its list, and leaves the others.
LEMMA RemovedIs ==
  ASSUME RingsGood, NEW e, NEW x, NEW k, Is(e, x, k)
  PROVE  /\ Removed(e) \in Rings /\ DeletedAt(ring[x], k, Removed(e)[x])
         /\ \A y \in ListHeads : y # x => Removed(e)[y] = ring[y]
<1>1. x \in ListHeads /\ k \in 1..Len(ring[x])
  BY DEF Is
<1>2. e \in On(x) /\ Place(x, e) = k
  BY <1>1, OnIs
<1>3. ASSUME NEW y \in ListHeads, y # x PROVE e \notin On(y)
  BY <1>3, OnIs, OnePlace
<1>4. /\ Removed(e)[x] = RemoveAt(ring[x], k)
      /\ \A y \in ListHeads : y # x => Removed(e)[y] = ring[y]
  BY <1>1, <1>2, <1>3 DEF Removed
<1>5. ring[x] \in Seq(Entries) /\ \A y \in ListHeads : ring[y] \in Seq(Entries)
  BY <1>1, GoodLists DEF RingsGood
<1>6. RemoveAt(ring[x], k) \in Seq(Entries) /\ DeletedAt(ring[x], k, RemoveAt(ring[x], k))
  BY <1>1, <1>5, RemoveAtDeletes
<1>7. Removed(e) \in Rings
  <2>1. Removed(e) = [y \in ListHeads |-> Removed(e)[y]]
    BY DEF Removed
  <2>2. \A y \in ListHeads : Removed(e)[y] \in Seq(Entries)
    BY <1>4, <1>5, <1>6
  <2>. QED
    BY <2>1, <2>2 DEF Rings
<1>. QED
  BY <1>4, <1>6, <1>7

\* __list_del_entry of an entry, and then any stores to it.
LEMMA RemovedGood ==
  ASSUME RingsGood, NEW e, NEW x, NEW k, Is(e, x, k)
  PROVE  /\ Good(__list_del_entry(heap, e), Removed(e), live)
         /\ IsLoose(Removed(e), e) /\ e \in Entries /\ e \in Nodes /\ x \in live
<1>1. x \in ListHeads /\ k \in 1..Len(ring[x]) /\ e = ring[x][k]
  BY DEF Is
<1>2. PICK q \in Rings : q = Removed(e)
  BY RemovedIs
<1>3. DeletedAt(ring[x], k, q[x]) /\ \A y \in ListHeads : y # x => q[y] = ring[y]
  BY <1>2, RemovedIs
<1>4. PICK g : g = __list_del_entry(heap, e)
  OBVIOUS
<1>5. Good(g, q, live) /\ IsLoose(q, e) /\ e \in Entries /\ x \in live
  BY <1>1, <1>3, <1>4, DeleteGood DEF RingsGood
<1>. QED
  BY <1>2, <1>4, <1>5 DEF Nodes

\* list_del, list_del_init and __list_del_clearprev.
LEMMA DeleteStep ==
  ASSUME RingsGood, NEW e, NEW x, NEW k, Is(e, x, k)
  PROVE  /\ Good(list_del(heap, e), Removed(e), live)
         /\ Good(list_del_init(heap, e), Removed(e), live)
         /\ Good(__list_del_clearprev(heap, e), Removed(e), live)
<1>1. PICK g : g = __list_del_entry(heap, e)
  OBVIOUS
<1>2. Good(g, Removed(e), live) /\ IsLoose(Removed(e), e) /\ e \in Entries /\ e \in Nodes
  BY <1>1, RemovedGood
<1>3. g \in Heap(Nodes)
  BY <1>2 DEF Good
<1>4. /\ SetPrev(SetNext(g, e, NULL), e, NULL) \in Heap(Nodes)
      /\ \A n \in Nodes : n # e => Same(g, SetPrev(SetNext(g, e, NULL), e, NULL), n)
  BY <1>2, <1>3, StoreNode DEF Same
<1>5. /\ INIT_LIST_HEAD(g, e) \in Heap(Nodes) /\ \A n \in Nodes : n # e => Same(g, INIT_LIST_HEAD(g, e), n)
  BY <1>2, <1>3, InitRing
<1>6. /\ SetPrev(g, e, NULL) \in Heap(Nodes) /\ \A n \in Nodes : n # e => Same(g, SetPrev(g, e, NULL), n)
  BY <1>2, <1>3, StoreNode
<1>7. Good(list_del(heap, e), Removed(e), live)
  BY <1>1, <1>2, <1>4, LooseStore DEF list_del
<1>8. Good(list_del_init(heap, e), Removed(e), live)
  BY <1>1, <1>2, <1>5, LooseStore DEF list_del_init
<1>9. Good(__list_del_clearprev(heap, e), Removed(e), live)
  BY <1>1, <1>2, <1>6, LooseStore DEF __list_del_clearprev
<1>. QED
  BY <1>7, <1>8, <1>9

\* list_add and list_add_tail of a loose entry.
LEMMA AddGood ==
  ASSUME NEW h, NEW r, NEW l, Good(h, r, l), NEW x \in l, NEW e \in Entries, IsLoose(r, e)
  PROVE  /\ Good(list_add(h, e, x), [r EXCEPT ![x] = <<e>> \o @], l)
         /\ Good(list_add_tail(h, e, x), [r EXCEPT ![x] = Append(@, e)], l)
<1>1. x \in ListHeads /\ r \in Rings
  BY DEF Good
<1>2. x \in Nodes /\ r[x] \in Seq(Entries) /\ r[x] \in Seq(Nodes \ {x}) /\ Ring(h, x, r[x]) /\ Len(r[x]) \in Nat
  BY <1>1, GoodLists
<1>3. /\ h.next[x] = At(x, r[x], 0 + 1) /\ At(x, r[x], 0) = x
      /\ h.prev[x] = At(x, r[x], Len(r[x])) /\ At(x, r[x], Len(r[x]) + 1) = x
      /\ 0 \in 0..Len(r[x]) /\ Len(r[x]) \in 0..Len(r[x])
  BY <1>2 DEF Ring, At
<1>4. PICK p, q : p = [r EXCEPT ![x] = <<e>> \o @] /\ q = [r EXCEPT ![x] = Append(@, e)]
  OBVIOUS
<1>5. /\ p \in Rings /\ InsertedAt(r[x], 0, e, p[x])
      /\ q \in Rings /\ InsertedAt(r[x], Len(r[x]), e, q[x])
      /\ \A y \in ListHeads : y # x => p[y] = r[y] /\ q[y] = r[y]
  BY <1>1, <1>2, <1>4, AppendInserts DEF Rings
<1>6. Good(list_add(h, e, x), p, l)
  <2>1. list_add(h, e, x) = __list_add(h, e, At(x, r[x], 0), At(x, r[x], 0 + 1))
    BY <1>3 DEF list_add
  <2>. QED
    BY <1>1, <1>3, <1>5, <2>1, InsertGood
<1>7. Good(list_add_tail(h, e, x), q, l)
  <2>1. list_add_tail(h, e, x) = __list_add(h, e, At(x, r[x], Len(r[x])), At(x, r[x], Len(r[x]) + 1))
    BY <1>3 DEF list_add_tail
  <2>. QED
    BY <1>1, <1>3, <1>5, <2>1, InsertGood
<1>. QED
  BY <1>4, <1>6, <1>7

\* list_move and list_move_tail: the list moved to may be the entry's own.
LEMMA MoveStep ==
  ASSUME RingsGood, NEW e, NEW x, NEW k, Is(e, x, k), NEW h \in live
  PROVE  /\ Good(list_move(heap, e, h), [Removed(e) EXCEPT ![h] = <<e>> \o @], live)
         /\ Good(list_move_tail(heap, e, h), [Removed(e) EXCEPT ![h] = Append(@, e)], live)
<1>1. PICK g, q : g = __list_del_entry(heap, e) /\ q = Removed(e)
  OBVIOUS
<1>2. Good(g, q, live) /\ IsLoose(q, e) /\ e \in Entries
  BY <1>1, RemovedGood
<1>3. /\ Good(list_add(g, e, h), [q EXCEPT ![h] = <<e>> \o @], live)
      /\ Good(list_add_tail(g, e, h), [q EXCEPT ![h] = Append(@, e)], live)
  BY <1>2, AddGood
<1>. QED
  BY <1>1, <1>3 DEF list_move, list_move_tail

\* Each entry of e and f where the other was.
LEMMA SwappedIs ==
  ASSUME NEW e \in Entries, NEW f \in Entries, ring \in Rings
  PROVE  /\ Swapped(e, f) \in Rings
         /\ \A x \in ListHeads : /\ Len(Swapped(e, f)[x]) = Len(ring[x])
                                 /\ \A i \in 1..Len(ring[x]) : Swapped(e, f)[x][i] = Other(e, f, ring[x][i])
<1>1. ASSUME NEW x \in ListHeads
      PROVE  /\ Swapped(e, f)[x] \in Seq(Entries) /\ Len(Swapped(e, f)[x]) = Len(ring[x])
             /\ \A i \in 1..Len(ring[x]) : Swapped(e, f)[x][i] = Other(e, f, ring[x][i])
  <2>1. PICK s \in Seq(Entries) : s = ring[x]
    BY DEF Rings
  <2>2. Swapped(e, f)[x] = [i \in 1..Len(s) |-> Other(e, f, s[i])]
    BY <2>1 DEF Swapped
  <2>3. \A i \in 1..Len(s) : Other(e, f, s[i]) \in Entries
    BY DEF Other
  <2>. QED
    BY <2>1, <2>2, <2>3
<1>2. Swapped(e, f) = [x \in ListHeads |-> Swapped(e, f)[x]]
  BY DEF Swapped
<1>. QED
  BY <1>1, <1>2 DEF Rings

\* list_replace and list_replace_init.
LEMMA ReplaceStep ==
  ASSUME RingsGood, NEW e, NEW x, NEW k, Is(e, x, k), NEW new \in Entries, IsLoose(ring, new)
  PROVE  /\ Good(list_replace(heap, e, new), Swapped(e, new), live)
         /\ Good(list_replace_init(heap, e, new), Swapped(e, new), live)
<1>1. x \in ListHeads /\ k \in 1..Len(ring[x]) /\ e = ring[x][k] /\ ring \in Rings
  BY DEF Is, RingsGood, Good
<1>2. e \in Entries /\ Distinct(ring[x]) /\ ring[x] \in Seq(Entries)
  BY <1>1, GoodLists DEF RingsGood
<1>3. PICK q \in Rings : q = Swapped(e, new)
  BY <1>1, <1>2, SwappedIs
<1>4. \A y \in ListHeads : Len(q[y]) = Len(ring[y]) /\ \A i \in 1..Len(ring[y]) : q[y][i] = Other(e, new, ring[y][i])
  BY <1>1, <1>2, <1>3, SwappedIs
<1>5. \A y \in ListHeads : \A i \in 1..Len(ring[y]) : ring[y][i] # new
  BY DEF IsLoose
<1>6. ReplacedAt(ring[x], k, new, q[x])
  <2>1. \A i \in 1..Len(ring[x]) : i # k => ring[x][i] # e
    BY <1>1, <1>2 DEF Distinct
  <2>2. \A i \in 1..Len(ring[x]) : q[x][i] = IF i = k THEN new ELSE ring[x][i]
    BY <1>1, <1>4, <1>5, <2>1 DEF Other
  <2>. QED
    BY <1>1, <1>4, <2>2 DEF ReplacedAt
<1>7. ASSUME NEW y \in ListHeads, y # x PROVE q[y] = ring[y]
  <2>1. \A i \in 1..Len(ring[y]) : ring[y][i] # e
    BY <1>1, <1>7 DEF RingsGood, Good, Apart
  <2>2. \A i \in 1..Len(ring[y]) : q[y][i] = ring[y][i]
    BY <1>4, <1>5, <2>1 DEF Other
  <2>3. q[y] \in Seq(Entries) /\ ring[y] \in Seq(Entries)
    BY <1>1 DEF Rings
  <2>. QED
    BY <1>4, <2>2, <2>3, SeqEqual
<1>8. PICK g : g = list_replace(heap, e, new)
  OBVIOUS
<1>9. Good(g, q, live) /\ IsLoose(q, e)
  BY <1>1, <1>6, <1>7, <1>8, ReplaceGood DEF RingsGood
<1>10. e \in Nodes /\ g \in Heap(Nodes)
  BY <1>2, <1>9 DEF Nodes, Good
<1>11. INIT_LIST_HEAD(g, e) \in Heap(Nodes) /\ \A n \in Nodes : n # e => Same(g, INIT_LIST_HEAD(g, e), n)
  BY <1>10, InitRing
<1>12. Good(list_replace_init(heap, e, new), q, live)
  BY <1>2, <1>8, <1>9, <1>11, LooseStore DEF list_replace_init
<1>. QED
  BY <1>3, <1>8, <1>9, <1>12

\* list_swap: f leaves its list, takes the place of e, and e goes where f was.
LEMMA SwapStep ==
  ASSUME RingsGood, NEW e, NEW x, NEW k, Is(e, x, k), NEW f, NEW y, NEW j, Is(f, y, j), e # f
  PROVE  Good(list_swap(heap, e, f), Swapped(e, f), live)
<1>1. /\ x \in ListHeads /\ k \in 1..Len(ring[x]) /\ e = ring[x][k] /\ ring \in Rings
      /\ y \in ListHeads /\ j \in 1..Len(ring[y]) /\ f = ring[y][j]
  BY DEF Is, RingsGood, Good
<1>2. /\ e \in Entries /\ f \in Entries /\ y \in live /\ y \in Nodes
      /\ ring[y] \in Seq(Entries) /\ ring[y] \in Seq(Nodes \ {y}) /\ Distinct(ring[y]) /\ Ring(heap, y, ring[y])
      /\ ring[x] \in Seq(Entries)
  BY <1>1, GoodLists DEF RingsGood
<1>3. PICK s \in Seq(Entries) : s = ring[y]
  BY <1>2
<1>4. PICK p \in Rings : p = Removed(f)
  BY RemovedIs
<1>5. DeletedAt(s, j, p[y]) /\ \A z \in ListHeads : z # y => p[z] = ring[z]
  BY <1>3, <1>4, RemovedIs
<1>6. Good(list_del(heap, f), p, live) /\ IsLoose(p, f)
  BY <1>4, DeleteStep, RemovedGood
<1>7. PICK i \in 1..Len(p[x]) : p[x][i] = e
  <2>1. CASE x # y
    BY <1>1, <1>5, <2>1
  <2>2. CASE x = y /\ k < j
    BY <1>1, <1>2, <1>3, <1>5, <2>2 DEF DeletedAt
  <2>3. CASE x = y /\ k > j
    <3>1. k - 1 \in 1..Len(p[x]) /\ (k - 1) + 1 = k /\ ~(k - 1 < j)
      BY <1>1, <1>2, <1>3, <1>5, <2>3 DEF DeletedAt
    <3>2. p[x][k - 1] = ring[x][(k - 1) + 1]
      BY <1>3, <1>5, <2>3, <3>1 DEF DeletedAt
    <3>. QED
      BY <1>1, <3>1, <3>2
  <2>4. x = y => k # j
    BY <1>1
  <2>. QED
    BY <1>1, <2>1, <2>2, <2>3, <2>4
<1>8. PICK q : q = [z \in ListHeads |-> [n \in 1..Len(p[z]) |-> Other(e, f, p[z][n])]]
  OBVIOUS
<1>9. /\ q \in Rings
      /\ \A z \in ListHeads : Len(q[z]) = Len(p[z]) /\ \A n \in 1..Len(p[z]) : q[z][n] = Other(e, f, p[z][n])
  <2>1. ASSUME NEW z \in ListHeads
        PROVE  /\ q[z] \in Seq(Entries) /\ Len(q[z]) = Len(p[z])
               /\ \A n \in 1..Len(p[z]) : q[z][n] = Other(e, f, p[z][n])
    <3>1. p[z] \in Seq(Entries) /\ Len(p[z]) \in Nat /\ q[z] = [n \in 1..Len(p[z]) |-> Other(e, f, p[z][n])]
      BY <1>8 DEF Rings
    <3>2. \A n \in 1..Len(p[z]) : Other(e, f, p[z][n]) \in Entries
      BY <1>2, <3>1 DEF Other
    <3>. QED
      BY <3>1, <3>2
  <2>. QED
    BY <1>8, <2>1 DEF Rings
<1>10. \A z \in ListHeads : \A n \in 1..Len(p[z]) : p[z][n] # f
  BY <1>6 DEF IsLoose
<1>11. ReplacedAt(p[x], i, f, q[x])
  <2>1. Distinct(p[x])
    BY <1>1, <1>6, GoodLists
  <2>2. \A n \in 1..Len(p[x]) : q[x][n] = IF n = i THEN f ELSE p[x][n]
    BY <1>1, <1>7, <1>9, <1>10, <2>1 DEF Other, Distinct
  <2>. QED
    BY <1>1, <1>9, <2>2 DEF ReplacedAt
<1>12. ASSUME NEW z \in ListHeads, z # x PROVE q[z] = p[z]
  <2>1. \A n \in 1..Len(p[z]) : p[z][n] # e
    BY <1>1, <1>6, <1>7, <1>12 DEF Good, Apart
  <2>2. \A n \in 1..Len(p[z]) : q[z][n] = p[z][n]
    BY <1>9, <1>10, <2>1 DEF Other
  <2>3. q[z] \in Seq(Entries) /\ p[z] \in Seq(Entries)
    BY <1>9 DEF Rings
  <2>. QED
    BY <1>9, <2>2, <2>3, SeqEqual
<1>13. PICK g : g = list_replace(list_del(heap, f), e, f)
  OBVIOUS
<1>14. Good(g, q, live) /\ IsLoose(q, e)
  BY <1>1, <1>2, <1>6, <1>7, <1>9, <1>11, <1>12, <1>13, ReplaceGood
<1>15. PICK m \in Nat : j = m + 1 /\ m \in 0..Len(q[y])
  <2>1. Len(q[y]) = Len(s) - 1 /\ Len(s) \in Nat
    BY <1>1, <1>3, <1>5, <1>9 DEF DeletedAt
  <2>2. j - 1 \in Nat /\ j = (j - 1) + 1 /\ j - 1 \in 0..Len(q[y])
    BY <1>1, <1>3, <2>1
  <2>. QED
    BY <2>2
<1>16. PICK t \in Rings : t = Swapped(e, f)
  BY <1>1, <1>2, SwappedIs
<1>17. /\ \A z \in ListHeads : Len(t[z]) = Len(ring[z]) /\ \A n \in 1..Len(ring[z]) : t[z][n] = Other(e, f, ring[z][n])
  BY <1>1, <1>2, <1>16, SwappedIs
<1>18. ASSUME NEW z \in ListHeads, z # y PROVE t[z] = q[z]
  <2>1. p[z] = ring[z]
    BY <1>5, <1>18
  <2>2. t[z] \in Seq(Entries) /\ q[z] \in Seq(Entries)
    BY <1>9 DEF Rings
  <2>. QED
    <3>1. Len(t[z]) = Len(ring[z]) /\ \A n \in 1..Len(ring[z]) : t[z][n] = Other(e, f, ring[z][n])
      BY <1>17, <1>18
    <3>2. Len(q[z]) = Len(p[z]) /\ \A n \in 1..Len(p[z]) : q[z][n] = Other(e, f, p[z][n])
      BY <1>9, <1>18
    <3>3. Len(t[z]) = Len(q[z]) /\ \A n \in 1..Len(t[z]) : t[z][n] = q[z][n]
      BY <2>1, <3>1, <3>2
    <3>. QED
      BY <2>2, <3>3, SeqEqual
<1>19. InsertedAt(q[y], m, e, t[y])
  <2>1. /\ Len(t[y]) = Len(s) /\ Len(q[y]) = Len(s) - 1 /\ Len(s) \in Nat /\ Len(p[y]) = Len(s) - 1
    BY <1>1, <1>3, <1>5, <1>9, <1>17 DEF DeletedAt
  <2>2. ASSUME NEW n \in 1..Len(t[y])
        PROVE  t[y][n] = IF n <= m THEN q[y][n] ELSE IF n = m + 1 THEN e ELSE q[y][n - 1]
    <3>1. t[y][n] = Other(e, f, s[n])
      BY <1>1, <1>3, <1>17, <2>1
    <3>2. CASE n <= m
      <4>1. n \in 1..Len(p[y]) /\ n < j
        BY <1>1, <1>3, <1>15, <2>1, <3>2
      <4>2. p[y][n] = s[n]
        BY <1>5, <4>1 DEF DeletedAt
      <4>. QED
        BY <1>1, <1>9, <3>1, <3>2, <4>1, <4>2
    <3>3. CASE n = m + 1
      BY <1>1, <1>3, <1>15, <3>1, <3>3 DEF Other
    <3>4. CASE n > m + 1
      <4>1. n - 1 \in 1..Len(p[y]) /\ ~(n - 1 < j) /\ (n - 1) + 1 = n
        BY <1>1, <1>3, <1>15, <2>1, <3>4
      <4>2. p[y][n - 1] = s[n]
        BY <1>5, <4>1 DEF DeletedAt
      <4>3. q[y][n - 1] = Other(e, f, s[n])
        BY <1>1, <1>9, <4>1, <4>2
      <4>. QED
        BY <1>15, <3>1, <3>4, <4>3
    <3>. QED
      BY <1>15, <3>2, <3>3, <3>4
  <2>. QED
    BY <2>1, <2>2 DEF InsertedAt
<1>20. PICK b : b = IF heap.prev[f] = e THEN f ELSE heap.prev[f]
  OBVIOUS
<1>21. b = At(y, q[y], m)
  <2>1. heap.prev[f] = At(y, s, m)
    <3>1. m \in 0..Len(ring[y]) /\ At(y, ring[y], m + 1) = f
      <4>1. m \in 0..Len(ring[y]) /\ m + 1 \in 1..Len(ring[y])
        BY <1>1, <1>15
      <4>. QED
        BY <1>1, <1>15, <4>1 DEF At
    <3>. QED
      BY <1>2, <1>3, <3>1 DEF Ring
  <2>2. CASE m = 0
    <3>1. At(y, s, m) = y /\ At(y, q[y], m) = y
      BY <2>2 DEF At
    <3>2. e # y
      BY <1>1, <1>2, ListsAssumption
    <3>. QED
      BY <1>20, <2>1, <3>1, <3>2
  <2>3. CASE m # 0
    <3>1. m \in 1..Len(p[y]) /\ m < j /\ m \in 1..Len(s) /\ m \in 1..Len(q[y])
      BY <1>1, <1>3, <1>9, <1>15, <2>3
    <3>2. p[y][m] = s[m] /\ At(y, s, m) = s[m] /\ At(y, q[y], m) = q[y][m]
      BY <1>5, <3>1 DEF DeletedAt, At
    <3>3. s[m] # f
      BY <1>1, <1>2, <1>3, <3>1 DEF Distinct
    <3>4. q[y][m] = Other(e, f, s[m])
      BY <1>1, <1>9, <3>1, <3>2
    <3>. QED
      BY <1>20, <2>1, <3>2, <3>3, <3>4 DEF Other
  <2>. QED
    BY <2>2, <2>3
<1>22. PICK d : d = list_add(g, e, b)
  OBVIOUS
<1>23. d = __list_add(g, e, At(y, q[y], m), At(y, q[y], m + 1))
  <2>1. Ring(g, y, q[y])
    BY <1>1, <1>2, <1>14, GoodLists
  <2>2. g.next[At(y, q[y], m)] = At(y, q[y], m + 1)
    BY <1>15, <2>1 DEF Ring
  <2>. QED
    BY <1>21, <1>22, <2>2 DEF list_add
<1>24. Good(d, t, live)
  BY <1>2, <1>14, <1>15, <1>18, <1>19, <1>23, InsertGood
<1>. QED
  BY <1>13, <1>16, <1>20, <1>22, <1>24 DEF list_swap

\* INIT_LIST_HEAD of a head that is no list.
LEMMA HeadStep ==
  ASSUME RingsGood, NEW x \in ListHeads
  PROVE  x \notin live => Good(INIT_LIST_HEAD(heap, x), ring, live \cup {x})
BY InitGood DEF RingsGood, Good

\* list_replace_init of a head.
LEMMA ReplaceHeadStep ==
  ASSUME RingsGood, NEW x \in live, NEW y \in ListHeads, y \notin live
  PROVE  Good(list_replace_init(heap, x, y), [ring EXCEPT ![x] = <<>>, ![y] = ring[x]], live \cup {y})
<1>1. x \in ListHeads /\ x # y /\ ring \in Rings
  BY DEF RingsGood, Good
<1>2. PICK q : q = [ring EXCEPT ![x] = <<>>, ![y] = ring[x]]
  OBVIOUS
<1>3. ring[x] \in Seq(Entries) /\ <<>> \in Seq(Entries)
  BY <1>1 DEF Rings
<1>4. q \in Rings /\ q[x] = <<>> /\ q[y] = ring[x] /\ \A z \in ListHeads : z # x /\ z # y => q[z] = ring[z]
  BY <1>1, <1>2, <1>3 DEF Rings
<1>5. Good(list_replace_init(heap, x, y), q, live \cup {y})
  BY <1>4, ReplaceHeadGood DEF RingsGood
<1>. QED
  BY <1>2, <1>5

\* list_bulk_move_tail.
LEMMA BulkStep ==
  ASSUME RingsGood, NEW x \in live, NEW s, s = ring[x], NEW i \in 1..Len(s), NEW j \in i..Len(s)
  PROVE  Good(list_bulk_move_tail(heap, x, s[i], s[j]),
              [ring EXCEPT ![x] = SubSeq(s, 1, i - 1) \o SubSeq(s, j + 1, Len(s)) \o SubSeq(s, i, j)],
              live)
<1>1. x \in ListHeads /\ ring \in Rings /\ s \in Seq(Entries)
  BY DEF RingsGood, Good, Rings
<1>2. PICK t : t = SubSeq(s, 1, i - 1) \o SubSeq(s, j + 1, Len(s)) \o SubSeq(s, i, j)
  OBVIOUS
<1>3. t \in Seq(Entries) /\ MovedToEnd(s, s[i], s[j], t)
  BY <1>1, <1>2, BulkMoves
<1>4. PICK q : q = [ring EXCEPT ![x] = t]
  OBVIOUS
<1>5. q \in Rings /\ MovedToEnd(ring[x], s[i], s[j], q[x]) /\ \A y \in ListHeads : y # x => q[y] = ring[y]
  BY <1>1, <1>3, <1>4 DEF Rings
<1>6. Good(list_bulk_move_tail(heap, x, s[i], s[j]), q, live)
  BY <1>5, BulkGood DEF RingsGood
<1>. QED
  BY <1>2, <1>4, <1>6

\* list_rotate_left moves the first entry, when there is one, to the end.
LEMMA RotateLeftStep ==
  ASSUME RingsGood, NEW x \in live, NEW s, s = ring[x]
  PROVE  Good(list_rotate_left(heap, x),
              [ring EXCEPT ![x] = IF s = <<>> THEN s ELSE Append(Tail(s), Head(s))], live)
<1>1. x \in ListHeads /\ ring \in Rings /\ s \in Seq(Entries) /\ x \in Nodes
  BY DEF RingsGood, Good, Rings, Nodes
<1>2. heap.next[x] = At(x, s, 1)
  <2>1. Ring(heap, x, s)
    BY <1>1, GoodLists DEF RingsGood
  <2>2. 0 \in 0..Len(s) /\ At(x, s, 0) = x /\ 0 + 1 = 1
    BY <1>1 DEF At
  <2>. QED
    BY <2>1, <2>2 DEF Ring
<1>3. CASE s = <<>>
  <2>1. heap.next[x] = x
    BY <1>2, <1>3 DEF At
  <2>2. list_rotate_left(heap, x) = heap
    BY <2>1 DEF list_rotate_left, list_empty
  <2>3. [ring EXCEPT ![x] = IF s = <<>> THEN s ELSE Append(Tail(s), Head(s))] = ring
    BY <1>1, <1>3 DEF Rings
  <2>. QED
    BY <2>2, <2>3 DEF RingsGood
<1>4. CASE s # <<>>
  <2>1. /\ Tail(s) \in Seq(Entries) /\ DeletedAt(s, 1, Tail(s)) /\ Head(s) = s[1] /\ s[1] \in Entries
        /\ 1 \in 1..Len(s)
    BY <1>1, <1>4, TailDeletes
  <2>2. heap.next[x] = s[1] /\ s[1] # x
    BY <1>1, <1>2, <2>1, ListsAssumption DEF At
  <2>3. PICK p : p = [ring EXCEPT ![x] = Tail(s)]
    OBVIOUS
  <2>4. p \in Rings /\ DeletedAt(ring[x], 1, p[x]) /\ \A y \in ListHeads : y # x => p[y] = ring[y]
    BY <1>1, <2>1, <2>3 DEF Rings
  <2>5. PICK g, e : g = __list_del_entry(heap, e) /\ e = s[1]
    OBVIOUS
  <2>6. Good(g, p, live) /\ IsLoose(p, e) /\ e \in Entries
    BY <1>1, <2>1, <2>4, <2>5, DeleteGood DEF RingsGood
  <2>7. Good(list_add_tail(g, e, x), [p EXCEPT ![x] = Append(@, e)], live)
    BY <2>6, AddGood
  <2>8. [p EXCEPT ![x] = Append(@, e)] = [ring EXCEPT ![x] = Append(Tail(s), Head(s))]
    BY <1>1, <2>1, <2>3, <2>5 DEF Rings
  <2>9. list_rotate_left(heap, x) = list_add_tail(g, e, x)
    BY <2>2, <2>5 DEF list_rotate_left, list_empty, list_move_tail
  <2>. QED
    BY <1>4, <2>7, <2>8, <2>9
<1>. QED
  BY <1>3, <1>4

\* list_rotate_to_front.
LEMMA RotateToFrontStep ==
  ASSUME RingsGood, NEW x \in live, NEW s, s = ring[x], NEW k, NEW e, Is(e, x, k)
  PROVE  Good(list_rotate_to_front(heap, e, x),
              [ring EXCEPT ![x] = SubSeq(s, k, Len(s)) \o SubSeq(s, 1, k - 1)], live)
<1>1. x \in ListHeads /\ ring \in Rings /\ s \in Seq(Entries) /\ k \in 1..Len(s) /\ e = s[k]
  BY DEF RingsGood, Good, Rings, Is
<1>2. PICK t : t = SubSeq(s, k, Len(s)) \o SubSeq(s, 1, k - 1)
  OBVIOUS
<1>3. t \in Seq(Entries) /\ RotatedAt(s, k, t)
  BY <1>1, <1>2, FrontRotates
<1>4. PICK q : q = [ring EXCEPT ![x] = t]
  OBVIOUS
<1>5. q \in Rings /\ RotatedAt(ring[x], k, q[x]) /\ \A y \in ListHeads : y # x => q[y] = ring[y]
  BY <1>1, <1>3, <1>4 DEF Rings
<1>6. Good(list_rotate_to_front(heap, e, x), q, live)
  BY <1>1, <1>5, RotateGood DEF RingsGood
<1>. QED
  BY <1>2, <1>4, <1>6

\* The lists after the first m entries of x went to y.
Cut(y, x, m) ==
  [ring EXCEPT ![y] = SubSeq(ring[x], 1, m), ![x] = SubSeq(ring[x], m + 1, Len(ring[x]))]

\* The sequences of a cut.
LEMMA CutIs ==
  ASSUME RingsGood, NEW x \in live, NEW y \in ListHeads, x # y, ring[y] = <<>>, NEW m \in 0..Len(ring[x])
  PROVE  /\ Cut(y, x, m) \in Rings /\ SplitAt(ring[x], m, Cut(y, x, m)[y], Cut(y, x, m)[x])
         /\ \A z \in ListHeads : z # x /\ z # y => Cut(y, x, m)[z] = ring[z]
         /\ m = 0 => Cut(y, x, m) = ring
<1>1. x \in ListHeads /\ ring \in Rings /\ ring[x] \in Seq(Entries)
  BY DEF RingsGood, Good, Rings
<1>2. PICK t, u : t = SubSeq(ring[x], 1, m) /\ u = SubSeq(ring[x], m + 1, Len(ring[x]))
  OBVIOUS
<1>3. t \in Seq(Entries) /\ u \in Seq(Entries) /\ SplitAt(ring[x], m, t, u)
  BY <1>1, <1>2, CutSplits
<1>4. Cut(y, x, m) = [ring EXCEPT ![y] = t, ![x] = u]
  BY <1>2 DEF Cut
<1>5. CASE m = 0
  <2>1. Len(t) = 0 /\ Len(u) = Len(ring[x]) /\ \A i \in 1..Len(u) : u[i] = ring[x][i]
    BY <1>1, <1>3, <1>5 DEF SplitAt
  <2>2. t = <<>>
    BY <1>3, <2>1
  <2>3. u = ring[x]
    BY <1>1, <1>3, <2>1, SeqEqual
  <2>4. Cut(y, x, m) = ring
    BY <1>1, <1>4, <2>2, <2>3 DEF Rings
  <2>5. Cut(y, x, m)[y] = t /\ Cut(y, x, m)[x] = u
    BY <2>2, <2>3, <2>4
  <2>. QED
    BY <1>1, <1>3, <2>4, <2>5
<1>6. CASE m # 0
  BY <1>1, <1>3, <1>4, <1>6 DEF Rings
<1>. QED
  BY <1>5, <1>6

\* The stores of a cut after the m-th entry, m not zero.
LEMMA CutStep ==
  ASSUME RingsGood, NEW x \in live, NEW y \in ListHeads, x # y, ring[y] = <<>>, NEW m \in 1..Len(ring[x]),
         NEW e, e = ring[x][m], NEW b, b = At(x, ring[x], m + 1)
  PROVE  /\ Good(__list_cut_position(heap, y, x, e), Cut(y, x, m), live \cup {y})
         /\ Good(list_cut_before(heap, y, x, b), Cut(y, x, m), live \cup {y})
<1>1. x \in ListHeads /\ y \in Nodes /\ heap \in Heap(Nodes) /\ m \in 0..Len(ring[x])
  BY DEF RingsGood, Good, Nodes
<1>2. /\ x \in Nodes /\ ring[x] \in Seq(Nodes \ {x}) /\ Distinct(ring[x]) /\ Ring(heap, x, ring[x])
      /\ Off(x, ring[x], y)
  BY <1>1, GoodLists, OffOthers DEF RingsGood
<1>3. PICK q \in Rings : q = Cut(y, x, m)
  BY <1>1, CutIs
<1>4. SplitAt(ring[x], m, q[y], q[x]) /\ \A z \in ListHeads : z # x /\ z # y => q[z] = ring[z]
  BY <1>1, <1>3, CutIs
<1>5. PICK g : g = CutAt(heap, y, x, ring[x], m)
  OBVIOUS
<1>6. Good(g, q, live \cup {y})
  BY <1>4, <1>5, CutGood DEF RingsGood
<1>7. __list_cut_position(heap, y, x, e) = g /\ list_cut_before(heap, y, x, b) = g
  BY <1>1, <1>2, <1>5, CutIsStores DEF CutAt
<1>. QED
  BY <1>3, <1>6, <1>7

\* The queries on a list.
LEMMA EmptyIs ==
  ASSUME NEW h, NEW r, NEW l, Good(h, r, l), NEW x \in l
  PROVE  /\ x \in ListHeads /\ r[x] \in Seq(Entries) /\ Len(r[x]) \in Nat
         /\ h.next[x] = At(x, r[x], 1) /\ h.prev[x] = At(x, r[x], Len(r[x]))
         /\ list_empty(h, x) <=> r[x] = <<>>
         /\ list_is_singular(h, x) <=> Len(r[x]) = 1
<1>1. x \in ListHeads
  BY DEF Good
<1>2. /\ r[x] \in Seq(Entries) /\ Ring(h, x, r[x]) /\ Distinct(r[x]) /\ Len(r[x]) \in Nat
      /\ \A i \in 1..Len(r[x]) : r[x][i] \in Entries /\ r[x][i] # x
  <2>1. /\ r[x] \in Seq(Entries) /\ Ring(h, x, r[x]) /\ Distinct(r[x]) /\ Len(r[x]) \in Nat
        /\ \A i \in 1..Len(r[x]) : r[x][i] \in Entries
    BY <1>1, GoodLists
  <2>2. \A e \in Entries : e # x
    BY <1>1, ListsAssumption
  <2>. QED
    BY <2>1, <2>2
<1>3. h.next[x] = At(x, r[x], 1) /\ h.prev[x] = At(x, r[x], Len(r[x]))
  <2>1. /\ 0 \in 0..Len(r[x]) /\ At(x, r[x], 0) = x /\ 0 + 1 = 1
        /\ Len(r[x]) \in 0..Len(r[x]) /\ At(x, r[x], Len(r[x]) + 1) = x
    BY <1>2 DEF At
  <2>. QED
    BY <1>2, <2>1 DEF Ring
<1>4. list_empty(h, x) <=> r[x] = <<>>
  <2>1. r[x] = <<>> => At(x, r[x], 1) = x
    BY DEF At
  <2>2. r[x] # <<>> => 1 \in 1..Len(r[x]) /\ At(x, r[x], 1) = r[x][1]
    BY <1>2 DEF At
  <2>. QED
    BY <1>2, <1>3, <2>1, <2>2 DEF list_empty
<1>5. list_is_singular(h, x) <=> Len(r[x]) = 1
  <2>1. CASE r[x] = <<>>
    BY <1>4, <2>1 DEF list_is_singular
  <2>2. CASE r[x] # <<>>
    <3>1. 1 \in 1..Len(r[x]) /\ Len(r[x]) \in 1..Len(r[x])
      BY <1>2, <2>2
    <3>2. h.next[x] = r[x][1] /\ h.prev[x] = r[x][Len(r[x])]
      BY <1>3, <3>1 DEF At
    <3>3. h.next[x] = h.prev[x] <=> Len(r[x]) = 1
      BY <1>2, <3>1, <3>2 DEF Distinct
    <3>. QED
      BY <1>4, <2>2, <3>3 DEF list_is_singular
  <2>. QED
    BY <2>1, <2>2
<1>. QED
  BY <1>1, <1>2, <1>3, <1>4, <1>5

\* The lists after those of y joined x, before its own or after them.
AtFront(y, x) == [ring EXCEPT ![y] = <<>>, ![x] = ring[y] \o @]
AtBack(y, x)  == [ring EXCEPT ![y] = <<>>, ![x] = @ \o ring[y]]

LEMMA SpliceStep ==
  ASSUME RingsGood, NEW x \in live, NEW y \in live, x # y
  PROVE  /\ ring[y] = <<>> => /\ AtFront(y, x) = ring /\ AtBack(y, x) = ring
                              /\ list_splice(heap, y, x) = heap /\ list_splice_tail(heap, y, x) = heap
                              /\ list_splice_init(heap, y, x) = heap /\ list_splice_tail_init(heap, y, x) = heap
         /\ ring[y] # <<>> => /\ Good(list_splice(heap, y, x), AtFront(y, x), live \ {y})
                              /\ Good(list_splice_tail(heap, y, x), AtBack(y, x), live \ {y})
                              /\ Good(list_splice_init(heap, y, x), AtFront(y, x), live)
                              /\ Good(list_splice_tail_init(heap, y, x), AtBack(y, x), live)
<1>0. PICK p, q : p = AtFront(y, x) /\ q = AtBack(y, x)
  OBVIOUS
<1>1. /\ x \in ListHeads /\ y \in ListHeads /\ ring \in Rings /\ ring[x] \in Seq(Entries) /\ ring[y] \in Seq(Entries)
      /\ Len(ring[x]) \in Nat /\ heap.next[x] = At(x, ring[x], 1) /\ heap.prev[x] = At(x, ring[x], Len(ring[x]))
      /\ list_empty(heap, y) <=> ring[y] = <<>>
  <2>1. x \in ListHeads /\ y \in ListHeads /\ ring \in Rings
    BY DEF RingsGood, Good
  <2>2. /\ ring[x] \in Seq(Entries) /\ Len(ring[x]) \in Nat
        /\ heap.next[x] = At(x, ring[x], 1) /\ heap.prev[x] = At(x, ring[x], Len(ring[x]))
    BY EmptyIs DEF RingsGood
  <2>3. ring[y] \in Seq(Entries) /\ (list_empty(heap, y) <=> ring[y] = <<>>)
    BY EmptyIs DEF RingsGood
  <2>. QED
    BY <2>1, <2>2, <2>3
<1>2. PICK s, u, v, w : s = ring[x] /\ u = ring[y] /\ v = u \o s /\ w = s \o u
  OBVIOUS
<1>3. v \in Seq(Entries) /\ SplicedAt(s, 0, u, v) /\ w \in Seq(Entries) /\ SplicedAt(s, Len(s), u, w)
  BY <1>1, <1>2, ConcatSplices
<1>4. /\ p = [z \in ListHeads |-> IF z = x THEN v ELSE IF z = y THEN <<>> ELSE ring[z]]
      /\ q = [z \in ListHeads |-> IF z = x THEN w ELSE IF z = y THEN <<>> ELSE ring[z]]
  <2>1. ring = [z \in ListHeads |-> ring[z]]
    BY <1>1 DEF Rings
  <2>2. p = [z \in ListHeads |-> IF z = x THEN v ELSE IF z = y THEN <<>> ELSE ring[z]]
    BY <1>0, <1>1, <1>2, <2>1 DEF AtFront
  <2>3. q = [z \in ListHeads |-> IF z = x THEN w ELSE IF z = y THEN <<>> ELSE ring[z]]
    BY <1>0, <1>1, <1>2, <2>1 DEF AtBack
  <2>. QED
    BY <2>2, <2>3
<1>5. /\ p \in Rings /\ p[y] = <<>> /\ p[x] = v /\ q \in Rings /\ q[y] = <<>> /\ q[x] = w
      /\ \A z \in ListHeads : z # x /\ z # y => p[z] = ring[z] /\ q[z] = ring[z]
  <2>1. <<>> \in Seq(Entries) /\ \A z \in ListHeads : ring[z] \in Seq(Entries)
    BY <1>1 DEF Rings
  <2>2. p \in Rings /\ q \in Rings
    BY <1>3, <1>4, <2>1 DEF Rings
  <2>. QED
    BY <1>1, <1>4, <2>2
<1>6. CASE u = <<>>
  <2>1. v = s /\ w = s
    BY <1>1, <1>2, <1>6
  <2>2. p = ring /\ q = ring
    <3>1. ring = [z \in ListHeads |-> ring[z]]
      BY <1>1 DEF Rings
    <3>. QED
      BY <1>1, <1>2, <1>4, <1>6, <2>1, <3>1
  <2>. QED
    BY <1>0, <1>1, <1>2, <1>6, <2>2 DEF list_splice, list_splice_tail, list_splice_init, list_splice_tail_init
<1>7. CASE u # <<>>
  <2>1. PICK f, g : f = list_splice(heap, y, x) /\ g = list_splice_tail(heap, y, x)
    OBVIOUS
  <2>2. f = SpliceAt(heap, y, x, s, 0) /\ 0 \in 0..Len(s)
    <3>1. At(x, s, 0) = x /\ 0 + 1 = 1
      BY DEF At
    <3>. QED
      BY <1>1, <1>2, <1>7, <2>1, <3>1 DEF list_splice, SpliceAt
  <2>3. g = SpliceAt(heap, y, x, s, Len(s)) /\ Len(s) \in 0..Len(s)
    <3>1. At(x, s, Len(s) + 1) = x
      BY <1>1, <1>2 DEF At
    <3>. QED
      BY <1>1, <1>2, <1>7, <2>1, <3>1 DEF list_splice_tail, SpliceAt
  <2>4. Good(f, p, live \ {y})
    <3>1. ring[y] # <<>> /\ 0 \in 0..Len(ring[x]) /\ SplicedAt(ring[x], 0, ring[y], p[x])
      BY <1>2, <1>3, <1>5, <1>7, <2>2
    <3>2. f = SpliceAt(heap, y, x, ring[x], 0)
      BY <1>2, <2>2
    <3>. QED
      BY <1>5, <3>1, <3>2, SpliceGood DEF RingsGood
  <2>5. Good(g, q, live \ {y})
    <3>1. ring[y] # <<>> /\ Len(s) \in 0..Len(ring[x]) /\ SplicedAt(ring[x], Len(s), ring[y], q[x])
      BY <1>2, <1>3, <1>5, <1>7, <2>3
    <3>2. g = SpliceAt(heap, y, x, ring[x], Len(s))
      BY <1>2, <2>3
    <3>. QED
      BY <1>5, <3>1, <3>2, SpliceGood DEF RingsGood
  <2>6. PICK m : m = live \ {y}
    OBVIOUS
  <2>9. m \cup {y} = live /\ Good(f, p, m) /\ Good(g, q, m)
    BY <2>4, <2>5, <2>6
  <2>7. Good(INIT_LIST_HEAD(f, y), p, live)
    BY <1>1, <1>5, <2>9, InitGood
  <2>8. Good(INIT_LIST_HEAD(g, y), q, live)
    BY <1>1, <1>5, <2>9, InitGood
  <2>. QED
    BY <1>0, <1>1, <1>2, <1>7, <2>1, <2>4, <2>5, <2>7, <2>8 DEF list_splice_init, list_splice_tail_init
<1>. QED
  BY <1>2, <1>6, <1>7

-----------------------------------------------------------------------------
(* The safe loops. *)

\* After m entries of t, the loop over the list s has its last ones to go to, or
\* the first, last one first.
ToGo(s, link, t, m) ==
  \E w, d \in Nat :
    /\ Len(t) = m + w /\ Len(s) = d + w
    /\ \A i \in 1..w : t[m + i] = IF link = "next" THEN s[d + i] ELSE s[w + 1 - i]

Loops(r, l) ==
  [head : l, link : {"next", "prev"}, pos : Nodes, n : Nodes \cup {NULL},
   seen : Seq(Entries), start : Seq(Entries)]

\* Of the loop it: what it has seen, where it is, where it goes next, and that
\* the list still holds what it has not seen.
LoopGood(it, r, l) ==
  /\ it \in Loops(r, l)
  /\ Len(it.seen) <= Len(it.start)
  /\ \A i \in 1..Len(it.seen) : it.seen[i] = it.start[i]
  /\ ToGo(r[it.head], it.link, it.start, Len(it.seen))
  /\ it.pos = At(it.head, it.start, Len(it.seen) + 1)
  /\ Len(it.seen) < Len(it.start) => it.n = At(it.head, it.start, Len(it.seen) + 2)

ListInv ==
  /\ RingsGood
  /\ iter # NoIter => LoopGood(iter, ring, live)

\* So it is after one more entry, also when the body took that one off the list.
Passed(s, link, t, m) ==
  /\ ToGo(s, link, t, m + 1)
  /\ \E k \in 1..Len(s) : /\ s[k] = t[m + 1]
                         /\ \A u : DeletedAt(s, k, u) => ToGo(u, link, t, m + 1)

\* The node a loop goes to from an entry of its list is the one it should.
LEMMA NextToGo ==
  ASSUME NEW N, NEW head \in N, NEW s \in Seq(N \ {head}), NEW t \in Seq(N \ {head}),
         NEW h, Ring(h, head, s), NEW link \in {"next", "prev"}, NEW m \in Nat, m < Len(t),
         ToGo(s, link, t, m)
  PROVE  /\ Link(h, link, t[m + 1]) = At(head, t, m + 2)
         /\ At(head, t, m + 1) = t[m + 1] /\ t[m + 1] # head
         /\ Passed(s, link, t, m)
<1>1. PICK w, d \in Nat :
        /\ Len(t) = m + w /\ Len(s) = d + w
        /\ \A i \in 1..w : t[m + i] = IF link = "next" THEN s[d + i] ELSE s[w + 1 - i]
  BY DEF ToGo
<1>2. PICK v \in Nat : w = v + 1
  <2>1. w - 1 \in Nat /\ w = (w - 1) + 1
    BY <1>1
  <2>. QED
    BY <2>1
<1>3. At(head, t, m + 1) = t[m + 1] /\ t[m + 1] # head /\ m + 1 \in 1..Len(t)
  BY <1>1, <1>2 DEF At
<1>4. \A i \in 1..v : t[(m + 1) + i] = IF link = "next" THEN s[(d + 1) + i] ELSE s[v + 1 - i]
  <2>1. \A i \in 1..v : i + 1 \in 1..w /\ m + (i + 1) = (m + 1) + i /\ d + (i + 1) = (d + 1) + i /\ w + 1 - (i + 1) = v + 1 - i
    BY <1>2
  <2>2. ASSUME NEW i \in 1..v PROVE t[(m + 1) + i] = IF link = "next" THEN s[(d + 1) + i] ELSE s[v + 1 - i]
    <3>1. t[m + (i + 1)] = IF link = "next" THEN s[d + (i + 1)] ELSE s[w + 1 - (i + 1)]
      BY <1>1, <2>1
    <3>. QED
      BY <2>1, <3>1
  <2>. QED
    BY <2>2
<1>5. Len(t) = (m + 1) + v /\ Len(s) = (d + 1) + v /\ d + 1 \in Nat
  BY <1>1, <1>2
<1>6. ToGo(s, link, t, m + 1)
  BY <1>4, <1>5 DEF ToGo
<1>7. CASE link = "next"
  <2>1. t[m + 1] = s[d + 1] /\ d + 1 \in 1..Len(s) /\ d + 1 \in 0..Len(s) /\ (d + 1) + 1 = d + 2
    BY <1>1, <1>2, <1>7
  <2>2. h.next[s[d + 1]] = At(head, s, d + 2)
    <3>1. h.next[At(head, s, d + 1)] = At(head, s, (d + 1) + 1)
      BY <2>1 DEF Ring
    <3>2. At(head, s, d + 1) = s[d + 1]
      BY <2>1 DEF At
    <3>. QED
      BY <2>1, <3>1, <3>2
  <2>3. At(head, s, d + 2) = At(head, t, m + 2)
    <3>1. CASE v = 0
      BY <1>5, <3>1 DEF At
    <3>2. CASE v # 0
      <4>1. 1 \in 1..v /\ (m + 1) + 1 = m + 2 /\ (d + 1) + 1 = d + 2 /\ m + 2 \in 1..Len(t) /\ d + 2 \in 1..Len(s)
        BY <1>5, <3>2
      <4>2. t[m + 2] = s[d + 2]
        <5>1. t[(m + 1) + 1] = s[(d + 1) + 1]
          BY <1>4, <1>7, <4>1
        <5>. QED
          BY <4>1, <5>1
      <4>. QED
        BY <4>1, <4>2 DEF At
    <3>. QED
      BY <3>1, <3>2
  <2>4. ASSUME NEW u, DeletedAt(s, d + 1, u) PROVE ToGo(u, link, t, m + 1)
    <3>1. Len(u) = d + v /\ \A i \in 1..Len(u) : u[i] = IF i < d + 1 THEN s[i] ELSE s[i + 1]
      BY <1>5, <2>4 DEF DeletedAt
    <3>2. \A i \in 1..v : d + i \in 1..Len(u) /\ ~(d + i < d + 1) /\ (d + i) + 1 = (d + 1) + i
      BY <3>1
    <3>3. \A i \in 1..v : u[d + i] = s[(d + 1) + i]
      BY <3>1, <3>2
    <3>4. \A i \in 1..v : t[(m + 1) + i] = u[d + i]
      BY <1>4, <1>7, <3>3
    <3>. QED
      BY <1>5, <1>7, <3>1, <3>4 DEF ToGo
  <2>. QED
    BY <1>3, <1>6, <1>7, <2>1, <2>2, <2>3, <2>4 DEF Link, Passed
<1>8. CASE link = "prev"
  <2>1. t[m + 1] = s[w] /\ w \in 1..Len(s) /\ v \in 0..Len(s) /\ w + 1 - 1 = w
    <3>1. 1 \in 1..w /\ w + 1 - 1 = w /\ w \in 1..Len(s) /\ v \in 0..Len(s)
      BY <1>1, <1>2
    <3>. QED
      BY <1>1, <1>8, <3>1
  <2>2. h.prev[s[w]] = At(head, s, v)
    <3>1. h.prev[At(head, s, v + 1)] = At(head, s, v)
      BY <2>1 DEF Ring
    <3>2. At(head, s, w) = s[w]
      BY <2>1 DEF At
    <3>. QED
      BY <1>2, <3>1, <3>2
  <2>3. At(head, s, v) = At(head, t, m + 2)
    <3>1. CASE v = 0
      BY <1>5, <3>1 DEF At
    <3>2. CASE v # 0
      <4>1. 1 \in 1..v /\ (m + 1) + 1 = m + 2 /\ v + 1 - 1 = v /\ m + 2 \in 1..Len(t) /\ v \in 1..Len(s)
        BY <1>5, <3>2
      <4>2. t[m + 2] = s[v]
        BY <1>4, <1>8, <4>1
      <4>. QED
        BY <4>1, <4>2 DEF At
    <3>. QED
      BY <3>1, <3>2
  <2>4. ASSUME NEW u, DeletedAt(s, w, u) PROVE ToGo(u, link, t, m + 1)
    <3>1. Len(u) = d + v /\ \A i \in 1..Len(u) : u[i] = IF i < w THEN s[i] ELSE s[i + 1]
      BY <1>1, <1>2, <2>4 DEF DeletedAt
    <3>2. \A i \in 1..v : v + 1 - i \in 1..Len(u) /\ v + 1 - i < w
      BY <1>2, <3>1
    <3>3. \A i \in 1..v : t[(m + 1) + i] = u[v + 1 - i]
      BY <1>4, <1>8, <3>1, <3>2
    <3>. QED
      BY <1>5, <1>8, <3>1, <3>3 DEF ToGo
  <2>. QED
    BY <1>3, <1>6, <1>8, <2>1, <2>2, <2>3, <2>4 DEF Link, Passed
<1>. QED
  BY <1>7, <1>8

\* The lists of a loop, and where it is.
LEMMA LoopIs ==
  ASSUME NEW h, NEW r, NEW l, Good(h, r, l), NEW it, LoopGood(it, r, l), it.pos # it.head
  PROVE  /\ it.head \in l /\ it.head \in ListHeads /\ it.head \in Nodes
         /\ r[it.head] \in Seq(Nodes \ {it.head}) /\ it.start \in Seq(Nodes \ {it.head}) /\ Ring(h, it.head, r[it.head])
         /\ it.link \in {"next", "prev"}
         /\ it.seen \in Seq(Entries) /\ it.start \in Seq(Entries) /\ Len(it.seen) \in Nat /\ Len(it.start) \in Nat
         /\ Len(it.seen) < Len(it.start)
         /\ it.pos = it.start[Len(it.seen) + 1] /\ it.pos \in Entries
         /\ it.n = At(it.head, it.start, Len(it.seen) + 2)
<1>1. it.head \in l /\ it.head \in ListHeads /\ it.link \in {"next", "prev"} /\ it.seen \in Seq(Entries) /\ it.start \in Seq(Entries)
  BY DEF LoopGood, Loops, Good
<1>2. it.head \in Nodes /\ r[it.head] \in Seq(Nodes \ {it.head}) /\ Ring(h, it.head, r[it.head])
  BY <1>1, GoodLists
<1>3. Entries \subseteq Nodes \ {it.head}
  BY <1>1, ListsAssumption DEF Nodes
<1>4. it.start \in Seq(Nodes \ {it.head}) /\ Len(it.seen) \in Nat /\ Len(it.start) \in Nat
  BY <1>1, <1>3
<1>5. it.pos = At(it.head, it.start, Len(it.seen) + 1)
  BY DEF LoopGood
<1>6. Len(it.seen) + 1 \in 1..Len(it.start)
  BY <1>5 DEF At
<1>7. Len(it.seen) < Len(it.start)
  BY <1>4, <1>6
<1>8. it.pos = it.start[Len(it.seen) + 1] /\ it.pos \in Entries
  BY <1>1, <1>5, <1>6 DEF At
<1>9. it.n = At(it.head, it.start, Len(it.seen) + 2)
  BY <1>7 DEF LoopGood
<1>. QED
  BY <1>1, <1>2, <1>4, <1>7, <1>8, <1>9

\* The entry after the one the loop is at, taken out of both.
LEMMA ResetToGo ==
  ASSUME NEW S, NEW s \in Seq(S), NEW t \in Seq(S), NEW m \in Nat, m + 1 < Len(t),
         ToGo(s, "next", t, m)
  PROVE  \E k \in 1..Len(s) :
           /\ s[k] = t[m + 2]
           /\ \A u, v : DeletedAt(s, k, u) /\ DeletedAt(t, m + 2, v) => ToGo(u, "next", v, m)
<1>1. PICK w, d \in Nat : Len(t) = m + w /\ Len(s) = d + w /\ \A i \in 1..w : t[m + i] = s[d + i]
  BY DEF ToGo
<1>2. PICK z \in Nat : w = z + 1
  <2>1. w - 1 \in Nat /\ w = (w - 1) + 1
    BY <1>1
  <2>. QED
    BY <2>1
<1>3. 2 \in 1..w /\ d + 2 \in 1..Len(s) /\ z \in Nat
  BY <1>1
<1>4. s[d + 2] = t[m + 2]
  BY <1>1, <1>3
<1>5. ASSUME NEW u, NEW v, DeletedAt(s, d + 2, u), DeletedAt(t, m + 2, v) PROVE ToGo(u, "next", v, m)
  <2>1. /\ Len(u) = d + z /\ \A i \in 1..Len(u) : u[i] = IF i < d + 2 THEN s[i] ELSE s[i + 1]
        /\ Len(v) = m + z /\ \A i \in 1..Len(v) : v[i] = IF i < m + 2 THEN t[i] ELSE t[i + 1]
    BY <1>1, <1>2, <1>5 DEF DeletedAt
  <2>2. ASSUME NEW i \in 1..z PROVE v[m + i] = u[d + i]
    <3>1. m + i \in 1..Len(v) /\ d + i \in 1..Len(u) /\ i \in 1..w /\ i + 1 \in 1..w
      BY <1>2, <2>1
    <3>2. CASE i = 1
      <4>1. m + i < m + 2 /\ d + i < d + 2
        BY <3>2
      <4>2. v[m + i] = t[m + i] /\ u[d + i] = s[d + i]
        BY <2>1, <3>1, <4>1
      <4>. QED
        BY <1>1, <3>1, <4>2
    <3>3. CASE i # 1
      <4>1. ~(m + i < m + 2) /\ ~(d + i < d + 2) /\ (m + i) + 1 = m + (i + 1) /\ (d + i) + 1 = d + (i + 1)
        BY <3>3
      <4>2. v[m + i] = t[(m + i) + 1] /\ u[d + i] = s[(d + i) + 1]
        BY <2>1, <3>1, <4>1
      <4>3. t[m + (i + 1)] = s[d + (i + 1)]
        BY <1>1, <3>1
      <4>. QED
        BY <4>1, <4>2, <4>3
    <3>. QED
      BY <3>2, <3>3
  <2>. QED
    BY <2>1, <2>2 DEF ToGo
<1>. QED
  BY <1>3, <1>4, <1>5

\* A loop that starts at the first node of what it has to visit.
LEMMA LoopStarts ==
  ASSUME RingsGood, NEW h \in live, NEW link \in {"next", "prev"}, NEW pos, NEW start \in Seq(Entries),
         ToGo(ring[h], link, start, 0), pos = At(h, start, 1), loop(h, link, pos, start)
  PROVE  ListInv'
<1>1. RingsGood' /\ heap' = heap /\ ring' = ring /\ live' = live
  BY DEF loop, RingsGood
<1>2. /\ h \in ListHeads /\ h \in Nodes /\ heap \in Heap(Nodes) /\ Entries \subseteq Nodes \ {h}
  BY ListsAssumption DEF RingsGood, Good, Nodes
<1>3. ring[h] \in Seq(Nodes \ {h}) /\ Ring(heap, h, ring[h]) /\ start \in Seq(Nodes \ {h})
  BY <1>2, GoodLists DEF RingsGood
<1>4. PICK n : n = Link(heap, link, pos)
  OBVIOUS
<1>5. PICK it : it = [head |-> h, link |-> link, pos |-> pos, n |-> n, seen |-> <<>>, start |-> start]
  OBVIOUS
<1>6. iter' = it
  BY <1>4, <1>5 DEF loop
<1>7. pos \in Nodes
  BY <1>2, <1>3, AtNodes
<1>8. n \in Nodes \cup {NULL}
  BY <1>2, <1>4, <1>7 DEF Link, Heap
<1>9. 0 < Len(start) => n = At(h, start, 2)
  <2>1. ASSUME 0 < Len(start) PROVE n = At(h, start, 2)
    <3>1. 0 \in Nat /\ 0 + 1 = 1 /\ 0 + 2 = 2
      OBVIOUS
    <3>2. PICK m \in Nat : m = 0 /\ m + 1 = 1 /\ m + 2 = 2
      BY <3>1
    <3>3. Link(heap, link, start[m + 1]) = At(h, start, m + 2) /\ At(h, start, m + 1) = start[m + 1]
      BY <1>2, <1>3, <2>1, <3>2, NextToGo
    <3>. QED
      BY <1>4, <3>2, <3>3
  <2>. QED
    BY <2>1
<1>10. it \in Loops(ring, live) /\ Len(it.seen) = 0
  BY <1>5, <1>7, <1>8 DEF Loops
<1>11. LoopGood(it, ring, live)
  <2>1. /\ it.seen = <<>> /\ it.start = start /\ it.head = h /\ it.link = link /\ it.pos = pos /\ it.n = n
    BY <1>5
  <2>2. Len(start) \in Nat /\ 0 + 1 = 1 /\ 0 + 2 = 2
    OBVIOUS
  <2>. QED
    BY <1>9, <1>10, <2>1, <2>2 DEF LoopGood
<1>. QED
  BY <1>1, <1>6, <1>11 DEF ListInv

\* The loops over a whole list.
LEMMA EachStarts ==
  ASSUME RingsGood, NEW h \in live
  PROVE  /\ list_for_each_entry_safe(h) => ListInv'
         /\ list_for_each_entry_safe_reverse(h) => ListInv'
<1>1. PICK s \in Seq(Entries) : s = ring[h]
  BY DEF RingsGood, Good, Rings
<1>2. Len(s) \in Nat /\ heap.next[h] = At(h, s, 1) /\ heap.prev[h] = At(h, s, Len(s))
  BY <1>1, EmptyIs DEF RingsGood
<1>3. ToGo(s, "next", s, 0)
  BY <1>2 DEF ToGo
<1>4. PICK t : t = Reverse(s)
  OBVIOUS
<1>5. t \in Seq(Entries) /\ Len(t) = Len(s) /\ \A i \in 1..Len(s) : t[i] = s[Len(s) + 1 - i]
  <2>1. t = [i \in 1..Len(s) |-> s[(Len(s) - i) + 1]]
    BY <1>4 DEF Reverse
  <2>2. \A i \in 1..Len(s) : (Len(s) - i) + 1 \in 1..Len(s) /\ (Len(s) - i) + 1 = Len(s) + 1 - i
    BY <1>2
  <2>. QED
    BY <1>2, <2>1, <2>2
<1>6. ToGo(s, "prev", t, 0)
  <2>1. \A i \in 1..Len(s) : t[0 + i] = s[Len(s) + 1 - i]
    BY <1>2, <1>5
  <2>2. Len(t) = 0 + Len(s) /\ Len(s) = 0 + Len(s) /\ 0 \in Nat
    BY <1>2, <1>5
  <2>. QED
    BY <1>2, <2>1, <2>2 DEF ToGo
<1>7. At(h, s, Len(s)) = At(h, t, 1)
  <2>1. CASE Len(s) = 0
    BY <1>5, <2>1 DEF At
  <2>2. CASE Len(s) # 0
    <3>1. 1 \in 1..Len(s) /\ Len(s) \in 1..Len(s) /\ Len(s) + 1 - 1 = Len(s)
      BY <1>2, <2>2
    <3>. QED
      BY <1>5, <3>1 DEF At
  <2>. QED
    BY <2>1, <2>2
<1>8. list_for_each_entry_safe(h) => ListInv'
  BY <1>1, <1>2, <1>3, LoopStarts DEF list_for_each_entry_safe
<1>9. list_for_each_entry_safe_reverse(h) => ListInv'
  BY <1>1, <1>2, <1>4, <1>5, <1>6, <1>7, LoopStarts DEF list_for_each_entry_safe_reverse
<1>. QED
  BY <1>8, <1>9

\* The loops that start at an entry, or after it.
LEMMA FromStarts ==
  ASSUME RingsGood, NEW h \in live, NEW e
  PROVE  /\ list_for_each_entry_safe_from(h, e) => ListInv'
         /\ list_for_each_entry_safe_continue(h, e) => ListInv'
<1> SUFFICES ASSUME e \in On(h)
             PROVE  /\ list_for_each_entry_safe_from(h, e) => ListInv'
                    /\ list_for_each_entry_safe_continue(h, e) => ListInv'
  BY DEF list_for_each_entry_safe_from, list_for_each_entry_safe_continue
<1>1. h \in ListHeads
  BY DEF RingsGood, Good
<1>2. PICK s \in Seq(Entries) : s = ring[h]
  BY <1>1 DEF RingsGood, Good, Rings
<1>3. PICK k : k = Place(h, e)
  OBVIOUS
<1>4. k \in 1..Len(s) /\ s[k] = e
  BY <1>1, <1>2, <1>3, OnIs DEF Is
<1>5. PICK d, w \in Nat : k = d + 1 /\ Len(s) = d + 1 + w
  <2>1. k - 1 \in Nat /\ Len(s) - k \in Nat /\ k = (k - 1) + 1 /\ Len(s) = (k - 1) + 1 + (Len(s) - k)
    BY <1>4
  <2>. QED
    BY <2>1
<1>6. PICK t, u : t = SubSeq(s, k, Len(s)) /\ u = SubSeq(s, k + 1, Len(s))
  OBVIOUS
<1>7. /\ t \in Seq(Entries) /\ Len(t) = w + 1 /\ \A i \in 1..(w + 1) : t[i] = s[d + i]
  <2>1. k \in 1..(Len(s) + 1) /\ Len(s) \in (k - 1)..Len(s) /\ Len(s) - k + 1 = w + 1 /\ k - 1 = d
    BY <1>4, <1>5
  <2>2. t \in Seq(Entries) /\ Len(t) = Len(s) - k + 1 /\ \A i \in 1..(Len(s) - k + 1) : t[i] = s[k - 1 + i]
    BY <1>6, <2>1, Stretch
  <2>. QED
    BY <2>1, <2>2
<1>8. /\ u \in Seq(Entries) /\ Len(u) = w /\ \A i \in 1..w : u[i] = s[(d + 1) + i]
  <2>1. k + 1 \in 1..(Len(s) + 1) /\ Len(s) \in ((k + 1) - 1)..Len(s) /\ Len(s) - (k + 1) + 1 = w /\ (k + 1) - 1 = d + 1
    BY <1>4, <1>5
  <2>2. PICK j : j = k + 1
    OBVIOUS
  <2>3. u \in Seq(Entries) /\ Len(u) = Len(s) - j + 1 /\ \A i \in 1..(Len(s) - j + 1) : u[i] = s[j - 1 + i]
    BY <1>6, <2>1, <2>2, Stretch
  <2>. QED
    BY <2>1, <2>2, <2>3
<1>9. ToGo(s, "next", t, 0)
  <2>1. Len(t) = 0 + (w + 1) /\ Len(s) = d + (w + 1) /\ \A i \in 1..(w + 1) : t[0 + i] = s[d + i]
    BY <1>5, <1>7
  <2>2. w + 1 \in Nat /\ d \in Nat
    BY <1>5
  <2>. QED
    BY <2>1, <2>2 DEF ToGo
<1>10. ToGo(s, "next", u, 0)
  <2>1. Len(u) = 0 + w /\ Len(s) = (d + 1) + w /\ \A i \in 1..w : u[0 + i] = s[(d + 1) + i]
    BY <1>5, <1>8
  <2>2. d + 1 \in Nat /\ w \in Nat
    BY <1>5
  <2>. QED
    BY <2>1, <2>2 DEF ToGo
<1>11. e = At(h, t, 1)
  <2>1. 1 \in 1..(w + 1)
    BY <1>5
  <2>. QED
    BY <1>4, <1>5, <1>7, <2>1 DEF At
<1>12. heap.next[e] = At(h, u, 1)
  <2>1. Ring(heap, h, s)
    BY <1>1, <1>2, GoodLists DEF RingsGood
  <2>2. k \in 0..Len(s) /\ At(h, s, k) = e
    BY <1>4 DEF At
  <2>3. heap.next[e] = At(h, s, k + 1)
    BY <2>1, <2>2 DEF Ring
  <2>4. At(h, s, k + 1) = At(h, u, 1)
    <3>1. CASE w = 0
      BY <1>5, <1>8, <3>1 DEF At
    <3>2. CASE w # 0
      <4>1. 1 \in 1..w /\ k + 1 \in 1..Len(s) /\ (d + 1) + 1 = k + 1
        BY <1>5, <3>2
      <4>. QED
        BY <1>8, <4>1 DEF At
    <3>. QED
      BY <3>1, <3>2
  <2>. QED
    BY <2>3, <2>4
<1>13. list_for_each_entry_safe_from(h, e) => ListInv'
  BY <1>2, <1>3, <1>6, <1>7, <1>9, <1>11, LoopStarts DEF list_for_each_entry_safe_from
<1>14. list_for_each_entry_safe_continue(h, e) => ListInv'
  BY <1>2, <1>3, <1>6, <1>8, <1>10, <1>12, LoopStarts DEF list_for_each_entry_safe_continue
<1>. QED
  BY <1>13, <1>14

LoopOn(it, g, q, l) ==
  LoopGood([it EXCEPT !.pos = it.n, !.n = Link(g, it.link, it.n), !.seen = Append(@, it.pos)], q, l)

\* pos = n, n = n->next: after the body, when the list still holds the rest.
LEMMA LoopAdvances ==
  ASSUME NEW h, NEW r, NEW l, Good(h, r, l), NEW it, LoopGood(it, r, l), it.pos # it.head,
         NEW g, NEW q, Good(g, q, l), ToGo(q[it.head], it.link, it.start, Len(it.seen) + 1)
  PROVE  LoopOn(it, g, q, l)
<1>0. PICK jt : jt = [it EXCEPT !.pos = it.n, !.n = Link(g, it.link, it.n), !.seen = Append(@, it.pos)]
  OBVIOUS
<1>1. PICK x, m, t, s : x = it.head /\ m = Len(it.seen) /\ t = it.start /\ s = it.seen
  OBVIOUS
<1>2. /\ x \in l /\ x \in ListHeads /\ x \in Nodes /\ it.link \in {"next", "prev"}
      /\ s \in Seq(Entries) /\ t \in Seq(Entries) /\ t \in Seq(Nodes \ {x}) /\ m \in Nat /\ Len(t) \in Nat
      /\ m < Len(t) /\ m = Len(s) /\ it.pos = t[m + 1] /\ it.pos \in Entries /\ it.n = At(x, t, m + 2)
  BY <1>1, LoopIs
<1>3. it \in Loops(r, l) /\ \A i \in 1..m : s[i] = t[i]
  BY <1>1 DEF LoopGood
<1>4. PICK v, y : v = Append(s, it.pos) /\ y = Link(g, it.link, it.n)
  OBVIOUS
<1>5. v \in Seq(Entries) /\ Len(v) = m + 1 /\ (\A i \in 1..m : v[i] = s[i]) /\ v[m + 1] = it.pos
  BY <1>2, <1>4, AppendProperties
<1>6. it.n \in Nodes
  <2>1. m + 2 \in Int
    BY <1>2
  <2>2. At(x, t, m + 2) \in Nodes
    BY <1>2, <2>1, AtNodes
  <2>. QED
    BY <1>2, <2>2
<1>7. y \in Nodes \cup {NULL}
  BY <1>4, <1>6 DEF Link, Good, Heap
<1>8. /\ jt.head = x /\ jt.link = it.link /\ jt.pos = it.n /\ jt.n = y /\ jt.seen = v /\ jt.start = t
      /\ jt \in Loops(q, l)
  BY <1>0, <1>1, <1>2, <1>3, <1>4, <1>5, <1>6, <1>7 DEF Loops
<1>9. \A i \in 1..(m + 1) : v[i] = t[i]
  BY <1>2, <1>3, <1>5
<1>10. m + 1 < Len(t) => y = At(x, t, m + 3)
  <2>1. ASSUME m + 1 < Len(t) PROVE y = At(x, t, m + 3)
    <3>1. PICK c \in Nat : c = m + 1 /\ c + 1 = m + 2 /\ c + 2 = m + 3
      BY <1>2
    <3>2. q[x] \in Seq(Nodes \ {x}) /\ Ring(g, x, q[x])
      BY <1>2, GoodLists
    <3>3. ToGo(q[x], it.link, t, c) /\ c < Len(t)
      BY <1>1, <2>1, <3>1
    <3>4. Link(g, it.link, t[c + 1]) = At(x, t, c + 2) /\ At(x, t, c + 1) = t[c + 1]
      BY <1>2, <3>2, <3>3, NextToGo
    <3>. QED
      BY <1>2, <1>4, <3>1, <3>4
  <2>. QED
    BY <2>1
<1>11. m + 1 <= Len(t) /\ (m + 1) + 1 = m + 2 /\ (m + 1) + 2 = m + 3
  BY <1>2
<1>12. LoopGood(jt, q, l)
  BY <1>1, <1>2, <1>5, <1>8, <1>9, <1>10, <1>11 DEF LoopGood
<1>. QED
  BY <1>0, <1>12 DEF LoopOn

\* Where the loop is on its list, and that the rest stays without that entry.
LEMMA LoopAt ==
  ASSUME ListInv, InLoop
  PROVE  /\ LoopGood(iter, ring, live) /\ iter.pos # iter.head /\ RingsGood /\ iter.head \in ListHeads
         /\ ToGo(ring[iter.head], iter.link, iter.start, Len(iter.seen) + 1)
         /\ \E k : /\ Is(iter.pos, iter.head, k)
                   /\ ToGo(Removed(iter.pos)[iter.head], iter.link, iter.start, Len(iter.seen) + 1)
<1>1. LoopGood(iter, ring, live) /\ iter.pos # iter.head /\ RingsGood
  BY DEF ListInv, InLoop
<1>2. PICK x, m, t : x = iter.head /\ m = Len(iter.seen) /\ t = iter.start
  OBVIOUS
<1>3. /\ x \in live /\ x \in ListHeads /\ x \in Nodes /\ ring[x] \in Seq(Nodes \ {x}) /\ t \in Seq(Nodes \ {x})
      /\ Ring(heap, x, ring[x]) /\ iter.link \in {"next", "prev"} /\ m \in Nat /\ m < Len(t)
      /\ iter.pos = t[m + 1]
  BY <1>1, <1>2, LoopIs DEF RingsGood
<1>4. ToGo(ring[x], iter.link, t, m)
  BY <1>1, <1>2 DEF LoopGood
<1>5. Passed(ring[x], iter.link, t, m)
  BY <1>3, <1>4, NextToGo
<1>6. PICK k \in 1..Len(ring[x]) : /\ ring[x][k] = t[m + 1]
                                   /\ \A u : DeletedAt(ring[x], k, u) => ToGo(u, iter.link, t, m + 1)
  BY <1>5 DEF Passed
<1>7. Is(iter.pos, x, k)
  BY <1>3, <1>6 DEF Is
<1>8. DeletedAt(ring[x], k, Removed(iter.pos)[x])
  BY <1>1, <1>7, RemovedIs
<1>. QED
  BY <1>1, <1>2, <1>3, <1>5, <1>6, <1>7, <1>8 DEF Passed

\* The bodies that keep, delete or move away their entry.
LEMMA BodySteps ==
  ASSUME ListInv
  PROVE  /\ body_keep => ListInv'
         /\ body_delete => ListInv'
         /\ \A h \in live : body_move(h) => ListInv'
<1> SUFFICES ASSUME InLoop
             PROVE  /\ body_keep => ListInv'
                    /\ body_delete => ListInv'
                    /\ \A h \in live : body_move(h) => ListInv'
  BY DEF body_keep, body_delete, body_move
<1>1. /\ LoopGood(iter, ring, live) /\ iter.pos # iter.head /\ RingsGood /\ iter.head \in ListHeads
      /\ ToGo(ring[iter.head], iter.link, iter.start, Len(iter.seen) + 1)
  BY LoopAt
<1>2. PICK k : /\ Is(iter.pos, iter.head, k)
               /\ ToGo(Removed(iter.pos)[iter.head], iter.link, iter.start, Len(iter.seen) + 1)
  BY LoopAt
<1>3. PICK e, p : e = iter.pos /\ p = Removed(iter.pos)
  OBVIOUS
<1>4. ASSUME NEW g, NEW q, Good(g, q, live), heap' = g, ring' = q, live' = live, advance(g),
             ToGo(q[iter.head], iter.link, iter.start, Len(iter.seen) + 1)
      PROVE  ListInv'
  <2>1. LoopOn(iter, g, q, live)
    BY <1>1, <1>4, LoopAdvances DEF RingsGood
  <2>2. iter' = [iter EXCEPT !.pos = iter.n, !.n = Link(g, iter.link, iter.n), !.seen = Append(@, iter.pos)]
    BY <1>4 DEF advance
  <2>3. LoopGood(iter', q, live)
    BY <2>1, <2>2 DEF LoopOn
  <2>. QED
    BY <1>4, <2>3 DEF ListInv, RingsGood
<1>5. body_keep => ListInv'
  BY <1>1, <1>4 DEF body_keep, RingsGood
<1>6. body_delete => ListInv'
  <2>1. ASSUME body_delete PROVE ListInv'
    <3>1. PICK g : g = list_del(heap, e)
      OBVIOUS
    <3>2. Good(g, p, live)
      BY <1>1, <1>2, <1>3, <3>1, DeleteStep
    <3>3. heap' = g /\ ring' = p /\ live' = live /\ advance(g)
      BY <1>3, <2>1, <3>1 DEF body_delete
    <3>. QED
      BY <1>2, <1>3, <1>4, <3>2, <3>3
  <2>. QED
    BY <2>1
<1>7. ASSUME NEW h \in live, body_move(h) PROVE ListInv'
  <2>1. PICK g, q : g = list_move_tail(heap, e, h) /\ q = [p EXCEPT ![h] = Append(@, e)]
    OBVIOUS
  <2>2. Good(g, q, live)
    BY <1>1, <1>2, <1>3, <2>1, MoveStep
  <2>3. heap' = g /\ ring' = q /\ live' = live /\ advance(g) /\ h # iter.head
    BY <1>3, <1>7, <2>1 DEF body_move
  <2>4. q[iter.head] = p[iter.head]
    <3>1. p \in Rings
      BY <1>1, <1>2, <1>3, RemovedIs
    <3>. QED
      BY <1>1, <2>1, <2>3, <3>1 DEF Rings
  <2>. QED
    BY <1>2, <1>3, <1>4, <2>2, <2>3, <2>4
<1>. QED
  BY <1>5, <1>6, <1>7

\* The body that deletes the entry after its own, and list_safe_reset_next.
LEMMA ResetStep ==
  ASSUME ListInv, list_safe_reset_next
  PROVE  ListInv'
<1>1. InLoop /\ LoopGood(iter, ring, live) /\ iter.pos # iter.head /\ RingsGood /\ iter.link = "next" /\ iter.n # iter.head
  BY LoopAt DEF list_safe_reset_next
<1>2. PICK x, m, t, s : x = iter.head /\ m = Len(iter.seen) /\ t = iter.start /\ s = iter.seen
  OBVIOUS
<1>3. /\ x \in live /\ x \in ListHeads /\ x \in Nodes /\ ring[x] \in Seq(Nodes \ {x}) /\ t \in Seq(Nodes \ {x})
      /\ m \in Nat /\ m < Len(t) /\ Len(t) \in Nat /\ t \in Seq(Entries)
      /\ iter.pos = t[m + 1] /\ iter.pos \in Entries /\ iter.n = At(x, t, m + 2)
  BY <1>1, <1>2, LoopIs DEF RingsGood
<1>4. /\ ToGo(ring[x], "next", t, m) /\ iter \in Loops(ring, live) /\ \A i \in 1..m : s[i] = t[i]
  BY <1>1, <1>2 DEF LoopGood
<1>5. m + 2 \in 1..Len(t) /\ m + 1 < Len(t) /\ iter.n = t[m + 2] /\ m + 1 \in Nat
  <2>1. m + 2 \in 1..Len(t)
    BY <1>1, <1>2, <1>3 DEF At
  <2>. QED
    BY <1>3, <2>1 DEF At
<1>6. PICK k \in 1..Len(ring[x]) :
        /\ ring[x][k] = t[m + 2]
        /\ \A u, v : DeletedAt(ring[x], k, u) /\ DeletedAt(t, m + 2, v) => ToGo(u, "next", v, m)
  BY <1>3, <1>4, <1>5, ResetToGo
<1>7. PICK e, q, g : e = iter.n /\ q = Removed(e) /\ g = list_del(heap, e)
  OBVIOUS
<1>8. Is(e, x, k)
  BY <1>3, <1>5, <1>6, <1>7 DEF Is
<1>9. Good(g, q, live) /\ DeletedAt(ring[x], k, q[x])
  BY <1>1, <1>7, <1>8, DeleteStep, RemovedIs
<1>10. PICK v : v = RemoveAt(t, m + 2)
  OBVIOUS
<1>11. v \in Seq(Entries) /\ DeletedAt(t, m + 2, v)
  BY <1>3, <1>5, <1>10, RemoveAtDeletes
<1>12. /\ Len(v) = Len(t) - 1 /\ m < Len(v) /\ \A i \in 1..(m + 1) : v[i] = t[i] /\ i \in 1..Len(v)
  BY <1>3, <1>5, <1>11 DEF DeletedAt
<1>13. ToGo(q[x], "next", v, m)
  BY <1>6, <1>9, <1>11
<1>14. q[x] \in Seq(Nodes \ {x}) /\ Ring(g, x, q[x]) /\ v \in Seq(Nodes \ {x})
  <2>1. Entries \subseteq Nodes \ {x}
    BY <1>3, ListsAssumption DEF Nodes
  <2>2. q[x] \in Seq(Nodes \ {x}) /\ Ring(g, x, q[x])
    BY <1>3, <1>9, GoodLists
  <2>. QED
    BY <1>11, <2>1, <2>2
<1>15. Link(g, "next", v[m + 1]) = At(x, v, m + 2) /\ At(x, v, m + 1) = v[m + 1]
  <2>1. PICK link \in {"next", "prev"} : link = "next"
    OBVIOUS
  <2>2. m \in Nat /\ m < Len(v) /\ ToGo(q[x], link, v, m) /\ x \in Nodes
    BY <1>3, <1>12, <1>13, <2>1
  <2>3. Link(g, link, v[m + 1]) = At(x, v, m + 2) /\ At(x, v, m + 1) = v[m + 1]
    BY <1>14, <2>2, NextToGo
  <2>. QED
    BY <2>1, <2>3
<1>16. PICK y : y = g.next[iter.pos]
  OBVIOUS
<1>17. y = At(x, v, m + 2) /\ iter.pos = At(x, v, m + 1)
  <2>1. m + 1 \in 1..(m + 1)
    BY <1>3
  <2>2. v[m + 1] = iter.pos
    BY <1>3, <1>12, <2>1
  <2>. QED
    BY <1>15, <1>16, <2>2 DEF Link
<1>18. y \in Nodes
  <2>1. m + 2 \in Int /\ x \in Nodes
    BY <1>3
  <2>2. At(x, v, m + 2) \in Nodes
    BY <1>14, <2>1, AtNodes
  <2>. QED
    BY <1>17, <2>2
<1>19. PICK jt : jt = [iter EXCEPT !.n = y, !.start = v]
  OBVIOUS
<1>20. heap' = g /\ ring' = q /\ live' = live /\ iter' = jt
  BY <1>2, <1>7, <1>10, <1>16, <1>19 DEF list_safe_reset_next
<1>21. /\ jt.head = x /\ jt.link = "next" /\ jt.pos = iter.pos /\ jt.n = y /\ jt.seen = s /\ jt.start = v
       /\ jt \in Loops(q, live)
  BY <1>1, <1>2, <1>3, <1>4, <1>11, <1>18, <1>19 DEF Loops
<1>22. \A i \in 1..m : i \in 1..(m + 1) /\ s[i] = v[i]
  <2>1. ASSUME NEW i \in 1..m PROVE i \in 1..(m + 1) /\ s[i] = v[i]
    <3>1. i \in 1..(m + 1)
      BY <1>3
    <3>2. s[i] = t[i] /\ v[i] = t[i]
      BY <1>4, <1>12, <3>1
    <3>. QED
      BY <3>1, <3>2
  <2>. QED
    BY <2>1
<1>23. LoopGood(jt, q, live)
  <2>1. Len(s) = m /\ Len(s) <= Len(v)
    BY <1>2, <1>3, <1>12
  <2>. QED
    BY <1>13, <1>17, <1>21, <1>22, <2>1 DEF LoopGood
<1>. QED
  BY <1>9, <1>20, <1>23 DEF ListInv, RingsGood

-----------------------------------------------------------------------------
(* Every step. *)

\* list_cut_position: also of an empty list, and with the head as the entry.
LEMMA CutPosition ==
  ASSUME RingsGood, NEW x \in live, NEW y \in ListHeads, x # y, ring[y] = <<>>, NEW e,
         e = x \/ e \in On(x),
         NEW m, m = IF e = x THEN 0 ELSE Place(x, e)
  PROVE  Good(list_cut_position(heap, y, x, e), Cut(y, x, m), IF ring[x] = <<>> THEN live ELSE live \cup {y})
<1>1. /\ x \in ListHeads /\ ring[x] \in Seq(Entries) /\ Len(ring[x]) \in Nat
      /\ heap.next[x] = At(x, ring[x], 1)
      /\ list_empty(heap, x) <=> ring[x] = <<>>
      /\ list_is_singular(heap, x) <=> Len(ring[x]) = 1
  BY EmptyIs DEF RingsGood
<1>2. e \in On(x) => Place(x, e) \in 1..Len(ring[x]) /\ ring[x][Place(x, e)] = e /\ e \in Entries
  BY <1>1, OnIs DEF Is
<1>3. e \in Entries => e # x
  BY <1>1, ListsAssumption
<1>4. CASE ring[x] = <<>>
  <2>1. m = 0 /\ 0 \in 0..Len(ring[x])
    BY <1>1, <1>2, <1>4
  <2>2. Cut(y, x, m) = ring
    BY <2>1, CutIs
  <2>3. list_cut_position(heap, y, x, e) = heap
    BY <1>1, <1>4 DEF list_cut_position
  <2>. QED
    BY <1>4, <2>2, <2>3 DEF RingsGood
<1>5. CASE ring[x] # <<>> /\ e = x
  <2>1. m = 0 /\ 0 \in 0..Len(ring[x])
    BY <1>1, <1>5
  <2>2. Cut(y, x, m) = ring
    BY <2>1, CutIs
  <2>3. list_cut_position(heap, y, x, e) = INIT_LIST_HEAD(heap, y)
    BY <1>1, <1>5 DEF list_cut_position
  <2>. QED
    BY <1>5, <2>2, <2>3, InitGood DEF RingsGood
<1>6. CASE ring[x] # <<>> /\ e # x
  <2>1. m \in 1..Len(ring[x]) /\ ring[x][m] = e
    BY <1>2, <1>6
  <2>2. Len(ring[x]) = 1 => heap.next[x] = e
    BY <1>1, <2>1 DEF At
  <2>3. list_cut_position(heap, y, x, e) = __list_cut_position(heap, y, x, e)
    BY <1>1, <1>6, <2>2 DEF list_cut_position
  <2>4. Good(__list_cut_position(heap, y, x, e), Cut(y, x, m), live \cup {y})
    BY <2>1, CutStep
  <2>. QED
    BY <1>6, <2>3, <2>4
<1>. QED
  BY <1>4, <1>5, <1>6

\* list_cut_before: also with the head as the entry, or the first entry.
LEMMA CutBefore ==
  ASSUME RingsGood, NEW x \in live, NEW y \in ListHeads, x # y, ring[y] = <<>>, NEW e,
         e = x \/ e \in On(x),
         NEW m, m = IF e = x THEN Len(ring[x]) ELSE Place(x, e) - 1
  PROVE  Good(list_cut_before(heap, y, x, e), Cut(y, x, m), live \cup {y})
<1>1. /\ x \in ListHeads /\ ring[x] \in Seq(Entries) /\ Len(ring[x]) \in Nat
      /\ heap.next[x] = At(x, ring[x], 1)
  BY EmptyIs DEF RingsGood
<1>2. e \in On(x) => Place(x, e) \in 1..Len(ring[x]) /\ ring[x][Place(x, e)] = e
  BY <1>1, OnIs DEF Is
<1>3. m \in 0..Len(ring[x]) /\ e = At(x, ring[x], m + 1)
  <2>1. CASE e = x
    BY <1>1, <2>1 DEF At
  <2>2. CASE e # x
    <3>1. m = Place(x, e) - 1 /\ m + 1 = Place(x, e) /\ m \in 0..Len(ring[x])
      BY <1>1, <1>2, <2>2
    <3>. QED
      BY <1>2, <2>2, <3>1 DEF At
  <2>. QED
    BY <2>1, <2>2
<1>4. CASE m = 0
  <2>1. Cut(y, x, m) = ring
    BY <1>3, <1>4, CutIs
  <2>2. heap.next[x] = e
    BY <1>1, <1>3, <1>4
  <2>3. list_cut_before(heap, y, x, e) = INIT_LIST_HEAD(heap, y)
    BY <2>2 DEF list_cut_before
  <2>. QED
    BY <2>1, <2>3, InitGood DEF RingsGood
<1>5. CASE m # 0
  <2>1. m \in 1..Len(ring[x])
    <3>1. Len(ring[x]) \in Nat /\ m \in 0..Len(ring[x]) /\ m # 0
      BY <1>1, <1>3, <1>5
    <3>. QED
      BY ONLY <3>1
  <2>. QED
    BY <1>3, <2>1, CutStep
<1>. QED
  BY <1>4, <1>5

\* What a call leaves, outside the loops.
LEMMA CallKeeps ==
  ASSUME NEW h, NEW r, NEW l, Good(h, r, l), Call(h, r), live' = l
  PROVE  ListInv'
<1>1. heap' = h /\ ring' = r /\ iter' = iter /\ iter = NoIter
  BY DEF Call
<1>. QED
  BY <1>1 DEF ListInv, RingsGood, NoIter

\* The calls on entries.
LEMMA CallSteps ==
  ASSUME RingsGood
  PROVE  /\ \A h \in ListHeads : init_head(h) => ListInv'
         /\ \A e \in Entries : delete(e) => ListInv'
         /\ \A e \in Entries, h \in live : add(e, h) => ListInv'
         /\ \A e \in Entries, h \in live : move(e, h) => ListInv'
         /\ \A e \in Entries, h \in live : rotate(h, e) => ListInv'
         /\ \A e, f \in Entries : replace(e, f) => ListInv'
         /\ \A e, f \in Entries : swap(e, f) => ListInv'
<1>1. ASSUME NEW h \in ListHeads, init_head(h) PROVE ListInv'
  BY <1>1, HeadStep, CallKeeps DEF init_head
<1>2. ASSUME NEW e \in Entries, delete(e) PROVE ListInv'
  <2>1. e \in OnSome /\ live' = live
    BY <1>2 DEF delete
  <2>2. PICK x, k : Is(e, x, k)
    BY <2>1, Known
  <2>3. /\ Good(list_del(heap, e), Removed(e), live)
        /\ Good(list_del_init(heap, e), Removed(e), live)
        /\ Good(__list_del_clearprev(heap, e), Removed(e), live)
    BY <2>2, DeleteStep
  <2>. QED
    BY <1>2, <2>1, <2>3, CallKeeps DEF delete
<1>3. ASSUME NEW e \in Entries, NEW h \in live, add(e, h) PROVE ListInv'
  <2>1. IsLoose(ring, e) /\ live' = live
    BY <1>3, Known DEF add
  <2>2. /\ Good(list_add(heap, e, h), [ring EXCEPT ![h] = <<e>> \o @], live)
        /\ Good(list_add_tail(heap, e, h), [ring EXCEPT ![h] = Append(@, e)], live)
    BY <2>1, AddGood DEF RingsGood
  <2>. QED
    BY <1>3, <2>1, <2>2, CallKeeps DEF add
<1>4. ASSUME NEW e \in Entries, NEW h \in live, move(e, h) PROVE ListInv'
  <2>1. e \in OnSome /\ live' = live
    BY <1>4 DEF move
  <2>2. PICK x, k : Is(e, x, k)
    BY <2>1, Known
  <2>3. /\ Good(list_move(heap, e, h), [Removed(e) EXCEPT ![h] = <<e>> \o @], live)
        /\ Good(list_move_tail(heap, e, h), [Removed(e) EXCEPT ![h] = Append(@, e)], live)
    BY <2>2, MoveStep
  <2>. QED
    BY <1>4, <2>1, <2>3, CallKeeps DEF move
<1>5. ASSUME NEW e \in Entries, NEW h \in live, rotate(h, e) PROVE ListInv'
  <2>1. live' = live /\ h \in ListHeads
    BY <1>5 DEF rotate, RingsGood, Good
  <2>2. PICK s, k : s = ring[h] /\ k = Place(h, e)
    OBVIOUS
  <2>3. Good(list_rotate_left(heap, h), [ring EXCEPT ![h] = IF s = <<>> THEN s ELSE Append(Tail(s), Head(s))], live)
    BY <2>2, RotateLeftStep
  <2>4. e \in On(h) => Good(list_rotate_to_front(heap, e, h),
                            [ring EXCEPT ![h] = SubSeq(s, k, Len(s)) \o SubSeq(s, 1, k - 1)], live)
    BY <2>1, <2>2, OnIs, RotateToFrontStep
  <2>. QED
    BY <1>5, <2>1, <2>2, <2>3, <2>4, CallKeeps DEF rotate
<1>6. ASSUME NEW e \in Entries, NEW f \in Entries, replace(e, f) PROVE ListInv'
  <2>1. e \in OnSome /\ IsLoose(ring, f) /\ live' = live
    BY <1>6, Known DEF replace
  <2>2. PICK x, k : Is(e, x, k)
    BY <2>1, Known
  <2>3. /\ Good(list_replace(heap, e, f), Swapped(e, f), live)
        /\ Good(list_replace_init(heap, e, f), Swapped(e, f), live)
    BY <2>1, <2>2, ReplaceStep
  <2>. QED
    BY <1>6, <2>1, <2>3, CallKeeps DEF replace
<1>7. ASSUME NEW e \in Entries, NEW f \in Entries, swap(e, f) PROVE ListInv'
  <2>1. e \in OnSome /\ f \in OnSome /\ e # f /\ live' = live
    BY <1>7 DEF swap
  <2>2. PICK x, k : Is(e, x, k)
    BY <2>1, Known
  <2>3. PICK y, j : Is(f, y, j)
    BY <2>1, Known
  <2>4. Good(list_swap(heap, e, f), Swapped(e, f), live)
    BY <2>1, <2>2, <2>3, SwapStep
  <2>. QED
    BY <1>7, <2>1, <2>4, CallKeeps DEF swap
<1>. QED
  BY <1>1, <1>2, <1>3, <1>4, <1>5, <1>6, <1>7

\* The calls on whole lists.
LEMMA HeadSteps ==
  ASSUME RingsGood
  PROVE  /\ \A h \in live : \A i \in 1..Len(ring[h]) : \A j \in i..Len(ring[h]) : bulk_move_tail(h, i, j) => ListInv'
         /\ \A g, h \in ListHeads : replace_head(g, h) => ListInv'
         /\ \A g \in ListHeads, h \in live, x \in Nodes : cut(g, h, x) => ListInv'
         /\ \A g, h \in live : splice(g, h) => ListInv'
<1>1. ASSUME NEW h \in live, NEW i \in 1..Len(ring[h]), NEW j \in i..Len(ring[h]), bulk_move_tail(h, i, j) PROVE ListInv'
  <2>1. PICK s : s = ring[h]
    OBVIOUS
  <2>2. Good(list_bulk_move_tail(heap, h, s[i], s[j]),
             [ring EXCEPT ![h] = SubSeq(s, 1, i - 1) \o SubSeq(s, j + 1, Len(s)) \o SubSeq(s, i, j)], live)
    BY <2>1, BulkStep
  <2>. QED
    BY <1>1, <2>1, <2>2, CallKeeps DEF bulk_move_tail
<1>2. ASSUME NEW g \in ListHeads, NEW h \in ListHeads, replace_head(g, h) PROVE ListInv'
  BY <1>2, ReplaceHeadStep, CallKeeps DEF replace_head
<1>3. ASSUME NEW g \in ListHeads, NEW h \in live, NEW x \in Nodes, cut(g, h, x) PROVE ListInv'
  <2>1. h # g /\ ring[g] = <<>> /\ (x = h \/ x \in On(h))
    BY <1>3 DEF cut
  <2>2. PICK k, b : /\ k = IF x = h THEN 0 ELSE Place(h, x)
                    /\ b = IF x = h THEN Len(ring[h]) ELSE Place(h, x) - 1
    OBVIOUS
  <2>3. Good(list_cut_position(heap, g, h, x), Cut(g, h, k), IF ring[h] = <<>> THEN live ELSE live \cup {g})
    BY <2>1, <2>2, CutPosition
  <2>4. Good(list_cut_before(heap, g, h, x), Cut(g, h, b), live \cup {g})
    BY <2>1, <2>2, CutBefore
  <2>5. \/ /\ Call(list_cut_position(heap, g, h, x), Cut(g, h, k))
           /\ live' = IF ring[h] = <<>> THEN live ELSE live \cup {g}
        \/ /\ Call(list_cut_before(heap, g, h, x), Cut(g, h, b))
           /\ live' = live \cup {g}
    BY <1>3, <2>2 DEF cut, Cut
  <2>. QED
    BY <2>3, <2>4, <2>5, CallKeeps
<1>4. ASSUME NEW g \in live, NEW h \in live, splice(g, h) PROVE ListInv'
  <2>1. PICK p, q : p = AtFront(g, h) /\ q = AtBack(g, h)
    OBVIOUS
  <2>2. h # g
    BY <1>4 DEF splice
  <2>3. \/ /\ \/ Call(list_splice(heap, g, h), p) \/ Call(list_splice_tail(heap, g, h), q)
           /\ live' = IF ring[g] = <<>> THEN live ELSE live \ {g}
        \/ /\ \/ Call(list_splice_init(heap, g, h), p) \/ Call(list_splice_tail_init(heap, g, h), q)
           /\ live' = live
    BY <1>4, <2>1 DEF splice, AtFront, AtBack
  <2>6. /\ ring[g] = <<>> => /\ p = ring /\ q = ring
                            /\ list_splice(heap, g, h) = heap /\ list_splice_tail(heap, g, h) = heap
                            /\ list_splice_init(heap, g, h) = heap /\ list_splice_tail_init(heap, g, h) = heap
        /\ ring[g] # <<>> => /\ Good(list_splice(heap, g, h), p, live \ {g})
                            /\ Good(list_splice_tail(heap, g, h), q, live \ {g})
                            /\ Good(list_splice_init(heap, g, h), p, live)
                            /\ Good(list_splice_tail_init(heap, g, h), q, live)
    BY <2>1, <2>2, SpliceStep
  <2>4. CASE ring[g] = <<>>
    <3>1. /\ p = ring /\ q = ring
          /\ list_splice(heap, g, h) = heap /\ list_splice_tail(heap, g, h) = heap
          /\ list_splice_init(heap, g, h) = heap /\ list_splice_tail_init(heap, g, h) = heap
      BY <2>4, <2>6
    <3>2. Call(heap, ring) /\ live' = live
      BY <2>3, <2>4, <3>1
    <3>. QED
      BY <3>2, CallKeeps DEF RingsGood
  <2>5. CASE ring[g] # <<>>
    <3>1. /\ Good(list_splice(heap, g, h), p, live \ {g})
          /\ Good(list_splice_tail(heap, g, h), q, live \ {g})
          /\ Good(list_splice_init(heap, g, h), p, live)
          /\ Good(list_splice_tail_init(heap, g, h), q, live)
      BY <2>5, <2>6
    <3>. QED
      BY <2>3, <2>5, <3>1, CallKeeps
  <2>. QED
    BY <2>4, <2>5
<1>. QED
  BY <1>1, <1>2, <1>3, <1>4

\* Every step keeps the invariant.
LEMMA NextKeeps ==
  ASSUME ListInv, [Next]_vars
  PROVE  ListInv'
<1>1. RingsGood
  BY DEF ListInv
<1>2. ASSUME UNCHANGED vars PROVE ListInv'
  <2>1. heap' = heap /\ ring' = ring /\ live' = live /\ iter' = iter
    BY <1>2 DEF vars
  <2>. QED
    BY <2>1 DEF ListInv, RingsGood, NoIter
<1>3. CASE \E h \in ListHeads : init_head(h)
  BY <1>1, <1>3, CallSteps
<1>4. CASE \E e \in Entries : delete(e)
  BY <1>1, <1>4, CallSteps
<1>5. CASE \E e \in Entries, h \in live : add(e, h) \/ move(e, h) \/ rotate(h, e)
  BY <1>1, <1>5, CallSteps
<1>6. CASE \E e, f \in Entries : replace(e, f) \/ swap(e, f)
  BY <1>1, <1>6, CallSteps
<1>7. CASE \E h \in live : \E i \in 1..Len(ring[h]) : \E j \in i..Len(ring[h]) : bulk_move_tail(h, i, j)
  BY <1>1, <1>7, HeadSteps
<1>8. CASE \E g, h \in ListHeads : replace_head(g, h)
  BY <1>1, <1>8, HeadSteps
<1>9. CASE \E g \in ListHeads, h \in live, x \in Nodes : cut(g, h, x)
  BY <1>1, <1>9, HeadSteps
<1>10. CASE \E g, h \in live : splice(g, h)
  BY <1>1, <1>10, HeadSteps
<1>11. CASE \E h \in live : list_for_each_entry_safe(h) \/ list_for_each_entry_safe_reverse(h)
  BY <1>1, <1>11, EachStarts
<1>12. CASE \E h \in live, e \in Entries :
              list_for_each_entry_safe_from(h, e) \/ list_for_each_entry_safe_continue(h, e)
  BY <1>1, <1>12, FromStarts
<1>13. CASE \E h \in live : body_move(h)
  BY <1>13, BodySteps
<1>14. CASE body_keep \/ body_delete
  BY <1>14, BodySteps
<1>15. CASE list_safe_reset_next
  BY <1>15, ResetStep
<1>16. CASE iterate_end
  <2>1. heap' = heap /\ ring' = ring /\ live' = live /\ iter' = NoIter
    BY <1>16 DEF iterate_end
  <2>. QED
    BY <1>1, <2>1 DEF ListInv, RingsGood, NoIter
<1>. QED
  BY <1>2, <1>3, <1>4, <1>5, <1>6, <1>7, <1>8, <1>9, <1>10, <1>11, <1>12, <1>13, <1>14, <1>15, <1>16
     DEF Next

\* The lists start empty.
LEMMA InitGoodLists ==
  ASSUME Init
  PROVE  ListInv
<1>1. heap \in Heap(Nodes)
  BY DEF Init, Heap, Nodes
<1>2. ring \in Rings /\ live \in SUBSET ListHeads /\ \A x \in ListHeads : ring[x] = <<>>
  BY DEF Init, Rings
<1>3. Apart(ring) /\ \A x \in ListHeads \ live : ring[x] = <<>>
  BY <1>2 DEF Apart
<1>4. ASSUME NEW x \in live PROVE Ring(heap, x, ring[x])
  <2>1. heap.next[x] = x /\ heap.prev[x] = x /\ ring[x] = <<>>
    BY <1>2 DEF Init, Nodes
  <2>. QED
    BY <2>1 DEF Ring, At
<1>. QED
  BY <1>1, <1>2, <1>3, <1>4 DEF Init, ListInv, RingsGood, Good

\* Whatever calls come before, in any order, the invariant holds.
LEMMA ClientInvariant == ClientSpec => []ListInv
<1>1. ClientInit => ListInv
  BY InitGoodLists DEF ClientInit
<1>2. ListInv /\ [ClientNext]_<<kind, vars, hvars>> => ListInv'
  <2>1. [ClientNext]_<<kind, vars, hvars>> => [Next]_vars
    BY DEF ClientNext
  <2>. QED
    BY <2>1, NextKeeps
<1>. QED
  BY <1>1, <1>2, PTL DEF ClientSpec

\* Following next and prev from a head gives the entries that the calls put on
\* its list, in their order, whatever calls came before.
THEOREM PointersMakeTheLists == ClientSpec => []ListsHold
<1>1. ListInv => ListsHold
  BY DEF ListInv, RingsGood, Good, ListsHold
<1>. QED
  BY <1>1, ClientInvariant, PTL

\* The invariant makes the queries agree.
LEMMA InvQueries ==
  ASSUME ListInv
  PROVE  QueriesAgree
<1>1. RingsGood /\ live \subseteq ListHeads
  BY DEF ListInv, RingsGood, Good
<1>2. ASSUME NEW h \in live
      PROVE  /\ list_empty(heap, h) <=> ring[h] = <<>>
             /\ list_is_singular(heap, h) <=> Len(ring[h]) = 1
             /\ list_first_entry_or_null(heap, h) = IF ring[h] = <<>> THEN NULL ELSE ring[h][1]
  <2>1. /\ list_empty(heap, h) <=> ring[h] = <<>>
        /\ list_is_singular(heap, h) <=> Len(ring[h]) = 1
        /\ heap.next[h] = At(h, ring[h], 1) /\ ring[h] \in Seq(Entries)
    BY <1>1, EmptyIs DEF RingsGood
  <2>2. ring[h] # <<>> => 1 \in 1..Len(ring[h])
    BY <2>1
  <2>. QED
    BY <2>1, <2>2 DEF list_first_entry_or_null, list_empty, At
<1>3. ASSUME NEW h \in live, NEW x \in live, NEW k, NEW e, Is(e, x, k)
      PROVE  /\ heap.prev[e] = At(x, ring[x], k - 1) /\ heap.next[e] = At(x, ring[x], k + 1)
             /\ list_is_first(heap, e, h) <=> h = x /\ k = 1
             /\ list_is_last(heap, e, h) <=> h = x /\ k = Len(ring[x])
  <2>1. /\ x \in ListHeads /\ k \in 1..Len(ring[x]) /\ ring[x][k] = e /\ Len(ring[x]) \in Nat
        /\ Ring(heap, x, ring[x]) /\ \A i \in 1..Len(ring[x]) : ring[x][i] \in Entries
    <3>1. x \in ListHeads /\ k \in 1..Len(ring[x]) /\ ring[x][k] = e
      BY <1>3 DEF Is
    <3>2. Len(ring[x]) \in Nat /\ Ring(heap, x, ring[x]) /\ \A i \in 1..Len(ring[x]) : ring[x][i] \in Entries
      BY <1>1, <3>1, GoodLists DEF RingsGood
    <3>. QED
      BY <3>1, <3>2
  <2>2. h \notin Entries
    BY <1>1, ListsAssumption
  <2>3. PICK c \in Nat : c = k - 1 /\ c + 1 = k
    BY <2>1
  <2>4. heap.prev[At(x, ring[x], c + 1)] = At(x, ring[x], c) /\ heap.next[At(x, ring[x], k)] = At(x, ring[x], k + 1)
    <3>1. c \in 0..Len(ring[x]) /\ k \in 0..Len(ring[x])
      BY <2>1, <2>3
    <3>. QED
      BY <2>1, <3>1 DEF Ring
  <2>5. At(x, ring[x], k) = e
    BY <2>1 DEF At
  <2>6. heap.prev[e] = At(x, ring[x], c) /\ heap.next[e] = At(x, ring[x], k + 1)
    BY <2>3, <2>4, <2>5
  <2>7. At(x, ring[x], c) = h <=> h = x /\ k = 1
    <3>1. CASE k = 1
      BY <2>3, <3>1 DEF At
    <3>2. CASE k # 1
      <4>1. c \in 1..Len(ring[x])
        BY <2>1, <2>3, <3>2
      <4>. QED
        BY <2>1, <2>2, <3>2, <4>1 DEF At
    <3>. QED
      BY <3>1, <3>2
  <2>8. At(x, ring[x], k + 1) = h <=> h = x /\ k = Len(ring[x])
    <3>1. CASE k = Len(ring[x])
      BY <2>1, <3>1 DEF At
    <3>2. CASE k # Len(ring[x])
      <4>1. k + 1 \in 1..Len(ring[x])
        BY <2>1, <3>2
      <4>. QED
        BY <2>1, <2>2, <3>2, <4>1 DEF At
    <3>. QED
      BY <3>1, <3>2
  <2>. QED
    BY <2>3, <2>6, <2>7, <2>8 DEF list_is_first, list_is_last
<1>4. ASSUME NEW h \in live, NEW e \in OnSome
      PROVE  /\ list_is_first(heap, e, h) <=> e \in On(h) /\ Place(h, e) = 1
             /\ list_is_last(heap, e, h) <=> e \in On(h) /\ Place(h, e) = Len(ring[h])
  <2>1. PICK x \in live : e \in On(x)
    BY DEF OnSome
  <2>2. h \in ListHeads /\ x \in ListHeads
    BY <1>1
  <2>3. PICK k : k = Place(x, e) /\ Is(e, x, k)
    BY <1>1, <2>1, <2>2, OnIs
  <2>4. e \in On(h) => h = x /\ Place(h, e) = k
    BY <1>1, <2>2, <2>3, OnIs, OnePlace
  <2>5. h = x => e \in On(h) /\ Place(h, e) = k
    BY <2>1, <2>3
  <2>. QED
    BY <1>3, <2>3, <2>4, <2>5
<1>5. ASSUME NEW h \in live, NEW k \in 1..Len(ring[h])
      PROVE  /\ list_next_entry_circular(heap, ring[h][k], h) = ring[h][(k % Len(ring[h])) + 1]
             /\ ring[h][k] = list_prev_entry_circular(heap, ring[h][(k % Len(ring[h])) + 1], h)
  <2>1. PICK s \in Seq(Entries), n \in Nat : s = ring[h] /\ n = Len(s)
    <3>1. ring[h] \in Seq(Entries) /\ Len(ring[h]) \in Nat
      BY <1>1, EmptyIs DEF RingsGood
    <3>. QED
      BY <3>1
  <2>2. h \in ListHeads /\ k \in 1..n /\ Is(s[k], h, k) /\ 1 \in 1..n /\ n \in 1..n
    BY <1>1, <2>1 DEF Is
  <2>3. heap.next[h] = At(h, s, 1) /\ heap.prev[h] = At(h, s, n)
    BY <1>1, <2>1, EmptyIs DEF RingsGood
  <2>4. At(h, s, 1) = s[1] /\ At(h, s, n) = s[n]
    BY <2>1, <2>2 DEF At
  <2>5. CASE k = n
    <3>1. (k % n) + 1 = 1
      BY <2>2, <2>5
    <3>2. Is(s[1], h, 1)
      BY <2>1, <2>2 DEF Is
    <3>3. list_is_last(heap, s[n], h) /\ list_is_first(heap, s[1], h)
      BY <1>3, <2>1, <2>2, <2>5, <3>2
    <3>. QED
      BY <2>1, <2>3, <2>4, <2>5, <3>1, <3>3 DEF list_next_entry_circular, list_prev_entry_circular
  <2>6. CASE k # n
    <3>1. (k % n) + 1 = k + 1 /\ k + 1 \in 1..n /\ (k + 1) - 1 = k /\ k + 1 # 1
      BY <2>2, <2>6
    <3>2. Is(s[k + 1], h, k + 1)
      BY <2>1, <2>2, <3>1 DEF Is
    <3>3. ~list_is_last(heap, s[k], h) /\ heap.next[s[k]] = At(h, s, k + 1)
      BY <1>3, <2>1, <2>2, <2>6
    <3>4. ~list_is_first(heap, s[k + 1], h) /\ heap.prev[s[k + 1]] = At(h, s, k)
      BY <1>3, <2>1, <3>1, <3>2
    <3>5. At(h, s, k + 1) = s[k + 1] /\ At(h, s, k) = s[k]
      BY <2>1, <2>2, <3>1 DEF At
    <3>. QED
      BY <2>1, <3>1, <3>3, <3>4, <3>5 DEF list_next_entry_circular, list_prev_entry_circular
  <2>. QED
    BY <2>5, <2>6
<1>6. ASSUME NEW h \in live, NEW k \in DOMAIN ring[h] PROVE k \in 1..Len(ring[h])
  <2>1. ring[h] \in Seq(Entries)
    BY <1>1, EmptyIs DEF RingsGood
  <2>. QED
    BY <2>1
<1>. QED
  BY <1>2, <1>4, <1>5, <1>6 DEF QueriesAgree

\* The queries of list.h tell from the pointers what is true of the lists.
THEOREM QueriesTellTheTruth == ClientSpec => []QueriesAgree
<1>1. ListInv => QueriesAgree
  BY InvQueries
<1>. QED
  BY <1>1, ClientInvariant, PTL

\* A sequence that starts another.
LEMMA PrefixIs ==
  ASSUME NEW S, NEW s \in Seq(S), NEW t \in Seq(S), Len(s) <= Len(t), \A i \in 1..Len(s) : s[i] = t[i]
  PROVE  IsPrefix(s, t)
<1>1. PICK u : u = SubSeq(t, 1, Len(s))
  OBVIOUS
<1>2. 1 \in 1..(Len(t) + 1) /\ Len(s) \in (1 - 1)..Len(t) /\ Len(s) - 1 + 1 = Len(s) /\ Len(s) \in Nat
  OBVIOUS
<1>3. u \in Seq(S) /\ Len(u) = Len(s) - 1 + 1 /\ \A i \in 1..(Len(s) - 1 + 1) : u[i] = t[1 - 1 + i]
  BY <1>1, <1>2, Stretch
<1>4. u = s
  <2>1. \A i \in 1..Len(s) : u[i] = s[i]
    BY <1>2, <1>3
  <2>. QED
    BY <1>2, <1>3, <2>1, SeqEqual
<1>5. SubSeq(s, 1, Len(s)) = s
  BY SubSeqFull
<1>. QED
  BY <1>1, <1>4, <1>5 DEF IsPrefix

\* The invariant makes the loops visit all.
LEMMA InvLoops ==
  ASSUME ListInv
  PROVE  SafeLoopVisitsAll
<1> SUFFICES ASSUME iter # NoIter
             PROVE  /\ IsPrefix(iter.seen, iter.start)
                    /\ iter.pos = At(iter.head, iter.start, Len(iter.seen) + 1)
                    /\ ~InLoop => iter.seen = iter.start
  BY DEF SafeLoopVisitsAll
<1>1. LoopGood(iter, ring, live)
  BY DEF ListInv
<1>2. PICK s, t \in Seq(Entries) : s = iter.seen /\ t = iter.start
  BY <1>1 DEF LoopGood, Loops
<1>3. Len(s) <= Len(t) /\ \A i \in 1..Len(s) : s[i] = t[i]
  BY <1>1, <1>2 DEF LoopGood
<1>4. iter.pos = At(iter.head, t, Len(s) + 1)
  BY <1>1, <1>2 DEF LoopGood
<1>5. IsPrefix(s, t)
  BY <1>3, PrefixIs
<1>6. ASSUME ~InLoop PROVE s = t
  <2>1. iter.pos = iter.head
    BY <1>6 DEF InLoop
  <2>2. iter.head \in ListHeads
    BY <1>1 DEF LoopGood, Loops, ListInv, RingsGood, Good
  <2>3. \A i \in 1..Len(t) : t[i] # iter.head
    BY <2>2, ListsAssumption
  <2>4. Len(s) + 1 \notin 1..Len(t)
    BY <1>4, <2>1, <2>3 DEF At
  <2>5. Len(s) = Len(t)
    BY <1>3, <2>4
  <2>. QED
    BY <1>3, <2>5, SeqEqual
<1>. QED
  BY <1>2, <1>4, <1>5, <1>6

\* A safe loop visits every entry it should, once, in order, whatever its body
\* does to the entry it is given.
THEOREM SafeLoopsVisitAll == ClientSpec => []SafeLoopVisitsAll
<1>1. ListInv => SafeLoopVisitsAll
  BY InvLoops
<1>. QED
  BY <1>1, ClientInvariant, PTL

-----------------------------------------------------------------------------
(* The lists with one pointer in the head. *)

HFields == HlistHeads \cup HlistNodes

HHeap == [next : [HFields -> HlistNodes \cup {NULL}], pprev : [HlistNodes -> HFields \cup {NULL}]]

\* first and next lead from the head x through s to NULL, and each pprev leads to
\* the field that leads to its node.
Chain(h, x, s) ==
  /\ \A i \in 0..Len(s) : h.next[At(x, s, i)] = At(NULL, s, i + 1)
  /\ \A i \in 1..Len(s) : h.pprev[s[i]] = At(x, s, i - 1)

\* The fields and nodes of a chain.
LEMMA ChainAt ==
  ASSUME NEW x \in HlistHeads, NEW s \in Seq(HlistNodes)
  PROVE  /\ Len(s) \in Nat
         /\ \A i \in Int : At(x, s, i) \in HFields /\ At(NULL, s, i) \in HlistNodes \cup {NULL}
         /\ \A i \in 1..Len(s) : /\ At(x, s, i) = s[i] /\ At(NULL, s, i) = s[i]
                                 /\ s[i] \in HlistNodes /\ s[i] # x /\ s[i] # NULL
         /\ At(x, s, 0) = x /\ At(NULL, s, Len(s) + 1) = NULL /\ x # NULL
<1>1. x # NULL /\ \A n \in HlistNodes : n # x /\ n # NULL
  BY HListsAssumption
<1>. QED
  BY <1>1 DEF At, HFields

\* No field of a chain is met twice, and no node.
LEMMA ChainOnce ==
  ASSUME NEW x \in HlistHeads, NEW s \in Seq(HlistNodes), Distinct(s)
  PROVE  /\ \A i, j \in 0..Len(s) : At(x, s, i) = At(x, s, j) => i = j
         /\ \A i, j \in 1..(Len(s) + 1) : At(NULL, s, i) = At(NULL, s, j) => i = j
<1>1. \A n \in HlistNodes : n # x /\ n # NULL
  BY HListsAssumption
<1>. QED
  BY <1>1 DEF At, Distinct

\* A chain is where its fields and its nodes' pprev are as they were.
LEMMA ChainKept ==
  ASSUME NEW x \in HlistHeads, NEW s \in Seq(HlistNodes), NEW h, NEW g, Chain(h, x, s),
         g.next[x] = h.next[x],
         \A i \in 1..Len(s) : g.next[s[i]] = h.next[s[i]] /\ g.pprev[s[i]] = h.pprev[s[i]]
  PROVE  Chain(g, x, s)
<1>1. \A i \in 0..Len(s) : At(x, s, i) = x \/ \E j \in 1..Len(s) : At(x, s, i) = s[j]
  BY DEF At
<1>2. \A i \in 0..Len(s) : g.next[At(x, s, i)] = h.next[At(x, s, i)]
  BY <1>1
<1>. QED
  BY <1>2 DEF Chain

\* The stores that put n between the field of a and the node b, if any.
Linked(h, g, a, n, b) ==
  g = [next  |-> [y \in HFields |-> IF y = n THEN b ELSE IF y = a THEN n ELSE h.next[y]],
       pprev |-> [y \in HlistNodes |-> IF y = n THEN a ELSE IF y = b THEN n ELSE h.pprev[y]]]

\* Those that take n out from between a and b.
Unlinked(h, g, a, n, b) ==
  g = [next  |-> [y \in HFields |-> IF y = n THEN NULL ELSE IF y = a THEN b ELSE h.next[y]],
       pprev |-> [y \in HlistNodes |-> IF y = n THEN NULL ELSE IF y = b THEN a ELSE h.pprev[y]]]

\* A node put after the k-th joins the chain there.
LEMMA InsertChain ==
  ASSUME NEW x \in HlistHeads, NEW s \in Seq(HlistNodes), Distinct(s), NEW h, Chain(h, x, s),
         NEW k \in 0..Len(s), NEW n \in HlistNodes, \A i \in 1..Len(s) : s[i] # n,
         NEW t \in Seq(HlistNodes), InsertedAt(s, k, n, t),
         NEW g, Linked(h, g, At(x, s, k), n, At(NULL, s, k + 1))
  PROVE  Chain(g, x, t)
<1> DEFINE a == At(x, s, k)
           b == At(NULL, s, k + 1)
<1>1. Len(t) = Len(s) + 1 /\ Len(s) \in Nat /\ n # x /\ n # NULL
  BY HListsAssumption DEF InsertedAt
<1>2. ASSUME NEW i \in Int, NEW y, 0 <= i, i <= Len(t) + 1, y \in {x, NULL}
      PROVE  At(y, t, i) = IF i <= k THEN At(y, s, i) ELSE IF i = k + 1 THEN n ELSE At(y, s, i - 1)
  BY <1>1, <1>2 DEF At, InsertedAt
<1>3. \A i \in Int : At(x, s, i) \in HFields /\ At(x, s, i) # n
  BY <1>1, ChainAt DEF At
<1>4. ASSUME NEW i \in 0..Len(s), i # k PROVE g.next[At(x, s, i)] = At(NULL, s, i + 1)
  <2>1. At(x, s, i) # At(x, s, k)
    BY <1>4, ChainOnce
  <2>2. g.next[At(x, s, i)] = h.next[At(x, s, i)]
    BY <1>3, <2>1 DEF Linked
  <2>. QED
    BY <2>2 DEF Chain
<1>5. g.next[a] = n /\ g.next[n] = b
  BY <1>3 DEF Linked, HFields
<1>6. ASSUME NEW i \in 0..Len(t) PROVE g.next[At(x, t, i)] = At(NULL, t, i + 1)
  <2>1. CASE i < k
    BY <1>1, <1>2, <1>4, <2>1
  <2>2. CASE i = k
    BY <1>1, <1>2, <1>5, <2>2
  <2>3. CASE i = k + 1
    BY <1>1, <1>2, <1>5, <2>3
  <2>4. CASE i > k + 1
    <3>1. i - 1 \in 0..Len(s) /\ i - 1 # k /\ (i - 1) + 1 = i
      BY <1>1, <2>4
    <3>2. At(x, t, i) = At(x, s, i - 1) /\ At(NULL, t, i + 1) = At(NULL, s, (i + 1) - 1)
      BY <1>1, <1>2, <2>4
    <3>3. g.next[At(x, s, i - 1)] = At(NULL, s, i)
      BY <1>4, <3>1
    <3>. QED
      BY <3>2, <3>3
  <2>. QED
    BY <1>1, <2>1, <2>2, <2>3, <2>4
<1>7. ASSUME NEW i \in 1..Len(s), i # k + 1 PROVE g.pprev[s[i]] = At(x, s, i - 1)
  <2>1. s[i] # b /\ s[i] # n /\ s[i] \in HlistNodes
    BY <1>7, ChainAt DEF At, Distinct
  <2>2. g.pprev[s[i]] = h.pprev[s[i]]
    BY <2>1 DEF Linked
  <2>. QED
    BY <2>2 DEF Chain
<1>8. g.pprev[n] = a
  BY DEF Linked
<1>9. k + 1 \in 1..Len(s) => g.pprev[s[k + 1]] = n
  BY <1>1, ChainAt DEF Linked, At
<1>10. ASSUME NEW i \in 1..Len(t) PROVE g.pprev[t[i]] = At(x, t, i - 1)
  <2>0. At(x, t, i - 1) = IF i - 1 <= k THEN At(x, s, i - 1) ELSE IF i - 1 = k + 1 THEN n ELSE At(x, s, i - 2)
    BY <1>1, <1>2
  <2>1. CASE i <= k
    BY <1>1, <1>7, <2>0, <2>1 DEF InsertedAt
  <2>2. CASE i = k + 1
    BY <1>1, <1>8, <2>0, <2>2 DEF InsertedAt
  <2>3. CASE i = k + 2
    <3>1. t[i] = s[k + 1] /\ k + 1 \in 1..Len(s) /\ At(x, t, i - 1) = n
      BY <1>1, <2>0, <2>3 DEF InsertedAt
    <3>. QED
      BY <1>9, <3>1
  <2>4. CASE i > k + 2
    <3>1. t[i] = s[i - 1] /\ i - 1 \in 1..Len(s) /\ i - 1 # k + 1 /\ At(x, t, i - 1) = At(x, s, i - 2) /\ (i - 1) - 1 = i - 2
      BY <1>1, <2>0, <2>4 DEF InsertedAt
    <3>. QED
      BY <1>7, <3>1
  <2>. QED
    BY <1>1, <2>1, <2>2, <2>3, <2>4
<1>. QED
  BY <1>6, <1>10 DEF Chain

\* The k-th node leaves the chain.
LEMMA DeleteChain ==
  ASSUME NEW x \in HlistHeads, NEW s \in Seq(HlistNodes), Distinct(s), NEW h, Chain(h, x, s),
         NEW k \in 1..Len(s), NEW t \in Seq(HlistNodes), DeletedAt(s, k, t),
         NEW g, Unlinked(h, g, At(x, s, k - 1), s[k], At(NULL, s, k + 1))
  PROVE  Chain(g, x, t)
<1> DEFINE a == At(x, s, k - 1)
           b == At(NULL, s, k + 1)
           n == s[k]
<1>1. Len(t) = Len(s) - 1 /\ Len(s) \in Nat /\ n \in HlistNodes /\ n # x /\ n # NULL
  BY ChainAt DEF DeletedAt
<1>2. ASSUME NEW i \in Int, NEW y, 0 <= i, i <= Len(t) + 1, y \in {x, NULL}
      PROVE  At(y, t, i) = IF i < k THEN At(y, s, i) ELSE At(y, s, i + 1)
  BY <1>1, <1>2 DEF At, DeletedAt
<1>3. \A i \in Int : At(x, s, i) \in HFields
  BY ChainAt
<1>4. ASSUME NEW i \in 0..Len(s), i # k, i # k - 1 PROVE g.next[At(x, s, i)] = At(NULL, s, i + 1)
  <2>1. At(x, s, i) # At(x, s, k) /\ At(x, s, i) # At(x, s, k - 1) /\ At(x, s, k) = s[k]
    BY <1>4, ChainOnce, ChainAt
  <2>2. g.next[At(x, s, i)] = h.next[At(x, s, i)]
    BY <1>3, <2>1 DEF Unlinked
  <2>. QED
    BY <2>2 DEF Chain
<1>5. g.next[a] = b
  <2>1. a # n
    <3>1. At(x, s, k) = n /\ k \in 0..Len(s) /\ k - 1 \in 0..Len(s) /\ k # k - 1
      BY ChainAt
    <3>. QED
      BY <3>1, ChainOnce
  <2>. QED
    BY <1>3, <2>1 DEF Unlinked
<1>6. ASSUME NEW i \in 0..Len(t) PROVE g.next[At(x, t, i)] = At(NULL, t, i + 1)
  <2>1. CASE i < k - 1
    BY <1>1, <1>2, <1>4, <2>1
  <2>2. CASE i = k - 1
    <3>1. At(x, t, i) = a /\ At(NULL, t, i + 1) = At(NULL, s, (i + 1) + 1) /\ (i + 1) + 1 = k + 1
      BY <1>1, <1>2, <2>2
    <3>. QED
      BY <1>5, <3>1
  <2>3. CASE i > k - 1
    <3>1. At(x, t, i) = At(x, s, i + 1) /\ At(NULL, t, i + 1) = At(NULL, s, (i + 1) + 1)
      BY <1>1, <1>2, <2>3
    <3>2. i + 1 \in 0..Len(s) /\ i + 1 # k /\ i + 1 # k - 1
      BY <1>1, <2>3
    <3>. QED
      BY <1>4, <3>1, <3>2
  <2>. QED
    BY <1>1, <2>1, <2>2, <2>3
<1>7. ASSUME NEW i \in 1..Len(s), i # k + 1, i # k PROVE g.pprev[s[i]] = At(x, s, i - 1)
  <2>1. s[i] # b /\ s[i] # n /\ s[i] \in HlistNodes
    BY <1>7, ChainAt DEF At, Distinct
  <2>2. g.pprev[s[i]] = h.pprev[s[i]]
    BY <2>1 DEF Unlinked
  <2>. QED
    BY <2>2 DEF Chain
<1>8. k + 1 \in 1..Len(s) => g.pprev[s[k + 1]] = a
  <2>1. ASSUME k + 1 \in 1..Len(s) PROVE g.pprev[s[k + 1]] = a
    <3>1. s[k + 1] = b /\ b \in HlistNodes /\ b # n
      BY <2>1, ChainAt DEF At, Distinct
    <3>. QED
      BY <3>1 DEF Unlinked
  <2>. QED
    BY <2>1
<1>9. ASSUME NEW i \in 1..Len(t) PROVE g.pprev[t[i]] = At(x, t, i - 1)
  <2>0. At(x, t, i - 1) = IF i - 1 < k THEN At(x, s, i - 1) ELSE At(x, s, i)
    BY <1>1, <1>2
  <2>1. CASE i < k
    BY <1>1, <1>7, <2>0, <2>1 DEF DeletedAt
  <2>2. CASE i = k
    <3>1. t[i] = s[k + 1] /\ k + 1 \in 1..Len(s) /\ At(x, t, i - 1) = a
      BY <1>1, <2>0, <2>2 DEF DeletedAt
    <3>. QED
      BY <1>8, <3>1
  <2>3. CASE i > k
    <3>1. t[i] = s[i + 1] /\ i + 1 \in 1..Len(s) /\ i + 1 # k + 1 /\ i + 1 # k /\ At(x, t, i - 1) = At(x, s, i) /\ (i + 1) - 1 = i
      BY <1>1, <2>0, <2>3 DEF DeletedAt
    <3>. QED
      BY <1>7, <3>1
  <2>. QED
    BY <1>1, <2>1, <2>2, <2>3
<1>. QED
  BY <1>6, <1>9 DEF Chain

HRings == [HlistHeads -> Seq(HlistNodes)]

HApart(r) ==
  \A x, y \in HlistHeads : \A i \in 1..Len(r[x]), j \in 1..Len(r[y]) : r[x][i] = r[y][j] => x = y /\ i = j

\* Node e is on no list.
HLoose(r, e) == \A x \in HlistHeads : \A i \in 1..Len(r[x]) : r[x][i] # e

\* The heap h holds the lists r, and of the other nodes those of f are fakes.
HGood(h, r, f) ==
  /\ h \in HHeap /\ r \in HRings /\ f \in SUBSET HlistNodes
  /\ HApart(r)
  /\ \A x \in HlistHeads : Chain(h, x, r[x])
  /\ \A e \in f : HLoose(r, e)
  /\ \A e \in HlistNodes : HLoose(r, e) => h.next[e] = NULL /\ h.pprev[e] = IF e \in f THEN e ELSE NULL

\* What a client may use of one of the lists.
LEMMA HGoodLists ==
  ASSUME NEW h, NEW r, NEW f, HGood(h, r, f), NEW x \in HlistHeads
  PROVE  /\ r[x] \in Seq(HlistNodes) /\ Distinct(r[x]) /\ Chain(h, x, r[x])
         /\ Len(r[x]) \in Nat /\ DOMAIN r[x] = 1..Len(r[x]) /\ x \in HFields /\ x \notin HlistNodes
<1>1. r[x] \in Seq(HlistNodes) /\ Chain(h, x, r[x])
  BY DEF HGood, HRings
<1>2. Distinct(r[x])
  BY DEF HGood, HApart, Distinct
<1>. QED
  BY <1>1, <1>2, HListsAssumption DEF HFields

\* A node off a list is none of its fields and none of its nodes.
LEMMA HOff ==
  ASSUME NEW x \in HlistHeads, NEW s \in Seq(HlistNodes), NEW n, n # x, \A i \in 1..Len(s) : s[i] # n
  PROVE  \A i \in Int : At(x, s, i) # n /\ (n # NULL => At(NULL, s, i) # n)
BY DEF At

\* The lists of the other heads share no field and no node with that of x.
LEMMA HOffOthers ==
  ASSUME NEW h, NEW r, NEW f, HGood(h, r, f), NEW x \in HlistHeads, NEW y \in HlistHeads, x # y
  PROVE  \A i \in Int : /\ At(x, r[x], i) # y
                        /\ \A j \in 1..Len(r[y]) : At(x, r[x], i) # r[y][j] /\ At(NULL, r[x], i) # r[y][j]
<1>1. r[x] \in Seq(HlistNodes) /\ r[y] \in Seq(HlistNodes) /\ y \notin HlistNodes /\ x \notin HlistNodes
  BY HGoodLists
<1>2. \A i \in 1..Len(r[x]) : r[x][i] # y
  BY <1>1
<1>3. ASSUME NEW j \in 1..Len(r[y])
      PROVE  /\ r[y][j] # x /\ r[y][j] # NULL /\ \A i \in 1..Len(r[x]) : r[x][i] # r[y][j]
  <2>1. r[y][j] \in HlistNodes /\ NULL \notin HlistNodes
    BY <1>1, HListsAssumption
  <2>. QED
    BY <1>1, <2>1 DEF HGood, HApart
<1>4. \A i \in Int : At(x, r[x], i) # y
  BY <1>1, <1>2, HOff
<1>5. ASSUME NEW j \in 1..Len(r[y]), NEW i \in Int PROVE At(x, r[x], i) # r[y][j] /\ At(NULL, r[x], i) # r[y][j]
  BY <1>1, <1>3, HOff
<1>. QED
  BY <1>4, <1>5

\* An unused node joins the list of x after its k-th node.
LEMMA HInsertGood ==
  ASSUME NEW h, NEW r, NEW f, HGood(h, r, f), NEW e \in HlistNodes, HLoose(r, e), e \notin f,
         NEW x \in HlistHeads, NEW k \in 0..Len(r[x]),
         NEW q \in HRings, InsertedAt(r[x], k, e, q[x]), \A y \in HlistHeads : y # x => q[y] = r[y],
         NEW g, Linked(h, g, At(x, r[x], k), e, At(NULL, r[x], k + 1))
  PROVE  HGood(g, q, f)
<1> DEFINE s == r[x]
           t == q[x]
           a == At(x, s, k)
           b == At(NULL, s, k + 1)
<1>1. /\ s \in Seq(HlistNodes) /\ Distinct(s) /\ Chain(h, x, s) /\ t \in Seq(HlistNodes) /\ Len(s) \in Nat
      /\ x \in HFields /\ e # NULL /\ e # x /\ \A i \in 1..Len(s) : s[i] # e
  BY HGoodLists, HListsAssumption DEF HRings, HLoose
<1>2. Chain(g, x, t)
  BY <1>1, InsertChain
<1>3. a \in HFields /\ b \in HlistNodes \cup {NULL} /\ k \in Int /\ k + 1 \in Int
  BY <1>1, ChainAt
<1>4. g \in HHeap
  <2>1. h.next \in [HFields -> HlistNodes \cup {NULL}] /\ h.pprev \in [HlistNodes -> HFields \cup {NULL}] /\ e \in HFields
    BY DEF HGood, HHeap, HFields
  <2>. QED
    BY <1>3, <2>1 DEF Linked, HHeap
<1>5. ASSUME NEW y \in HlistHeads, y # x PROVE Chain(g, y, q[y])
  <2>1. q[y] = r[y] /\ r[y] \in Seq(HlistNodes) /\ Chain(h, y, r[y]) /\ y \in HFields /\ y # e
    BY <1>5, HGoodLists
  <2>2. a # y /\ \A j \in 1..Len(r[y]) : a # r[y][j] /\ b # r[y][j] /\ r[y][j] # e
    BY <1>3, <1>5, HOffOthers DEF HLoose
  <2>3. g.next[y] = h.next[y]
    BY <2>1, <2>2 DEF Linked
  <2>4. \A j \in 1..Len(r[y]) : r[y][j] \in HlistNodes /\ r[y][j] \in HFields
    BY <2>1 DEF HFields
  <2>5. \A j \in 1..Len(r[y]) : g.next[r[y][j]] = h.next[r[y][j]] /\ g.pprev[r[y][j]] = h.pprev[r[y][j]]
    BY <2>2, <2>4 DEF Linked
  <2>. QED
    BY <2>1, <2>3, <2>5, ChainKept
<1>6. ASSUME NEW i \in 1..Len(t)
      PROVE  \/ i = k + 1 /\ t[i] = e
             \/ i <= k /\ i \in 1..Len(s) /\ t[i] = s[i]
             \/ i > k + 1 /\ i - 1 \in 1..Len(s) /\ t[i] = s[i - 1]
  BY <1>1 DEF InsertedAt
<1>7. HApart(q)
  <2>1. ASSUME NEW z \in HlistHeads, z # x, NEW j \in 1..Len(q[z]), NEW i \in 1..Len(t) PROVE t[i] # q[z][j]
    <3>1. q[z] = r[z] /\ j \in 1..Len(r[z]) /\ r[z][j] # e
      BY <2>1 DEF HLoose
    <3>2. \A m \in 1..Len(s) : s[m] # r[z][j]
      BY <2>1, <3>1 DEF HGood, HApart
    <3>. QED
      BY <1>6, <3>1, <3>2
  <2>2. ASSUME NEW i \in 1..Len(t), NEW j \in 1..Len(t), t[i] = t[j] PROVE i = j
    <3>0. i \in Int /\ j \in Int /\ k \in Int
      OBVIOUS
    <3>1. CASE i = k + 1 \/ j = k + 1
      <4>1. \A m \in 1..Len(t) : m # k + 1 => t[m] # e
        BY <1>1, <1>6
      <4>2. \A m \in 1..Len(t) : m = k + 1 => t[m] = e
        BY <1>1 DEF InsertedAt
      <4>. QED
        BY <2>2, <3>1, <4>1, <4>2
    <3>2. CASE i <= k /\ j <= k
      BY <1>1, <1>6, <2>2, <3>0, <3>2 DEF Distinct
    <3>3. CASE i > k + 1 /\ j > k + 1
      <4>1. i - 1 \in 1..Len(s) /\ j - 1 \in 1..Len(s) /\ s[i - 1] = s[j - 1]
        BY <1>6, <2>2, <3>0, <3>3
      <4>2. i - 1 = j - 1
        BY <1>1, <4>1 DEF Distinct
      <4>. QED
        BY <3>0, <4>2
    <3>4. CASE i <= k /\ j > k + 1
      <4>1. i \in 1..Len(s) /\ j - 1 \in 1..Len(s) /\ s[i] = s[j - 1]
        BY <1>6, <2>2, <3>0, <3>4
      <4>2. i = j - 1
        BY <1>1, <4>1 DEF Distinct
      <4>. QED
        BY <3>0, <3>4, <4>2
    <3>5. CASE i > k + 1 /\ j <= k
      <4>1. i - 1 \in 1..Len(s) /\ j \in 1..Len(s) /\ s[i - 1] = s[j]
        BY <1>6, <2>2, <3>0, <3>5
      <4>2. i - 1 = j
        BY <1>1, <4>1 DEF Distinct
      <4>. QED
        BY <3>0, <3>5, <4>2
    <3>. QED
      BY <3>0, <3>1, <3>2, <3>3, <3>4, <3>5
  <2>3. ASSUME NEW y \in HlistHeads, NEW z \in HlistHeads, NEW i \in 1..Len(q[y]), NEW j \in 1..Len(q[z]),
               q[y][i] = q[z][j]
        PROVE  y = z /\ i = j
    <3>1. CASE y # x /\ z # x
      BY <2>3, <3>1 DEF HGood, HApart
    <3>2. CASE y = x \/ z = x
      BY <2>1, <2>2, <2>3, <3>2
    <3>. QED
      BY <3>1, <3>2
  <2>. QED
    BY <2>3 DEF HApart
<1>8. \A n : HLoose(r, n) /\ n # e => HLoose(q, n)
  BY <1>6 DEF HLoose
<1>9. ASSUME NEW n \in HlistNodes, HLoose(q, n) PROVE HLoose(r, n) /\ n # e
  <2>1. k + 1 \in 1..Len(t) /\ t[k + 1] = e
    BY <1>1 DEF InsertedAt
  <2>2. ASSUME NEW i \in 1..Len(s) PROVE \E j \in 1..Len(t) : t[j] = s[i]
    <3>1. CASE i <= k
      BY <1>1, <3>1 DEF InsertedAt
    <3>2. CASE i > k
      <4>1. i + 1 \in 1..Len(t) /\ ~(i + 1 <= k) /\ i + 1 # k + 1 /\ (i + 1) - 1 = i
        BY <1>1, <3>2 DEF InsertedAt
      <4>. QED
        BY <4>1 DEF InsertedAt
    <3>. QED
      BY <3>1, <3>2
  <2>. QED
    BY <1>9, <2>1, <2>2 DEF HLoose
<1>10. ASSUME NEW n \in HlistNodes, HLoose(q, n)
       PROVE  g.next[n] = NULL /\ g.pprev[n] = IF n \in f THEN n ELSE NULL
  <2>1. HLoose(r, n) /\ n # e /\ n # x /\ n # NULL /\ n \in HFields
    BY <1>9, <1>10, HListsAssumption DEF HFields
  <2>2. a # n /\ b # n
    <3>1. \A i \in 1..Len(s) : s[i] # n
      BY <2>1 DEF HLoose
    <3>. QED
      BY <1>1, <1>3, <2>1, <3>1, HOff
  <2>3. g.next[n] = h.next[n] /\ g.pprev[n] = h.pprev[n]
    BY <2>1, <2>2 DEF Linked
  <2>. QED
    BY <2>1, <2>3 DEF HGood
<1>. QED
  BY <1>2, <1>4, <1>5, <1>7, <1>8, <1>10 DEF HGood

\* The k-th node of x leaves it, and is unused.
LEMMA HDeleteGood ==
  ASSUME NEW h, NEW r, NEW f, HGood(h, r, f),
         NEW x \in HlistHeads, NEW k \in 1..Len(r[x]),
         NEW q \in HRings, DeletedAt(r[x], k, q[x]), \A y \in HlistHeads : y # x => q[y] = r[y],
         NEW g, Unlinked(h, g, At(x, r[x], k - 1), r[x][k], At(NULL, r[x], k + 1))
  PROVE  HGood(g, q, f) /\ HLoose(q, r[x][k]) /\ r[x][k] \notin f
<1> DEFINE s == r[x]
           t == q[x]
           e == s[k]
           a == At(x, s, k - 1)
           b == At(NULL, s, k + 1)
<1>1. /\ s \in Seq(HlistNodes) /\ Distinct(s) /\ Chain(h, x, s) /\ t \in Seq(HlistNodes) /\ Len(s) \in Nat
      /\ x \in HFields /\ e \in HlistNodes /\ e # NULL /\ e # x /\ k - 1 \in Int /\ k + 1 \in Int
  BY HGoodLists, ChainAt DEF HRings
<1>2. Chain(g, x, t)
  BY <1>1, DeleteChain
<1>3. a \in HFields /\ b \in HlistNodes \cup {NULL}
  BY <1>1, ChainAt
<1>4. g \in HHeap
  <2>1. h.next \in [HFields -> HlistNodes \cup {NULL}] /\ h.pprev \in [HlistNodes -> HFields \cup {NULL}] /\ e \in HFields
    BY <1>1 DEF HGood, HHeap, HFields
  <2>. QED
    BY <1>3, <2>1 DEF Unlinked, HHeap
<1>5. ASSUME NEW y \in HlistHeads, y # x PROVE Chain(g, y, q[y])
  <2>1. q[y] = r[y] /\ r[y] \in Seq(HlistNodes) /\ Chain(h, y, r[y]) /\ y \in HFields /\ y # e
    BY <1>1, <1>5, HGoodLists
  <2>2. a # y /\ \A j \in 1..Len(r[y]) : a # r[y][j] /\ b # r[y][j]
    BY <1>1, <1>5, HOffOthers
  <2>3. \A j \in 1..Len(r[y]) : r[y][j] # e
    BY <1>5 DEF HGood, HApart
  <2>4. g.next[y] = h.next[y]
    BY <2>1, <2>2 DEF Unlinked
  <2>5. \A j \in 1..Len(r[y]) : r[y][j] \in HlistNodes /\ r[y][j] \in HFields
    BY <2>1 DEF HFields
  <2>6. \A j \in 1..Len(r[y]) : g.next[r[y][j]] = h.next[r[y][j]] /\ g.pprev[r[y][j]] = h.pprev[r[y][j]]
    BY <2>2, <2>3, <2>5 DEF Unlinked
  <2>. QED
    BY <2>1, <2>4, <2>6, ChainKept
<1>6. ASSUME NEW i \in 1..Len(t)
      PROVE  \/ i < k /\ i \in 1..Len(s) /\ t[i] = s[i]
             \/ i >= k /\ i + 1 \in 1..Len(s) /\ t[i] = s[i + 1]
  BY <1>1 DEF DeletedAt
<1>7. HApart(q)
  <2>1. ASSUME NEW z \in HlistHeads, z # x, NEW j \in 1..Len(q[z]), NEW i \in 1..Len(t) PROVE t[i] # q[z][j]
    <3>1. q[z] = r[z] /\ j \in 1..Len(r[z])
      BY <2>1
    <3>2. \A m \in 1..Len(s) : s[m] # r[z][j]
      BY <2>1, <3>1 DEF HGood, HApart
    <3>. QED
      BY <1>6, <3>1, <3>2
  <2>2. ASSUME NEW i \in 1..Len(t), NEW j \in 1..Len(t), t[i] = t[j] PROVE i = j
    <3>0. i \in Int /\ j \in Int /\ k \in Int
      OBVIOUS
    <3>1. CASE i < k /\ j < k
      <4>1. i \in 1..Len(s) /\ j \in 1..Len(s) /\ s[i] = s[j]
        BY <1>6, <2>2, <3>0, <3>1
      <4>. QED
        BY <1>1, <4>1 DEF Distinct
    <3>2. CASE i >= k /\ j >= k
      <4>1. i + 1 \in 1..Len(s) /\ j + 1 \in 1..Len(s) /\ s[i + 1] = s[j + 1]
        BY <1>6, <2>2, <3>0, <3>2
      <4>2. i + 1 = j + 1
        BY <1>1, <4>1 DEF Distinct
      <4>. QED
        BY <3>0, <4>2
    <3>3. CASE i < k /\ j >= k
      <4>1. i \in 1..Len(s) /\ j + 1 \in 1..Len(s) /\ s[i] = s[j + 1]
        BY <1>6, <2>2, <3>0, <3>3
      <4>2. i = j + 1
        BY <1>1, <4>1 DEF Distinct
      <4>. QED
        BY <3>0, <3>3, <4>2
    <3>4. CASE i >= k /\ j < k
      <4>1. i + 1 \in 1..Len(s) /\ j \in 1..Len(s) /\ s[i + 1] = s[j]
        BY <1>6, <2>2, <3>0, <3>4
      <4>2. i + 1 = j
        BY <1>1, <4>1 DEF Distinct
      <4>. QED
        BY <3>0, <3>4, <4>2
    <3>. QED
      BY <3>0, <3>1, <3>2, <3>3, <3>4
  <2>3. ASSUME NEW y \in HlistHeads, NEW z \in HlistHeads, NEW i \in 1..Len(q[y]), NEW j \in 1..Len(q[z]),
               q[y][i] = q[z][j]
        PROVE  y = z /\ i = j
    <3>1. CASE y # x /\ z # x
      BY <2>3, <3>1 DEF HGood, HApart
    <3>2. CASE y = x \/ z = x
      BY <2>1, <2>2, <2>3, <3>2
    <3>. QED
      BY <3>1, <3>2
  <2>. QED
    BY <2>3 DEF HApart
<1>8. \A n : HLoose(r, n) => HLoose(q, n)
  BY <1>6 DEF HLoose
<1>9. HLoose(q, e) /\ ~HLoose(r, e)
  <2>1. ASSUME NEW i \in 1..Len(t) PROVE t[i] # e
    <3>1. CASE i < k
      <4>1. i \in 1..Len(s) /\ t[i] = s[i] /\ i # k
        BY <1>6, <3>1
      <4>. QED
        BY <1>1, <4>1 DEF Distinct
    <3>2. CASE i >= k
      <4>1. i + 1 \in 1..Len(s) /\ t[i] = s[i + 1] /\ i + 1 # k
        BY <1>6, <3>2
      <4>. QED
        BY <1>1, <4>1 DEF Distinct
    <3>. QED
      BY <3>1, <3>2
  <2>2. ASSUME NEW y \in HlistHeads, y # x, NEW i \in 1..Len(q[y]) PROVE q[y][i] # e
    BY <2>2 DEF HGood, HApart
  <2>. QED
    BY <2>1, <2>2 DEF HLoose
<1>10. ASSUME NEW n \in HlistNodes, HLoose(q, n), n # e PROVE HLoose(r, n)
  <2>1. ASSUME NEW i \in 1..Len(s) PROVE s[i] = e \/ \E j \in 1..Len(t) : t[j] = s[i]
    <3>1. CASE i < k
      <4>1. i \in 1..Len(t)
        BY <1>1, <3>1 DEF DeletedAt
      <4>. QED
        BY <3>1, <4>1 DEF DeletedAt
    <3>2. CASE i > k
      <4>1. i - 1 \in 1..Len(t) /\ ~(i - 1 < k) /\ (i - 1) + 1 = i
        BY <1>1, <3>2 DEF DeletedAt
      <4>. QED
        BY <4>1 DEF DeletedAt
    <3>. QED
      BY <3>1, <3>2
  <2>. QED
    BY <1>10, <2>1 DEF HLoose
<1>11. e \notin f
  BY <1>9 DEF HGood
<1>12. ASSUME NEW n \in HlistNodes, HLoose(q, n)
       PROVE  g.next[n] = NULL /\ g.pprev[n] = IF n \in f THEN n ELSE NULL
  <2>0. n \in HFields /\ n # x /\ n # NULL
    BY <1>1, HListsAssumption DEF HFields
  <2>1. CASE n = e
    BY <1>11, <2>0, <2>1 DEF Unlinked
  <2>2. CASE n # e
    <3>1. HLoose(r, n)
      BY <1>10, <1>12, <2>2
    <3>2. a # n /\ b # n
      <4>1. \A i \in 1..Len(s) : s[i] # n
        BY <3>1 DEF HLoose
      <4>2. \A i \in Int : At(x, s, i) # n /\ At(NULL, s, i) # n
        BY <2>0, <4>1 DEF At
      <4>. QED
        BY <1>1, <4>2
    <3>3. g.next[n] = h.next[n] /\ g.pprev[n] = h.pprev[n]
      BY <2>0, <2>2, <3>2 DEF Unlinked
    <3>. QED
      BY <3>1, <3>3 DEF HGood
  <2>. QED
    BY <2>1, <2>2
<1>. QED
  BY <1>2, <1>4, <1>5, <1>7, <1>8, <1>9, <1>11, <1>12 DEF HGood

\* A store to a node on no list makes it a fake, or unused.
LEMMA HStoreGood ==
  ASSUME NEW h, NEW r, NEW f, HGood(h, r, f), NEW e \in HlistNodes, HLoose(r, e),
         NEW d \in SUBSET HlistNodes, \A n \in HlistNodes : n # e => (n \in d <=> n \in f),
         NEW g, g.next = [h.next EXCEPT ![e] = NULL], g = [next |-> g.next, pprev |-> g.pprev],
         g.pprev = [h.pprev EXCEPT ![e] = IF e \in d THEN e ELSE NULL]
  PROVE  HGood(g, r, d)
<1>1. /\ h.next \in [HFields -> HlistNodes \cup {NULL}] /\ h.pprev \in [HlistNodes -> HFields \cup {NULL}]
      /\ e \in HFields
  BY DEF HGood, HHeap, HFields
<1>2. g \in HHeap
  BY <1>1 DEF HHeap
<1>3. \A n \in HFields : n # e => g.next[n] = h.next[n]
  BY <1>1
<1>4. \A n \in HlistNodes : n # e => g.pprev[n] = h.pprev[n]
  BY <1>1
<1>5. ASSUME NEW y \in HlistHeads PROVE Chain(g, y, r[y])
  <2>1. r[y] \in Seq(HlistNodes) /\ Chain(h, y, r[y]) /\ y \in HFields /\ y # e
    BY HGoodLists
  <2>2. g.next[y] = h.next[y]
    BY <1>3, <2>1
  <2>3. \A j \in 1..Len(r[y]) : r[y][j] \in HlistNodes /\ r[y][j] \in HFields /\ r[y][j] # e
    BY <2>1 DEF HFields, HLoose
  <2>4. \A j \in 1..Len(r[y]) : g.next[r[y][j]] = h.next[r[y][j]] /\ g.pprev[r[y][j]] = h.pprev[r[y][j]]
    BY <1>3, <1>4, <2>3
  <2>. QED
    BY <2>1, <2>2, <2>4, ChainKept
<1>6. ASSUME NEW n \in HlistNodes, HLoose(r, n)
      PROVE  g.next[n] = NULL /\ g.pprev[n] = IF n \in d THEN n ELSE NULL
  <2>1. CASE n = e
    BY <1>1, <2>1
  <2>2. CASE n # e
    <3>1. n \in HFields
      BY DEF HFields
    <3>2. g.next[n] = h.next[n] /\ g.pprev[n] = h.pprev[n]
      BY <1>3, <1>4, <2>2, <3>1
    <3>. QED
      BY <1>6, <2>2, <3>2 DEF HGood
  <2>. QED
    BY <2>1, <2>2
<1>7. \A n \in d : HLoose(r, n)
  BY DEF HGood
<1>. QED
  BY <1>2, <1>5, <1>6, <1>7 DEF HGood

\* The operations that add a node store what puts it between two others: behind
\* the field of a, or before the node b.
LEMMA AddLinks ==
  ASSUME NEW h \in HHeap, NEW n \in HlistNodes, NEW a \in HFields, a # n,
         NEW b, b = h.next[a], b # n
  PROVE  /\ Linked(h, hlist_add_head(h, n, a), a, n, b)
         /\ Linked(h, hlist_add_behind(h, n, a), a, n, b)
<1>1. /\ h.next \in [HFields -> HlistNodes \cup {NULL}] /\ h.pprev \in [HlistNodes -> HFields \cup {NULL}]
      /\ n \in HFields /\ b \in HlistNodes \cup {NULL} /\ NULL \notin HlistNodes
  BY HListsAssumption DEF HHeap, HFields
<1>2. PICK u : u = HSetNext(h, n, b)
  OBVIOUS
<1>3. PICK v : v = IfNode(u, b, n)
  OBVIOUS
<1>4. PICK w : w = HSetPprev(HSetNext(v, a, n), n, a)
  OBVIOUS
<1>5. u.next = [h.next EXCEPT ![n] = b] /\ u.pprev = h.pprev
  BY <1>2 DEF HSetNext
<1>6. v.next = u.next /\ v.pprev = IF b = NULL THEN h.pprev ELSE [h.pprev EXCEPT ![b] = n]
  BY <1>3, <1>5 DEF IfNode, HSetPprev
<1>7. w = [next |-> [v.next EXCEPT ![a] = n], pprev |-> [v.pprev EXCEPT ![n] = a]]
  BY <1>4 DEF HSetPprev, HSetNext
<1>8. [v.next EXCEPT ![a] = n] = [y \in HFields |-> IF y = n THEN b ELSE IF y = a THEN n ELSE h.next[y]]
  BY <1>1, <1>5, <1>6
<1>9. [v.pprev EXCEPT ![n] = a] = [y \in HlistNodes |-> IF y = n THEN a ELSE IF y = b THEN n ELSE h.pprev[y]]
  BY <1>1, <1>6
<1>10. Linked(h, w, a, n, b)
  BY <1>7, <1>8, <1>9 DEF Linked
<1>11. w = hlist_add_head(h, n, a)
  BY <1>2, <1>3, <1>4 DEF hlist_add_head
<1>12. PICK m : m = HSetPprev(HSetNext(u, a, n), n, a)
  OBVIOUS
<1>13. m = [next |-> [u.next EXCEPT ![a] = n], pprev |-> [u.pprev EXCEPT ![n] = a]]
  BY <1>12 DEF HSetPprev, HSetNext
<1>14. m.next[n] = b
  BY <1>1, <1>5, <1>13
<1>15. PICK z : z = IfNode(m, b, n)
  OBVIOUS
<1>16. z = [next |-> m.next, pprev |-> IF b = NULL THEN m.pprev ELSE [m.pprev EXCEPT ![b] = n]]
  BY <1>13, <1>15 DEF IfNode, HSetPprev
<1>17. m.next = [y \in HFields |-> IF y = n THEN b ELSE IF y = a THEN n ELSE h.next[y]]
  BY <1>1, <1>5, <1>13
<1>18. (IF b = NULL THEN m.pprev ELSE [m.pprev EXCEPT ![b] = n])
          = [y \in HlistNodes |-> IF y = n THEN a ELSE IF y = b THEN n ELSE h.pprev[y]]
  BY <1>1, <1>5, <1>13
<1>19. Linked(h, z, a, n, b)
  BY <1>16, <1>17, <1>18 DEF Linked
<1>20. z = hlist_add_behind(h, n, a)
  BY <1>2, <1>12, <1>14, <1>15 DEF hlist_add_behind
<1>. QED
  BY <1>10, <1>11, <1>19, <1>20

\* hlist_add_before: the field that leads to b leads to n.
LEMMA AddBeforeLinks ==
  ASSUME NEW h \in HHeap, NEW n \in HlistNodes, NEW b \in HlistNodes, b # n,
         NEW a \in HFields, a = h.pprev[b], a # n
  PROVE  Linked(h, hlist_add_before(h, n, b), a, n, b)
<1>1. /\ h.next \in [HFields -> HlistNodes \cup {NULL}] /\ h.pprev \in [HlistNodes -> HFields \cup {NULL}]
      /\ n \in HFields
  BY DEF HHeap, HFields
<1>2. PICK u : u = HSetNext(HSetPprev(h, n, a), n, b)
  OBVIOUS
<1>3. u.next = [h.next EXCEPT ![n] = b] /\ u.pprev = [h.pprev EXCEPT ![n] = a]
  BY <1>2 DEF HSetNext, HSetPprev
<1>4. u.pprev[n] = a
  BY <1>1, <1>3
<1>5. PICK v : v = HSetNext(HSetPprev(u, b, n), a, n)
  OBVIOUS
<1>6. v = [next |-> [u.next EXCEPT ![a] = n], pprev |-> [u.pprev EXCEPT ![b] = n]]
  BY <1>5 DEF HSetNext, HSetPprev
<1>7. [u.next EXCEPT ![a] = n] = [y \in HFields |-> IF y = n THEN b ELSE IF y = a THEN n ELSE h.next[y]]
  BY <1>1, <1>3
<1>8. [u.pprev EXCEPT ![b] = n] = [y \in HlistNodes |-> IF y = n THEN a ELSE IF y = b THEN n ELSE h.pprev[y]]
  BY <1>1, <1>3
<1>9. Linked(h, v, a, n, b)
  BY <1>6, <1>7, <1>8 DEF Linked
<1>10. v = hlist_add_before(h, n, b)
  BY <1>2, <1>4, <1>5 DEF hlist_add_before
<1>. QED
  BY <1>9, <1>10

\* Those that remove a node take it out from between two others; a fake
\* becomes unused.
LEMMA DelUnlinks ==
  ASSUME NEW h \in HHeap, NEW n \in HlistNodes, NEW a \in HFields, a = h.pprev[n],
         NEW b, b = h.next[n]
  PROVE  /\ hlist_del_init(h, n) = hlist_del(h, n)
         /\ a # n /\ b # n => Unlinked(h, hlist_del(h, n), a, n, b)
         /\ a = n => hlist_del(h, n).next = [h.next EXCEPT ![n] = NULL]
         /\ a = n /\ b = NULL => hlist_del(h, n).pprev = [h.pprev EXCEPT ![n] = NULL]
         /\ hlist_del(h, n) = [next |-> hlist_del(h, n).next, pprev |-> hlist_del(h, n).pprev]
<1>1. /\ h.next \in [HFields -> HlistNodes \cup {NULL}] /\ h.pprev \in [HlistNodes -> HFields \cup {NULL}]
      /\ n \in HFields /\ b \in HlistNodes \cup {NULL} /\ NULL \notin HlistNodes /\ a # NULL
  BY HListsAssumption DEF HHeap, HFields
<1>2. PICK u : u = HSetNext(h, a, b)
  OBVIOUS
<1>3. PICK v : v = IfNode(u, b, a)
  OBVIOUS
<1>4. PICK w : w = HSetPprev(HSetNext(v, n, NULL), n, NULL)
  OBVIOUS
<1>5. u.next = [h.next EXCEPT ![a] = b] /\ u.pprev = h.pprev
  BY <1>2 DEF HSetNext
<1>6. v.next = u.next /\ v.pprev = IF b = NULL THEN h.pprev ELSE [h.pprev EXCEPT ![b] = a]
  BY <1>3, <1>5 DEF IfNode, HSetPprev
<1>7. w = [next |-> [v.next EXCEPT ![n] = NULL], pprev |-> [v.pprev EXCEPT ![n] = NULL]]
  BY <1>4 DEF HSetPprev, HSetNext
<1>8. v = __hlist_del(h, n)
  BY <1>2, <1>3 DEF __hlist_del
<1>9. w = hlist_del(h, n)
  BY <1>4, <1>8 DEF hlist_del
<1>10. hlist_del_init(h, n) = w
  BY <1>1, <1>4, <1>8 DEF hlist_del_init, hlist_unhashed, INIT_HLIST_NODE
<1>11. ASSUME a # n, b # n PROVE Unlinked(h, w, a, n, b)
  <2>1. [v.next EXCEPT ![n] = NULL] = [y \in HFields |-> IF y = n THEN NULL ELSE IF y = a THEN b ELSE h.next[y]]
    BY <1>1, <1>5, <1>6, <1>11
  <2>2. [v.pprev EXCEPT ![n] = NULL] = [y \in HlistNodes |-> IF y = n THEN NULL ELSE IF y = b THEN a ELSE h.pprev[y]]
    BY <1>1, <1>6, <1>11
  <2>. QED
    BY <1>7, <2>1, <2>2 DEF Unlinked
<1>12. a = n => w.next = [h.next EXCEPT ![n] = NULL]
  BY <1>1, <1>5, <1>6, <1>7
<1>13. a = n /\ b = NULL => w.pprev = [h.pprev EXCEPT ![n] = NULL]
  BY <1>6, <1>7
<1>. QED
  BY <1>7, <1>9, <1>10, <1>11, <1>12, <1>13

\* hlist_move_list: the nodes of old are those of new, which had none.
LEMMA HMoveGood ==
  ASSUME NEW h, NEW r, NEW f, HGood(h, r, f), NEW old \in HlistHeads, NEW new \in HlistHeads, old # new,
         r[new] = <<>>, NEW g, g = hlist_move_list(h, old, new),
         NEW q, q = [r EXCEPT ![new] = r[old], ![old] = <<>>]
  PROVE  HGood(g, q, f)
<1>1. PICK s, b : s = r[old] /\ b = h.next[old]
  OBVIOUS
<1>2. /\ s \in Seq(HlistNodes) /\ Distinct(s) /\ Chain(h, old, s) /\ Len(s) \in Nat
      /\ old \in HFields /\ new \in HFields /\ old \notin HlistNodes /\ new \notin HlistNodes
      /\ NULL \notin HlistNodes
  BY <1>1, HGoodLists, HListsAssumption
<1>3. /\ h.next \in [HFields -> HlistNodes \cup {NULL}] /\ h.pprev \in [HlistNodes -> HFields \cup {NULL}]
      /\ r \in HRings
  BY DEF HGood, HHeap
<1>4. b = At(NULL, s, 1)
  BY <1>1, <1>2 DEF Chain, At
<1>5. /\ q \in HRings /\ q[new] = s /\ q[old] = <<>>
      /\ \A y \in HlistHeads : y # old /\ y # new => q[y] = r[y]
  <2>1. \A y \in HlistHeads : q[y] = IF y = old THEN <<>> ELSE IF y = new THEN s ELSE r[y]
    BY <1>1, <1>3 DEF HRings
  <2>2. \A y \in HlistHeads : q[y] \in Seq(HlistNodes)
    BY <1>2, <1>3, <2>1 DEF HRings
  <2>3. q = [y \in HlistHeads |-> q[y]]
    BY <1>3 DEF HRings
  <2>. QED
    BY <2>1, <2>2, <2>3 DEF HRings
<1>6. /\ g = [next |-> g.next, pprev |-> g.pprev]
      /\ g.next = [y \in HFields |-> IF y = old THEN NULL ELSE IF y = new THEN b ELSE h.next[y]]
      /\ g.pprev = [y \in HlistNodes |-> IF y = b THEN new ELSE h.pprev[y]]
  <2>1. PICK u : u = HSetNext(h, new, b)
    OBVIOUS
  <2>2. PICK v : v = IfNode(u, b, new)
    OBVIOUS
  <2>3. u.next = [h.next EXCEPT ![new] = b] /\ u.pprev = h.pprev /\ u.next[new] = b
    BY <1>2, <1>3, <2>1 DEF HSetNext
  <2>4. v.next = u.next /\ v.pprev = IF b = NULL THEN h.pprev ELSE [h.pprev EXCEPT ![b] = new]
    BY <2>2, <2>3 DEF IfNode, HSetPprev
  <2>5. g = HSetNext(v, old, NULL)
    BY <1>1, <2>1, <2>2, <2>3 DEF hlist_move_list
  <2>6. g = [next |-> [v.next EXCEPT ![old] = NULL], pprev |-> v.pprev]
    BY <2>5 DEF HSetNext
  <2>7. [v.next EXCEPT ![old] = NULL] = [y \in HFields |-> IF y = old THEN NULL ELSE IF y = new THEN b ELSE h.next[y]]
    BY <1>3, <2>3, <2>4
  <2>8. v.pprev = [y \in HlistNodes |-> IF y = b THEN new ELSE h.pprev[y]]
    BY <1>2, <1>3, <2>4
  <2>. QED
    BY <2>6, <2>7, <2>8
<1>7. g \in HHeap
  <2>1. b \in HlistNodes \cup {NULL}
    BY <1>1, <1>2, <1>3
  <2>. QED
    BY <1>2, <1>3, <1>6, <2>1 DEF HHeap
<1>8. Chain(g, old, <<>>)
  <2>1. At(old, <<>>, 0) = old /\ At(NULL, <<>>, 0 + 1) = NULL /\ Len(<<>>) = 0 /\ 0..0 = {0} /\ 1..0 = {}
    BY DEF At
  <2>2. g.next[old] = NULL
    BY <1>2, <1>6
  <2>. QED
    BY <2>1, <2>2 DEF Chain
<1>9. Chain(g, new, s)
  <2>1. ASSUME NEW i \in 0..Len(s) PROVE g.next[At(new, s, i)] = At(NULL, s, i + 1)
    <3>1. CASE i = 0
      BY <1>2, <1>4, <1>6, <3>1 DEF At
    <3>2. CASE i > 0
      <4>1. i \in 1..Len(s) /\ s[i] \in HlistNodes /\ s[i] \in HFields /\ At(new, s, i) = s[i] /\ At(old, s, i) = s[i]
        BY <1>2, <3>2 DEF At, HFields
      <4>2. g.next[s[i]] = h.next[s[i]]
        BY <1>2, <1>6, <4>1
      <4>3. h.next[At(old, s, i)] = At(NULL, s, i + 1)
        BY <1>2 DEF Chain
      <4>. QED
        BY <4>1, <4>2, <4>3
    <3>. QED
      BY <3>1, <3>2
  <2>2. ASSUME NEW i \in 1..Len(s) PROVE g.pprev[s[i]] = At(new, s, i - 1)
    <3>0. s[i] \in HlistNodes
      BY <1>2
    <3>1. CASE i = 1
      <4>1. s[i] = b /\ At(new, s, i - 1) = new
        BY <1>4, <3>1 DEF At
      <4>. QED
        BY <1>6, <3>0, <4>1
    <3>2. CASE i # 1
      <4>1. i - 1 \in 1..Len(s) /\ At(new, s, i - 1) = s[i - 1] /\ At(old, s, i - 1) = s[i - 1] /\ b = s[1]
        BY <1>2, <1>4, <3>2 DEF At
      <4>2. s[i] # b
        BY <1>2, <3>2, <4>1 DEF Distinct
      <4>3. g.pprev[s[i]] = h.pprev[s[i]]
        BY <1>6, <3>0, <4>2
      <4>4. h.pprev[s[i]] = At(old, s, i - 1)
        BY <1>2 DEF Chain
      <4>. QED
        BY <4>1, <4>3, <4>4
    <3>. QED
      BY <3>1, <3>2
  <2>. QED
    BY <2>1, <2>2 DEF Chain
<1>10. ASSUME NEW y \in HlistHeads, y # old, y # new PROVE Chain(g, y, r[y])
  <2>1. r[y] \in Seq(HlistNodes) /\ Chain(h, y, r[y]) /\ y \in HFields
    BY HGoodLists
  <2>2. \A j \in 1..Len(r[y]) : r[y][j] \in HlistNodes /\ r[y][j] \in HFields
    BY <2>1 DEF HFields
  <2>3. \A j \in 1..Len(r[y]) : b # r[y][j]
    <3>1. 1 \in Int
      OBVIOUS
    <3>2. old # y
      BY <1>10
    <3>3. \A i \in Int : \A j \in 1..Len(r[y]) : At(NULL, r[old], i) # r[y][j]
      BY <3>2, HOffOthers
    <3>. QED
      BY <1>1, <1>4, <3>1, <3>3
  <2>4. g.next[y] = h.next[y]
    BY <1>6, <1>10, <2>1
  <2>5. \A j \in 1..Len(r[y]) : g.next[r[y][j]] = h.next[r[y][j]] /\ g.pprev[r[y][j]] = h.pprev[r[y][j]]
    BY <1>2, <1>6, <2>2, <2>3
  <2>. QED
    BY <2>1, <2>4, <2>5, ChainKept
<1>11. HApart(q)
  <2>1. ASSUME NEW y \in HlistHeads, NEW z \in HlistHeads, NEW i \in 1..Len(q[y]), NEW j \in 1..Len(q[z]),
               q[y][i] = q[z][j]
        PROVE  y = z /\ i = j
    <3>1. y # old /\ z # old
      <4>1. Len(q[old]) = 0 /\ \A m \in 1..0 : FALSE
        BY <1>5
      <4>. QED
        BY <2>1, <4>1
    <3>2. PICK u \in HlistHeads : u = (IF y = new THEN old ELSE y) /\ q[y] = r[u]
      BY <1>1, <1>5, <3>1
    <3>3. PICK v \in HlistHeads : v = (IF z = new THEN old ELSE z) /\ q[z] = r[v]
      BY <1>1, <1>5, <3>1
    <3>4. i \in 1..Len(r[u]) /\ j \in 1..Len(r[v]) /\ r[u][i] = r[v][j]
      BY <2>1, <3>2, <3>3
    <3>5. u = v /\ i = j
      BY <3>4 DEF HGood, HApart
    <3>. QED
      BY <3>1, <3>2, <3>3, <3>5
  <2>. QED
    BY <2>1 DEF HApart
<1>12. \A n : HLoose(q, n) <=> HLoose(r, n)
  <2>1. ASSUME NEW n, HLoose(r, n) PROVE HLoose(q, n)
    <3>1. ASSUME NEW y \in HlistHeads, NEW i \in 1..Len(q[y]) PROVE q[y][i] # n
      <4>1. CASE y = old
        BY <1>5, <4>1
      <4>2. CASE y = new
        BY <1>1, <1>5, <2>1, <4>2 DEF HLoose
      <4>3. CASE y # old /\ y # new
        BY <1>5, <2>1, <4>3 DEF HLoose
      <4>. QED
        BY <4>1, <4>2, <4>3
    <3>. QED
      BY <3>1 DEF HLoose
  <2>2. ASSUME NEW n, HLoose(q, n) PROVE HLoose(r, n)
    <3>1. ASSUME NEW y \in HlistHeads, NEW i \in 1..Len(r[y]) PROVE r[y][i] # n
      <4>1. CASE y = new
        BY <4>1
      <4>2. CASE y = old
        <5>1. i \in 1..Len(q[new]) /\ q[new][i] = r[y][i]
          BY <1>1, <1>5, <4>2
        <5>. QED
          BY <2>2, <5>1 DEF HLoose
      <4>3. CASE y # old /\ y # new
        BY <1>5, <2>2, <4>3 DEF HLoose
      <4>. QED
        BY <4>1, <4>2, <4>3
    <3>. QED
      BY <3>1 DEF HLoose
  <2>. QED
    BY <2>1, <2>2
<1>13. ASSUME NEW n \in HlistNodes, HLoose(r, n)
       PROVE  g.next[n] = NULL /\ g.pprev[n] = IF n \in f THEN n ELSE NULL
  <2>1. n \in HFields /\ n # old /\ n # new /\ n # NULL
    BY <1>2 DEF HFields
  <2>2. b # n
    <3>1. \A i \in 1..Len(s) : s[i] # n
      BY <1>1, <1>13 DEF HLoose
    <3>. QED
      BY <1>4, <2>1, <3>1 DEF At
  <2>3. g.next[n] = h.next[n] /\ g.pprev[n] = h.pprev[n]
    BY <1>6, <2>1, <2>2
  <2>. QED
    BY <1>13, <2>3 DEF HGood
<1>14. \A y \in HlistHeads : Chain(g, y, q[y])
  BY <1>5, <1>8, <1>9, <1>10
<1>. QED
  BY <1>5, <1>7, <1>11, <1>12, <1>13, <1>14 DEF HGood

HListsGood == HGood(hheap, hring, fakes)

\* Node e is the k-th of the list of x.
HIs(e, x, k) == x \in HlistHeads /\ k \in 1..Len(hring[x]) /\ hring[x][k] = e

\* Where the nodes are.
LEMMA HOnIs ==
  ASSUME HListsGood, NEW x \in HlistHeads, NEW e
  PROVE  /\ e \in HOn(x) => HIs(e, x, HPlace(x, e)) /\ e \in HlistNodes
         /\ \A k : HIs(e, x, k) => e \in HOn(x) /\ HPlace(x, e) = k
         /\ HLoose(hring, e) => e \notin HOn(x)
<1>1. hring[x] \in Seq(HlistNodes) /\ DOMAIN hring[x] = 1..Len(hring[x]) /\ Distinct(hring[x])
  BY HGoodLists DEF HListsGood
<1>2. e \in HOn(x) <=> \E k \in 1..Len(hring[x]) : hring[x][k] = e
  BY <1>1 DEF HOn, ToSet
<1>3. e \in HOn(x) => HPlace(x, e) \in 1..Len(hring[x]) /\ hring[x][HPlace(x, e)] = e
  BY <1>1, <1>2 DEF HPlace
<1>4. ASSUME NEW k, HIs(e, x, k) PROVE e \in HOn(x) /\ HPlace(x, e) = k
  <2>1. e \in HOn(x) /\ hring[x][k] = e /\ k \in 1..Len(hring[x])
    BY <1>2, <1>4 DEF HIs
  <2>. QED
    BY <1>1, <1>3, <2>1 DEF Distinct
<1>5. e \in HOn(x) => e \in HlistNodes
  BY <1>1, <1>3
<1>6. HLoose(hring, e) => e \notin HOn(x)
  BY <1>2 DEF HLoose
<1>. QED
  BY <1>3, <1>4, <1>5, <1>6 DEF HIs

\* A node is on one list, a fake, or unused.
LEMMA HKnown ==
  ASSUME HListsGood, NEW e \in HlistNodes
  PROVE  /\ e \in Hashed => \E x \in HlistHeads : HIs(e, x, HPlace(x, e)) /\ e \in HOn(x)
         /\ e \notin Hashed => HLoose(hring, e)
         /\ e \in fakes => HLoose(hring, e) /\ e \notin Hashed
         /\ e \in Unused <=> HLoose(hring, e) /\ e \notin fakes
         /\ \A x, k : HIs(e, x, k) => e \in Hashed /\ e \notin fakes /\ ~HLoose(hring, e)
<1>1. e \in Hashed => \E x \in HlistHeads : HIs(e, x, HPlace(x, e)) /\ e \in HOn(x)
  BY HOnIs DEF Hashed
<1>2. ASSUME NEW x, NEW k, HIs(e, x, k) PROVE e \in Hashed /\ e \notin fakes /\ ~HLoose(hring, e)
  <2>1. x \in HlistHeads /\ e \in HOn(x)
    BY <1>2, HOnIs DEF HIs
  <2>2. ~HLoose(hring, e)
    BY <1>2 DEF HIs, HLoose
  <2>. QED
    BY <2>1, <2>2 DEF Hashed, HListsGood, HGood
<1>3. e \notin Hashed => HLoose(hring, e)
  <2>1. ~HLoose(hring, e) => \E x, k : HIs(e, x, k)
    BY DEF HLoose, HIs
  <2>. QED
    BY <1>2, <2>1
<1>4. HLoose(hring, e) => e \notin Hashed
  BY HOnIs DEF Hashed
<1>5. e \in fakes => HLoose(hring, e)
  BY DEF HListsGood, HGood
<1>. QED
  BY <1>1, <1>2, <1>3, <1>4, <1>5 DEF Unused

\* A node is on one list, once.
LEMMA HOnePlace ==
  ASSUME HListsGood, NEW e, NEW x, NEW k, HIs(e, x, k), NEW y, NEW j, HIs(e, y, j)
  PROVE  x = y /\ k = j
BY DEF HIs, HListsGood, HGood, HApart

\* HWithout takes the node out of its list, if it is on one.
LEMMA HWithoutIs ==
  ASSUME HListsGood, NEW e
  PROVE  /\ HLoose(hring, e) => HWithout(e) = hring
         /\ \A x, k : HIs(e, x, k) =>
              /\ HWithout(e) \in HRings /\ DeletedAt(hring[x], k, HWithout(e)[x])
              /\ \A y \in HlistHeads : y # x => HWithout(e)[y] = hring[y]
<1>0. hring = [y \in HlistHeads |-> hring[y]] /\ \A y \in HlistHeads : hring[y] \in Seq(HlistNodes)
  BY DEF HListsGood, HGood, HRings
<1>1. ASSUME HLoose(hring, e) PROVE HWithout(e) = hring
  <2>1. \A y \in HlistHeads : e \notin HOn(y)
    BY <1>1, HOnIs
  <2>. QED
    BY <1>0, <2>1 DEF HWithout
<1>2. ASSUME NEW x, NEW k, HIs(e, x, k)
      PROVE  /\ HWithout(e) \in HRings /\ DeletedAt(hring[x], k, HWithout(e)[x])
             /\ \A y \in HlistHeads : y # x => HWithout(e)[y] = hring[y]
  <2>1. x \in HlistHeads /\ k \in 1..Len(hring[x])
    BY <1>2 DEF HIs
  <2>2. e \in HOn(x) /\ HPlace(x, e) = k
    BY <1>2, <2>1, HOnIs
  <2>3. ASSUME NEW y \in HlistHeads, y # x PROVE e \notin HOn(y)
    BY <1>2, <2>3, HOnIs, HOnePlace
  <2>4. /\ HWithout(e)[x] = RemoveAt(hring[x], k)
        /\ \A y \in HlistHeads : y # x => HWithout(e)[y] = hring[y]
    BY <2>1, <2>2, <2>3 DEF HWithout
  <2>5. RemoveAt(hring[x], k) \in Seq(HlistNodes) /\ DeletedAt(hring[x], k, RemoveAt(hring[x], k))
    BY <1>0, <2>1, RemoveAtDeletes
  <2>6. HWithout(e) \in HRings
    <3>1. HWithout(e) = [y \in HlistHeads |-> HWithout(e)[y]]
      BY DEF HWithout
    <3>2. \A y \in HlistHeads : HWithout(e)[y] \in Seq(HlistNodes)
      BY <1>0, <2>4, <2>5
    <3>. QED
      BY <3>1, <3>2 DEF HRings
  <2>. QED
    BY <2>4, <2>5, <2>6
<1>. QED
  BY <1>1, <1>2

\* Putting an element in as the k-th.
LEMMA InsertAtInserts ==
  ASSUME NEW S, NEW s \in Seq(S), NEW e \in S, NEW k \in 1..(Len(s) + 1)
  PROVE  InsertAt(s, k, e) \in Seq(S) /\ InsertedAt(s, k - 1, e, InsertAt(s, k, e))
<1> DEFINE a == SubSeq(s, 1, k - 1)
           b == SubSeq(s, k, Len(s))
<1>1. /\ 1 \in 1..(Len(s) + 1) /\ k - 1 \in (1 - 1)..Len(s) /\ Len(s) \in (k - 1)..Len(s) /\ Len(s) \in Nat
  OBVIOUS
<1>2. a \in Seq(S) /\ Len(a) = k - 1 /\ \A i \in 1..(k - 1) : a[i] = s[i]
  BY <1>1, Stretch
<1>3. b \in Seq(S) /\ Len(b) = Len(s) - k + 1 /\ \A i \in 1..(Len(s) - k + 1) : b[i] = s[k - 1 + i]
  BY <1>1, Stretch
<1> HIDE DEF a, b
<1>4. /\ a \o <<e>> \in Seq(S) /\ Len(a \o <<e>>) = k
      /\ \A i \in 1..k : (a \o <<e>>)[i] = IF i = k THEN e ELSE s[i]
  <2>1. a \o <<e>> = Append(a, e)
    BY <1>2
  <2>2. Append(a, e) \in Seq(S) /\ Len(Append(a, e)) = k /\ Append(a, e)[k] = e /\ \A i \in 1..(k - 1) : Append(a, e)[i] = a[i]
    BY <1>2, AppendProperties
  <2>. QED
    BY <1>2, <2>1, <2>2
<1>5. PICK c \in Seq(S) : c = a \o <<e>>
  BY <1>4
<1>6. Len(c) = k /\ \A i \in 1..k : c[i] = IF i = k THEN e ELSE s[i]
  BY <1>4, <1>5
<1>7. /\ c \o b \in Seq(S) /\ Len(c \o b) = Len(s) + 1
      /\ \A i \in 1..(Len(s) + 1) : (c \o b)[i] = IF i <= k THEN c[i] ELSE b[i - k]
  <2>1. /\ c \o b \in Seq(S) /\ Len(c \o b) = Len(c) + Len(b)
        /\ \A i \in 1..Len(c) + Len(b) : (c \o b)[i] = IF i <= Len(c) THEN c[i] ELSE b[i - Len(c)]
    BY <1>3, ConcatProperties
  <2>2. Len(c) + Len(b) = Len(s) + 1
    BY <1>1, <1>3, <1>6
  <2>. QED
    BY <1>6, <2>1, <2>2
<1>8. InsertAt(s, k, e) = c \o b
  BY <1>5 DEF InsertAt, a, b
<1>9. PICK t : t = c \o b
  OBVIOUS
<1>10. ASSUME NEW i \in 1..Len(t) PROVE t[i] = IF i <= k - 1 THEN s[i] ELSE IF i = (k - 1) + 1 THEN e ELSE s[i - 1]
  <2>1. CASE i <= k
    BY <1>7, <1>9, <1>6, <2>1
  <2>2. CASE i > k
    <3>1. t[i] = b[i - k] /\ i - k \in 1..(Len(s) - k + 1) /\ k - 1 + (i - k) = i - 1
      BY <1>1, <1>7, <1>9, <2>2
    <3>. QED
      BY <1>3, <2>2, <3>1
  <2>. QED
    BY <2>1, <2>2
<1>. QED
  BY <1>7, <1>8, <1>9, <1>10 DEF InsertedAt

\* HInserted puts e where f is, or after it.
LEMMA HInsertedIs ==
  ASSUME HListsGood, NEW e \in HlistNodes, NEW f, NEW x, NEW k, HIs(f, x, k), NEW after \in {0, 1}
  PROVE  /\ HInserted(e, f, after) \in HRings
         /\ InsertedAt(hring[x], k - 1 + after, e, HInserted(e, f, after)[x])
         /\ \A y \in HlistHeads : y # x => HInserted(e, f, after)[y] = hring[y]
<1>0. \A y \in HlistHeads : hring[y] \in Seq(HlistNodes)
  BY DEF HListsGood, HGood, HRings
<1>1. x \in HlistHeads /\ k \in 1..Len(hring[x]) /\ k + after \in 1..(Len(hring[x]) + 1) /\ (k + after) - 1 = k - 1 + after
  BY <1>0 DEF HIs
<1>2. f \in HOn(x) /\ HPlace(x, f) = k
  BY <1>1, HOnIs
<1>3. ASSUME NEW y \in HlistHeads, y # x PROVE f \notin HOn(y)
  BY <1>3, HOnIs, HOnePlace
<1>4. /\ HInserted(e, f, after)[x] = InsertAt(hring[x], k + after, e)
      /\ \A y \in HlistHeads : y # x => HInserted(e, f, after)[y] = hring[y]
  BY <1>1, <1>2, <1>3 DEF HInserted
<1>5. /\ InsertAt(hring[x], k + after, e) \in Seq(HlistNodes)
      /\ InsertedAt(hring[x], (k + after) - 1, e, InsertAt(hring[x], k + after, e))
  BY <1>0, <1>1, InsertAtInserts
<1>6. HInserted(e, f, after) \in HRings
  <2>1. HInserted(e, f, after) = [y \in HlistHeads |-> HInserted(e, f, after)[y]]
    BY DEF HInserted
  <2>2. \A y \in HlistHeads : HInserted(e, f, after)[y] \in Seq(HlistNodes)
    BY <1>0, <1>4, <1>5
  <2>. QED
    BY <2>1, <2>2 DEF HRings
<1>. QED
  BY <1>1, <1>4, <1>5, <1>6

\* hlist_add_head, to any lists: the loops move nodes with it.
LEMMA HAddHeadStep ==
  ASSUME NEW h, NEW r, NEW f, HGood(h, r, f), NEW e \in HlistNodes, HLoose(r, e), e \notin f,
         NEW x \in HlistHeads
  PROVE  HGood(hlist_add_head(h, e, x), [r EXCEPT ![x] = <<e>> \o @], f)
<1>1. PICK s, b, g, q : /\ s = r[x] /\ b = h.next[x] /\ g = hlist_add_head(h, e, x)
                        /\ q = [r EXCEPT ![x] = <<e>> \o @]
  OBVIOUS
<1>2. /\ s \in Seq(HlistNodes) /\ Chain(h, x, s) /\ Len(s) \in Nat /\ x \in HFields /\ x # e
      /\ h \in HHeap /\ r \in HRings
  BY <1>1, HGoodLists DEF HGood
<1>3. At(x, s, 0) = x /\ At(NULL, s, 0 + 1) = b
  BY <1>1, <1>2 DEF Chain, At
<1>4. b # e
  <2>1. e # NULL /\ \A i \in 1..Len(s) : s[i] # e
    BY <1>1, HListsAssumption DEF HLoose
  <2>. QED
    BY <1>3, <2>1 DEF At
<1>5. Linked(h, g, x, e, b)
  BY <1>1, <1>2, <1>4, AddLinks
<1>6. /\ <<e>> \o s \in Seq(HlistNodes) /\ InsertedAt(s, 0, e, <<e>> \o s)
  BY <1>2, AppendInserts
<1>7. q \in HRings /\ q[x] = <<e>> \o s /\ \A y \in HlistHeads : y # x => q[y] = r[y]
  BY <1>1, <1>2, <1>6 DEF HRings
<1>8. Linked(h, g, At(x, r[x], 0), e, At(NULL, r[x], 0 + 1)) /\ InsertedAt(r[x], 0, e, q[x]) /\ 0 \in 0..Len(r[x])
  BY <1>1, <1>2, <1>3, <1>5, <1>6, <1>7
<1>9. PICK k \in 0..Len(r[x]) : k = 0
  BY <1>8
<1>10. HGood(g, q, f)
  BY <1>7, <1>8, <1>9, HInsertGood
<1>. QED
  BY <1>1, <1>10

\* hlist_add_before and hlist_add_behind.
LEMMA HBesideSteps ==
  ASSUME HListsGood, NEW e \in Unused, NEW f \in Hashed
  PROVE  /\ HGood(hlist_add_before(hheap, e, f), HInserted(e, f, 0), fakes)
         /\ HGood(hlist_add_behind(hheap, e, f), HInserted(e, f, 1), fakes)
<1>1. e \in HlistNodes /\ HLoose(hring, e) /\ e \notin fakes
  BY HKnown DEF Unused
<1>2. f \in HlistNodes
  BY HOnIs DEF Hashed
<1>3. PICK x \in HlistHeads : \E k : HIs(f, x, k)
  BY <1>2, HKnown
<1>4. PICK k : HIs(f, x, k)
  BY <1>3
<1>5. PICK s : s = hring[x]
  OBVIOUS
<1>6. k \in 1..Len(s) /\ s[k] = f /\ k - 1 \in 0..Len(s) /\ k \in 0..Len(s) /\ (k - 1) + 1 = k /\ k - 1 \in Int /\ k + 1 \in Int
  BY <1>4, <1>5 DEF HIs
<1>7. /\ s \in Seq(HlistNodes) /\ Chain(hheap, x, s) /\ hheap \in HHeap /\ Len(s) \in Nat
      /\ x \in HFields /\ x # e /\ e # NULL /\ \A i \in 1..Len(s) : s[i] # e
  BY <1>1, <1>5, HGoodLists, HListsAssumption DEF HListsGood, HGood, HLoose
<1>8. PICK a, b : a = At(x, s, k - 1) /\ b = At(NULL, s, k + 1)
  OBVIOUS
<1>9. a \in HFields /\ a # e /\ b # e /\ f # e /\ f \in HFields
  <2>1. At(x, s, k - 1) # e /\ At(NULL, s, k + 1) # e /\ s[k] # e
    BY <1>6, <1>7 DEF At
  <2>. QED
    BY <1>2, <1>6, <1>7, <1>8, <2>1, ChainAt DEF HFields
<1>10. hheap.pprev[f] = a /\ hheap.next[f] = b /\ At(x, s, k) = f /\ At(NULL, s, k) = f
  <2>1. hheap.pprev[s[k]] = At(x, s, k - 1)
    BY <1>6, <1>7 DEF Chain
  <2>2. hheap.next[At(x, s, k)] = At(NULL, s, k + 1)
    BY <1>6, <1>7 DEF Chain
  <2>3. At(x, s, k) = f /\ At(NULL, s, k) = f
    BY <1>6 DEF At
  <2>. QED
    BY <1>6, <1>8, <2>1, <2>2, <2>3
<1>11. HGood(hlist_add_before(hheap, e, f), HInserted(e, f, 0), fakes)
  <2>1. PICK g, q : g = hlist_add_before(hheap, e, f) /\ q = HInserted(e, f, 0)
    OBVIOUS
  <2>2. Linked(hheap, g, a, e, f)
    BY <1>1, <1>2, <1>7, <1>9, <1>10, <2>1, AddBeforeLinks
  <2>3. q \in HRings /\ InsertedAt(hring[x], k - 1 + 0, e, q[x]) /\ \A y \in HlistHeads : y # x => q[y] = hring[y]
    BY <1>1, <1>4, <2>1, HInsertedIs
  <2>4. PICK j \in 0..Len(s) : j = k - 1 /\ j + 1 = k /\ k - 1 + 0 = j
    BY <1>6
  <2>5. Linked(hheap, g, At(x, hring[x], j), e, At(NULL, hring[x], j + 1)) /\ j \in 0..Len(hring[x]) /\ InsertedAt(hring[x], j, e, q[x])
    BY <1>5, <1>8, <1>10, <2>2, <2>3, <2>4
  <2>6. HGood(g, q, fakes)
    BY <1>1, <2>3, <2>5, HInsertGood DEF HListsGood
  <2>. QED
    BY <2>1, <2>6
<1>12. HGood(hlist_add_behind(hheap, e, f), HInserted(e, f, 1), fakes)
  <2>1. PICK g, q : g = hlist_add_behind(hheap, e, f) /\ q = HInserted(e, f, 1)
    OBVIOUS
  <2>2. Linked(hheap, g, f, e, b)
    BY <1>1, <1>7, <1>9, <1>10, <2>1, AddLinks
  <2>3. q \in HRings /\ InsertedAt(hring[x], k - 1 + 1, e, q[x]) /\ \A y \in HlistHeads : y # x => q[y] = hring[y]
    BY <1>1, <1>4, <2>1, HInsertedIs
  <2>4. k - 1 + 1 = k
    BY <1>6
  <2>5. Linked(hheap, g, At(x, hring[x], k), e, At(NULL, hring[x], k + 1)) /\ k \in 0..Len(hring[x]) /\ InsertedAt(hring[x], k, e, q[x])
    BY <1>5, <1>6, <1>8, <1>10, <2>2, <2>3, <2>4
  <2>6. HGood(g, q, fakes)
    BY <1>1, <2>3, <2>5, HInsertGood DEF HListsGood
  <2>. QED
    BY <2>1, <2>6
<1>. QED
  BY <1>11, <1>12

\* hlist_del and hlist_del_init of a node on a list.
LEMMA HDeleteStep ==
  ASSUME HListsGood, NEW e, NEW x, NEW k, HIs(e, x, k)
  PROVE  /\ HGood(hlist_del(hheap, e), HWithout(e), fakes)
         /\ hlist_del_init(hheap, e) = hlist_del(hheap, e)
         /\ HLoose(HWithout(e), e) /\ e \notin fakes /\ e \in HlistNodes
<1>1. PICK s : s = hring[x]
  OBVIOUS
<1>2. x \in HlistHeads /\ k \in 1..Len(s) /\ s[k] = e /\ k - 1 \in Int /\ k + 1 \in Int
  BY <1>1 DEF HIs
<1>3. /\ s \in Seq(HlistNodes) /\ Chain(hheap, x, s) /\ hheap \in HHeap /\ Len(s) \in Nat /\ Distinct(s)
  BY <1>1, <1>2, HGoodLists DEF HListsGood, HGood
<1>4. PICK a, b : a = At(x, s, k - 1) /\ b = At(NULL, s, k + 1)
  OBVIOUS
<1>5. a \in HFields /\ e \in HlistNodes /\ e # x /\ e # NULL
  BY <1>2, <1>3, <1>4, ChainAt
<1>6. hheap.pprev[e] = a /\ hheap.next[e] = b
  <2>1. hheap.pprev[s[k]] = At(x, s, k - 1)
    BY <1>2, <1>3 DEF Chain
  <2>2. hheap.next[At(x, s, k)] = At(NULL, s, k + 1)
    BY <1>2, <1>3 DEF Chain
  <2>3. At(x, s, k) = e
    BY <1>2 DEF At
  <2>. QED
    BY <1>2, <1>4, <2>1, <2>2, <2>3
<1>7. a # e /\ b # e
  <2>1. \A i \in 1..Len(s) : i # k => s[i] # e
    BY <1>2, <1>3 DEF Distinct
  <2>2. k - 1 # k /\ k + 1 # k
    BY <1>2
  <2>. QED
    BY <1>4, <1>5, <2>1, <2>2 DEF At
<1>8. PICK g, q : g = hlist_del(hheap, e) /\ q = HWithout(e)
  OBVIOUS
<1>9. Unlinked(hheap, g, a, e, b) /\ hlist_del_init(hheap, e) = g
  BY <1>3, <1>5, <1>6, <1>7, <1>8, DelUnlinks
<1>10. q \in HRings /\ DeletedAt(hring[x], k, q[x]) /\ \A y \in HlistHeads : y # x => q[y] = hring[y]
  BY <1>8, HWithoutIs
<1>11. /\ Unlinked(hheap, g, At(x, hring[x], k - 1), hring[x][k], At(NULL, hring[x], k + 1)) /\ k \in 1..Len(hring[x])
  BY <1>1, <1>2, <1>4, <1>9
<1>12. HGood(g, q, fakes) /\ HLoose(q, hring[x][k]) /\ hring[x][k] \notin fakes
  BY <1>2, <1>10, <1>11, HDeleteGood DEF HListsGood
<1>. QED
  BY <1>1, <1>2, <1>5, <1>8, <1>9, <1>12

\* Where a safe loop is, as LoopGood: the end of the list, and of the loop, is NULL.
HLoops ==
  [head : HlistHeads, pos : HlistNodes \cup {NULL}, n : HlistNodes \cup {NULL},
   seen : Seq(HlistNodes), start : Seq(HlistNodes)]

HLoopGood(it, r) ==
  /\ it \in HLoops
  /\ Len(it.seen) <= Len(it.start)
  /\ \A i \in 1..Len(it.seen) : it.seen[i] = it.start[i]
  /\ ToGo(r[it.head], "next", it.start, Len(it.seen))
  /\ it.pos = At(NULL, it.start, Len(it.seen) + 1)
  /\ Len(it.seen) < Len(it.start) => it.n = At(NULL, it.start, Len(it.seen) + 2)

HListInv ==
  /\ HListsGood
  /\ hiter # NoLoop => HLoopGood(hiter, hring)

\* The next entry of the loop is on its list, with the one after it behind it,
\* and what is to go after it stays there without it.
HPassed(s, t, m) ==
  /\ ToGo(s, "next", t, m + 1)
  /\ \E k \in 1..Len(s) : /\ s[k] = t[m + 1] /\ At(NULL, s, k + 1) = At(NULL, t, m + 2)
                         /\ \A u : DeletedAt(s, k, u) => ToGo(u, "next", t, m + 1)

\* So it is as long as the loop has an entry left to go to.
LEMMA HNextToGo ==
  ASSUME NEW S, NEW s \in Seq(S), NEW t \in Seq(S), NEW m \in Nat, m < Len(t), ToGo(s, "next", t, m)
  PROVE  HPassed(s, t, m)
<1>1. PICK w, d \in Nat : /\ Len(t) = m + w /\ Len(s) = d + w
                          /\ \A i \in 1..w : t[m + i] = s[d + i]
  BY DEF ToGo
<1>2. PICK v \in Nat : w = v + 1
  <2>1. w - 1 \in Nat /\ w = (w - 1) + 1
    BY <1>1
  <2>. QED
    BY <2>1
<1>3. ASSUME NEW i \in 1..v PROVE t[(m + 1) + i] = s[(d + 1) + i]
  <2>1. i + 1 \in 1..w /\ m + (i + 1) = (m + 1) + i /\ d + (i + 1) = (d + 1) + i
    BY <1>2
  <2>2. t[m + (i + 1)] = s[d + (i + 1)]
    BY <1>1, <2>1
  <2>. QED
    BY <2>1, <2>2
<1>4. Len(t) = (m + 1) + v /\ Len(s) = (d + 1) + v /\ d + 1 \in Nat
  BY <1>1, <1>2
<1>5. ToGo(s, "next", t, m + 1)
  BY <1>3, <1>4 DEF ToGo
<1>6. d + 1 \in 1..Len(s) /\ s[d + 1] = t[m + 1]
  BY <1>1, <1>2
<1>7. At(NULL, s, (d + 1) + 1) = At(NULL, t, m + 2)
  <2>1. CASE v = 0
    BY <1>4, <2>1 DEF At
  <2>2. CASE v # 0
    <3>1. 1 \in 1..v /\ (m + 1) + 1 = m + 2 /\ m + 2 \in 1..Len(t) /\ (d + 1) + 1 \in 1..Len(s)
      BY <1>4, <2>2
    <3>2. t[(m + 1) + 1] = s[(d + 1) + 1]
      BY <1>3, <3>1
    <3>. QED
      BY <3>1, <3>2 DEF At
  <2>. QED
    BY <2>1, <2>2
<1>8. ASSUME NEW u, DeletedAt(s, d + 1, u) PROVE ToGo(u, "next", t, m + 1)
  <2>1. Len(u) = d + v /\ \A i \in 1..Len(u) : u[i] = IF i < d + 1 THEN s[i] ELSE s[i + 1]
    BY <1>4, <1>8 DEF DeletedAt
  <2>2. \A i \in 1..v : d + i \in 1..Len(u) /\ ~(d + i < d + 1) /\ (d + i) + 1 = (d + 1) + i
    BY <2>1
  <2>3. \A i \in 1..v : u[d + i] = s[(d + 1) + i]
    BY <2>1, <2>2
  <2>4. \A i \in 1..v : t[(m + 1) + i] = u[d + i]
    BY <1>3, <2>3
  <2>. QED
    BY <1>4, <2>1, <2>4 DEF ToGo
<1>. QED
  BY <1>5, <1>6, <1>7, <1>8 DEF HPassed

\* The node a loop over x goes to from its next entry is the one it should.
LEMMA HAfter ==
  ASSUME NEW h, NEW r, NEW f, HGood(h, r, f), NEW x \in HlistHeads, NEW t \in Seq(HlistNodes),
         NEW m \in Nat, m < Len(t), ToGo(r[x], "next", t, m)
  PROVE  After(h, t[m + 1]) = At(NULL, t, m + 2)
<1>1. r[x] \in Seq(HlistNodes) /\ Chain(h, x, r[x])
  BY HGoodLists
<1>2. HPassed(r[x], t, m)
  BY <1>1, HNextToGo
<1>3. PICK k \in 1..Len(r[x]) : r[x][k] = t[m + 1] /\ At(NULL, r[x], k + 1) = At(NULL, t, m + 2)
  BY <1>2 DEF HPassed
<1>4. r[x][k] \in HlistNodes /\ r[x][k] # NULL /\ At(x, r[x], k) = r[x][k] /\ k \in 0..Len(r[x])
  BY <1>1, ChainAt
<1>5. h.next[At(x, r[x], k)] = At(NULL, r[x], k + 1)
  BY <1>1, <1>4 DEF Chain
<1>. QED
  BY <1>3, <1>4, <1>5 DEF After

\* hlist_for_each_entry_safe starts at the first node.
LEMMA HLoopStarts ==
  ASSUME HListInv, NEW x \in HlistHeads, hloop(x)
  PROVE  HListInv'
<1>1. PICK s, p, n : s = hring[x] /\ p = hheap.next[x] /\ n = After(hheap, p)
  OBVIOUS
<1>2. PICK it : it = [head |-> x, pos |-> p, n |-> n, seen |-> <<>>, start |-> s]
  OBVIOUS
<1>3. hiter' = it /\ hheap' = hheap /\ hring' = hring /\ fakes' = fakes
  BY <1>1, <1>2 DEF hloop
<1>4. /\ HGood(hheap, hring, fakes) /\ s \in Seq(HlistNodes) /\ Chain(hheap, x, s) /\ Len(s) \in Nat /\ x \in HFields
      /\ hheap.next \in [HFields -> HlistNodes \cup {NULL}]
  BY <1>1, HGoodLists DEF HListInv, HListsGood, HGood, HHeap
<1>5. p = At(NULL, s, 1)
  <2>1. At(x, s, 0) = x /\ 0 \in 0..Len(s) /\ 0 + 1 = 1
    BY <1>4 DEF At
  <2>2. hheap.next[At(x, s, 0)] = At(NULL, s, 0 + 1)
    BY <1>4, <2>1 DEF Chain
  <2>. QED
    BY <1>1, <2>1, <2>2
<1>6. p \in HlistNodes \cup {NULL} /\ n \in HlistNodes \cup {NULL}
  BY <1>1, <1>4 DEF After, HFields
<1>7. ToGo(s, "next", s, 0)
  <2>1. PICK w \in Nat : w = Len(s)
    BY <1>4
  <2>2. Len(s) = 0 + w /\ (\A i \in 1..w : s[0 + i] = s[0 + i]) /\ 0 \in Nat
    BY <2>1
  <2>. QED
    BY <2>2 DEF ToGo
<1>8. 0 < Len(s) => n = At(NULL, s, 2)
  <2>1. ASSUME 0 < Len(s) PROVE n = At(NULL, s, 2)
    <3>1. PICK m \in Nat : m = 0 /\ m + 1 = 1 /\ m + 2 = 2
      OBVIOUS
    <3>2. m < Len(s) /\ ToGo(hring[x], "next", s, m)
      BY <1>1, <1>7, <2>1, <3>1
    <3>3. After(hheap, s[m + 1]) = At(NULL, s, m + 2)
      BY <1>4, <3>2, HAfter
    <3>4. p = s[1]
      BY <1>4, <1>5, <2>1 DEF At
    <3>. QED
      BY <1>1, <3>1, <3>3, <3>4
  <2>. QED
    BY <2>1
<1>9. it \in HLoops /\ it.head = x /\ it.pos = p /\ it.n = n /\ it.seen = <<>> /\ it.start = s
  BY <1>2, <1>4, <1>6 DEF HLoops
<1>10. Len(<<>>) = 0 /\ 0 + 1 = 1 /\ 0 + 2 = 2 /\ \A i \in 1..0 : FALSE
  OBVIOUS
<1>11. HLoopGood(it, hring)
  <2>1. Len(it.seen) = 0 /\ Len(it.start) = Len(s) /\ hring[it.head] = s
    BY <1>1, <1>9, <1>10
  <2>2. Len(it.seen) <= Len(it.start) /\ \A i \in 1..Len(it.seen) : it.seen[i] = it.start[i]
    BY <1>4, <2>1
  <2>3. ToGo(hring[it.head], "next", it.start, Len(it.seen))
    BY <1>7, <1>9, <2>1
  <2>4. it.pos = At(NULL, it.start, Len(it.seen) + 1)
    BY <1>5, <1>9, <1>10, <2>1
  <2>5. Len(it.seen) < Len(it.start) => it.n = At(NULL, it.start, Len(it.seen) + 2)
    BY <1>8, <1>9, <1>10, <2>1
  <2>. QED
    BY <1>9, <2>2, <2>3, <2>4, <2>5 DEF HLoopGood
<1>. QED
  BY <1>3, <1>11 DEF HListInv, HListsGood

HLoopOn(it, g, q) ==
  HLoopGood([it EXCEPT !.pos = it.n, !.n = After(g, it.n), !.seen = Append(@, it.pos)], q)

\* pos = n after the body, when the list still holds the rest.
LEMMA HLoopAdvances ==
  ASSUME NEW r, NEW it, HLoopGood(it, r), it.pos # NULL,
         NEW g, NEW q, NEW f, HGood(g, q, f), ToGo(q[it.head], "next", it.start, Len(it.seen) + 1)
  PROVE  HLoopOn(it, g, q)
<1>1. PICK x, m, s, t, v, y : /\ x = it.head /\ m = Len(it.seen) /\ s = it.seen /\ t = it.start
                              /\ v = Append(s, it.pos) /\ y = After(g, it.n)
  OBVIOUS
<1>2. PICK jt : jt = [it EXCEPT !.pos = it.n, !.n = After(g, it.n), !.seen = Append(@, it.pos)]
  OBVIOUS
<1>3. /\ x \in HlistHeads /\ s \in Seq(HlistNodes) /\ t \in Seq(HlistNodes) /\ m \in Nat /\ Len(t) \in Nat
      /\ it \in HLoops /\ it.n \in HlistNodes \cup {NULL} /\ \A i \in 1..m : s[i] = t[i]
  BY <1>1 DEF HLoopGood, HLoops
<1>4. it.pos = At(NULL, t, m + 1) /\ (m < Len(t) => it.n = At(NULL, t, m + 2))
  BY <1>1 DEF HLoopGood
<1>5. m < Len(t) /\ it.pos = t[m + 1] /\ it.pos \in HlistNodes /\ m + 1 \in Nat
  <2>1. m + 1 \in 1..Len(t)
    BY <1>4 DEF At
  <2>2. t[m + 1] \in HlistNodes
    BY <1>3, <2>1
  <2>. QED
    BY <1>3, <1>4, <2>1, <2>2 DEF At
<1>6. v \in Seq(HlistNodes) /\ Len(v) = m + 1 /\ (\A i \in 1..m : v[i] = s[i]) /\ v[m + 1] = it.pos
  BY <1>1, <1>3, <1>5, AppendProperties
<1>7. y \in HlistNodes \cup {NULL}
  <2>1. g.next \in [HFields -> HlistNodes \cup {NULL}] /\ HlistNodes \subseteq HFields
    BY DEF HGood, HHeap, HFields
  <2>. QED
    BY <1>1, <1>3, <2>1 DEF After
<1>8. /\ jt.head = x /\ jt.pos = it.n /\ jt.n = y /\ jt.seen = v /\ jt.start = t
      /\ jt \in HLoops
  BY <1>1, <1>2, <1>3, <1>6, <1>7 DEF HLoops
<1>9. \A i \in 1..(m + 1) : v[i] = t[i]
  BY <1>3, <1>5, <1>6
<1>10. m + 1 < Len(t) => y = At(NULL, t, m + 3)
  <2>1. ASSUME m + 1 < Len(t) PROVE y = At(NULL, t, m + 3)
    <3>1. PICK c \in Nat : c = m + 1 /\ c + 1 = m + 2 /\ c + 2 = m + 3
      BY <1>3
    <3>2. ToGo(q[x], "next", t, c) /\ c < Len(t)
      BY <1>1, <2>1, <3>1
    <3>3. After(g, t[c + 1]) = At(NULL, t, c + 2)
      BY <1>3, <3>2, HAfter
    <3>4. At(NULL, t, m + 2) = t[m + 2]
      BY <1>3, <2>1 DEF At
    <3>. QED
      BY <1>1, <1>4, <1>5, <3>1, <3>3, <3>4
  <2>. QED
    BY <2>1
<1>11. m + 1 <= Len(t) /\ (m + 1) + 1 = m + 2 /\ (m + 1) + 2 = m + 3
  BY <1>3, <1>5
<1>12. HLoopGood(jt, q)
  BY <1>1, <1>4, <1>5, <1>6, <1>8, <1>9, <1>10, <1>11 DEF HLoopGood
<1>. QED
  BY <1>2, <1>12 DEF HLoopOn

\* The bodies that leave, delete or move away their entry.
LEMMA HBodySteps ==
  ASSUME HListInv, hloop_body
  PROVE  HListInv'
<1>1. PICK e, x, t, m, h : e = hiter.pos /\ x = hiter.head /\ t = hiter.start /\ m = Len(hiter.seen) /\ h = hlist_del(hheap, e)
  OBVIOUS
<1>2. e # NULL /\ hloop_next /\ fakes' = fakes
  BY <1>1 DEF hloop_body
<1>3. HListsGood /\ HLoopGood(hiter, hring) /\ hiter.pos # NULL
  BY <1>1, <1>2 DEF HListInv, NoLoop
<1>4. /\ x \in HlistHeads /\ t \in Seq(HlistNodes) /\ m \in Nat /\ Len(t) \in Nat /\ hiter.seen \in Seq(HlistNodes)
      /\ ToGo(hring[x], "next", t, m) /\ e = At(NULL, t, m + 1)
  BY <1>1, <1>3 DEF HLoopGood, HLoops
<1>5. m < Len(t) /\ e = t[m + 1] /\ m + 1 \in 1..Len(t)
  BY <1>2, <1>4 DEF At
<1>6. hring[x] \in Seq(HlistNodes)
  BY <1>3, <1>4, HGoodLists DEF HListsGood
<1>7. HPassed(hring[x], t, m)
  BY <1>4, <1>5, <1>6, HNextToGo
<1>8. ToGo(hring[x], "next", t, m + 1)
  BY <1>7 DEF HPassed
<1>9. PICK k \in 1..Len(hring[x]) : /\ hring[x][k] = e
                                    /\ \A u : DeletedAt(hring[x], k, u) => ToGo(u, "next", t, m + 1)
  BY <1>5, <1>7 DEF HPassed
<1>10. HIs(e, x, k)
  BY <1>4, <1>9 DEF HIs
<1>11. PICK p : p = HWithout(e)
  OBVIOUS
<1>12. HGood(h, p, fakes) /\ HLoose(p, e) /\ e \notin fakes /\ e \in HlistNodes
  BY <1>1, <1>3, <1>10, <1>11, HDeleteStep
<1>13. ToGo(p[x], "next", t, m + 1) /\ p \in HRings
  BY <1>3, <1>9, <1>10, <1>11, HWithoutIs
<1>14. ASSUME NEW g, NEW q, HGood(g, q, fakes), hheap' = g, hring' = q, ToGo(q[x], "next", t, m + 1)
       PROVE  HListInv'
  <2>1. HLoopOn(hiter, g, q)
    BY <1>1, <1>3, <1>14, HLoopAdvances
  <2>2. hiter' = [hiter EXCEPT !.pos = hiter.n, !.n = After(g, hiter.n), !.seen = Append(@, hiter.pos)]
    BY <1>2, <1>14 DEF hloop_next
  <2>3. HLoopGood(hiter', q)
    BY <2>1, <2>2 DEF HLoopOn
  <2>. QED
    BY <1>2, <1>14, <2>3 DEF HListInv, HListsGood
<1>15. CASE hheap' = hheap /\ hring' = hring
  BY <1>3, <1>8, <1>14, <1>15 DEF HListsGood
<1>16. CASE hheap' = h /\ hring' = p
  BY <1>12, <1>13, <1>14, <1>16
<1>17. ASSUME NEW y \in HlistHeads, y # x, hheap' = hlist_add_head(h, e, y), hring' = [p EXCEPT ![y] = <<e>> \o @]
       PROVE  HListInv'
  <2>1. PICK g, q : g = hlist_add_head(h, e, y) /\ q = [p EXCEPT ![y] = <<e>> \o @]
    OBVIOUS
  <2>2. HGood(g, q, fakes)
    BY <1>12, <2>1, HAddHeadStep
  <2>3. q[x] = p[x]
    BY <1>4, <1>13, <1>17, <2>1 DEF HRings
  <2>. QED
    BY <1>13, <1>14, <1>17, <2>1, <2>2, <2>3
<1>. QED
  BY <1>1, <1>11, <1>15, <1>16, <1>17 DEF hloop_body

\* A call while no loop runs.
LEMMA HCallKeeps ==
  ASSUME NEW g, NEW q, HCall(g, q), HGood(g, q, fakes')
  PROVE  HListInv'
BY DEF HCall, HListInv, HListsGood

\* hlist_del, hlist_del_init and INIT_HLIST_NODE: of a node on a list, of a fake,
\* and of one that is unused.
LEMMA HUnlinkStep ==
  ASSUME HListsGood, NEW e \in HlistNodes, hunlink(e)
  PROVE  HListInv'
<1>1. PICK d \in SUBSET HlistNodes : d = fakes \ {e} /\ d = fakes'
  BY DEF HListsGood, HGood, hunlink
<1>2. hheap \in HHeap /\ HGood(hheap, hring, fakes)
  BY DEF HListsGood, HGood
<1>3. hheap.next \in [HFields -> HlistNodes \cup {NULL}] /\ hheap.pprev \in [HlistNodes -> HFields \cup {NULL}] /\ e \in HFields
  BY <1>2 DEF HHeap, HFields
<1>4. CASE e \in Hashed
  <2>1. PICK x, k : HIs(e, x, k)
    BY <1>4, HKnown
  <2>2. /\ HGood(hlist_del(hheap, e), HWithout(e), fakes) /\ hlist_del_init(hheap, e) = hlist_del(hheap, e)
        /\ e \notin fakes
    BY <2>1, HDeleteStep
  <2>3. d = fakes
    BY <1>1, <2>2
  <2>4. HCall(hlist_del(hheap, e), HWithout(e))
    BY <1>4, <2>2 DEF hunlink, Unused
  <2>. QED
    BY <1>1, <2>2, <2>3, <2>4, HCallKeeps
<1>5. CASE e \notin Hashed
  <2>1. HLoose(hring, e) /\ HWithout(e) = hring
    BY <1>5, HKnown, HWithoutIs
  <2>2. PICK g : g = [next |-> [hheap.next EXCEPT ![e] = NULL], pprev |-> [hheap.pprev EXCEPT ![e] = NULL]]
    OBVIOUS
  <2>3. /\ g = [next |-> g.next, pprev |-> g.pprev] /\ g.next = [hheap.next EXCEPT ![e] = NULL]
        /\ g.pprev = [hheap.pprev EXCEPT ![e] = IF e \in d THEN e ELSE NULL]
    BY <1>1, <2>2
  <2>4. \A n \in HlistNodes : n # e => (n \in d <=> n \in fakes)
    BY <1>1
  <2>5. HGood(g, hring, d)
    BY <1>2, <2>1, <2>3, <2>4, HStoreGood
  <2>6. CASE e \in fakes
    <3>1. hheap.pprev[e] = e /\ hheap.next[e] = NULL
      BY <1>2, <2>1, <2>6 DEF HGood
    <3>2. PICK a, b : a = e /\ b = NULL /\ a = hheap.pprev[e] /\ b = hheap.next[e] /\ a \in HFields
      BY <1>3, <3>1
    <3>3. /\ hlist_del_init(hheap, e) = hlist_del(hheap, e)
          /\ hlist_del(hheap, e) = [next |-> hlist_del(hheap, e).next, pprev |-> hlist_del(hheap, e).pprev]
          /\ hlist_del(hheap, e).next = [hheap.next EXCEPT ![e] = NULL]
          /\ hlist_del(hheap, e).pprev = [hheap.pprev EXCEPT ![e] = NULL]
      BY <1>2, <3>2, DelUnlinks
    <3>4. hlist_del(hheap, e) = g
      BY <2>2, <3>3
    <3>5. HCall(g, hring)
      BY <2>1, <2>6, <3>3, <3>4 DEF hunlink, Unused
    <3>. QED
      BY <1>1, <2>5, <3>5, HCallKeeps
  <2>7. CASE e \notin fakes
    <3>1. hheap.pprev[e] = NULL /\ hheap.next[e] = NULL
      BY <1>2, <2>1, <2>7 DEF HGood
    <3>2. hlist_del_init(hheap, e) = hheap
      BY <3>1 DEF hlist_del_init, hlist_unhashed
    <3>3. INIT_HLIST_NODE(hheap, e) = g
      BY <2>2 DEF INIT_HLIST_NODE, HSetNext, HSetPprev
    <3>4. HCall(hheap, hring) \/ HCall(g, hring)
      BY <1>5, <2>1, <2>7, <3>2, <3>3 DEF hunlink, Unused
    <3>5. HGood(hheap, hring, d)
      <4>1. d = fakes
        BY <1>1, <2>7
      <4>. QED
        BY <1>2, <4>1
    <3>. QED
      BY <1>1, <2>5, <3>4, <3>5, HCallKeeps
  <2>. QED
    BY <2>6, <2>7
<1>. QED
  BY <1>4, <1>5

\* hlist_add_fake.
LEMMA HFakeStep ==
  ASSUME HListsGood, NEW e \in HlistNodes, hfake(e)
  PROVE  HListInv'
<1>0. HGood(hheap, hring, fakes) /\ hheap \in HHeap /\ hring \in HRings
  BY DEF HListsGood, HGood
<1>1. e \in Unused /\ HCall(hlist_add_fake(hheap, e), hring) /\ fakes' = fakes \cup {e}
  BY DEF hfake
<1>2. HLoose(hring, e) /\ e \notin fakes
  BY <1>1, HKnown
<1>3. PICK d \in SUBSET HlistNodes : d = fakes \cup {e}
  BY DEF HListsGood, HGood
<1>4. hheap.next[e] = NULL /\ hheap.next \in [HFields -> HlistNodes \cup {NULL}] /\ e \in HFields
  BY <1>0, <1>2 DEF HGood, HHeap, HFields
<1>5. hheap.next = [hheap.next EXCEPT ![e] = NULL]
  BY <1>4
<1>6. PICK g : g = hlist_add_fake(hheap, e)
  OBVIOUS
<1>7. g = [next |-> hheap.next, pprev |-> [hheap.pprev EXCEPT ![e] = e]]
  BY <1>6 DEF hlist_add_fake, HSetPprev
<1>8. /\ g = [next |-> g.next, pprev |-> g.pprev] /\ g.next = [hheap.next EXCEPT ![e] = NULL]
      /\ g.pprev = [hheap.pprev EXCEPT ![e] = IF e \in d THEN e ELSE NULL]
  BY <1>3, <1>5, <1>7
<1>9. \A n \in HlistNodes : n # e => (n \in d <=> n \in fakes)
  BY <1>3
<1>10. HGood(g, hring, d)
  BY <1>0, <1>2, <1>8, <1>9, HStoreGood
<1>. QED
  BY <1>1, <1>3, <1>6, <1>10, HCallKeeps

\* hlist_add_head of an unused node.
LEMMA HLinkStep ==
  ASSUME HListsGood, NEW e \in HlistNodes, NEW x \in HlistHeads, hlink(e, x)
  PROVE  HListInv'
<1>1. HGood(hheap, hring, fakes)
  BY DEF HListsGood
<1>2. e \in Unused /\ HCall(hlist_add_head(hheap, e, x), [hring EXCEPT ![x] = <<e>> \o @]) /\ fakes' = fakes
  BY DEF hlink
<1>3. HLoose(hring, e) /\ e \notin fakes
  BY <1>2, HKnown
<1>4. HGood(hlist_add_head(hheap, e, x), [hring EXCEPT ![x] = <<e>> \o @], fakes)
  BY <1>1, <1>3, HAddHeadStep
<1>. QED
  BY <1>2, <1>4, HCallKeeps

\* hlist_add_before and hlist_add_behind of an unused node.
LEMMA HLinkBesideStep ==
  ASSUME HListsGood, NEW e \in HlistNodes, NEW f \in HlistNodes, hlink_beside(e, f)
  PROVE  HListInv'
<1>1. e \in Unused /\ f \in Hashed /\ fakes' = fakes
  BY DEF hlink_beside
<1>2. /\ HGood(hlist_add_before(hheap, e, f), HInserted(e, f, 0), fakes)
      /\ HGood(hlist_add_behind(hheap, e, f), HInserted(e, f, 1), fakes)
  BY <1>1, HBesideSteps
<1>3. CASE HCall(hlist_add_before(hheap, e, f), HInserted(e, f, 0))
  BY <1>1, <1>2, <1>3, HCallKeeps
<1>4. CASE HCall(hlist_add_behind(hheap, e, f), HInserted(e, f, 1))
  BY <1>1, <1>2, <1>4, HCallKeeps
<1>. QED
  BY <1>3, <1>4 DEF hlink_beside

\* hlist_move_list, and INIT_HLIST_HEAD of a head whose list is empty.
LEMMA HMoveStep ==
  ASSUME HListsGood, NEW x \in HlistHeads, NEW y \in HlistHeads, hmove(x, y)
  PROVE  HListInv'
<1>0. HGood(hheap, hring, fakes) /\ hheap \in HHeap /\ hring \in HRings
  BY DEF HListsGood, HGood
<1>1. x # y /\ hring[y] = <<>> /\ fakes' = fakes
  BY DEF hmove
<1>2. CASE HCall(hlist_move_list(hheap, x, y), [hring EXCEPT ![y] = hring[x], ![x] = <<>>])
  <2>1. PICK g, q : g = hlist_move_list(hheap, x, y) /\ q = [hring EXCEPT ![y] = hring[x], ![x] = <<>>]
    OBVIOUS
  <2>2. HGood(g, q, fakes)
    BY <1>0, <1>1, <2>1, HMoveGood
  <2>. QED
    BY <1>1, <1>2, <2>1, <2>2, HCallKeeps
<1>3. CASE HCall(INIT_HLIST_HEAD(hheap, y), hring)
  <2>1. hheap.next[y] = NULL
    <3>1. Chain(hheap, y, <<>>) /\ Len(<<>>) = 0 /\ 0 \in 0..0 /\ At(y, <<>>, 0) = y /\ At(NULL, <<>>, 0 + 1) = NULL
      BY <1>0, <1>1, HGoodLists DEF At
    <3>. QED
      BY <3>1 DEF Chain
  <2>2. INIT_HLIST_HEAD(hheap, y) = hheap
    BY <1>0, <2>1 DEF INIT_HLIST_HEAD, HSetNext, HHeap
  <2>. QED
    BY <1>0, <1>1, <1>3, <2>2, HCallKeeps
<1>. QED
  BY <1>2, <1>3 DEF hmove

\* Every step keeps the invariant.
LEMMA HNextKeeps ==
  ASSUME HListInv, [HNext]_hvars
  PROVE  HListInv'
<1>1. HListsGood
  BY DEF HListInv
<1>2. CASE UNCHANGED hvars
  BY <1>2 DEF hvars, HListInv, HListsGood
<1>3. ASSUME NEW e \in HlistNodes, hunlink(e) PROVE HListInv'
  BY <1>1, <1>3, HUnlinkStep
<1>4. ASSUME NEW e \in HlistNodes, hfake(e) PROVE HListInv'
  BY <1>1, <1>4, HFakeStep
<1>5. ASSUME NEW e \in HlistNodes, NEW x \in HlistHeads, hlink(e, x) PROVE HListInv'
  BY <1>1, <1>5, HLinkStep
<1>6. ASSUME NEW e \in HlistNodes, NEW f \in HlistNodes, hlink_beside(e, f) PROVE HListInv'
  BY <1>1, <1>6, HLinkBesideStep
<1>7. ASSUME NEW x \in HlistHeads, NEW y \in HlistHeads, hmove(x, y) PROVE HListInv'
  BY <1>1, <1>7, HMoveStep
<1>8. ASSUME NEW x \in HlistHeads, hloop(x) PROVE HListInv'
  BY <1>8, HLoopStarts
<1>9. CASE hloop_body
  BY <1>9, HBodySteps
<1>10. CASE hloop_end
  BY <1>10 DEF hloop_end, HListInv, HListsGood
<1>. QED
  BY <1>2, <1>3, <1>4, <1>5, <1>6, <1>7, <1>8, <1>9, <1>10 DEF HNext

\* The lists start empty, and no node is on one.
LEMMA HInitGood == HInit => HListInv
<1> SUFFICES ASSUME HInit PROVE HListInv
  OBVIOUS
<1>1. /\ hheap = [next |-> [x \in HFields |-> NULL], pprev |-> [x \in HlistNodes |-> NULL]]
      /\ hring = [h \in HlistHeads |-> <<>>] /\ fakes = {} /\ hiter = NoLoop
  BY DEF HInit, HFields
<1>2. hheap \in HHeap /\ hring \in HRings /\ fakes \in SUBSET HlistNodes
  BY <1>1 DEF HHeap, HRings
<1>3. \A x \in HlistHeads : hring[x] = <<>> /\ Len(hring[x]) = 0
  BY <1>1
<1>4. HApart(hring)
  BY <1>3 DEF HApart
<1>5. ASSUME NEW x \in HlistHeads PROVE Chain(hheap, x, hring[x])
  <2>1. hheap.next[x] = NULL
    BY <1>1 DEF HFields
  <2>2. At(x, <<>>, 0) = x /\ At(NULL, <<>>, 0 + 1) = NULL /\ 0..0 = {0} /\ 1..0 = {} /\ Len(<<>>) = 0
    BY DEF At
  <2>. QED
    BY <1>3, <2>1, <2>2 DEF Chain
<1>6. \A e \in HlistNodes : hheap.next[e] = NULL /\ hheap.pprev[e] = NULL
  BY <1>1 DEF HFields
<1>7. HGood(hheap, hring, fakes)
  BY <1>1, <1>2, <1>4, <1>5, <1>6 DEF HGood
<1>. QED
  BY <1>1, <1>7 DEF HListInv, HListsGood

\* Whatever calls come before, in any order, the invariant holds.
LEMMA HClientInvariant == ClientSpec => []HListInv
<1>1. ClientInit => HListInv
  BY HInitGood DEF ClientInit
<1>2. HListInv /\ [ClientNext]_<<kind, vars, hvars>> => HListInv'
  <2>1. [ClientNext]_<<kind, vars, hvars>> => [HNext]_hvars
    BY DEF ClientNext
  <2>. QED
    BY <2>1, HNextKeeps
<1>. QED
  BY <1>1, <1>2, PTL DEF ClientSpec

\* The path of fields and nodes from a head to NULL.
LEMMA PathIs ==
  ASSUME NEW x \in HlistHeads, NEW s \in Seq(HlistNodes), NEW p, p = <<x>> \o s \o <<NULL>>
  PROVE  /\ Len(p) = Len(s) + 2
         /\ \A i \in 1..(Len(s) + 1) : p[i] = At(x, s, i - 1) /\ p[i + 1] = At(NULL, s, i)
<1>1. PICK S : S = HlistNodes \cup {x, NULL}
  OBVIOUS
<1>2. s \in Seq(S) /\ <<x>> \in Seq(S) /\ <<NULL>> \in Seq(S) /\ Len(s) \in Nat
  BY <1>1
<1>3. PICK q : q = <<x>> \o s
  OBVIOUS
<1>4. q \in Seq(S) /\ Len(q) = Len(s) + 1 /\ \A i \in 1..(Len(s) + 1) : q[i] = At(x, s, i - 1)
  <2>1. /\ q \in Seq(S) /\ Len(q) = 1 + Len(s)
        /\ \A i \in 1..(1 + Len(s)) : q[i] = IF i <= 1 THEN <<x>>[i] ELSE s[i - 1]
    BY <1>2, <1>3, ConcatProperties
  <2>. QED
    BY <1>2, <2>1 DEF At
<1>5. /\ Len(p) = Len(s) + 2
      /\ \A i \in 1..(Len(s) + 2) : p[i] = IF i <= Len(s) + 1 THEN q[i] ELSE NULL
  <2>1. p = Append(q, NULL)
    BY <1>2, <1>3, <1>4
  <2>2. /\ Len(Append(q, NULL)) = Len(q) + 1 /\ Append(q, NULL)[Len(q) + 1] = NULL
        /\ \A i \in 1..Len(q) : Append(q, NULL)[i] = q[i]
    BY <1>1, <1>4, AppendProperties
  <2>3. Len(p) = Len(s) + 2 /\ p[Len(s) + 2] = NULL
    BY <1>2, <1>4, <2>1, <2>2
  <2>4. ASSUME NEW i \in 1..(Len(s) + 2) PROVE p[i] = IF i <= Len(s) + 1 THEN q[i] ELSE NULL
    <3>1. CASE i <= Len(s) + 1
      <4>1. i \in 1..Len(q)
        BY <1>2, <1>4, <3>1
      <4>2. p[i] = q[i]
        BY <2>1, <2>2, <4>1
      <4>. QED
        BY <3>1, <4>2
    <3>2. CASE i = Len(s) + 2
      BY <1>2, <2>3, <3>2
    <3>. QED
      BY <1>2, <3>1, <3>2
  <2>. QED
    BY <2>3, <2>4
<1>6. ASSUME NEW i \in 1..(Len(s) + 1) PROVE p[i] = At(x, s, i - 1) /\ p[i + 1] = At(NULL, s, i)
  <2>1. p[i] = At(x, s, i - 1)
    BY <1>2, <1>4, <1>5
  <2>2. p[i + 1] = At(NULL, s, i)
    <3>1. CASE i <= Len(s)
      <4>1. i + 1 \in 1..(Len(s) + 2) /\ i + 1 <= Len(s) + 1 /\ i + 1 \in 1..(Len(s) + 1) /\ (i + 1) - 1 = i
        BY <1>2, <3>1
      <4>3. p[i + 1] = q[i + 1]
        BY <1>5, <4>1
      <4>2. q[i + 1] = At(x, s, i)
        BY <1>4, <4>1
      <4>. QED
        BY <3>1, <4>1, <4>3, <4>2 DEF At
    <3>2. CASE i = Len(s) + 1
      BY <1>2, <1>5, <3>2 DEF At
    <3>. QED
      BY <3>1, <3>2
  <2>. QED
    BY <2>1, <2>2
<1>. QED
  BY <1>5, <1>6

\* A node's own fields say whether it is alone on a list.
LEMMA HSingular ==
  ASSUME HListsGood, NEW e \in HlistNodes
  PROVE  /\ \A x \in HlistHeads : hlist_is_singular_node(hheap, e, x) <=> hring[x] = <<e>>
         /\ hlist_unhashed(hheap, e) <=> e \in Unused
         /\ hlist_fake(hheap, e) <=> e \in fakes
<1>1. /\ e # NULL
      /\ \A x \in HlistHeads : /\ hring[x] \in Seq(HlistNodes) /\ Chain(hheap, x, hring[x]) /\ Len(hring[x]) \in Nat
                               /\ x # NULL /\ e # x
  BY HGoodLists, HListsAssumption DEF HListsGood
<1>2. CASE HLoose(hring, e)
  <2>1. hheap.next[e] = NULL /\ hheap.pprev[e] = IF e \in fakes THEN e ELSE NULL
    BY <1>2 DEF HListsGood, HGood
  <2>2. ASSUME NEW x \in HlistHeads PROVE hring[x] # <<e>>
    <3>1. hring[x] = <<e>> => 1 \in 1..Len(hring[x]) /\ hring[x][1] = e
      OBVIOUS
    <3>. QED
      BY <1>2, <3>1 DEF HLoose
  <2>3. e \in Unused <=> e \notin fakes
    BY <1>2, HKnown
  <2>. QED
    BY <1>1, <2>1, <2>2, <2>3 DEF hlist_is_singular_node, hlist_unhashed, hlist_fake
<1>3. CASE ~HLoose(hring, e)
  <2>1. PICK y \in HlistHeads : \E k : HIs(e, y, k)
    BY <1>3 DEF HLoose, HIs
  <2>2. PICK k : HIs(e, y, k)
    BY <2>1
  <2>3. PICK s : s = hring[y]
    OBVIOUS
  <2>4. /\ s \in Seq(HlistNodes) /\ Chain(hheap, y, s) /\ Distinct(s) /\ Len(s) \in Nat
        /\ k \in 1..Len(s) /\ s[k] = e /\ y # NULL /\ y \notin HlistNodes
    BY <2>2, <2>3, HGoodLists, HListsAssumption DEF HListsGood, HIs
  <2>5. hheap.pprev[e] = At(y, s, k - 1) /\ hheap.next[e] = At(NULL, s, k + 1)
    <3>1. At(y, s, k) = e
      BY <2>4 DEF At
    <3>. QED
      BY <2>4, <3>1 DEF Chain
  <2>6. e \notin Unused /\ e \notin fakes
    BY <2>2, HKnown DEF Unused
  <2>7. At(y, s, k - 1) # NULL /\ At(y, s, k - 1) # e
    <3>1. At(y, s, k - 1) # NULL
      BY <2>4, HListsAssumption DEF At
    <3>2. At(y, s, k - 1) # At(y, s, k) /\ At(y, s, k) = e
      <4>1. k - 1 \in 0..Len(s) /\ k \in 0..Len(s) /\ k - 1 # k
        BY <2>4
      <4>2. At(y, s, k) = e
        BY <2>4 DEF At
      <4>. QED
        BY <2>4, <4>1, <4>2, ChainOnce
    <3>. QED
      BY <3>1, <3>2
  <2>8. ASSUME NEW x \in HlistHeads PROVE hlist_is_singular_node(hheap, e, x) => hring[x] = <<e>>
    <3>1. ASSUME hheap.next[e] = NULL, hheap.pprev[e] = x PROVE hring[x] = <<e>>
      <4>1. x \notin HlistNodes
        BY HListsAssumption
      <4>2. k - 1 \notin 1..Len(s) /\ y = x
        <5>1. At(y, s, k - 1) = x
          BY <2>5, <3>1
        <5>2. \A i \in 1..Len(s) : s[i] # x
          BY <2>4, <4>1
        <5>. QED
          BY <5>1, <5>2 DEF At
      <4>3. k = 1
        BY <2>4, <4>2
      <4>4. 2 \notin 1..Len(s)
        BY <2>4, <2>5, <3>1, <4>3, HListsAssumption DEF At
      <4>5. Len(s) = 1 /\ s[1] = e
        <5>1. 1 \in 1..Len(s)
          BY <2>4, <4>3
        <5>2. s[1] = e
          BY <2>4, <4>3
        <5>3. Len(s) = 1
          <6>1. PICK l \in Nat : l = Len(s)
            BY <2>4
          <6>2. 1 \in 1..l /\ 2 \notin 1..l
            BY <4>4, <5>1, <6>1
          <6>. QED
            BY <6>1, <6>2
        <5>. QED
          BY <5>2, <5>3
      <4>. QED
        BY <2>3, <2>4, <4>2, <4>5
    <3>. QED
      BY <3>1 DEF hlist_is_singular_node
  <2>9. ASSUME NEW x \in HlistHeads PROVE hring[x] = <<e>> => hlist_is_singular_node(hheap, e, x)
    <3>1. ASSUME hring[x] = <<e>> PROVE hheap.next[e] = NULL /\ hheap.pprev[e] = x
      <4>1. Len(<<e>>) = 1 /\ <<e>>[1] = e
        OBVIOUS
      <4>2. At(x, <<e>>, 1) = e /\ At(NULL, <<e>>, 1 + 1) = NULL /\ At(x, <<e>>, 1 - 1) = x
        BY <4>1 DEF At
      <4>. QED
        <5>1. Chain(hheap, x, <<e>>)
          BY <1>1, <3>1
        <5>2. 1 \in 0..Len(<<e>>) /\ 1 \in 1..Len(<<e>>)
          BY <4>1
        <5>3. hheap.next[At(x, <<e>>, 1)] = At(NULL, <<e>>, 1 + 1)
          BY <5>1, <5>2 DEF Chain
        <5>4. hheap.pprev[<<e>>[1]] = At(x, <<e>>, 1 - 1)
          BY <5>1, <5>2 DEF Chain
        <5>. QED
          BY <4>1, <4>2, <5>3, <5>4
    <3>. QED
      BY <3>1 DEF hlist_is_singular_node
  <2>. QED
    BY <1>1, <2>5, <2>6, <2>7, <2>8, <2>9 DEF hlist_unhashed, hlist_fake
<1>. QED
  BY <1>2, <1>3

\* The invariant is what is asked of the chains, the queries and the loop.
LEMMA HInvHolds ==
  ASSUME HListInv
  PROVE  HListsHold
<1>1. HListsGood
  BY DEF HListInv
<1>2. ASSUME NEW x \in HlistHeads
      PROVE  LET path == <<x>> \o hring[x] \o <<NULL>>
             IN  \A i \in 1..(Len(path) - 1) :
                   /\ hheap.next[path[i]] = path[i + 1]
                   /\ i > 1 => hheap.pprev[path[i]] = path[i - 1]
  <2>1. PICK s, p : s = hring[x] /\ p = <<x>> \o s \o <<NULL>>
    OBVIOUS
  <2>2. s \in Seq(HlistNodes) /\ Chain(hheap, x, s) /\ Len(s) \in Nat
    BY <1>1, <2>1, HGoodLists DEF HListsGood
  <2>3. /\ Len(p) = Len(s) + 2
        /\ \A i \in 1..(Len(s) + 1) : p[i] = At(x, s, i - 1) /\ p[i + 1] = At(NULL, s, i)
    BY <2>1, <2>2, PathIs
  <2>4. ASSUME NEW i \in 1..(Len(s) + 1) PROVE hheap.next[p[i]] = p[i + 1] /\ (i > 1 => hheap.pprev[p[i]] = p[i - 1])
    <3>1. hheap.next[At(x, s, i - 1)] = At(NULL, s, (i - 1) + 1) /\ (i - 1) + 1 = i
      BY <2>2 DEF Chain
    <3>2. ASSUME i > 1 PROVE hheap.pprev[p[i]] = p[i - 1]
      <4>1. i - 1 \in 1..Len(s) /\ i - 1 \in 1..(Len(s) + 1)
        BY <2>2, <3>2
      <4>2. p[i] = s[i - 1] /\ p[i - 1] = At(x, s, (i - 1) - 1)
        BY <2>3, <4>1 DEF At
      <4>3. hheap.pprev[s[i - 1]] = At(x, s, (i - 1) - 1)
        BY <2>2, <4>1 DEF Chain
      <4>. QED
        BY <4>2, <4>3
    <3>. QED
      BY <2>3, <3>1, <3>2
  <2>5. Len(p) - 1 = Len(s) + 1
    BY <2>2, <2>3
  <2>. QED
    BY <2>1, <2>4, <2>5
<1>3. ASSUME NEW x \in HlistHeads PROVE hlist_empty(hheap, x) <=> hring[x] = <<>>
  <2>1. PICK s : s = hring[x]
    OBVIOUS
  <2>2. s \in Seq(HlistNodes) /\ Chain(hheap, x, s) /\ Len(s) \in Nat
    BY <1>1, <2>1, HGoodLists DEF HListsGood
  <2>3. hheap.next[x] = At(NULL, s, 1)
    <3>1. At(x, s, 0) = x /\ 0 \in 0..Len(s) /\ 0 + 1 = 1
      BY <2>2, ChainAt
    <3>2. hheap.next[At(x, s, 0)] = At(NULL, s, 0 + 1)
      BY <2>2, <3>1 DEF Chain
    <3>. QED
      BY <3>1, <3>2
  <2>4. At(NULL, s, 1) = NULL <=> s = <<>>
    <3>1. s = <<>> => At(NULL, s, 1) = NULL
      BY DEF At
    <3>2. s # <<>> => 1 \in 1..Len(s)
      BY <2>2
    <3>. QED
      BY <2>2, <3>1, <3>2, ChainAt
  <2>. QED
    BY <2>1, <2>3, <2>4 DEF hlist_empty
<1>4. ASSUME hiter # NoLoop
      PROVE  IsPrefix(hiter.seen, hiter.start) /\ (hiter.pos = NULL <=> hiter.seen = hiter.start)
  <2>1. PICK s, t : s = hiter.seen /\ t = hiter.start
    OBVIOUS
  <2>2. /\ s \in Seq(HlistNodes) /\ t \in Seq(HlistNodes) /\ Len(s) \in Nat /\ Len(t) \in Nat
        /\ Len(s) <= Len(t) /\ (\A i \in 1..Len(s) : s[i] = t[i])
        /\ hiter.pos = At(NULL, t, Len(s) + 1)
    BY <1>4, <2>1 DEF HListInv, HLoopGood, HLoops
  <2>3. IsPrefix(s, t)
    BY <2>2, PrefixIs
  <2>4. ASSUME hiter.pos = NULL PROVE s = t
    <3>1. ~(Len(s) + 1 \in 1..Len(t))
      <4>1. \A i \in 1..Len(t) : t[i] # NULL
        BY <2>2, HListsAssumption
      <4>. QED
        BY <2>2, <2>4, <4>1 DEF At
    <3>2. Len(s) = Len(t)
      BY <2>2, <3>1
    <3>. QED
      BY <2>2, <3>2, SeqEqual
  <2>5. s = t => hiter.pos = NULL
    BY <2>2 DEF At
  <2>. QED
    BY <2>1, <2>3, <2>4, <2>5
<1>5. \A x \in HlistHeads : \A e \in HlistNodes : hlist_is_singular_node(hheap, e, x) <=> hring[x] = <<e>>
  BY <1>1, HSingular
<1>6. ASSUME NEW e \in HlistNodes PROVE (hlist_unhashed(hheap, e) <=> e \in Unused) /\ (hlist_fake(hheap, e) <=> e \in fakes)
  BY <1>1, HSingular
<1>. QED
  BY <1>2, <1>3, <1>4, <1>5, <1>6 DEF HListsHold

\* The pointers of the nodes make the hlists the calls ask for, the queries
\* answer from a node alone, and safe loops visit every entry.
THEOREM HlistsMakeTheLists == ClientSpec => []HListsHold
<1>1. HListInv => HListsHold
  BY HInvHolds
<1>. QED
  BY <1>1, HClientInvariant, PTL

=============================================================================
