------------------------------- MODULE ListHead -------------------------------
(***************************************************************************)
(* The circular doubly linked list of utils/include/list.h.                *)
(*                                                                         *)
(* A heap is a record of the two pointer fields of struct list_head:       *)
(* heap.next[n] and heap.prev[n] for every node n.  An operation of the    *)
(* header is an operator from the heap before the call to the heap after   *)
(* it, and performs the stores of the C function one by one in the order   *)
(* of the source, every pointer read in the heap the earlier stores left:  *)
(* the order matters whenever two of the nodes involved are the same       *)
(* (an empty ring, adjacent entries, a head that is also a neighbour).     *)
(***************************************************************************)
EXTENDS Integers, Sequences

CONSTANT NULL      \* the null pointer

\* The heaps over a set of nodes; a field holds a node or NULL.
Heap(Node) == [next : [Node -> Node \cup {NULL}], prev : [Node -> Node \cup {NULL}]]

\* The stores  n->next = v  and  n->prev = v.
SetNext(h, n, v) == [next |-> [h.next EXCEPT ![n] = v], prev |-> h.prev]
SetPrev(h, n, v) == [next |-> h.next, prev |-> [h.prev EXCEPT ![n] = v]]

-----------------------------------------------------------------------------
(* Operations that change the heap. *)

INIT_LIST_HEAD(h, list) == SetPrev(SetNext(h, list, list), list, list)

__list_add(h, new, prev, next) ==
  LET h1 == SetPrev(h, next, new)
      h2 == SetNext(h1, new, next)
      h3 == SetPrev(h2, new, prev)
  IN  SetNext(h3, prev, new)

list_add(h, new, head) == __list_add(h, new, head, h.next[head])

list_add_tail(h, new, head) == __list_add(h, new, h.prev[head], head)

__list_del(h, prev, next) == SetNext(SetPrev(h, next, prev), prev, next)

__list_del_entry(h, entry) == __list_del(h, h.prev[entry], h.next[entry])

__list_del_clearprev(h, entry) == SetPrev(__list_del_entry(h, entry), entry, NULL)

list_del(h, entry) ==
  SetPrev(SetNext(__list_del_entry(h, entry), entry, NULL), entry, NULL)

list_del_init(h, entry) == INIT_LIST_HEAD(__list_del_entry(h, entry), entry)

list_replace(h, old, new) ==
  LET h1 == SetNext(h, new, h.next[old])
      h2 == SetPrev(h1, h1.next[new], new)
      h3 == SetPrev(h2, new, h2.prev[old])
  IN  SetNext(h3, h3.prev[new], new)

list_replace_init(h, old, new) == INIT_LIST_HEAD(list_replace(h, old, new), old)

\* Mutant: entry1 just before entry2 forgotten.
list_swap_apart(h, entry1, entry2) ==
  list_add(list_replace(list_del(h, entry2), entry1, entry2), entry1, h.prev[entry2])

list_swap(h, entry1, entry2) ==
  LET before == h.prev[entry2]
      pos    == IF before = entry1 THEN entry2 ELSE before
  IN  list_add(list_replace(list_del(h, entry2), entry1, entry2), entry1, pos)

list_move(h, list, head) == list_add(__list_del_entry(h, list), list, head)

list_move_tail(h, list, head) == list_add_tail(__list_del_entry(h, list), list, head)

list_bulk_move_tail(h, head, first, last) ==
  LET h1 == SetNext(h, h.prev[first], h.next[last])
      h2 == SetPrev(h1, h1.next[last], h1.prev[first])
      h3 == SetNext(h2, h2.prev[head], first)
      h4 == SetPrev(h3, first, h3.prev[head])
      h5 == SetNext(h4, last, head)
  IN  SetPrev(h5, head, last)

list_rotate_to_front(h, list, head) == list_move_tail(h, head, list)

-----------------------------------------------------------------------------
(* Queries. *)

list_is_first(h, list, head) == h.prev[list] = head

list_is_last(h, list, head) == h.next[list] = head

list_empty(h, head) == h.next[head] = head

\* Mutant: an empty list has equal ends too.
list_ends_meet(h, head) == h.next[head] = h.prev[head]

list_is_singular(h, head) == ~list_empty(h, head) /\ h.next[head] = h.prev[head]

\* Mutant: the newest entry.
list_last_entry_or_null(h, head) ==
  IF h.prev[head] # head THEN h.prev[head] ELSE NULL

\* The entry type's container is the node itself: a struct page holds exactly
\* one list_head, so list_entry() only subtracts a fixed offset.
list_first_entry_or_null(h, head) ==
  IF h.next[head] # head THEN h.next[head] ELSE NULL

list_next_entry_circular(h, pos, head) ==
  IF list_is_last(h, pos, head) THEN h.next[head] ELSE h.next[pos]

list_prev_entry_circular(h, pos, head) ==
  IF list_is_first(h, pos, head) THEN h.prev[head] ELSE h.prev[pos]

-----------------------------------------------------------------------------
(* Operations that depend on a query. *)

list_rotate_left(h, head) ==
  IF list_empty(h, head) THEN h ELSE list_move_tail(h, h.next[head], head)

__list_cut_position(h, list, head, entry) ==
  LET new_first == h.next[entry]
      h1 == SetNext(h, list, h.next[head])
      h2 == SetPrev(h1, h1.next[list], list)
      h3 == SetPrev(h2, list, entry)
      h4 == SetNext(h3, entry, list)
      h5 == SetNext(h4, head, new_first)
  IN  SetPrev(h5, new_first, head)

list_cut_position(h, list, head, entry) ==
  IF \/ list_empty(h, head)
     \/ list_is_singular(h, head) /\ entry # head /\ entry # h.next[head]
  THEN h
  ELSE IF entry = head
  THEN INIT_LIST_HEAD(h, list)
  ELSE __list_cut_position(h, list, head, entry)

list_cut_before(h, list, head, entry) ==
  LET h1 == SetNext(h, list, h.next[head])
      h2 == SetPrev(h1, h1.next[list], list)
      h3 == SetPrev(h2, list, h2.prev[entry])
      h4 == SetNext(h3, h3.prev[list], list)
      h5 == SetNext(h4, head, entry)
  IN  IF h.next[head] = entry THEN INIT_LIST_HEAD(h, list) ELSE SetPrev(h5, entry, head)

__list_splice(h, list, prev, next) ==
  LET first == h.next[list]
      last  == h.prev[list]
      h1 == SetPrev(h, first, prev)
      h2 == SetNext(h1, prev, first)
      h3 == SetNext(h2, last, next)
  IN  SetPrev(h3, next, last)

list_splice(h, list, head) ==
  IF list_empty(h, list) THEN h ELSE __list_splice(h, list, head, h.next[head])

list_splice_tail(h, list, head) ==
  IF list_empty(h, list) THEN h ELSE __list_splice(h, list, h.prev[head], head)

list_splice_init(h, list, head) ==
  IF list_empty(h, list) THEN h ELSE INIT_LIST_HEAD(list_splice(h, list, head), list)

list_splice_tail_init(h, list, head) ==
  IF list_empty(h, list) THEN h ELSE INIT_LIST_HEAD(list_splice_tail(h, list, head), list)

-----------------------------------------------------------------------------
(***************************************************************************)
(* What a ring is meant to hold.  The ring of head holds the sequence s    *)
(* when following next from head visits s[1], s[2], ... and comes back to  *)
(* head, and every prev pointer undoes the next pointer.  At(head, s, i)   *)
(* is the i-th node of the ring, the head being both the 0-th and the      *)
(* (Len(s)+1)-th.                                                          *)
(***************************************************************************)
At(head, s, i) == IF i \in 1..Len(s) THEN s[i] ELSE head

Ring(h, head, s) ==
  \A i \in 0..Len(s) : /\ h.next[At(head, s, i)] = At(head, s, i + 1)
                       /\ h.prev[At(head, s, i + 1)] = At(head, s, i)

Distinct(s) == \A i, j \in 1..Len(s) : s[i] = s[j] => i = j

=============================================================================
