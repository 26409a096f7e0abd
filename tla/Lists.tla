-------------------------------- MODULE Lists --------------------------------
(***************************************************************************)
(* The contract of utils/include/list.h: clients keep entries on several   *)
(* lists and call every operation of the header, in any order its comments *)
(* allow.  ring[h] is the sequence a client believes the list of head h to *)
(* hold; the header's pointer stores must produce it.                      *)
(*                                                                         *)
(* An entry on no list is loose, and its pointers are whatever the last    *)
(* operation left.  A head that list_splice emptied without initialising   *)
(* it, or that was replaced, is no list until INIT_LIST_HEAD.              *)
(***************************************************************************)
EXTENDS ListHead, SequencesExt

CONSTANTS ListHeads, Entries

ASSUME ListsAssumption == NULL \notin ListHeads \cup Entries /\ ListHeads \cap Entries = {}

VARIABLES
  heap,
  ring,   \* ring[h]: the entries on the list of h, in order
  live,   \* the heads that are lists
  iter    \* a safe loop, or NoIter

vars == <<heap, ring, live, iter>>

Nodes == ListHeads \cup Entries

On(h)   == ToSet(ring[h])
OnSome  == UNION {On(h) : h \in live}
Loose   == Entries \ OnSome
Place(h, e) == CHOOSE k \in DOMAIN ring[h] : ring[h][k] = e

NoIter == [head |-> NULL, link |-> "next", pos |-> NULL, n |-> NULL, seen |-> <<>>, start |-> <<>>]

Init ==
  /\ heap = [next |-> [x \in Nodes |-> IF x \in ListHeads THEN x ELSE NULL],
             prev |-> [x \in Nodes |-> IF x \in ListHeads THEN x ELSE NULL]]
  /\ ring = [h \in ListHeads |-> <<>>]
  /\ live = ListHeads
  /\ iter = NoIter

-----------------------------------------------------------------------------
\* One call: the heap it leaves, and the lists the client then has.
Call(h, r) == iter = NoIter /\ heap' = h /\ ring' = r /\ iter' = iter

Removed(e) ==
  [h \in ListHeads |-> IF e \in On(h) THEN RemoveAt(ring[h], Place(h, e)) ELSE ring[h]]

Other(e, f, x) == IF x = e THEN f ELSE IF x = f THEN e ELSE x
Swapped(e, f)  == [h \in ListHeads |-> [i \in DOMAIN ring[h] |-> Other(e, f, ring[h][i])]]

init_head(h) ==
  /\ h \notin live
  /\ Call(INIT_LIST_HEAD(heap, h), ring)
  /\ live' = live \cup {h}

add(e, h) ==
  /\ e \in Loose
  /\ \/ Call(list_add(heap, e, h), [ring EXCEPT ![h] = <<e>> \o @])
     \/ Call(list_add_tail(heap, e, h), [ring EXCEPT ![h] = Append(@, e)])
  /\ UNCHANGED live

delete(e) ==
  /\ e \in OnSome
  /\ \/ Call(list_del(heap, e), Removed(e))
     \/ Call(list_del_init(heap, e), Removed(e))
     \/ Call(__list_del_clearprev(heap, e), Removed(e))
  /\ UNCHANGED live

\* new is an entry that is on no list.
replace(e, new) ==
  /\ e \in OnSome /\ new \in Loose
  /\ \/ Call(list_replace(heap, e, new), Swapped(e, new))
     \/ Call(list_replace_init(heap, e, new), Swapped(e, new))
  /\ UNCHANGED live

\* A head takes over the list of another, which is empty afterwards.
replace_head(h, new) ==
  /\ h \in live /\ new \notin live
  /\ Call(list_replace_init(heap, h, new), [ring EXCEPT ![h] = <<>>, ![new] = ring[h]])
  /\ live' = live \cup {new}

swap(e, f) ==
  /\ e \in OnSome /\ f \in OnSome /\ e # f
  /\ Call(list_swap(heap, e, f), Swapped(e, f))
  /\ UNCHANGED live

move(e, h) ==
  /\ e \in OnSome
  /\ \/ Call(list_move(heap, e, h), [Removed(e) EXCEPT ![h] = <<e>> \o @])
     \/ Call(list_move_tail(heap, e, h), [Removed(e) EXCEPT ![h] = Append(@, e)])
  /\ UNCHANGED live

bulk_move_tail(h, i, j) ==
  LET s == ring[h]
  IN  /\ Call(list_bulk_move_tail(heap, h, s[i], s[j]),
              [ring EXCEPT ![h] = SubSeq(s, 1, i - 1) \o SubSeq(s, j + 1, Len(s))
                                    \o SubSeq(s, i, j)])
      /\ UNCHANGED live

rotate(h, e) ==
  LET s == ring[h]
      k == Place(h, e)
  IN  /\ \/ Call(list_rotate_left(heap, h),
                 [ring EXCEPT ![h] = IF s = <<>> THEN s ELSE Append(Tail(s), Head(s))])
         \/ /\ e \in On(h)
            /\ Call(list_rotate_to_front(heap, e, h),
                    [ring EXCEPT ![h] = SubSeq(s, k, Len(s)) \o SubSeq(s, 1, k - 1)])
      /\ UNCHANGED live

\* The first k entries of h go to list, which is empty or no list; cutting an
\* empty list leaves list as it was.
cut(list, h, entry) ==
  LET s    == ring[h]
      k    == IF entry = h THEN 0 ELSE Place(h, entry)
      b    == IF entry = h THEN Len(s) ELSE k - 1
      At_(m) == [ring EXCEPT ![list] = SubSeq(s, 1, m), ![h] = SubSeq(s, m + 1, Len(s))]
  IN  /\ list # h /\ ring[list] = <<>>
      /\ entry = h \/ entry \in On(h)
      /\ \/ /\ Call(list_cut_position(heap, list, h, entry), At_(k))
            /\ live' = IF s = <<>> THEN live ELSE live \cup {list}
         \/ /\ Call(list_cut_before(heap, list, h, entry), At_(b))
            /\ live' = live \cup {list}

splice(list, h) ==
  LET front == [ring EXCEPT ![list] = <<>>, ![h] = ring[list] \o @]
      back  == [ring EXCEPT ![list] = <<>>, ![h] = @ \o ring[list]]
  IN  /\ list # h
      /\ \/ /\ \/ Call(list_splice(heap, list, h), front)
               \/ Call(list_splice_tail(heap, list, h), back)
            /\ live' = IF ring[list] = <<>> THEN live ELSE live \ {list}
         \/ /\ \/ Call(list_splice_init(heap, list, h), front)
               \/ Call(list_splice_tail_init(heap, list, h), back)
            /\ UNCHANGED live

-----------------------------------------------------------------------------
(* The safe loops: the body may take the entry it is given away. *)

Link(h, link, n) == IF link = "next" THEN h.next[n] ELSE h.prev[n]

\* A loop over the list of h from pos on; start is what it should visit.
loop(h, link, pos, start) ==
  /\ iter = NoIter
  /\ iter' = [head |-> h, link |-> link, pos |-> pos, n |-> Link(heap, link, pos),
              seen |-> <<>>, start |-> start]
  /\ UNCHANGED <<heap, ring, live>>

list_for_each_entry_safe(h)         == loop(h, "next", heap.next[h], ring[h])
list_for_each_entry_safe_reverse(h) == loop(h, "prev", heap.prev[h], Reverse(ring[h]))

list_for_each_entry_safe_from(h, e) ==
  e \in On(h) /\ loop(h, "next", e, SubSeq(ring[h], Place(h, e), Len(ring[h])))

list_for_each_entry_safe_continue(h, e) ==
  e \in On(h) /\ loop(h, "next", heap.next[e], SubSeq(ring[h], Place(h, e) + 1, Len(ring[h])))

InLoop == iter # NoIter /\ iter.pos # iter.head

\* Mutant: the loops that are not safe follow the entry the body may have
\* deleted.
advance_unsafe(h) ==
  iter' = [iter EXCEPT !.pos = Link(h, iter.link, iter.pos), !.n = Link(h, iter.link, iter.n),
                       !.seen = Append(@, iter.pos)]

\* pos = n, n = n->next
advance(h) ==
  iter' = [iter EXCEPT !.pos = iter.n, !.n = Link(h, iter.link, iter.n), !.seen = Append(@, iter.pos)]

body_keep ==
  /\ InLoop
  /\ advance(heap)
  /\ UNCHANGED <<heap, ring, live>>

body_delete ==
  /\ InLoop
  /\ heap' = list_del(heap, iter.pos)
  /\ ring' = Removed(iter.pos)
  /\ advance(heap')
  /\ UNCHANGED live

body_move(h) ==
  /\ InLoop /\ h # iter.head
  /\ heap' = list_move_tail(heap, iter.pos, h)
  /\ ring' = [Removed(iter.pos) EXCEPT ![h] = Append(@, iter.pos)]
  /\ advance(heap')
  /\ UNCHANGED live

\* The body deletes the entry after its own, and takes n anew.
list_safe_reset_next ==
  /\ InLoop /\ iter.link = "next" /\ iter.n # iter.head
  /\ heap' = list_del(heap, iter.n)
  /\ ring' = Removed(iter.n)
  /\ iter' = [iter EXCEPT !.n = heap'.next[iter.pos], !.start = RemoveAt(@, Len(iter.seen) + 2)]
  /\ UNCHANGED live

iterate_end ==
  /\ iter # NoIter /\ ~InLoop
  /\ iter' = NoIter
  /\ UNCHANGED <<heap, ring, live>>

Next ==
  \/ \E h \in ListHeads : init_head(h)
  \/ \E e \in Entries : delete(e)
  \/ \E e \in Entries, h \in live : add(e, h) \/ move(e, h) \/ rotate(h, e)
  \/ \E e, f \in Entries : replace(e, f) \/ swap(e, f)
  \/ \E h \in live : \E i \in 1..Len(ring[h]) : \E j \in i..Len(ring[h]) : bulk_move_tail(h, i, j)
  \/ \E g, h \in ListHeads : replace_head(g, h)
  \/ \E g \in ListHeads, h \in live, x \in Nodes : cut(g, h, x)
  \/ \E g, h \in live : splice(g, h)
  \/ \E h \in live : list_for_each_entry_safe(h) \/ list_for_each_entry_safe_reverse(h)
  \/ \E h \in live, e \in Entries :
       list_for_each_entry_safe_from(h, e) \/ list_for_each_entry_safe_continue(h, e)
  \/ \E h \in live : body_move(h)
  \/ body_keep \/ body_delete \/ list_safe_reset_next \/ iterate_end

Spec == Init /\ [][Next]_vars

-----------------------------------------------------------------------------
(* Properties. *)

\* Whatever calls came before, following next and prev from a head gives the
\* entries that the calls put on its list, in their order, also when the
\* nodes of a call are neighbours, or a list is empty or has one entry; and no
\* pointer leaves the nodes.
ListsHold ==
  /\ heap \in Heap(Nodes)
  /\ \A h \in live : Ring(heap, h, ring[h])

\* The queries answer from the pointers what is true of the lists.
QueriesAgree ==
  \A h \in live :
    /\ list_empty(heap, h) <=> ring[h] = <<>>
    /\ list_is_singular(heap, h) <=> Len(ring[h]) = 1
    /\ list_first_entry_or_null(heap, h) = IF ring[h] = <<>> THEN NULL ELSE ring[h][1]
    /\ \A e \in OnSome :
         /\ list_is_first(heap, e, h) <=> e \in On(h) /\ Place(h, e) = 1
         /\ list_is_last(heap, e, h) <=> e \in On(h) /\ Place(h, e) = Len(ring[h])
    /\ LET s == ring[h] IN \A k \in DOMAIN s :
         /\ list_next_entry_circular(heap, s[k], h) = s[(k % Len(s)) + 1]
         /\ s[k] = list_prev_entry_circular(heap, s[(k % Len(s)) + 1], h)

\* A safe loop, forwards or backwards, from the head or from an entry, whose body
\* deletes or moves away the entry it is given (or deletes the one after it and
\* takes n anew) still visits every entry it should, once, in order.
SafeLoopVisitsAll ==
  iter # NoIter =>
    /\ IsPrefix(iter.seen, iter.start)
    /\ iter.pos = At(iter.head, iter.start, Len(iter.seen) + 1)
    /\ ~InLoop => iter.seen = iter.start

=============================================================================
