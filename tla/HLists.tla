-------------------------------- MODULE HLists --------------------------------
(***************************************************************************)
(* The lists with a single pointer in the head of utils/include/list.h,    *)
(* and clients that call every operation in any order its comments allow.  *)
(*                                                                         *)
(* pprev points to the field that points to its node: the first of a head  *)
(* or the next of a node.  A field is named by its owner, so hheap.next    *)
(* holds the first of the heads as well.  hring[h] is what the client      *)
(* believes the list of h to hold; fakes are the nodes hlist_add_fake made *)
(* lists of their own.                                                     *)
(***************************************************************************)
EXTENDS ListHead, SequencesExt

CONSTANTS HlistHeads, HlistNodes

ASSUME HListsAssumption == NULL \notin HlistHeads \cup HlistNodes /\ HlistHeads \cap HlistNodes = {}

VARIABLES hheap, hring, fakes, hiter

hvars == <<hheap, hring, fakes, hiter>>

HSetNext(h, owner, v) == [next |-> [h.next EXCEPT ![owner] = v], pprev |-> h.pprev]
HSetPprev(h, n, v)    == [next |-> h.next, pprev |-> [h.pprev EXCEPT ![n] = v]]

\* if (n) n->pprev = v
IfNode(h, n, v) == IF n = NULL THEN h ELSE HSetPprev(h, n, v)

-----------------------------------------------------------------------------
(* The operations, with their stores in the order of the source. *)

INIT_HLIST_HEAD(h, head) == HSetNext(h, head, NULL)

INIT_HLIST_NODE(h, n) == HSetPprev(HSetNext(h, n, NULL), n, NULL)

hlist_unhashed(h, n) == h.pprev[n] = NULL

hlist_empty(h, head) == h.next[head] = NULL

\* Mutant: the next node keeps its pprev.
__hlist_del_next_kept(h, n) == HSetNext(h, h.pprev[n], h.next[n])

__hlist_del(h, n) == IfNode(HSetNext(h, h.pprev[n], h.next[n]), h.next[n], h.pprev[n])

hlist_del(h, n) == HSetPprev(HSetNext(__hlist_del(h, n), n, NULL), n, NULL)

hlist_del_init(h, n) == IF hlist_unhashed(h, n) THEN h ELSE INIT_HLIST_NODE(__hlist_del(h, n), n)

hlist_add_head(h, n, head) ==
  LET first == h.next[head]
  IN  HSetPprev(HSetNext(IfNode(HSetNext(h, n, first), first, n), head, n), n, head)

hlist_add_before(h, n, next) ==
  LET h1 == HSetNext(HSetPprev(h, n, h.pprev[next]), n, next)
  IN  HSetNext(HSetPprev(h1, next, n), h1.pprev[n], n)

hlist_add_behind(h, n, prev) ==
  LET h1 == HSetPprev(HSetNext(HSetNext(h, n, h.next[prev]), prev, n), n, prev)
  IN  IfNode(h1, h1.next[n], n)

hlist_add_fake(h, n) == HSetPprev(h, n, n)

hlist_fake(h, n) == h.pprev[n] = n

hlist_is_singular_node(h, n, head) == h.next[n] = NULL /\ h.pprev[n] = head

hlist_move_list(h, old, new) ==
  LET h1 == HSetNext(h, new, h.next[old])
  IN  HSetNext(IfNode(h1, h1.next[new], new), old, NULL)

-----------------------------------------------------------------------------
(* The clients. *)

HOn(h)  == ToSet(hring[h])
Hashed == UNION {HOn(h) : h \in HlistHeads}
Unused  == HlistNodes \ (Hashed \cup fakes)

NoLoop == [head |-> NULL, pos |-> NULL, n |-> NULL, seen |-> <<>>, start |-> <<>>]

HInit ==
  /\ hheap = [next |-> [x \in HlistHeads \cup HlistNodes |-> NULL], pprev |-> [x \in HlistNodes |-> NULL]]
  /\ hring = [h \in HlistHeads |-> <<>>]
  /\ fakes = {}
  /\ hiter = NoLoop

HCall(h, r) == hiter = NoLoop /\ hheap' = h /\ hring' = r /\ hiter' = hiter

HPlace(h, e) == CHOOSE k \in DOMAIN hring[h] : hring[h][k] = e

HWithout(e) ==
  [h \in HlistHeads |-> IF e \in HOn(h) THEN RemoveAt(hring[h], HPlace(h, e)) ELSE hring[h]]

\* e goes where f is, or after it.
HInserted(e, f, after) ==
  [h \in HlistHeads |-> IF f \in HOn(h) THEN InsertAt(hring[h], HPlace(h, f) + after, e)
                                      ELSE hring[h]]

hlink(e, h) ==
  /\ e \in Unused
  /\ HCall(hlist_add_head(hheap, e, h), [hring EXCEPT ![h] = <<e>> \o @])
  /\ UNCHANGED fakes

hlink_beside(e, f) ==
  /\ e \in Unused /\ f \in Hashed
  /\ \/ HCall(hlist_add_before(hheap, e, f), HInserted(e, f, 0))
     \/ HCall(hlist_add_behind(hheap, e, f), HInserted(e, f, 1))
  /\ UNCHANGED fakes

\* hlist_del needs a node of a list, or a fake; hlist_del_init takes any.
hunlink(e) ==
  /\ \/ e \notin Unused /\ HCall(hlist_del(hheap, e), HWithout(e))
     \/ HCall(hlist_del_init(hheap, e), HWithout(e))
     \/ e \in Unused /\ HCall(INIT_HLIST_NODE(hheap, e), hring)
  /\ fakes' = fakes \ {e}

hfake(e) ==
  /\ e \in Unused
  /\ HCall(hlist_add_fake(hheap, e), hring)
  /\ fakes' = fakes \cup {e}

hmove(old, new) ==
  /\ old # new /\ hring[new] = <<>>
  /\ \/ HCall(hlist_move_list(hheap, old, new), [hring EXCEPT ![new] = hring[old], ![old] = <<>>])
     \/ HCall(INIT_HLIST_HEAD(hheap, new), hring)
  /\ UNCHANGED fakes

\* hlist_for_each_entry_safe: n is read before the body, and pos = n after it.
After(h, pos) == IF pos = NULL THEN NULL ELSE h.next[pos]

hloop(h) ==
  /\ hiter = NoLoop
  /\ hiter' = [head |-> h, pos |-> hheap.next[h], n |-> After(hheap, hheap.next[h]),
               seen |-> <<>>, start |-> hring[h]]
  /\ UNCHANGED <<hheap, hring, fakes>>

hloop_next ==
  hiter' = [hiter EXCEPT !.pos = hiter.n, !.n = After(hheap', hiter.n), !.seen = Append(@, hiter.pos)]

\* The body leaves its entry, deletes it, or moves it to another list.
hloop_body ==
  LET e == hiter.pos
      h == hlist_del(hheap, e)
  IN  /\ e # NULL
      /\ \/ UNCHANGED <<hheap, hring>>
         \/ hheap' = h /\ hring' = HWithout(e)
         \/ \E head \in HlistHeads \ {hiter.head} :
              /\ hheap' = hlist_add_head(h, e, head)
              /\ hring' = [HWithout(e) EXCEPT ![head] = <<e>> \o @]
      /\ hloop_next
      /\ UNCHANGED fakes

hloop_end ==
  /\ hiter # NoLoop /\ hiter.pos = NULL
  /\ hiter' = NoLoop
  /\ UNCHANGED <<hheap, hring, fakes>>

HNext ==
  \/ \E e \in HlistNodes : hunlink(e) \/ hfake(e)
  \/ \E e \in HlistNodes, h \in HlistHeads : hlink(e, h)
  \/ \E e, f \in HlistNodes : hlink_beside(e, f)
  \/ \E g, h \in HlistHeads : hmove(g, h)
  \/ \E h \in HlistHeads : hloop(h)
  \/ hloop_body \/ hloop_end

-----------------------------------------------------------------------------
(* Properties. *)

\* Whatever calls came before, from each head first and next lead through the
\* entries the calls put on its list, in order, each pprev to the field that
\* leads to its node; the queries answer from a node alone, head or no head;
\* and a safe loop visits every entry although its body takes them away.
HListsHold ==
  /\ \A h \in HlistHeads :
       LET path == <<h>> \o hring[h] \o <<NULL>>
       IN  /\ \A i \in 1..(Len(path) - 1) :
                /\ hheap.next[path[i]] = path[i + 1]
                /\ i > 1 => hheap.pprev[path[i]] = path[i - 1]
           /\ hlist_empty(hheap, h) <=> hring[h] = <<>>
           /\ \A e \in HlistNodes : hlist_is_singular_node(hheap, e, h) <=> hring[h] = <<e>>
  /\ \A e \in HlistNodes :
       /\ hlist_unhashed(hheap, e) <=> e \in Unused
       /\ hlist_fake(hheap, e) <=> e \in fakes
  /\ hiter # NoLoop =>
       /\ IsPrefix(hiter.seen, hiter.start)
       /\ hiter.pos = NULL <=> hiter.seen = hiter.start

=============================================================================
