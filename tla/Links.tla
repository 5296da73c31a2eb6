--------------------------------- MODULE Links --------------------------------
(***************************************************************************)
(* The doubly linked lists of list.h, store by store: a list is a head and *)
(* its entries, numbered together; l.next and l.prev are their two words.  *)
(* A thread that adds or removes an entry works from registers: r.node is  *)
(* the entry, r.prev and r.next what it loaded before the first store.     *)
(***************************************************************************)
EXTENDS Integers, Sequences, FiniteSets

Unlinked(nodes) == [next |-> [n \in nodes |-> n], prev |-> [n \in nodes |-> n]]

list_empty(l, h) == l.next[h] = h

INIT_LIST_HEAD(l, n) == [next |-> [l.next EXCEPT ![n] = n], prev |-> [l.prev EXCEPT ![n] = n]]

(* The two stores of list_del.                                             *)
Bypassed(l, r) == [l EXCEPT !.prev[r.next] = r.prev]
Removed(l, r) == [l EXCEPT !.next[r.prev] = r.next]

(* The stores of list_add_tail before the head h: the last of the four is  *)
(* the one that those who follow `next' see.                               *)
Attached(l, r, h) == [next |-> [l.next EXCEPT ![r.node] = h],
                      prev |-> [l.prev EXCEPT ![h] = r.node, ![r.node] = r.prev]]
Added(l, r) == [l EXCEPT !.next[r.prev] = r.node]

(* All of list_add after the head h.                                       *)
list_add(l, n, h) ==
  LET first == l.next[h]
  IN  [next |-> [l.next EXCEPT ![n] = first, ![h] = n],
       prev |-> [l.prev EXCEPT ![first] = n, ![n] = h]]

(* All of list_add_tail before the head h.                                 *)
list_add_tail(l, n, h) ==
  LET r == [node |-> n, prev |-> l.prev[h], next |-> h] IN Added(Attached(l, r, h), r)

-----------------------------------------------------------------------------
(* The node k steps after h.                                               *)
Step(l, h, k) ==
  LET at[i \in 0 .. k] == IF i = 0 THEN h ELSE l.next[at[i - 1]] IN at[k]

(* The entries that a walk from h meets before it is back at h, or before  *)
(* it has met more than there are.                                         *)
Entries(l, h) ==
  LET far == Cardinality(DOMAIN l.next)
      walk == [k \in 1 .. far |-> Step(l, h, k)]
      back == {k \in 1 .. far : walk[k] = h}
  IN  SubSeq(walk, 1, IF back = {} THEN far ELSE (CHOOSE k \in back : \A j \in back : k <= j) - 1)

(* The walk comes back, and every entry is known to its neighbours.        *)
IsRing(l, h) ==
  LET on == {h} \cup {Entries(l, h)[i] : i \in DOMAIN Entries(l, h)}
  IN  /\ \E k \in 1 .. Cardinality(on) : Step(l, h, k) = h
      /\ \A n \in on : l.prev[l.next[n]] = n
===============================================================================
