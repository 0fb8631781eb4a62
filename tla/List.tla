-------------------------------- MODULE List --------------------------------
(***************************************************************************)
(* The doubly linked lists of include/lib/list.h, link by link, beside the *)
(* sequence of entries they stand for.                                     *)
(***************************************************************************)
EXTENDS Naturals, Sequences, SequencesExt

CONSTANTS Entries, Anchor, NULL

VARIABLES
  links, \* next and prev of the head and of every entry
  order, \* the entries of the list, first to last
  walk   \* a walk with list_for_each_entry_safe: its pos and n, and what it saw

list_head == {Anchor} \union Entries

-----------------------------------------------------------------------------
INIT_LIST_HEAD(l, list) == [next |-> [l.next EXCEPT ![list] = list], prev |-> [l.prev EXCEPT ![list] = list]]

\* The assignments one after the other.
add(l, new, before, after) ==
  LET p == [l.prev EXCEPT ![after] = new, ![new] = before]
      n == [l.next EXCEPT ![new] = after, ![before] = new]
  IN  [next |-> n, prev |-> p]

list_add(l, new, head) == add(l, new, head, l.next[head])
\* After the last one, which the head's prev is.
list_add_tail(l, new, head) == add(l, new, l.prev[head], head)

\* The neighbours are joined and the entry's links cleared.
list_del(l, entry) ==
  LET joined == [next |-> [l.next EXCEPT ![l.prev[entry]] = l.next[entry]],
                 prev |-> [l.prev EXCEPT ![l.next[entry]] = l.prev[entry]]]
  IN  [next |-> [joined.next EXCEPT ![entry] = NULL], prev |-> [joined.prev EXCEPT ![entry] = NULL]]

list_move_tail(l, entry, head) == list_add_tail(list_del(l, entry), entry, head)
list_empty(l, head) == l.next[head] = head
list_is_last(l, entry, head) == l.next[entry] = head
list_rotate_left(l, head) == IF list_empty(l, head) THEN l ELSE list_move_tail(l, l.next[head], head)

-----------------------------------------------------------------------------
Resting == [pos |-> Anchor, n |-> Anchor, seen |-> <<>>, start |-> <<>>]
Init ==
  /\ links = LET none == [e \in list_head |-> NULL] IN INIT_LIST_HEAD([next |-> none, prev |-> none], Anchor)
  /\ order = <<>>
  /\ walk = Resting

Idle == walk.pos = Anchor /\ UNCHANGED walk
Kept(e) == \E i \in DOMAIN order : order[i] = e

Add == \E e \in Entries :
  /\ ~ Kept(e) /\ Idle
  /\ \/ links' = list_add(links, e, Anchor) /\ order' = <<e>> \o order
     \/ links' = list_add_tail(links, e, Anchor) /\ order' = Append(order, e)

Del == \E e \in Entries :
  Kept(e) /\ Idle /\ links' = list_del(links, e) /\ order' = SelectSeq(order, LAMBDA o : o # e)

MoveTail == \E e \in Entries :
  /\ Kept(e) /\ Idle
  /\ links' = list_move_tail(links, e, Anchor)
  /\ order' = Append(SelectSeq(order, LAMBDA o : o # e), e)

Rotate ==
  /\ Idle
  /\ links' = list_rotate_left(links, Anchor)
  /\ order' = IF order = <<>> THEN order ELSE Append(Tail(order), order[1])

-----------------------------------------------------------------------------
(* A walk whose body may take the entry out, or move it to the end.        *)

list_for_each_entry_safe ==
  /\ walk.pos = Anchor
  /\ walk' = [pos |-> links.next[Anchor], n |-> links.next[links.next[Anchor]], seen |-> <<>>, start |-> order]
  /\ UNCHANGED <<links, order>>

\* What follows was read before the body ran.
After(n) == n
Body ==
  /\ walk.pos # Anchor
  /\ \/ UNCHANGED <<links, order>>
     \/ links' = list_del(links, walk.pos) /\ order' = SelectSeq(order, LAMBDA o : o # walk.pos)
  /\ LET pos == After(walk.n) IN
       walk' = [walk EXCEPT !.seen = Append(@, walk.pos), !.pos = pos,
                            !.n = IF pos = NULL THEN NULL ELSE links'.next[pos]]

Next == Add \/ Del \/ MoveTail \/ Rotate \/ list_for_each_entry_safe \/ Body

-----------------------------------------------------------------------------
\* The links lead from the head through the entries in their order and back,
\* both ways; an entry that is out leads nowhere (list.h:49, 96).
Ring == <<Anchor>> \o order \o <<Anchor>>
LinksKept ==
  /\ \A i \in 1 .. Len(order) + 1 : links.next[Ring[i]] = Ring[i + 1] /\ links.prev[Ring[i + 1]] = Ring[i]
  /\ \A e \in Entries : ~ Kept(e) => links.next[e] = NULL /\ links.prev[e] = NULL
  /\ list_empty(links, Anchor) = (order = <<>>)
  /\ \A e \in Entries : Kept(e) => (list_is_last(links, e, Anchor) = (e = order[Len(order)]))

\* A walk sees every entry the list had once, in order, also when each is taken
\* out as it is seen (list.h:236).
WalkSeesAll ==
  /\ IsPrefix(walk.seen, walk.start)
  /\ walk.pos = Anchor => Len(walk.seen) = Len(walk.start)

ListSound == LinksKept /\ WalkSeesAll
=============================================================================
