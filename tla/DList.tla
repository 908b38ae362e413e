------------------------------- MODULE DList -------------------------------
(***************************************************************************)
(* The doubly linked lists of utils.c, as sequences of their nodes' data.  *)
(* Three lists of the core are DLists: irq_pending (unique by the address  *)
(* of the vector), and the callback lists clk_cb and async_cb (no compare  *)
(* function, so nothing keeps their nodes unique).                         *)
(*                                                                         *)
(* A comparison function of the C code is a key here, a function on the    *)
(* data: cmp(d1, d2) = 0 is key[d1] = key[d2].                             *)
(***************************************************************************)
EXTENDS Naturals, Sequences, SequencesExt

(* Some node of s compares equal to x: dlist_lookup(s, x, cmp) # NULL. *)
DListHas(s, x, key) == \E i \in DOMAIN s : key[s[i]] = key[x]

(* As below, without the test that keeps nodes unique; and as dlist_add_head *)
(* would do it.                                                             *)
DListAdd_NoCompare(s, x, key) == Append(s, x)
DListAdd_AtHead(s, x, key) == IF DListHas(s, x, key) THEN s ELSE <<x>> \o s

(* dlist_add with a cmp: the new node goes to the END of the list, unless  *)
(* some node already compares equal; then the new data is dropped.         *)
DListAdd(s, x, key) == IF DListHas(s, x, key) THEN s ELSE Append(s, x)

(* dlist_delete: the FIRST node that compares equal goes, if there is one. *)
DListDelete(s, x, key) ==
    IF DListHas(s, x, key)
    THEN LET first == CHOOSE i \in DOMAIN s :
                        /\ key[s[i]] = key[x]
                        /\ \A j \in DOMAIN s : key[s[j]] = key[x] => i <= j
         IN  RemoveAt(s, first)
    ELSE s

(* The node after the one the iterator is visiting: dlist_iterator reads    *)
(* node->next after the callback ran, also when the node was just deleted   *)
(* and freed (the allocator leaves that field of a freed node alone), so    *)
(* with positions for pointers, deleting the visited node leaves the cursor *)
(* where it is.                                                             *)
IteratorVisit(s, node, remove) == IF remove THEN RemoveAt(s, node) ELSE s

(* As below, stepping over the node that follows a deleted one. *)
IteratorNext_Skips(node, remove) == node + 1

IteratorNext(node, remove) == IF remove THEN node ELSE node + 1

(* No two nodes of s compare equal. *)
DListUnique(s, key) ==
    \A i, j \in DOMAIN s : key[s[i]] = key[s[j]] => i = j
=============================================================================
