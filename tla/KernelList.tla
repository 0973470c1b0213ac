----------------------------- MODULE KernelList -----------------------------
(***************************************************************************)
(* The kernel's intrusive list (include/linux/list.h) as a sequence of the *)
(* entries between the list head and itself.  list_add_tail is Append,     *)
(* list_first_entry is Head and list_empty is equality with <<>>.          *)
(***************************************************************************)
EXTENDS Naturals, Sequences, Functions

\* An entry has one pair of link fields, so it is in a list at most once.
NoDup(s) == \A i, j \in 1..Len(s) : s[i] = s[j] => i = j

\* Where an entry stands in a list that holds it.
ListPos(list, x) == CHOOSE i \in 1..Len(list) : list[i] = x

\* One entry stands closer to the head than another.
Precedes(list, x, y) ==
  \E i, j \in 1..Len(list) : i < j /\ list[i] = x /\ list[j] = y

\* list_add: insert right after the head.
list_add(list, x) == <<x>> \o list

\* __list_add: link an entry in so that it is the k-th one.
ListInsert(list, k, x) == SubSeq(list, 1, k - 1) \o <<x>> \o SubSeq(list, k, Len(list))

\* list_del: unlink an entry from wherever it stands.
list_del(list, x) ==
  LET k == ListPos(list, x) IN SubSeq(list, 1, k - 1) \o SubSeq(list, k + 1, Len(list))
=============================================================================
