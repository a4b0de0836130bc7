-------------------------------- MODULE Lists --------------------------------
(* GLib's linked lists (GList), as far as the bin and the CAM stack use them. *)
EXTENDS Integers, Sequences

\* e is on the list s.
On(e, s) == \E i \in 1..Len(s) : s[i] = e

\* No two nodes hold e.
Once(e, s) == \A i, j \in 1..Len(s) : s[i] = e /\ s[j] = e => i = j

\* g_list_delete_link of the i-th node.
Without(s, i) == [j \in 1..(Len(s) - 1) |-> IF j < i THEN s[j] ELSE s[j + 1]]
=============================================================================
