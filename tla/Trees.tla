------------------------------- MODULE Trees -------------------------------
(* File trees: a path is the sequence of its names, and a tree the function from the      *)
(* paths that exist to their kinds.  The file systems of the client and of the server.    *)
EXTENDS SequencesExt

Kind(t, p) == IF p \in DOMAIN t THEN t[p] ELSE "absent"
Parent(p) == Front(p)
Children(t, p) == {q \in DOMAIN t : q # <<>> /\ Parent(q) = p}
Under(t, p) == {q \in DOMAIN t : IsPrefix(p, q)}
Without(t, p) == Restrict(t, DOMAIN t \ {p})
Writable(t, p) == p # <<>> /\ Kind(t, p) # "dir" /\ Kind(t, Parent(p)) = "dir"
\* What a folder holds: names and kinds.
Held(t, p) == {<<Last(q), t[q]>> : q \in Children(t, p)}
=============================================================================
