----------------------------- MODULE MCLocalFort -----------------------------
(* An instance of LocalFort: a fort of three, of whom some come back. *)
EXTENDS LocalFort

CONSTANTS s1, s2, s3, n1, n2, n3
SocketSet == {s1, s2, s3}
NameSet == {n1, n2, n3}
GuestSet == {s2, s3}
NameFor == (s1 :> n1) @@ (s2 :> n2) @@ (s3 :> n3)
\* Its three members are alike: a permutation of the sockets takes the names along.
Alike == {p @@ [x \in NameSet |-> NameFor[p[CHOOSE s \in SocketSet : NameFor[s] = x]]] :
            p \in Permutations(SocketSet)}
=============================================================================
