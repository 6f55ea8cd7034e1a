-------------------------------- MODULE GoMap --------------------------------
(* A Go map as a function whose domain is the set of its keys. *)

(* m[k] = v *)
Put(m, k, v) == [x \in DOMAIN m \cup {k} |-> IF x = k THEN v ELSE m[x]]

(* m with the entries of n on top. *)
Merge(n, m) == [x \in DOMAIN m \cup DOMAIN n |-> IF x \in DOMAIN n THEN n[x] ELSE m[x]]

(* delete(m, k) for every k of ks *)
Drop(m, ks) == [x \in DOMAIN m \ ks |-> m[x]]
=============================================================================
