-------------------------------- MODULE Maps --------------------------------
(***************************************************************************)
(* Go maps as functions whose domain is the set of keys present.           *)
(***************************************************************************)

EmptyMap == [x \in {} |-> {}]

\* m[k], which yields the zero value of the element type for an absent key.
At(m, k, zero) == IF k \in DOMAIN m THEN m[k] ELSE zero

\* m[k] = v
Store(m, k, v) == [x \in DOMAIN m \cup {k} |-> IF x = k THEN v ELSE m[x]]

\* delete(m, k) for every k in K
Without(m, K) == [x \in DOMAIN m \ K |-> m[x]]

=============================================================================
