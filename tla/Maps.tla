---------------------------------- MODULE Maps ----------------------------------
(***************************************************************************)
(* The operations on a JavaScript Map or object the services use.  A map   *)
(* is a function whose domain is the keys it holds.                        *)
(***************************************************************************)

EmptyMap == [key \in {} |-> key]

\* map.set(key, value)
Put(map, key, value) ==
  [k \in DOMAIN map \union {key} |-> IF k = key THEN value ELSE map[k]]

\* map.delete(key)
Delete(map, key) == [k \in DOMAIN map \ {key} |-> map[k]]

\* {...under, ...over}
Spread(over, under) ==
  [k \in DOMAIN over \union DOMAIN under |-> IF k \in DOMAIN over THEN over[k] ELSE under[k]]

\* The maps from some of the keys to values.
MapsOf(keys, values) == UNION {[held -> values] : held \in SUBSET keys}

==============================================================================
