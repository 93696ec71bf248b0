-------------------------------- MODULE Maps --------------------------------
(***************************************************************************)
(* The std::map of the code: a function whose domain is the set of keys.   *)
(***************************************************************************)

EmptyMap == [k \in {} |-> k]

\* map[key] = value: inserts the key or overwrites what it held.
Put(map, key, value) ==
  [k \in DOMAIN map \cup {key} |-> IF k = key THEN value ELSE map[k]]

\* map.erase(key)
Erase(map, key) == [k \in DOMAIN map \ {key} |-> map[k]]

\* A batch of PUTs: every key of new takes its new value.
PutAll(map, new) ==
  [k \in DOMAIN map \cup DOMAIN new |->
     IF k \in DOMAIN new THEN new[k] ELSE map[k]]

\* The maps from any subset of K to V.
IsMap(map, K, V) ==
  /\ DOMAIN map \subseteq K
  /\ map \in [DOMAIN map -> V]

=============================================================================
