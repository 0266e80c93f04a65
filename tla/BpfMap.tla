------------------------------- MODULE BpfMap -------------------------------
(***************************************************************************)
(* The BPF hash maps that the XDP program and the daemon share.  A map is  *)
(* a function whose domain is the set of keys that have an entry.          *)
(***************************************************************************)

\* The map with no entry.
EmptyMap == [k \in {} |-> 0]

\* bpf_map_update_elem(m, k, v, BPF_ANY), and Map.Put(k, v) of the daemon.
Put(m, k, v) == [x \in DOMAIN m \cup {k} |-> IF x = k THEN v ELSE m[x]]

\* bpf_map_delete_elem(m, k), Map.Delete(k), and the reclaim of an LRU entry.
Del(m, k) == [x \in DOMAIN m \ {k} |-> m[x]]

\* bpf_map_lookup_elem(m, k), with the value a caller takes a NULL for.
Lookup(m, k, absent) == IF k \in DOMAIN m THEN m[k] ELSE absent

\* m has some of the keys in K, and values in V.
IsMap(m, K, V) == m \in [DOMAIN m -> V] /\ DOMAIN m \subseteq K
=============================================================================
