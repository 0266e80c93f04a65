---------------------------- MODULE BpfMapProofs ----------------------------
(***************************************************************************)
(* What the map operations of BpfMap return: the facts that the proofs     *)
(* about the components cite.  And the fact that stands in for induction   *)
(* in them: a set of naturals has a least element.                         *)
(***************************************************************************)
EXTENDS BpfMap, Integers, WellFoundedInduction, TLAPS

\* An update adds or replaces one entry, keeps the others and the types:
\* Map.Put() and bpf_map_update_elem() of every writer.
LEMMA PutIsMap ==
    ASSUME NEW K, NEW V, NEW m, IsMap(m, K, V), NEW k \in K, NEW v \in V
    PROVE  /\ IsMap(Put(m, k, v), K, V)
           /\ DOMAIN Put(m, k, v) = DOMAIN m \cup {k}
           /\ Put(m, k, v)[k] = v
           /\ \A x \in DOMAIN m : x # k => Put(m, k, v)[x] = m[x]
  BY DEF IsMap, Put

\* A delete removes one entry and keeps the others and the types:
\* Map.Delete(), bpf_map_delete_elem() and the reclaim of an LRU entry.
LEMMA DelIsMap ==
    ASSUME NEW K, NEW V, NEW m, IsMap(m, K, V), NEW k
    PROVE  /\ IsMap(Del(m, k), K, V)
           /\ DOMAIN Del(m, k) = DOMAIN m \ {k}
           /\ \A x \in DOMAIN m : x # k => Del(m, k)[x] = m[x]
  BY DEF IsMap, Del

\* A lookup of an absent key returns the default and so stays in the type.
LEMMA LookupInValues ==
    ASSUME NEW K, NEW V, NEW m, IsMap(m, K, V), NEW k, NEW d \in V
    PROVE  Lookup(m, k, d) \in V
  BY DEF IsMap, Lookup

\* The map with no entry has every type.
LEMMA EmptyIsMap ==
    ASSUME NEW K, NEW V
    PROVE  IsMap(EmptyMap, K, V)
  BY DEF IsMap, EmptyMap

\* A set of naturals that is not empty has a least element.
LEMMA LeastNatural ==
    ASSUME NEW T, T \subseteq Nat, T # {}
    PROVE  \E n \in T : \A m \in T : n <= m
<1>1. PICK n \in T : \A m \in T : ~ (<<m, n>> \in OpToRel(<, Nat))
  BY WFMin, NatLessThanWellFounded
<1>2. \A m \in Nat : m < n => <<m, n>> \in OpToRel(<, Nat)
  BY DEF OpToRel
<1>3. \A m \in T : ~(m < n)
  BY <1>1, <1>2
<1>4. \A m \in T : n <= m
  BY <1>3
<1> QED
  BY <1>4
=============================================================================
