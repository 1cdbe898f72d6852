---------------------------- MODULE PolicyRegistry ----------------------------
(***************************************************************************)
(* What PolicyService promises the rest of the gateway: a map from policy  *)
(* id to policy object in which a reload puts one object or replaces all   *)
(* of them in one step, and in which no object that was ever published     *)
(* changes afterwards.  `heap' is every Policy object published so far,    *)
(* `cache' (the _policies dict) gives the object an id currently names.    *)
(***************************************************************************)
EXTENDS Naturals, Sequences

CONSTANTS PolicyIds, Objects    \* Policy objects: values with an id of PolicyIds

VARIABLES cache, heap

regvars == <<cache, heap>>

Absent == 0

Init == heap = <<>> /\ cache = [i \in PolicyIds |-> Absent]

\* PolicyService.get: the object, or PolicyNotFoundError when there is none.
IsCached(i) == i \in PolicyIds /\ cache[i] # Absent
Lookup(i) == heap[cache[i]]

\* self._policies[policy.id] = policy
Publish(p) ==
    /\ heap' = Append(heap, p)
    /\ cache' = [cache EXCEPT ![p.id] = Len(heap) + 1]

DistinctIds(ps) ==
    \A j, k \in 1 .. Len(ps) : ps[j].id = ps[k].id => j = k

\* self._policies = new_policies
PublishAll(ps) ==
    /\ heap' = heap \o ps
    /\ cache' = [i \in PolicyIds |->
          IF \E k \in 1 .. Len(ps) : ps[k].id = i
          THEN Len(heap) + (CHOOSE k \in 1 .. Len(ps) : ps[k].id = i)
          ELSE Absent]

\* The objects a step publishes.
Published == SubSeq(heap', Len(heap) + 1, Len(heap'))

Put == Len(Published) = 1 /\ Published[1] \in Objects /\ Publish(Published[1])

Replace ==
    /\ Published \in Seq(Objects)
    /\ DistinctIds(Published)
    /\ PublishAll(Published)

Next == Put \/ Replace

Spec == Init /\ [][Next]_regvars

-----------------------------------------------------------------------------
\* Types of the registry.
TypeOK ==
    /\ heap \in Seq(Objects)
    /\ cache \in [PolicyIds -> Nat]

(***************************************************************************)
(* An id that is cached names a published object with that very id         *)
(* (policy.py:100, loader.py:67).                                          *)
(***************************************************************************)
KeyedById ==
    \A i \in PolicyIds : cache[i] # Absent =>
        cache[i] \in 1 .. Len(heap) /\ heap[cache[i]].id = i
=============================================================================
