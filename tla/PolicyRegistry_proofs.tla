------------------------- MODULE PolicyRegistry_proofs --------------------------
(***************************************************************************)
(* Proofs about PolicyRegistry, for every set of ids and objects: what the *)
(* policy service and the gateway may rely on, and what they have to show  *)
(* of a step that publishes something.                                     *)
(***************************************************************************)
EXTENDS PolicyRegistry, SequenceTheorems, TLAPS

(***************************************************************************)
(* What a step that appends to the heap publishes.                         *)
(***************************************************************************)
LEMMA PublishedIsTheRest ==
    ASSUME TypeOK, NEW ps \in Seq(Objects), heap' = heap \o ps
    PROVE  Published = ps
<1>1. heap \in Seq(Objects)
  BY DEF TypeOK
<1>2. /\ Len(heap) \in Nat /\ Len(ps) \in Nat
      /\ Len(heap') = Len(heap) + Len(ps)
  BY <1>1, LenProperties, ConcatProperties
<1>3. CASE ps = <<>>
  <2>1. SubSeq(heap', Len(heap) + 1, Len(heap')) = <<>>
    BY <1>2, <1>3, SubSeqEmpty
  <2> QED
    BY <1>3, <2>1 DEF Published
<1>4. CASE ps # <<>>
  <2>1. Len(ps) > 0
    BY <1>2, <1>4, EmptySeq
  <2>2. SubSeq(heap \o ps, Len(heap) + 1, Len(heap) + Len(ps))
          = SubSeq(ps, Len(heap) + 1 - Len(heap), Len(heap) + Len(ps) - Len(heap))
    BY <1>1, <1>2, <2>1, SubSeqOfConcat2
  <2>3. /\ Len(heap) + 1 - Len(heap) = 1
        /\ Len(heap) + Len(ps) - Len(heap) = Len(ps)
    BY <1>2
  <2>4. SubSeq(ps, 1, Len(ps)) = ps
    BY SubSeqFull
  <2> QED
    BY <1>2, <2>2, <2>3, <2>4 DEF Published
<1> QED
  BY <1>3, <1>4

(***************************************************************************)
(* Storing one policy object is a Put.                                     *)
(***************************************************************************)
LEMMA PublishIsPut ==
    ASSUME TypeOK, NEW p \in Objects, Publish(p)
    PROVE  Put
<1>1. heap \in Seq(Objects) /\ <<p>> \in Seq(Objects)
  BY DEF TypeOK
<1>2. heap' = heap \o <<p>>
  BY <1>1, AppendIsConcat DEF Publish
<1>3. Published = <<p>>
  BY <1>1, <1>2, PublishedIsTheRest
<1> QED
  BY <1>3 DEF Put

(***************************************************************************)
(* Storing a whole dict of them is a Replace.                              *)
(***************************************************************************)
LEMMA PublishAllIsReplace ==
    ASSUME TypeOK, NEW ps \in Seq(Objects), DistinctIds(ps), PublishAll(ps)
    PROVE  Replace
<1>1. Published = ps
  BY PublishedIsTheRest DEF PublishAll
<1> QED
  BY <1>1 DEF Replace

(***************************************************************************)
(* Every step of the registry leaves what was published where it was.      *)
(***************************************************************************)
LEMMA NothingIsRewritten ==
    ASSUME TypeOK, [Next]_regvars
    PROVE  /\ heap' \in Seq(Objects)
           /\ Len(heap) \in Nat /\ Len(heap') \in Nat /\ Len(heap) <= Len(heap')
           /\ \A k \in 1 .. Len(heap) : heap'[k] = heap[k]
<1>1. heap \in Seq(Objects) /\ Len(heap) \in Nat
  BY LenProperties DEF TypeOK
<1>2. CASE Put
  <2>1. heap' = Append(heap, Published[1]) /\ Published[1] \in Objects
    BY <1>2 DEF Put, Publish
  <2> HIDE DEF Published
  <2> QED
    BY <1>1, <2>1, AppendProperties
<1>3. CASE Replace
  <2>1. heap' = heap \o Published /\ Published \in Seq(Objects)
    BY <1>3 DEF Replace, PublishAll
  <2> HIDE DEF Published
  <2>2. Len(Published) \in Nat
    BY <2>1, LenProperties
  <2> QED
    BY <1>1, <2>1, <2>2, ConcatProperties
<1>4. CASE UNCHANGED regvars
  BY <1>1, <1>4 DEF regvars
<1> QED
  BY <1>2, <1>3, <1>4 DEF Next

(***************************************************************************)
(* Every step of the registry keeps its types.                             *)
(***************************************************************************)
LEMMA TypeStep == TypeOK /\ [Next]_regvars => TypeOK'
<1> SUFFICES ASSUME TypeOK, [Next]_regvars PROVE cache' \in [PolicyIds -> Nat]
  BY NothingIsRewritten DEF TypeOK
<1>1. cache \in [PolicyIds -> Nat] /\ Len(heap) \in Nat
  BY NothingIsRewritten DEF TypeOK
<1>2. CASE Put
  <2> DEFINE p == Published[1]
  <2>1. cache' = [cache EXCEPT ![p.id] = Len(heap) + 1]
    BY <1>2 DEF Put, Publish
  <2>2. Len(heap) + 1 \in Nat
    BY <1>1
  <2> HIDE DEF p
  <2> QED
    BY <1>1, <2>1, <2>2
<1>3. CASE Replace
  <2>1. Published \in Seq(Objects) /\ PublishAll(Published)
    BY <1>3 DEF Replace
  <2> HIDE DEF Published
  <2>2. Len(Published) \in Nat
    BY <2>1, LenProperties
  <2>3. ASSUME NEW i \in PolicyIds,
               \E k \in 1 .. Len(Published) : Published[k].id = i
        PROVE  Len(heap) + (CHOOSE k \in 1 .. Len(Published) : Published[k].id = i)
                 \in Nat
    BY <1>1, <2>2, <2>3
  <2> QED
    BY <2>1, <2>3 DEF PublishAll, Absent
<1>4. CASE UNCHANGED regvars
  BY <1>1, <1>4 DEF regvars
<1> QED
  BY <1>2, <1>3, <1>4 DEF Next

(***************************************************************************)
(* Every step of the registry keeps ids and objects together.              *)
(***************************************************************************)
LEMMA KeyedStep == TypeOK /\ KeyedById /\ [Next]_regvars => KeyedById'
<1> SUFFICES ASSUME TypeOK, KeyedById, [Next]_regvars,
                    NEW i \in PolicyIds, cache'[i] # Absent
             PROVE  cache'[i] \in 1 .. Len(heap') /\ heap'[cache'[i]].id = i
  BY DEF KeyedById
<1>1. /\ heap \in Seq(Objects) /\ cache \in [PolicyIds -> Nat]
      /\ Len(heap) \in Nat /\ Len(heap') \in Nat /\ Len(heap) <= Len(heap')
      /\ \A k \in 1 .. Len(heap) : heap'[k] = heap[k]
  BY NothingIsRewritten DEF TypeOK
<1>2. CASE cache'[i] = cache[i]
  BY <1>1, <1>2 DEF KeyedById
<1>3. CASE Put
  <2> DEFINE p == Published[1]
  <2>1. p \in Objects /\ heap' = Append(heap, p)
        /\ cache' = [cache EXCEPT ![p.id] = Len(heap) + 1]
    BY <1>3 DEF Put, Publish
  <2> HIDE DEF p
  <2>2. Len(heap') = Len(heap) + 1 /\ heap'[Len(heap) + 1] = p
    BY <1>1, <2>1, AppendProperties
  <2>3. CASE i = p.id
    BY <1>1, <2>1, <2>2, <2>3
  <2>4. CASE i # p.id
    BY <1>1, <1>2, <2>1, <2>4
  <2> QED
    BY <2>3, <2>4
<1>4. CASE Replace
  <2> DEFINE ps == Published
             place == CHOOSE k \in 1 .. Len(ps) : ps[k].id = i
  <2>1. ps \in Seq(Objects) /\ PublishAll(ps)
    BY <1>4 DEF Replace
  <2> HIDE DEF ps
  <2>2. /\ Len(ps) \in Nat
        /\ Len(heap') = Len(heap) + Len(ps)
        /\ \A k \in 1 .. Len(heap) + Len(ps) :
              heap'[k] = IF k <= Len(heap) THEN heap[k] ELSE ps[k - Len(heap)]
    BY <1>1, <2>1, LenProperties, ConcatProperties DEF PublishAll
  <2>3. \E k \in 1 .. Len(ps) : ps[k].id = i
    BY <2>1 DEF PublishAll
  <2>4. place \in 1 .. Len(ps) /\ ps[place].id = i
    BY <2>3
  <2>5. cache'[i] = Len(heap) + place
    BY <2>1, <2>3 DEF PublishAll
  <2> HIDE DEF place
  <2>6. cache'[i] \in 1 .. Len(heap') /\ heap'[cache'[i]] = ps[place]
    BY <1>1, <2>2, <2>4, <2>5
  <2> QED
    BY <2>4, <2>6
<1>5. CASE UNCHANGED regvars
  BY <1>2, <1>5 DEF regvars
<1> QED
  BY <1>3, <1>4, <1>5 DEF Next

-----------------------------------------------------------------------------
(***************************************************************************)
(* Whoever only puts and replaces keeps a registry in which an id names a  *)
(* published object with that very id (policy.py:100, loader.py:67).       *)
(***************************************************************************)
THEOREM RegistryIsKeyed == Spec => [](TypeOK /\ KeyedById)
<1>1. Init => TypeOK /\ KeyedById
  BY DEF Init, TypeOK, KeyedById, Absent
<1>2. TypeOK /\ KeyedById /\ [Next]_regvars => (TypeOK /\ KeyedById)'
  BY TypeStep, KeyedStep
<1> QED
  BY <1>1, <1>2, PTL DEF Spec
=============================================================================
