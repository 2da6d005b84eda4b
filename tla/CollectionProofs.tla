-------------------------- MODULE CollectionProofs --------------------------
(* Proofs about Collection, for any cluster, responses and configuration.    *)
(*                                                                           *)
(* The samples found for a container are its own (CInv): what is in memory   *)
(* keeps the keys that were pushed, however often it has been restricted,    *)
(* and the id looked up is that of a running status if there is one.  Each   *)
(* object is counted once (ItemsInv): its labels name it.  The containers    *)
(* and cgroups of a node come from one response (CGroupInv): the one the     *)
(* scrape took.  What is reported is what was pushed, up to the limit        *)
(* (ClampInv): restricting samples again to a limit they are restricted to   *)
(* changes nothing.  The requests reported for a node are those reported for *)
(* its containers (RequestsInv): both add up the containers of one list.     *)
(* Metrics have the types of the model (TInv): labels are text whichever     *)
(* objects are missing, and samples keep Go's types when restricted in place.*)
(* Sorting, searching, counting and sums are proved by induction over        *)
(* numbers and finite sets, with a set as the parameter.                     *)
EXTENDS Collection, FiniteSetTheorems, WellFoundedInduction, NaturalsInduction, TLAPS
-----------------------------------------------------------------------------
(* Counting, and orders of finite sets.                                    *)

\* The numbers up to n are n numbers.
LEMMA Interval ==
    ASSUME NEW n \in Nat
    PROVE  IsFiniteSet(1 .. n) /\ Cardinality(1 .. n) = n
<1>1. 1 \in Int /\ n \in Int
  OBVIOUS
<1>2. IsFiniteSet(1 .. n) /\ Cardinality(1 .. n) = IF 1 > n THEN 0 ELSE n - 1 + 1
  BY <1>1, FS_Interval
<1> QED  BY <1>2

\* the members of D that come before i in the order R
Below(D, R, i) == {j \in D : <<j, i>> \in R}

StrictOrder(D, R) ==
    /\ \A i \in D : <<i, i>> \notin R
    /\ \A i, j \in D : i # j => <<i, j>> \in R \/ <<j, i>> \in R
    /\ \A i, j, k \in D : <<i, j>> \in R /\ <<j, k>> \in R => <<i, k>> \in R

\* In a strict order of a finite set each position is taken.
LEMMA Positions ==
    ASSUME NEW D, IsFiniteSet(D), NEW R, StrictOrder(D, R)
    PROVE  \A p \in 1 .. Cardinality(D) : \E i \in D : 1 + Cardinality(Below(D, R, i)) = p
<1> DEFINE n == Cardinality(D)
           I == 1 .. n
           f == [i \in D |-> 1 + Cardinality(Below(D, R, i))]
<1>1. n \in Nat
  BY FS_CardinalityType
<1>2. ASSUME NEW i \in D
      PROVE  /\ IsFiniteSet(Below(D, R, i)) /\ Cardinality(Below(D, R, i)) \in Nat
             /\ Cardinality(Below(D, R, i)) < n
  <2> DEFINE B == Below(D, R, i)
  <2>1. B \in SUBSET D /\ B # D
    BY DEF Below, StrictOrder
  <2> HIDE DEF B
  <2>2. IsFiniteSet(B) /\ Cardinality(B) <= n /\ (Cardinality(D) = Cardinality(B) => D = B)
    BY <2>1, FS_Subset
  <2>3. Cardinality(B) \in Nat
    BY <2>2, FS_CardinalityType
  <2> QED  BY <1>1, <2>1, <2>2, <2>3 DEF B
<1>3. f \in [D -> I]
  <2>1. \A i \in D : 1 + Cardinality(Below(D, R, i)) \in I
    BY <1>1, <1>2
  <2> HIDE DEF I
  <2> QED  BY <2>1
<1>4. ASSUME NEW i \in D, NEW j \in D, <<i, j>> \in R
      PROVE  Cardinality(Below(D, R, i)) < Cardinality(Below(D, R, j))
  <2> DEFINE A == Below(D, R, i)
             B == Below(D, R, j)
  <2>1. A \in SUBSET B /\ i \in B /\ i \notin A
    BY <1>4 DEF Below, StrictOrder
  <2>2. IsFiniteSet(B) /\ Cardinality(A) \in Nat /\ Cardinality(B) \in Nat
    BY <1>2
  <2> HIDE DEF A, B
  <2>3. Cardinality(A) <= Cardinality(B) /\ (Cardinality(B) = Cardinality(A) => B = A)
    BY <2>1, <2>2, FS_Subset
  <2>4. Cardinality(A) < Cardinality(B)
    BY <2>1, <2>2, <2>3
  <2> QED  BY <2>4 DEF A, B
<1>5. IsInjective(f)
  <2> SUFFICES ASSUME NEW i \in D, NEW j \in D, i # j PROVE f[i] # f[j]
    BY DEF IsInjective
  <2>1. <<i, j>> \in R \/ <<j, i>> \in R
    BY DEF StrictOrder
  <2>2. Cardinality(Below(D, R, i)) # Cardinality(Below(D, R, j))
    BY <1>2, <1>4, <2>1
  <2> QED  BY <1>2, <2>2
<1>6. IsFiniteSet(I) /\ Cardinality(I) = n
  BY <1>1, Interval
<1> HIDE DEF f, I
<1>7. f \in Injection(D, I)
  BY <1>3, <1>5 DEF Injection
<1>8. f \in Surjection(D, I)
  BY <1>6, <1>7, FS_Injection
<1> QED  BY <1>8 DEF Surjection, f, I

-----------------------------------------------------------------------------
(* The sorted statuses of a pod, and the id they give a container.         *)

\* Sorting the statuses only reorders them.
LEMMA SortedIsPermutation ==
    ASSUME NEW pod, StatusesFit(pod)
    PROVE  /\ Len(pod.Statuses) \in Nat
           /\ SortedStatuses(pod) = [p \in 1 .. Len(pod.Statuses) |-> SortedStatuses(pod)[p]]
           /\ ToSet(SortedStatuses(pod)) = ToSet(pod.Statuses)
<1> DEFINE s == pod.Statuses
           n == Len(s)
           D == 1 .. n
           R == {x \in D \X D : Precedes(s, x[1], x[2])}
           Position(i) == 1 + Cardinality({j \in D : Precedes(s, j, i)})
           At(p) == CHOOSE i \in D : Position(i) = p
<1>1. n \in Nat /\ DOMAIN s = D
  BY DEF StatusesFit
<1>2. \A i \in D : s[i].Age \in Nat
  BY <1>1 DEF StatusesFit, ToSet
<1>3. SortedStatuses(pod) = [p \in D |-> s[At(p)]]
  BY <1>1 DEF SortedStatuses
<1>4. IsFiniteSet(D) /\ Cardinality(D) = n
  BY <1>1, Interval
<1>5. StrictOrder(D, R)
  <2>1. \A i, j : <<i, j>> \in R <=> i \in D /\ j \in D /\ Precedes(s, i, j)
    OBVIOUS
  <2>2. \A i \in D : i \in Int
    BY <1>1
  <2> DEFINE On(i) == s[i].State = "running"
             Less(i, j) == On(i) /\ (On(j) => s[i].Age < s[j].Age)
  <2>3. \A i, j : Precedes(s, i, j) <=> Less(i, j) \/ (~Less(j, i) /\ i < j)
    BY DEF Precedes
  <2>4. /\ \A i \in D : ~Less(i, i)
        /\ \A i, j \in D : Less(i, j) => ~Less(j, i)
        /\ \A i, j, k \in D : Less(i, j) /\ Less(j, k) => Less(i, k)
        /\ \A i, j, k \in D : Less(i, k) => Less(i, j) \/ Less(j, k)
    BY <1>2
  <2> HIDE DEF Less, R, D, s
  <2>5. \A i \in D : ~Precedes(s, i, i)
    BY <2>2, <2>3, <2>4
  <2>6. \A i, j \in D : i # j => Precedes(s, i, j) \/ Precedes(s, j, i)
    BY <2>2, <2>3
  <2>7. \A i, j, k \in D : Precedes(s, i, j) /\ Precedes(s, j, k) => Precedes(s, i, k)
    BY <2>2, <2>3, <2>4
  <2> QED  BY <2>1, <2>5, <2>6, <2>7 DEF StrictOrder
<1>6. \A i \in D : Position(i) = 1 + Cardinality(Below(D, R, i))
  <2> TAKE i \in D
  <2>1. Below(D, R, i) = {j \in D : Precedes(s, j, i)}
    BY DEF Below
  <2> QED  BY <2>1
<1> HIDE DEF R
<1>7. \A p \in D : \E i \in D : Position(i) = p
  <2>1. \A p \in 1 .. Cardinality(D) : \E i \in D : 1 + Cardinality(Below(D, R, i)) = p
    <3> HIDE DEF D
    <3> QED  BY <1>4, <1>5, Positions
  <2> HIDE DEF Position
  <2> QED  BY <1>4, <1>6, <2>1
<1>8. \A i \in D : Position(i) \in D
  <2> SUFFICES ASSUME NEW i \in D PROVE Position(i) \in D
    OBVIOUS
  <2> DEFINE B == {j \in D : Precedes(s, j, i)}
  <2>1. B \in SUBSET D /\ B # D
    <3>1. ~Precedes(s, i, i)
      BY <1>1, <1>2 DEF Precedes
    <3> QED  BY <3>1
  <2> HIDE DEF B, D
  <2>2. IsFiniteSet(B) /\ Cardinality(B) <= n /\ (Cardinality(D) = Cardinality(B) => D = B)
    BY <1>4, <2>1, FS_Subset
  <2>3. Cardinality(B) \in Nat
    BY <2>2, FS_CardinalityType
  <2>4. 1 + Cardinality(B) \in 1 .. n
    BY <1>1, <1>4, <2>1, <2>2, <2>3
  <2> QED  BY <2>4 DEF B, D
<1> HIDE DEF Position
<1>9. \A p \in D : At(p) \in D /\ Position(At(p)) = p
  BY <1>7
<1> DEFINE at == [p \in D |-> At(p)]
<1>10. at \in Injection(D, D)
  <2> HIDE DEF At, D
  <2>1. at \in [D -> D]
    BY <1>9
  <2>2. \A p \in D : Position(at[p]) = p
    BY <1>9
  <2>3. IsInjective(at)
    BY <2>2 DEF IsInjective
  <2> QED  BY <2>1, <2>3 DEF Injection
<1> HIDE DEF at
<1>11. at \in Surjection(D, D)
  <2> HIDE DEF D
  <2> QED  BY <1>4, <1>10, FS_Injection
<1>12. \A i \in D : \E p \in D : At(p) = i
  <2> HIDE DEF D, At
  <2> QED  BY <1>11 DEF Surjection, at
<1> HIDE DEF At
<1>13. ToSet(SortedStatuses(pod)) = {s[At(p)] : p \in D}
  <2> DEFINE t == [p \in D |-> s[At(p)]]
  <2>1. ToSet(t) = {s[At(p)] : p \in D}
    <3> HIDE DEF D, s
    <3> QED  BY DEF ToSet
  <2> HIDE DEF t
  <2>2. SortedStatuses(pod) = t
    BY <1>3 DEF t
  <2> QED  BY <2>1, <2>2
<1>14. ToSet(s) = {s[i] : i \in D}
  BY <1>1 DEF ToSet
<1>15. {s[At(p)] : p \in D} = {s[i] : i \in D}
  <2> HIDE DEF D, s
  <2> QED  BY <1>9, <1>12
<1>16. SortedStatuses(pod) = [p \in D |-> SortedStatuses(pod)[p]]
  <2> HIDE DEF D, s
  <2> QED  BY <1>3
<1> QED  BY <1>1, <1>13, <1>14, <1>15, <1>16

\* A set of numbers that is not empty has a least element.
LEMMA LeastNumber ==
    ASSUME NEW S \in SUBSET Nat, S # {}
    PROVE  \E n \in S : \A m \in S : n <= m
<1> DEFINE R == OpToRel(<, Nat)
<1>1. IsWellFoundedOn(R, Nat)
  BY NatLessThanWellFounded
<1>2. \A x, y \in Nat : x < y => <<x, y>> \in R
  BY DEF OpToRel
<1> HIDE DEF R
<1>3. PICK n \in S : \A m \in S : ~(<<m, n>> \in R)
  BY <1>1, WFMin
<1>4. \A m \in S : m \in Nat /\ n \in Nat /\ ~(m < n)
  BY <1>2, <1>3
<1>5. \A m \in S : n <= m
  BY <1>4
<1> QED  BY <1>5

\* Of the indexes of a list, those that are looked for have a first and a last.
LEMMA FirstAndLast ==
    ASSUME NEW n \in Nat, NEW I \in SUBSET (1 .. n), I # {}
    PROVE  /\ Min(I) \in I /\ \A i \in I : Min(I) <= i
           /\ Max(I) \in I /\ \A i \in I : i <= Max(I)
<1>1. \A i \in I : i \in Nat /\ n - i \in Nat
  OBVIOUS
<1>2. \E x \in I : \A y \in I : x =< y
  BY <1>1, LeastNumber
<1> DEFINE U == {n - i : i \in I}
<1>3. U \in SUBSET Nat /\ U # {}
  BY <1>1
<1>4. \E x \in I : \A y \in I : x >= y
  <2> HIDE DEF U
  <2>1. PICK u \in U : \A v \in U : u <= v
    BY <1>3, LeastNumber
  <2>2. PICK x \in I : u = n - x
    BY DEF U
  <2>3. \A y \in I : n - x <= n - y
    BY <2>1, <2>2 DEF U
  <2> QED  BY <1>1, <2>3
<1>5. Min(I) \in I /\ \A i \in I : Min(I) =< i
  BY <1>2 DEF Min
<1>6. Max(I) \in I /\ \A i \in I : Max(I) >= i
  BY <1>4 DEF Max
<1> QED  BY <1>1, <1>5, <1>6

\* the statuses of a container of a pod, and the running ones among them
Mine(pod, name) == {s \in ToSet(pod.Statuses) : s.Name = name}

Live(pod, name) == {s \in Mine(pod, name) : s.State = "running"}

\* The id of a container is that of one of its statuses, of a running one if
\* any is, and empty if it has none.
LEMMA IdOfContainer ==
    ASSUME NEW pod, StatusesFit(pod), NEW name
    PROVE  IF Mine(pod, name) = {} THEN getContainerNameToID(pod, name) = ""
           ELSE \E s \in IF Live(pod, name) = {} THEN Mine(pod, name) ELSE Live(pod, name) :
                   getContainerNameToID(pod, name) = normalizeContainerID(s.ContainerID)
<1> DEFINE sorted == SortedStatuses(pod)
           n == Len(pod.Statuses)
           I == {i \in 1 .. n : sorted[i].Name = name}
           J == {i \in 1 .. n : sorted[i].Name = name /\ sorted[i].State = "running"}
           Id(s) == normalizeContainerID(s.ContainerID)
<1>1. n \in Nat /\ sorted = [p \in 1 .. n |-> sorted[p]] /\ ToSet(sorted) = ToSet(pod.Statuses)
  BY SortedIsPermutation
<1>2. Len(sorted) = n /\ DOMAIN sorted = 1 .. n
  <2> HIDE DEF sorted, n
  <2> QED  BY <1>1
<1>3. SelectInSeq(sorted, LAMBDA s : s.Name = name) = IF I # {} THEN Min(I) ELSE 0
  <2> HIDE DEF sorted, n
  <2> QED  BY <1>2, Zenon DEF SelectInSeq
<1>4. SelectLastInSeq(sorted, LAMBDA s : s.Name = name /\ s.State = "running") = IF J # {} THEN Max(J) ELSE 0
  <2> HIDE DEF sorted, n
  <2> QED  BY <1>2, Zenon DEF SelectLastInSeq
<1>5. getContainerNameToID(pod, name) =
        LET first == IF I # {} THEN Min(I) ELSE 0
            live  == IF J # {} THEN Max(J) ELSE 0
        IN  IF first = 0 THEN "" ELSE Id(sorted[IF live = 0 THEN first ELSE live])
  <2> HIDE DEF I, J
  <2> QED  BY <1>3, <1>4, Zenon DEF getContainerNameToID
<1>6. \A s : s \in ToSet(pod.Statuses) <=> \E i \in 1 .. n : s = sorted[i]
  <2> HIDE DEF sorted, n
  <2> QED  BY <1>1, <1>2 DEF ToSet
<1>7. /\ Mine(pod, name) = {sorted[i] : i \in I}
      /\ Live(pod, name) = {sorted[i] : i \in J}
  <2> HIDE DEF sorted, n
  <2> QED  BY <1>6 DEF Mine, Live
<1> HIDE DEF sorted
<1>8. I \in SUBSET (1 .. n) /\ J \in SUBSET (1 .. n) /\ J \subseteq I
  OBVIOUS
<1> HIDE DEF I, J, n, Id
<1>9. I # {} => Min(I) \in I /\ Min(I) # 0
  <2>1. I # {} => Min(I) \in I
    BY <1>1, <1>8, FirstAndLast
  <2> QED  BY <1>1, <1>8, <2>1
<1>10. J # {} => Max(J) \in J /\ Max(J) # 0
  <2>1. J # {} => Max(J) \in J
    BY <1>1, <1>8, FirstAndLast
  <2> QED  BY <1>1, <1>8, <2>1
<1>11. CASE I = {}
  BY <1>5, <1>7, <1>11
<1>12. CASE I # {} /\ J = {}
  <2>1. getContainerNameToID(pod, name) = Id(sorted[Min(I)])
    BY <1>5, <1>9, <1>12
  <2> QED  BY <1>7, <1>9, <1>12, <2>1 DEF Id
<1>13. CASE J # {}
  <2>1. getContainerNameToID(pod, name) = Id(sorted[Max(J)])
    BY <1>5, <1>8, <1>9, <1>10, <1>13
  <2> QED  BY <1>7, <1>8, <1>10, <1>13, <2>1 DEF Id
<1> QED  BY <1>11, <1>12, <1>13

-----------------------------------------------------------------------------
(* The samples of a container are its own.                                 *)

\* what is in memory for a response keeps the attribution of what was pushed
Kept(r, pushed) ==
    /\ {"Containers", "CGroups"} \subseteq DOMAIN r
    /\ r.CGroups = pushed.CGroups
    /\ DOMAIN r.Containers = DOMAIN pushed.Containers
    /\ \A i \in DOMAIN pushed.Containers :
          /\ KeyFields \subseteq DOMAIN r.Containers[i]
          /\ ContainerKey(r.Containers[i]) = ContainerKey(pushed.Containers[i])

HeapInv ==
    /\ received \in Seq(Responses)
    /\ heap \in Seq(ToSet(heap)) /\ Len(heap) = Len(received)
    /\ \A h \in DOMAIN received : Kept(heap[h], received[h])

\* a cache: each node has a response it has pushed itself
Cached(f) ==
    /\ IsFiniteSet(DOMAIN f)
    /\ \A n \in DOMAIN f : f[n] \in DOMAIN received /\ received[f[n]].Node = n

PushedKey(h, i) == ContainerKey(received[h].Containers[i])

PushedKeys == UNION {{PushedKey(h, i) : i \in DOMAIN received[h].Containers} : h \in Range(o.Utilization)}

IdKeys(pod, S) == {<<"id", PodUID(pod), normalizeContainerID(s.ContainerID)>> : s \in S}

OwnKeys(pod, name) ==
    {<<"name", pod.Namespace, pod.Name, name>>}
        \cup IdKeys(pod, IF Live(pod, name) = {} THEN Mine(pod, name) ELSE Live(pod, name))

\* the samples e found for the container name of a pod, by what was pushed
OwnSamples(pod, name, e) ==
    IF e = Nil THEN Cardinality(Live(pod, name)) = 1 => IdKeys(pod, Live(pod, name)) \cap PushedKeys = {}
    ELSE /\ e[1] \in Range(o.Utilization) /\ e[2] \in DOMAIN received[e[1]].Containers
         /\ PushedKey(e[1], e[2]) \in OwnKeys(pod, name)

OwnInv ==
    phase = "collecting" /\ "collect_containers" \in done =>
        \A c \in Containers : OwnSamples(PodOf(c), ContainerOf(c).Name, usageOf[c])

CInv ==
    /\ HeapInv
    /\ Cached(responses) /\ Cached(o.Utilization)
    /\ cluster \in Clusters
    /\ \A pod \in ToSet(o.Pods) : StatusesFit(pod)
    /\ OwnInv

\* An order of a finite set has every member of it.
LEMMA OrderIsComplete ==
    ASSUME NEW S, IsFiniteSet(S), NEW order \in SetToSeqs(S)
    PROVE  /\ Cardinality(S) \in Nat /\ order \in [1 .. Cardinality(S) -> S]
           /\ \A x \in S : \E i \in 1 .. Cardinality(S) : order[i] = x
<1> DEFINE n == Cardinality(S)
           D == 1 .. n
<1>1. n \in Nat
  BY FS_CardinalityType
<1>2. IsFiniteSet(D) /\ Cardinality(D) = n
  BY <1>1, Interval
<1>3. order \in [D -> S] /\ \A i, j \in D : i # j => order[i] # order[j]
  BY DEF SetToSeqs
<1> HIDE DEF D
<1>4. order \in Injection(D, S)
  BY <1>3 DEF Injection, IsInjective
<1>5. order \in Surjection(D, S)
  BY <1>2, <1>4, FS_Injection
<1>6. \A x \in S : \E i \in D : order[i] = x
  BY <1>5 DEF Surjection
<1> QED  BY <1>1, <1>3, <1>6 DEF D

\* Restricting the samples has left their keys as they were pushed.
LEMMA KeysKept ==
    ASSUME HeapInv, Cached(o.Utilization)
    PROVE  /\ {ContainerKey(s) : s \in Samples} = PushedKeys
           /\ \A h \in Range(o.Utilization) :
                 /\ h \in DOMAIN received
                 /\ DOMAIN heap[h].Containers = DOMAIN received[h].Containers
                 /\ \A i \in DOMAIN received[h].Containers :
                       ContainerKey(heap[h].Containers[i]) = PushedKey(h, i)
<1>1. \A h \in Range(o.Utilization) : h \in DOMAIN received
  BY DEF Cached, Range
<1>2. \A h \in Range(o.Utilization) :
         /\ DOMAIN heap[h].Containers = DOMAIN received[h].Containers
         /\ \A i \in DOMAIN received[h].Containers : ContainerKey(heap[h].Containers[i]) = PushedKey(h, i)
  BY <1>1 DEF HeapInv, Kept, PushedKey
<1>3. \A s : s \in Samples <=> \E h \in Range(o.Utilization) :
                                   \E i \in DOMAIN heap[h].Containers : s = heap[h].Containers[i]
  BY DEF Samples, ToSet
<1>4. \A k : k \in PushedKeys <=> \E h \in Range(o.Utilization) :
                                   \E i \in DOMAIN received[h].Containers : k = PushedKey(h, i)
  BY DEF PushedKeys
<1>5. \A k : k \in {ContainerKey(s) : s \in Samples} <=> k \in PushedKeys
  BY <1>2, <1>3, <1>4
<1> QED  BY <1>1, <1>2, <1>5

\* the samples a summary has under a key were pushed with that key
SummaryFits(summary) ==
    /\ DOMAIN summary = PushedKeys \ {Nil}
    /\ \A k \in PushedKeys \ {Nil} :
          \E h \in Range(o.Utilization) : \E i \in DOMAIN received[h].Containers :
              summary[k] = <<h, i>> /\ PushedKey(h, i) = k

\* What the summary has under a key was pushed with that key, and it has
\* every key but the one of samples that cannot be attributed.
LEMMA SummaryOfKeys ==
    ASSUME HeapInv, Cached(o.Utilization), NEW order \in SetToSeqs(DOMAIN o.Utilization)
    PROVE  SummaryFits(GetContainerUsageSummary(order))
<1> DEFINE U == o.Utilization
           m == Cardinality(DOMAIN U)
           Having(n, k) == {i \in DOMAIN heap[U[n]].Containers : ContainerKey(Entry(<<U[n], i>>)) = k}
           J(k) == {j \in 1 .. m : Having(order[j], k) # {}}
           Node(k) == order[SelectLastInSeq(order, LAMBDA n : Having(n, k) # {})]
           summary == GetContainerUsageSummary(order)
<1>1. /\ m \in Nat /\ order \in [1 .. m -> DOMAIN U]
      /\ \A x \in DOMAIN U : \E i \in 1 .. m : order[i] = x
  BY OrderIsComplete DEF Cached
<1>2. Len(order) = m
  <2> HIDE DEF m
  <2> QED  BY <1>1
<1>3. summary = [k \in {ContainerKey(s) : s \in Samples} \ {Nil} |-> <<U[Node(k)], Max(Having(Node(k), k))>>]
  BY Zenon DEF GetContainerUsageSummary
<1>4. summary = [k \in PushedKeys \ {Nil} |-> <<U[Node(k)], Max(Having(Node(k), k))>>]
  BY <1>3, KeysKept
<1>5. \A n, k : Having(n, k) = {i \in DOMAIN heap[U[n]].Containers : ContainerKey(heap[U[n]].Containers[i]) = k}
  BY DEF Entry
<1>6. \A n \in DOMAIN U : U[n] \in Range(U)
  BY DEF Range
<1>7. \A n \in DOMAIN U : \A k : Having(n, k) = {i \in DOMAIN received[U[n]].Containers : PushedKey(U[n], i) = k}
  <2> TAKE n \in DOMAIN U
  <2> TAKE k
  <2>1. /\ DOMAIN heap[U[n]].Containers = DOMAIN received[U[n]].Containers
        /\ \A i \in DOMAIN received[U[n]].Containers :
              ContainerKey(heap[U[n]].Containers[i]) = PushedKey(U[n], i)
    BY <1>6, KeysKept
  <2> QED  BY <1>5, <2>1
<1>8. \A n \in DOMAIN U : \E l \in Nat : DOMAIN received[U[n]].Containers = 1 .. l
  <2> TAKE n \in DOMAIN U
  <2>1. U[n] \in DOMAIN received /\ received[U[n]] \in Responses
    BY DEF Cached, HeapInv
  <2>2. received[U[n]].Containers \in Seq(ToSet(received[U[n]].Containers))
    BY <2>1, FieldsAssumption
  <2> QED  BY <2>2
<1> HIDE DEF Having
<1> SUFFICES ASSUME NEW k \in PushedKeys \ {Nil}
             PROVE  \E h \in Range(U) : \E i \in DOMAIN received[h].Containers :
                       summary[k] = <<h, i>> /\ PushedKey(h, i) = k
  <2> HIDE DEF summary, Node
  <2>1. DOMAIN summary = PushedKeys \ {Nil}
    BY <1>4
  <2>2. SummaryFits(summary)
    BY <2>1 DEF SummaryFits
  <2> QED  BY <2>2 DEF summary
<1>9. SelectLastInSeq(order, LAMBDA n : Having(n, k) # {}) = IF J(k) # {} THEN Max(J(k)) ELSE 0
  <2> HIDE DEF m
  <2> QED  BY <1>2, Zenon DEF SelectLastInSeq
<1>10. PICK n \in DOMAIN U : \E i \in DOMAIN received[U[n]].Containers : PushedKey(U[n], i) = k
  BY DEF PushedKeys, Range
<1>11. Having(n, k) # {}
  BY <1>7, <1>10
<1>12. J(k) \in SUBSET (1 .. m) /\ J(k) # {}
  <2> HIDE DEF m
  <2> QED  BY <1>1, <1>11
<1>13. \A j \in J(k) : Having(order[j], k) # {} /\ order[j] \in DOMAIN U
  <2> HIDE DEF m
  <2> QED  BY <1>1
<1> HIDE DEF J, m
<1>14. Max(J(k)) \in J(k)
  BY <1>1, <1>12, FirstAndLast
<1>15. Node(k) = order[Max(J(k))]
  BY <1>9, <1>12
<1> HIDE DEF Node
<1>16. Node(k) \in DOMAIN U /\ Having(Node(k), k) # {}
  BY <1>13, <1>14, <1>15
<1>17. Max(Having(Node(k), k)) \in Having(Node(k), k)
  <2>1. PICK l \in Nat : DOMAIN received[U[Node(k)]].Containers = 1 .. l
    BY <1>8, <1>16
  <2>2. Having(Node(k), k) \in SUBSET (1 .. l)
    BY <1>7, <1>16, <2>1
  <2> QED  BY <1>16, <2>2, FirstAndLast
<1>18. summary[k] = <<U[Node(k)], Max(Having(Node(k), k))>>
  <2> HIDE DEF summary
  <2> QED  BY <1>4
<1>19. /\ Max(Having(Node(k), k)) \in DOMAIN received[U[Node(k)]].Containers
       /\ PushedKey(U[Node(k)], Max(Having(Node(k), k))) = k
  BY <1>7, <1>16, <1>17
<1> HIDE DEF summary
<1> QED  BY <1>6, <1>16, <1>18, <1>19

\* A Go nil is neither the place of samples nor the key of a container.
NilIsNoTuple == \A a, b, c : Nil # <<a, b>> /\ Nil # <<a, b, c>>

\* A pod has finitely many statuses.
LEMMA FiniteStatuses ==
    ASSUME NEW pod, StatusesFit(pod)
    PROVE  IsFiniteSet(ToSet(pod.Statuses))
<1> DEFINE s == pod.Statuses
           D == 1 .. Len(s)
<1>1. s \in [D -> ToSet(s)] /\ Len(s) \in Nat
  BY DEF StatusesFit
<1>2. \A x \in ToSet(s) : \E i \in D : s[i] = x
  BY <1>1 DEF ToSet
<1>3. IsFiniteSet(D)
  BY <1>1, Interval
<1> HIDE DEF s, D
<1>4. s \in Surjection(D, ToSet(s))
  BY <1>1, <1>2 DEF Surjection
<1>5. IsFiniteSet(ToSet(s))
  BY <1>3, <1>4, FS_Surjection
<1> QED  BY <1>5 DEF s

\* The id in the key of samples is never empty.
LEMMA KeyHasId ==
    ASSUME NEW c, NEW uid, NEW id, NilIsNoTuple, ContainerKey(c) = <<"id", uid, id>>
    PROVE  id # ""
<1>1. CASE "" \notin {c.PodName, c.ContainerName, c.NamespaceName}
  <2>1. ContainerKey(c) = <<"name", c.NamespaceName, c.PodName, c.ContainerName>>
    BY <1>1 DEF ContainerKey
  <2>2. ContainerKey(c)[1] = "name"
    BY <2>1
  <2>3. <<"id", uid, id>>[1] = "id"
    OBVIOUS
  <2> QED  BY <2>2, <2>3
<1>2. CASE "" \in {c.PodName, c.ContainerName, c.NamespaceName}
  <2>1. ContainerKey(c) = IF "" \in {c.PodUID, c.ContainerID} THEN Nil ELSE <<"id", c.PodUID, c.ContainerID>>
    BY <1>2 DEF ContainerKey
  <2>2. Nil # <<"id", uid, id>>
    BY DEF NilIsNoTuple
  <2>3. "" \notin {c.PodUID, c.ContainerID} /\ <<"id", c.PodUID, c.ContainerID>> = <<"id", uid, id>>
    BY <2>1, <2>2
  <2> QED  BY <2>3
<1> QED  BY <1>1, <1>2

\* The samples a container finds are its own, and it overlooks none.
LEMMA FoundIsOwn ==
    ASSUME NilIsNoTuple, NEW summary, SummaryFits(summary),
           NEW pod, StatusesFit(pod), NEW container
    PROVE  OwnSamples(pod, container.Name, UsageFor(summary, pod, container))
<1> DEFINE name   == container.Name
           mine   == Mine(pod, name)
           live   == Live(pod, name)
           id     == getContainerNameToID(pod, name)
           byName == <<"name", pod.Namespace, pod.Name, name>>
           byId   == <<"id", PodUID(pod), id>>
           e      == UsageFor(summary, pod, container)
<1> SUFFICES OwnSamples(pod, name, e)
  OBVIOUS
<1>1. /\ mine = {} => id = ""
      /\ live # {} => \E s \in live : id = normalizeContainerID(s.ContainerID)
      /\ mine # {} /\ live = {} => \E s \in mine : id = normalizeContainerID(s.ContainerID)
      /\ live \subseteq mine
  <2>1. live \subseteq mine
    BY DEF Live
  <2> QED  BY <2>1, IdOfContainer
<1>2. e = IF byName \in DOMAIN summary THEN summary[byName]
          ELSE IF byId \in DOMAIN summary THEN summary[byId] ELSE Nil
  BY DEF UsageFor
<1>3. ASSUME NEW k \in DOMAIN summary, e = summary[k], k \in OwnKeys(pod, name)
      PROVE  OwnSamples(pod, name, e)
  <2>1. PICK h \in Range(o.Utilization) : \E i \in DOMAIN received[h].Containers :
            summary[k] = <<h, i>> /\ PushedKey(h, i) = k
    BY DEF SummaryFits
  <2>2. PICK i \in DOMAIN received[h].Containers : e = <<h, i>> /\ PushedKey(h, i) = k
    BY <1>3, <2>1
  <2>3. e # Nil
    BY <2>2 DEF NilIsNoTuple
  <2>4. e[1] = h /\ e[2] = i
    BY <2>2
  <2> HIDE DEF e, name
  <2> QED  BY <1>3, <2>2, <2>3, <2>4 DEF OwnSamples
<1>4. CASE byName \in DOMAIN summary
  <2>1. byName \in OwnKeys(pod, name)
    BY DEF OwnKeys
  <2> HIDE DEF e, byName, name
  <2> QED  BY <1>2, <1>3, <1>4, <2>1
<1>5. CASE byName \notin DOMAIN summary /\ byId \in DOMAIN summary
  <2>1. id # ""
    <3>1. byId \in PushedKeys
      BY <1>5 DEF SummaryFits
    <3>2. \E h \in Range(o.Utilization) : \E i \in DOMAIN received[h].Containers : PushedKey(h, i) = byId
      BY <3>1 DEF PushedKeys
    <3>3. PICK c : ContainerKey(c) = byId
      BY <3>2 DEF PushedKey
    <3> HIDE DEF id
    <3> QED  BY <3>3, KeyHasId
  <2>2. byId \in IdKeys(pod, IF live = {} THEN mine ELSE live)
    <3> HIDE DEF id, mine, live
    <3>1. \E s \in IF live = {} THEN mine ELSE live : id = normalizeContainerID(s.ContainerID)
      BY <1>1, <2>1
    <3> QED  BY <3>1 DEF IdKeys
  <2>3. byId \in OwnKeys(pod, name)
    BY <2>2 DEF OwnKeys
  <2> HIDE DEF e, byName, byId, name
  <2> QED  BY <1>2, <1>3, <1>5, <2>3
<1>6. CASE byName \notin DOMAIN summary /\ byId \notin DOMAIN summary
  <2>1. e = Nil
    <3> HIDE DEF e, byName, byId, name
    <3> QED  BY <1>2, <1>6
  <2>2. byId \notin PushedKeys
    <3>1. byId # Nil
      BY DEF NilIsNoTuple
    <3> HIDE DEF byId, id, byName
    <3> QED  BY <1>6, <3>1 DEF SummaryFits
  <2>3. ASSUME Cardinality(live) = 1 PROVE IdKeys(pod, live) = {byId}
    <3>1. IsFiniteSet(live)
      <4>1. live \in SUBSET ToSet(pod.Statuses)
        BY DEF Live, Mine
      <4> HIDE DEF live
      <4> QED  BY <4>1, FiniteStatuses, FS_Subset
    <3> HIDE DEF live, id
    <3>2. PICK x : live = {x}
      BY <2>3, <3>1, FS_Singleton
    <3>3. id = normalizeContainerID(x.ContainerID)
      BY <1>1, <3>2
    <3> QED  BY <3>2, <3>3 DEF IdKeys
  <2> HIDE DEF e, byId, live
  <2>4. Cardinality(live) = 1 => IdKeys(pod, live) \cap PushedKeys = {}
    BY <2>2, <2>3
  <2> QED  BY <2>1, <2>4 DEF OwnSamples, live
<1> QED  BY <1>4, <1>5, <1>6

\* A list is a list of its members.
LEMMA ListOfMembers ==
    ASSUME NEW S, NEW s \in Seq(S)
    PROVE  s \in Seq(ToSet(s))
<1>1. s \in [1 .. Len(s) -> ToSet(s)] /\ Len(s) \in Nat
  BY DEF ToSet
<1> QED  BY <1>1

\* CInv holds at first, and each action preserves it.
LEMMA InitCInv == ASSUME Init PROVE CInv
<1>1. HeapInv
  BY DEF Init, HeapInv
<1>2. Cached(Empty)
  BY FS_EmptySet DEF Empty, Cached
<1>3. o.Utilization = Empty /\ o.Pods = <<>> /\ responses = Empty /\ done = {} /\ cluster \in Clusters
  BY DEF Init, NoObjects
<1>4. OwnInv
  BY <1>3 DEF OwnInv
<1>5. \A pod \in ToSet(o.Pods) : StatusesFit(pod)
  BY <1>3 DEF ToSet
<1> QED  BY <1>1, <1>2, <1>3, <1>4, <1>5 DEF CInv

\* A step that leaves the responses, the objects and what the containers have
\* found alone.
LEMMA Quiet ==
    ASSUME CInv, UNCHANGED <<cluster, received, heap, responses, o, usageOf>>,
           phase' = "collecting" /\ "collect_containers" \in done' =>
               phase = "collecting" /\ "collect_containers" \in done
    PROVE  CInv'
<1>1. HeapInv'
  BY DEF CInv, HeapInv
<1>2. Cached(responses)' /\ Cached(o.Utilization)'
  BY DEF CInv, Cached
<1>3. (cluster \in Clusters)' /\ (\A pod \in ToSet(o.Pods) : StatusesFit(pod))'
  BY DEF CInv
<1>4. PushedKeys' = PushedKeys /\ Containers' = Containers
  BY DEF PushedKeys, PushedKey, Containers
<1>5. \A h, i : PushedKey(h, i)' = PushedKey(h, i)
  BY DEF PushedKey
<1>6. \A c : PodOf(c)' = PodOf(c) /\ ContainerOf(c)' = ContainerOf(c)
  BY DEF PodOf, ContainerOf
<1>7. \A pod, name, e : OwnSamples(pod, name, e)' <=> OwnSamples(pod, name, e)
  BY <1>4, <1>5 DEF OwnSamples
<1>8. OwnInv'
  BY <1>4, <1>6, <1>7 DEF CInv, OwnInv
<1> QED  BY <1>1, <1>2, <1>3, <1>8 DEF CInv

\* What the containers have found does not depend on what is pushed later.
LEMMA MorePushed ==
    ASSUME CInv, UNCHANGED <<phase, done, o, usageOf>>,
           DOMAIN received \subseteq DOMAIN received',
           \A h \in DOMAIN received : received'[h] = received[h]
    PROVE  OwnInv' /\ Cached(o.Utilization)'
<1>1. \A h \in Range(o.Utilization) : h \in DOMAIN received
  BY DEF CInv, Cached, Range
<1>2. \A h \in Range(o.Utilization) : received'[h] = received[h]
  BY <1>1
<1>3. \A h \in Range(o.Utilization) : \A i : PushedKey(h, i)' = PushedKey(h, i)
  BY <1>2 DEF PushedKey
<1>4. Containers' = Containers /\ \A c : PodOf(c)' = PodOf(c) /\ ContainerOf(c)' = ContainerOf(c)
  BY DEF Containers, PodOf, ContainerOf
<1>5. Range(o.Utilization)' = Range(o.Utilization)
  OBVIOUS
<1>6. PushedKeys' = PushedKeys
  BY <1>2, <1>3, <1>5 DEF PushedKeys
<1>7. \A pod, name, e : OwnSamples(pod, name, e) => OwnSamples(pod, name, e)'
  BY <1>2, <1>3, <1>5, <1>6 DEF OwnSamples
<1>8. OwnInv'
  BY <1>4, <1>7 DEF CInv, OwnInv
<1>9. Cached(o.Utilization)'
  BY DEF CInv, Cached
<1> QED  BY <1>8, <1>9

\* A response pushed is in memory as it was pushed.
LEMMA PushCInv == ASSUME CInv, NEW r \in Responses, Push(r) PROVE CInv'
<1> DEFINE n == Len(received)
<1>1. /\ received \in Seq(Responses) /\ heap \in Seq(ToSet(heap)) /\ Len(heap) = n /\ n \in Nat
      /\ DOMAIN received = 1 .. n /\ DOMAIN heap = 1 .. n
  BY DEF CInv, HeapInv
<1>2. /\ received' = Append(received, r) /\ heap' = Append(heap, r)
      /\ responses' = Put(responses, r.Node, n + 1)
      /\ UNCHANGED <<cluster, phase, done, o, usageOf>>
  BY <1>1 DEF Push, scrape
<1>3. /\ received' \in Seq(Responses) /\ DOMAIN received' = 1 .. n + 1 /\ received'[n + 1] = r
      /\ Len(received') = n + 1 /\ \A h \in 1 .. n : received'[h] = received[h]
  BY <1>1, <1>2
<1>4. /\ heap' \in Seq(ToSet(heap) \cup {r}) /\ heap'[n + 1] = r
      /\ Len(heap') = n + 1 /\ \A h \in 1 .. n : heap'[h] = heap[h]
  <2> DEFINE T == ToSet(heap) \cup {r}
  <2>1. heap \in Seq(T) /\ r \in T
    BY <1>1
  <2> HIDE DEF T
  <2>2. heap' \in Seq(T)
    BY <1>2, <2>1
  <2> QED  BY <1>1, <1>2, <2>1, <2>2 DEF T
<1>5. HeapInv'
  <2>1. heap' \in Seq(ToSet(heap'))
    BY <1>4, ListOfMembers
  <2>2. Kept(r, r)
    <3>1. \A i \in DOMAIN r.Containers : r.Containers[i] \in ToSet(r.Containers)
      BY DEF ToSet
    <3> QED  BY <3>1, FieldsAssumption DEF Kept
  <2>3. \A h \in 1 .. n : Kept(heap[h], received[h])
    BY <1>1 DEF CInv, HeapInv
  <2>4. \A h \in 1 .. n + 1 : Kept(heap'[h], received'[h])
    <3> TAKE h \in 1 .. n + 1
    <3>1. h \in 1 .. n \/ h = n + 1
      BY <1>1
    <3> QED  BY <1>3, <1>4, <2>2, <2>3, <3>1
  <2> QED  BY <1>3, <1>4, <2>1, <2>4 DEF HeapInv
<1>6. OwnInv' /\ Cached(o.Utilization)'
  <2>1. DOMAIN received \subseteq DOMAIN received' /\ \A h \in DOMAIN received : received'[h] = received[h]
    BY <1>1, <1>3
  <2> QED  BY <1>2, <2>1, MorePushed
<1>7. Cached(responses)'
  <2>1. DOMAIN responses' = DOMAIN responses \cup {r.Node}
    BY <1>2 DEF Put
  <2>2. IsFiniteSet(DOMAIN responses')
    BY <2>1, FS_AddElement DEF CInv, Cached
  <2>3. ASSUME NEW k \in DOMAIN responses'
        PROVE  responses'[k] \in DOMAIN received' /\ received'[responses'[k]].Node = k
    <3>1. CASE k = r.Node
      <4>1. responses'[k] = n + 1
        BY <1>2, <2>1, <3>1 DEF Put
      <4> QED  BY <1>1, <1>3, <3>1, <4>1
    <3>2. CASE k # r.Node
      <4>1. k \in DOMAIN responses /\ responses'[k] = responses[k]
        BY <1>2, <2>1, <3>2 DEF Put
      <4>2. responses[k] \in DOMAIN received /\ received[responses[k]].Node = k
        BY <4>1 DEF CInv, Cached
      <4> QED  BY <1>1, <1>3, <4>1, <4>2
    <3> QED  BY <3>1, <3>2
  <2> QED  BY <2>2, <2>3 DEF Cached
<1>8. (cluster \in Clusters)' /\ (\A pod \in ToSet(o.Pods) : StatusesFit(pod))'
  BY <1>2 DEF CInv
<1> QED  BY <1>5, <1>6, <1>7, <1>8 DEF CInv

\* A response that expires is still the one a scrape has taken.
LEMMA ClearCInv == ASSUME CInv, NEW n, ClearMetrics(n) PROVE CInv'
<1>1. /\ UNCHANGED <<cluster, received, heap, phase, done, o, usageOf>>
      /\ responses' = [m \in DOMAIN responses \ {n} |-> responses[m]]
  BY DEF ClearMetrics, scrape
<1>2. HeapInv'
  BY <1>1 DEF CInv, HeapInv
<1>3. OwnInv' /\ Cached(o.Utilization)'
  BY <1>1, MorePushed
<1>4. Cached(responses)'
  <2>1. IsFiniteSet(DOMAIN responses \ {n})
    BY FS_RemoveElement DEF CInv, Cached
  <2> QED  BY <1>1, <2>1 DEF CInv, Cached
<1>5. (cluster \in Clusters)' /\ (\A pod \in ToSet(o.Pods) : StatusesFit(pod))'
  BY <1>1 DEF CInv
<1> QED  BY <1>2, <1>3, <1>4, <1>5 DEF CInv

\* The cluster changes between scrapes only.
LEMMA ChangeCInv == ASSUME CInv, NEW c \in Clusters, ClusterChanges(c) PROVE CInv'
<1>1. cluster' = c /\ UNCHANGED <<received, heap, responses, phase, done, o, usageOf>>
  BY DEF ClusterChanges, scrape
<1>2. HeapInv'
  BY <1>1 DEF CInv, HeapInv
<1>3. OwnInv' /\ Cached(o.Utilization)'
  BY <1>1, MorePushed
<1>4. Cached(responses)'
  BY <1>1 DEF CInv, Cached
<1>5. (cluster \in Clusters)' /\ (\A pod \in ToSet(o.Pods) : StatusesFit(pod))'
  BY <1>1 DEF CInv
<1> QED  BY <1>2, <1>3, <1>4, <1>5 DEF CInv

\* A scrape that begins has found no samples yet.
LEMMA ListCInv ==
    ASSUME CInv, NEW bad, NEW late, NEW next \in Clusters, listCapacityObjects(bad, late, next)
    PROVE  CInv'
<1>1. /\ done' = {} /\ UNCHANGED <<received, heap, responses>>
      /\ cluster' \in Clusters
  BY DEF listCapacityObjects, CInv
<1> DEFINE List(f) == CHOOSE l \in DOMAIN FieldOf : FieldOf[l] = f
           Field(f) == IF f = "Utilization" THEN responses ELSE Listed(List(f), bad, late, next)
<1>2. o' = NoObjects \/ o' = [f \in DOMAIN NoObjects |-> Field(f)]
  <2> HIDE DEF List
  <2> QED  BY DEF listCapacityObjects, List
<1>3. {"Pods", "Utilization"} \subseteq DOMAIN NoObjects /\ NoObjects.Pods = <<>> /\ NoObjects.Utilization = Empty
  BY DEF NoObjects
<1>4. FieldOf[List("Pods")] = "Pods"
  BY DEF FieldOf
<1>5. o'.Utilization \in {Empty, responses}
  <2> HIDE DEF List
  <2> QED  BY <1>2, <1>3
<1>6. o'.Pods = <<>> \/ \E c \in Clusters : o'.Pods = c.Pods
  <2> HIDE DEF List
  <2>1. o'.Pods = NoObjects.Pods \/ o'.Pods = Listed(List("Pods"), bad, late, next)
    BY <1>2, <1>3
  <2>2. Listed(List("Pods"), bad, late, next) \in {NoObjects["Pods"], next["Pods"], cluster["Pods"]}
    BY <1>4 DEF Listed
  <2> QED  BY <1>3, <2>1, <2>2 DEF CInv
<1>7. HeapInv'
  BY <1>1 DEF CInv, HeapInv
<1>8. Cached(responses)' /\ Cached(o.Utilization)'
  <2>1. Cached(Empty)
    BY FS_EmptySet DEF Cached, Empty
  <2>2. Cached(responses)
    BY DEF CInv
  <2> QED  BY <1>1, <1>5, <2>1, <2>2 DEF Cached
<1>9. (\A pod \in ToSet(o.Pods) : StatusesFit(pod))'
  BY <1>6, FieldsAssumption DEF ToSet
<1>10. OwnInv'
  BY <1>1 DEF OwnInv
<1> QED  BY <1>1, <1>7, <1>8, <1>9, <1>10 DEF CInv

\* After a crash nothing is cached.
LEMMA RestartCInv == ASSUME CInv, Restart PROVE CInv'
<1>1. /\ responses' = Empty /\ o' = NoObjects /\ done' = {} /\ UNCHANGED <<cluster, received, heap>>
  BY DEF Restart
<1>2. HeapInv'
  BY <1>1 DEF CInv, HeapInv
<1>3. o'.Utilization = Empty /\ o'.Pods = <<>>
  BY <1>1 DEF NoObjects
<1>4. Cached(responses)' /\ Cached(o.Utilization)'
  BY <1>1, <1>3, FS_EmptySet DEF Cached, Empty
<1>5. OwnInv'
  BY <1>1 DEF OwnInv
<1>6. (\A pod \in ToSet(o.Pods) : StatusesFit(pod))'
  BY <1>3 DEF ToSet
<1> QED  BY <1>1, <1>2, <1>4, <1>5, <1>6 DEF CInv

\* Restricting samples keeps what they are attributed by.
LEMMA RestrictedKeepsKey ==
    ASSUME NEW u, KeyFields \subseteq DOMAIN u, NEW containers
    PROVE  /\ KeyFields \subseteq DOMAIN Restricted(u, containers)
           /\ ContainerKey(Restricted(u, containers)) = ContainerKey(u)
<1> DEFINE r == Restricted(u, containers)
<1>1. DOMAIN r = DOMAIN u /\ \A f \in KeyFields : r[f] = u[f]
  BY DEF Restricted, KeyFields
<1>2. /\ r.NamespaceName = u.NamespaceName /\ r.PodName = u.PodName
      /\ r.ContainerName = u.ContainerName /\ r.PodUID = u.PodUID /\ r.ContainerID = u.ContainerID
  <2> HIDE DEF r
  <2> QED  BY <1>1 DEF KeyFields
<1> HIDE DEF r
<1>3. ContainerKey(r) = ContainerKey(u)
  BY <1>2 DEF ContainerKey
<1> QED  BY <1>1, <1>3 DEF r

\* collectContainers finds the samples of each container, and restricts them.
LEMMA ContainersCInv == ASSUME NilIsNoTuple, CInv, collectContainers PROVE CInv'
<1>1. PICK order \in SetToSeqs(DOMAIN o.Utilization) :
         /\ usageOf' = Found(GetContainerUsageSummary(order))
         /\ heap' = [h \in DOMAIN heap |-> [heap[h] EXCEPT !.Containers =
                        [i \in DOMAIN @ |-> After(Found(GetContainerUsageSummary(order)), <<h, i>>)]]]
  BY Zenon DEF collectContainers
<1>2. UNCHANGED <<cluster, received, responses, o>>
  BY DEF collectContainers
<1> DEFINE summary == GetContainerUsageSummary(order)
<1>3. SummaryFits(summary)
  BY SummaryOfKeys DEF CInv
<1>4. \A c \in Containers : usageOf'[c] = UsageFor(summary, PodOf(c), ContainerOf(c))
  <2> HIDE DEF summary
  <2> QED  BY <1>1 DEF summary, Found
<1>5. \A c \in Containers : PodOf(c) \in ToSet(o.Pods)
  BY DEF Containers, PodOf, ToSet
<1> HIDE DEF summary
<1>6. \A c \in Containers : OwnSamples(PodOf(c), ContainerOf(c).Name, usageOf'[c])
  <2> TAKE c \in Containers
  <2>1. StatusesFit(PodOf(c))
    BY <1>5 DEF CInv
  <2>2. OwnSamples(PodOf(c), ContainerOf(c).Name, UsageFor(summary, PodOf(c), ContainerOf(c)))
    BY <1>3, <2>1, FoundIsOwn
  <2> QED  BY <1>4, <2>2
<1>7. \A pod, name, e : OwnSamples(pod, name, e)' <=> OwnSamples(pod, name, e)
  <2>1. \A h, i : PushedKey(h, i)' = PushedKey(h, i)
    BY <1>2 DEF PushedKey
  <2>2. PushedKeys' = PushedKeys
    BY <1>2, <2>1 DEF PushedKeys
  <2> QED  BY <1>2, <2>1, <2>2 DEF OwnSamples
<1>8. OwnInv'
  <2>1. Containers' = Containers /\ \A c : PodOf(c)' = PodOf(c) /\ ContainerOf(c)' = ContainerOf(c)
    BY <1>2 DEF Containers, PodOf, ContainerOf
  <2> QED  BY <1>6, <1>7, <2>1 DEF OwnInv
<1>9. HeapInv'
  <2> DEFINE found == Found(GetContainerUsageSummary(order))
             New(h) == [heap[h] EXCEPT !.Containers = [i \in DOMAIN @ |-> After(found, <<h, i>>)]]
             n == Len(received)
  <2>1. /\ received \in Seq(Responses) /\ heap \in Seq(ToSet(heap)) /\ Len(heap) = n
        /\ DOMAIN heap = 1 .. n /\ DOMAIN received = 1 .. n /\ n \in Nat
        /\ \A h \in 1 .. n : Kept(heap[h], received[h])
    BY DEF CInv, HeapInv
  <2>2. heap' = [h \in 1 .. n |-> New(h)]
    BY <1>1, <2>1
  <2> HIDE DEF found
  <2>3. ASSUME NEW h \in 1 .. n PROVE Kept(New(h), received[h])
    <3> DEFINE r == heap[h]
    <3>1. Kept(r, received[h])
      BY <2>1
    <3>2. /\ {"Containers", "CGroups"} \subseteq DOMAIN New(h) /\ New(h).CGroups = received[h].CGroups
          /\ New(h).Containers = [i \in DOMAIN r.Containers |-> After(found, <<h, i>>)]
      BY <3>1 DEF Kept
    <3>3. \A i : Entry(<<h, i>>) = r.Containers[i]
      BY DEF Entry
    <3>4. ASSUME NEW i \in DOMAIN received[h].Containers
          PROVE  /\ KeyFields \subseteq DOMAIN New(h).Containers[i]
                 /\ ContainerKey(New(h).Containers[i]) = ContainerKey(received[h].Containers[i])
      <4> DEFINE cs == {ContainerOf(c) : c \in {c \in Containers : found[c] = <<h, i>>}}
                 u == r.Containers[i]
      <4>1. KeyFields \subseteq DOMAIN u /\ ContainerKey(u) = ContainerKey(received[h].Containers[i])
        BY <3>1 DEF Kept
      <4>2. New(h).Containers[i] = Restricted(u, cs)
        <5>1. i \in DOMAIN r.Containers
          BY <3>1 DEF Kept
        <5>2. After(found, <<h, i>>) = Restricted(u, cs)
          BY <3>3 DEF After
        <5> HIDE DEF New, r, cs, u
        <5> QED  BY <3>2, <5>1, <5>2
      <4> HIDE DEF New, cs, u
      <4> QED  BY <4>1, <4>2, RestrictedKeepsKey
    <3>5. DOMAIN New(h).Containers = DOMAIN received[h].Containers
      <4> HIDE DEF New
      <4> QED  BY <3>1, <3>2 DEF Kept
    <3> HIDE DEF New
    <3> QED  BY <3>2, <3>4, <3>5 DEF Kept
  <2> HIDE DEF New, n
  <2>4. heap' \in Seq(ToSet(heap')) /\ Len(heap') = n
    <3> DEFINE T == {New(h) : h \in 1 .. n}
    <3>1. heap' \in [1 .. n -> T]
      BY <2>2
    <3> HIDE DEF T
    <3>2. heap' \in Seq(T) /\ Len(heap') = n
      BY <2>1, <3>1
    <3> QED  BY <3>2, ListOfMembers
  <2>5. received' = received /\ \A h \in 1 .. n : heap'[h] = New(h)
    BY <1>2, <2>2
  <2> QED  BY <2>1, <2>3, <2>4, <2>5 DEF HeapInv, n
<1>10. Cached(responses)' /\ Cached(o.Utilization)'
  BY <1>2 DEF CInv, Cached
<1>11. (cluster \in Clusters)' /\ (\A pod \in ToSet(o.Pods) : StatusesFit(pod))'
  BY <1>2 DEF CInv
<1> QED  BY <1>8, <1>9, <1>10, <1>11 DEF CInv

\* So CInv is inductive.
LEMMA NextCInv == ASSUME NilIsNoTuple, CInv, [Next]_vars PROVE CInv'
<1>1. CASE UNCHANGED vars
  BY <1>1, Quiet DEF vars
<1>2. ASSUME NEW r \in Responses, Push(r) PROVE CInv'
  BY <1>2, PushCInv
<1>3. ASSUME NEW n \in DOMAIN responses, ClearMetrics(n) PROVE CInv'
  BY <1>3, ClearCInv
<1>4. ASSUME NEW c \in Clusters, ClusterChanges(c) PROVE CInv'
  BY <1>4, ChangeCInv
<1>5. CASE WarmUp
  BY <1>5, Quiet DEF WarmUp
<1>6. ASSUME NEW bad \in SUBSET MayFail, NEW late \in SUBSET MayLag, NEW next \in Clusters,
             listCapacityObjects(bad, late, next)
      PROVE  CInv'
  BY <1>6, ListCInv
<1>7. CASE collectContainers
  BY <1>7, ContainersCInv
<1>8. ASSUME Undisturbed, NEW f, f # "collect_containers", done' = done \cup {f} PROVE CInv'
  BY <1>8, Quiet DEF Undisturbed
<1>9. CASE collectQuota
  <2>1. done' = done \cup {"collect_quotas"} /\ Undisturbed
    BY <1>9, Zenon DEF collectQuota, Returns
  <2> QED  BY <1>8, <2>1
<1>10. CASE collectNodes
  <2>1. done' = done \cup {"collect_nodes"} /\ Undisturbed
    BY <1>10, Zenon DEF collectNodes, Returns
  <2> QED  BY <1>8, <2>1
<1>11. CASE collectPVs
  <2>1. done' = done \cup {"collect_pvs"} /\ Undisturbed
    BY <1>11, Zenon DEF collectPVs, Returns
  <2> QED  BY <1>8, <2>1
<1>12. CASE collectPVCs
  <2>1. done' = done \cup {"collect_pvcs"} /\ Undisturbed
    BY <1>12, Zenon DEF collectPVCs, Returns
  <2> QED  BY <1>8, <2>1
<1>13. CASE collectNamespaces
  <2>1. done' = done \cup {"collect_namespace"} /\ Undisturbed
    BY <1>13, Zenon DEF collectNamespaces, Returns
  <2> QED  BY <1>8, <2>1
<1>14. CASE collectClusterScoped
  <2>1. done' = done \cup {"collect_cluster_scoped"} /\ Undisturbed
    BY <1>14, Zenon DEF collectClusterScoped, Returns
  <2> QED  BY <1>8, <2>1
<1>15. CASE collectCGroups
  <2>1. phase' = "crashed" \/ (phase' = phase /\ done' = done \cup {"collect_cgroups"})
    BY <1>15, Zenon DEF collectCGroups, Returns
  <2>2. UNCHANGED <<cluster, received, heap, responses, o, usageOf>>
    BY <1>15, Zenon DEF collectCGroups
  <2> QED  BY <2>1, <2>2, Quiet
<1>16. CASE FinishScrape
  BY <1>16, Quiet DEF FinishScrape
<1>17. CASE Restart
  BY <1>17, RestartCInv
<1> QED
  BY <1>1, <1>2, <1>3, <1>4, <1>5, <1>6, <1>7, <1>9, <1>10, <1>11, <1>12, <1>13, <1>14, <1>15,
     <1>16, <1>17, Zenon DEF Next

\* In terms of what is in memory: the invariant says what UsageIsOwn says.
LEMMA CInvImpliesOwn == ASSUME CInv PROVE UsageIsOwn
<1> SUFFICES ASSUME phase = "collecting" /\ "collect_containers" \in done, NEW c \in Containers
             PROVE  LET pod == PodOf(c)
                        name == ContainerOf(c).Name
                        keys == {ContainerKey(e) : e \in Samples}
                    IN  IF usageOf[c] = Nil
                        THEN Cardinality(Live(pod, name)) = 1 => IdKeys(pod, Live(pod, name)) \cap keys = {}
                        ELSE ContainerKey(Entry(usageOf[c])) \in OwnKeys(pod, name)
  BY Zenon DEF UsageIsOwn, PodOf, ContainerOf, Mine, Live, IdKeys, OwnKeys
<1> DEFINE pod == PodOf(c)
           name == ContainerOf(c).Name
           e == usageOf[c]
<1>1. OwnSamples(pod, name, e)
  BY DEF CInv, OwnInv
<1>2. {ContainerKey(s) : s \in Samples} = PushedKeys
  BY KeysKept DEF CInv
<1>3. e = Nil => (Cardinality(Live(pod, name)) = 1 => IdKeys(pod, Live(pod, name)) \cap PushedKeys = {})
  BY <1>1 DEF OwnSamples
<1>4. e # Nil => ContainerKey(Entry(e)) \in OwnKeys(pod, name)
  <2> SUFFICES ASSUME e # Nil PROVE ContainerKey(Entry(e)) \in OwnKeys(pod, name)
    OBVIOUS
  <2>1. /\ e[1] \in Range(o.Utilization) /\ e[2] \in DOMAIN received[e[1]].Containers
        /\ PushedKey(e[1], e[2]) \in OwnKeys(pod, name)
    BY <1>1 DEF OwnSamples
  <2>2. ContainerKey(heap[e[1]].Containers[e[2]]) = PushedKey(e[1], e[2])
    BY <2>1, KeysKept DEF CInv
  <2> QED  BY <2>1, <2>2 DEF Entry
<1> HIDE DEF pod, name, e
<1> QED  BY <1>2, <1>3, <1>4 DEF pod, name, e

\* UsageIsOwn for every cluster, every response and any number of pushes: what
\* collectContainers finds for a container was pushed under its names, or under
\* its pod's UID and the id of one of its statuses, a running one if any is, and
\* nothing pushed for a running container is overlooked.  The hypothesis is
\* that Go's nil is not one of the keys, which are tuples.
THEOREM SamplesAreOwn ==
    ASSUME NilIsNoTuple
    PROVE  Spec => []UsageIsOwn
<1>1. Init => CInv
  BY InitCInv
<1>2. CInv /\ [Next]_vars => CInv'
  BY NextCInv
<1>3. CInv => UsageIsOwn
  BY CInvImpliesOwn
<1> QED  BY <1>1, <1>2, <1>3, PTL DEF Spec

-----------------------------------------------------------------------------
(* What the objects of a list add to a metric.                             *)

\* An injective function has as many values as arguments.
LEMMA CountValues ==
    ASSUME NEW X, IsFiniteSet(X), NEW f, \A x, y \in X : f[x] = f[y] => x = y
    PROVE  Cardinality({f[x] : x \in X}) = Cardinality(X)
<1> DEFINE Y == {f[x] : x \in X}
           g == [x \in X |-> f[x]]
<1>1. \A x \in X : f[x] \in Y
  OBVIOUS
<1>2. \A y \in Y : \E x \in X : f[x] = y
  OBVIOUS
<1> HIDE DEF Y
<1>3. g \in [X -> Y] /\ \A x \in X : g[x] = f[x]
  BY <1>1
<1> HIDE DEF g
<1>4. g \in Surjection(X, Y)
  BY <1>2, <1>3 DEF Surjection
<1>5. g \in Injection(X, Y)
  BY <1>3 DEF Injection, IsInjective
<1>6. Cardinality(Y) = Cardinality(X)
  BY <1>4, <1>5, FS_Surjection
<1> QED  BY <1>6 DEF Y

\* the positions of the objects that have a value for the name n
Holders(points, n) == {p \in DOMAIN points : n \in DOMAIN points[p]}

LabelsAt(points, n) == {points[p][n].Labels : p \in Holders(points, n)}

MetricOf(m, n) == IF n \in DOMAIN m THEN m[n] ELSE Empty

\* A metric has the labels of the objects that have a value for it.
LEMMA LabelsOfMetric ==
    ASSUME NEW points, NEW n
    PROVE  DOMAIN MetricOf(Collected(points), n) = LabelsAt(points, n)
<1> DEFINE N == UNION {DOMAIN points[p] : p \in DOMAIN points}
<1>1. DOMAIN Collected(points) = N
  BY Zenon DEF Collected
<1>2. n \in N <=> Holders(points, n) # {}
  BY DEF Holders
<1>3. CASE n \in N
  <2>1. DOMAIN Collected(points)[n] = LabelsAt(points, n)
    <3>1. Collected(points)[n] =
            LET at      == {p \in DOMAIN points : n \in DOMAIN points[p]}
                With(l) == {p \in at : points[p][n].Labels = l}
                Latest(P) == CHOOSE p \in P : \A q \in P \ {p} : Later(p, q)
            IN  [l \in {points[p][n].Labels : p \in at} |-> points[Latest(With(l))][n].Value]
      BY <1>3, Zenon DEF Collected
    <3> QED  BY <3>1, Zenon DEF LabelsAt, Holders
  <2> QED  BY <1>1, <1>3, <2>1 DEF MetricOf
<1>4. CASE n \notin N
  <2>1. LabelsAt(points, n) = {}
    BY <1>2, <1>4 DEF LabelsAt
  <2>2. MetricOf(Collected(points), n) = Empty
    BY <1>1, <1>4 DEF MetricOf
  <2> QED  BY <2>1, <2>2 DEF Empty
<1> QED  BY <1>3, <1>4

\* So it counts them, when no two of them have the same labels.
LEMMA MetricCounts ==
    ASSUME NEW points, NEW n, NEW X, X = Holders(points, n), IsFiniteSet(X),
           \A p, q \in X : points[p][n].Labels = points[q][n].Labels => p = q
    PROVE  Cardinality(DOMAIN MetricOf(Collected(points), n)) = Cardinality(X)
<1> DEFINE f == [p \in X |-> points[p][n].Labels]
<1>1. \A p, q \in X : f[p] = f[q] => p = q
  OBVIOUS
<1>2. {f[p] : p \in X} = LabelsAt(points, n)
  BY DEF LabelsAt
<1> HIDE DEF f
<1>3. Cardinality({f[p] : p \in X}) = Cardinality(X)
  BY <1>1, CountValues
<1> QED  BY <1>2, <1>3, LabelsOfMetric

\* the positions of the objects of a list
Each(list) == {<<i>> : i \in DOMAIN list}

\* A list has as many positions as objects.
LEMMA EachCounts ==
    ASSUME NEW list, IsList(list)
    PROVE  IsFiniteSet(Each(list)) /\ Cardinality(Each(list)) = Len(list)
<1> DEFINE D == 1 .. Len(list)
           f == [i \in D |-> <<i>>]
<1>1. DOMAIN list = D /\ Len(list) \in Nat
  BY DEF IsList
<1>2. IsFiniteSet(D) /\ Cardinality(D) = Len(list)
  BY <1>1, Interval
<1>3. \A i, j \in D : <<i>> = <<j>> => i = j
  OBVIOUS
<1>4. Each(list) = {<<i>> : i \in D}
  BY <1>1 DEF Each
<1> HIDE DEF D
<1>5. f \in Surjection(D, Each(list))
  BY <1>4 DEF Surjection
<1>6. f \in Injection(D, Each(list))
  <2>1. f \in [D -> Each(list)]
    BY <1>4
  <2>2. \A i, j \in D : f[i] = f[j] => i = j
    BY <1>3
  <2> HIDE DEF f
  <2> QED  BY <2>1, <2>2 DEF Injection, IsInjective
<1> HIDE DEF f
<1> QED  BY <1>2, <1>5, <1>6, FS_Surjection

\* the objects of a list, each with a value for n, under labels of its own
Distinct(list, points, n) ==
    /\ Holders(points, n) = Each(list)
    /\ \A i, j \in DOMAIN list : points[<<i>>][n].Labels = points[<<j>>][n].Labels => i = j

\* So a metric counts the objects of a list.
LEMMA ListCounts ==
    ASSUME NEW list, IsList(list), NEW points, NEW n, Distinct(list, points, n)
    PROVE  Cardinality(DOMAIN MetricOf(Collected(points), n)) = Len(list)
<1> DEFINE X == Each(list)
<1>1. \A p, q \in X : points[p][n].Labels = points[q][n].Labels => p = q
  BY DEF Distinct, Each
<1>2. X = Holders(points, n)
  BY DEF Distinct
<1>3. IsFiniteSet(X) /\ Cardinality(X) = Len(list)
  BY EachCounts
<1> HIDE DEF X
<1> QED  BY <1>1, <1>2, <1>3, MetricCounts

\* the fields of the built in labels that name an object
NameFields == {"ContainerName", "PodName", "NamespaceName", "NodeName", "QuotaName", "PVCName", "PVName",
               "StorageClass"}

\* The labels every function starts from.
LEMMA NoLabelsFields ==
    NoLabels.BuiltIn = [f \in BuiltInField |-> ""] /\ NameFields \subseteq BuiltInField
  BY DEF NoLabels, BuiltInField, BuiltInName, NameFields

\* Each kind of object is named by its labels.
LEMMA NodeNamed ==
    ASSUME NEW n, n # Nil
    PROVE  NodeLabels(n).BuiltIn["NodeName"] = n.Name
  BY NoLabelsFields DEF NodeLabels, BuiltInForNode, NameFields

\* A namespace.
LEMMA NamespaceNamed ==
    ASSUME NEW n, n # Nil
    PROVE  NamespaceLabels(n).BuiltIn["NamespaceName"] = n.Name
  BY NoLabelsFields DEF NamespaceLabels, BuiltInForNamespace, NameFields

\* A pod.
LEMMA PodNamed ==
    ASSUME NEW pod, pod # Nil
    PROVE  /\ PodLabels(pod).BuiltIn["PodName"] = pod.Name
           /\ PodLabels(pod).BuiltIn["NamespaceName"] = pod.Namespace
           /\ PodLabels(pod).BuiltIn["NodeName"] = pod.NodeName
           /\ DOMAIN PodLabels(pod).BuiltIn = BuiltInField
  BY NoLabelsFields DEF PodLabels, BuiltInForPod, NameFields

\* A container, on top of its pod.
LEMMA ContainerNamed ==
    ASSUME NEW pod, pod # Nil, NEW c, c # Nil
    PROVE  /\ ContainerLabels(pod, c).BuiltIn["PodName"] = pod.Name
           /\ ContainerLabels(pod, c).BuiltIn["NamespaceName"] = pod.Namespace
           /\ ContainerLabels(pod, c).BuiltIn["ContainerName"] = c.Name
           /\ ContainerLabels(pod, c).BuiltIn["NodeName"] = pod.NodeName
<1> DEFINE l == PodLabels(pod).BuiltIn
           s == Named(SortedStatuses(pod), c.Name)
<1>1. ContainerLabels(pod, c).BuiltIn = BuiltInForContainerStatus(BuiltInForContainer(l, c), s)
  BY DEF ContainerLabels, PodLabels
<1>2. /\ l["PodName"] = pod.Name /\ l["NamespaceName"] = pod.Namespace /\ l["NodeName"] = pod.NodeName
      /\ DOMAIN l = BuiltInField
  BY PodNamed
<1> HIDE DEF l, s
<1>3. BuiltInForContainer(l, c) = [l EXCEPT !.ContainerName = c.Name, !.ContainerImage = c.Image]
  BY DEF BuiltInForContainer
<1> DEFINE b == BuiltInForContainer(l, c)
           e == BuiltInForContainerStatus(b, s)
<1>4. {"PodName", "NamespaceName", "ContainerName", "NodeName"} \subseteq DOMAIN l
  BY <1>2, NoLabelsFields DEF NameFields
<1>5. /\ b["PodName"] = pod.Name /\ b["NamespaceName"] = pod.Namespace /\ b["ContainerName"] = c.Name
      /\ b["NodeName"] = pod.NodeName /\ DOMAIN b = DOMAIN l
  BY <1>2, <1>3, <1>4
<1> HIDE DEF b
<1>6. \A f \in {"PodName", "NamespaceName", "ContainerName", "NodeName"} : e[f] = b[f]
  BY <1>4, <1>5 DEF BuiltInForContainerStatus
<1> HIDE DEF e
<1>7. ContainerLabels(pod, c).BuiltIn = e
  BY <1>1 DEF b, e
<1> QED  BY <1>5, <1>6, <1>7

\* A volume.
LEMMA PVNamed ==
    ASSUME NEW pv, pv # Nil
    PROVE  PVLabels(pv).BuiltIn["PVName"] = pv.Name
<1> DEFINE pvc  == IF pv.ClaimRef = Nil THEN Nil ELSE NamedIn(o.PVCs, pv.ClaimRef.Namespace, pv.ClaimRef.Name)
           node == IF pv.Hostname = "" THEN Nil ELSE Named(o.Nodes, pv.Hostname)
           l == NoLabels.BuiltIn
           a == IF node = Nil THEN [l EXCEPT !.NodeName = pv.Hostname] ELSE BuiltInForNode(l, node)
           b == setLabelsForPersistentVolumeClaim(a, pvc)
<1>1. PVLabels(pv).BuiltIn = setLabelsForPersistentVolume(b, pv)
  BY DEF PVLabels, BuiltInForPV
<1> HIDE DEF pvc, node
<1>2. DOMAIN a = BuiltInField
  BY NoLabelsFields DEF BuiltInForNode
<1> HIDE DEF a
<1>3. DOMAIN b = BuiltInField
  BY <1>2 DEF setLabelsForPersistentVolumeClaim
<1> HIDE DEF b
<1> QED  BY <1>1, <1>3, NoLabelsFields DEF setLabelsForPersistentVolume, NameFields

\* A claim.
LEMMA PVCNamed ==
    ASSUME NEW pvc, pvc # Nil
    PROVE  /\ PVCLabels(pvc).BuiltIn["PVCName"] = pvc.Name
           /\ PVCLabels(pvc).BuiltIn["NamespaceName"] = pvc.Namespace
<1> DEFINE pods == PodsByPVC(pvc)
           pod  == IF Cardinality(pods) = 1 THEN (CHOOSE p \in pods : TRUE)[1] ELSE Nil
           w    == IF pod = Nil THEN Nil ELSE getWorkloadForPod(pod)
           node == IF pod = Nil THEN Nil ELSE Named(o.Nodes, pod.NodeName)
           pv   == Named(o.PVs, pvc.VolumeName)
           a == BuiltInForPod(NoLabels.BuiltIn, pod, w, node)
           b == setLabelsForPersistentVolume(a, pv)
<1>1. PVCLabels(pvc).BuiltIn = setLabelsForPersistentVolumeClaim(b, pvc)
  BY DEF PVCLabels, BuiltInForPVC
<1> HIDE DEF pods, pod, w, node, pv
<1>2. DOMAIN a = BuiltInField
  BY NoLabelsFields DEF BuiltInForPod
<1> HIDE DEF a
<1>3. DOMAIN b = BuiltInField
  BY <1>2 DEF setLabelsForPersistentVolume
<1> HIDE DEF b
<1> QED  BY <1>1, <1>3, NoLabelsFields DEF setLabelsForPersistentVolumeClaim, NameFields

\* A quota.
LEMMA QuotaNamed ==
    ASSUME NEW q, q # Nil
    PROVE  /\ QuotaLabels(q).BuiltIn["QuotaName"] = q.Name
           /\ QuotaLabels(q).BuiltIn["NamespaceName"] = q.Namespace
           /\ DOMAIN QuotaLabels(q).BuiltIn = BuiltInField /\ "BuiltIn" \in DOMAIN QuotaLabels(q)
<1> DEFINE rqd == NamedIn(o.RQDs, q.Namespace, q.Name)
<1>1. QuotaLabels(q).BuiltIn = BuiltInForQuota(NoLabels.BuiltIn, q, rqd, Config.UseQuotaName)
  BY DEF QuotaLabels
<1>2. "BuiltIn" \in DOMAIN QuotaLabels(q)
  BY DEF QuotaLabels
<1> HIDE DEF rqd
<1> QED  BY <1>1, <1>2, NoLabelsFields DEF BuiltInForQuota, NameFields

ItemsReported == "items" \in Config.Resources

\* An object has values under its own type only, with its labels.
LEMMA PointsHave ==
    ASSUME NEW type, NEW values, NEW labels, NEW resources
    PROVE  LET points == Points(type, values, labels, resources)
           IN  /\ \A s \in DOMAIN values : \A r \in DOMAIN values[s] \cap resources :
                     <<type, s, r>> \in DOMAIN points
               /\ \A n \in DOMAIN points :
                     n[1] = type /\ points[n].Labels = labels /\ points[n].Value = values[n[2]][n[3]]
<1> DEFINE N == {n \in UNION {{<<type, s, r>> : r \in DOMAIN values[s]} : s \in DOMAIN values} :
                    n[3] \in resources}
           points == Points(type, values, labels, resources)
<1>1. points = [n \in N |-> [Labels |-> labels, Value |-> values[n[2]][n[3]]]]
  BY DEF Points
<1>2. ASSUME NEW s \in DOMAIN values, NEW r \in DOMAIN values[s], r \in resources
      PROVE  <<type, s, r>> \in N
  BY <1>2
<1>3. \A n \in N : n[1] = type
  OBVIOUS
<1> HIDE DEF N, points
<1>4. DOMAIN points = N
  BY <1>1
<1>5. \A n \in N : points[n].Labels = labels /\ points[n].Value = values[n[2]][n[3]]
  BY <1>1
<1> QED  BY <1>2, <1>3, <1>4, <1>5 DEF points

\* the value "items" of an object of the type
Item(type) == <<type, type, "items">>

\* An object with a value "items" adds it under its labels.
LEMMA ItemCounted ==
    ASSUME NEW type, NEW values, NEW labels, ItemsReported,
           type \in DOMAIN values, values[type] = Items
    PROVE  /\ Item(type) \in DOMAIN addValuesToMetrics(values, labels, type)
           /\ addValuesToMetrics(values, labels, type)[Item(type)].Labels = labels
<1>1. "items" \in DOMAIN values[type]
  BY DEF Items
<1> QED  BY <1>1, PointsHave DEF addValuesToMetrics, Item, ItemsReported

\* Points of a list of objects that each have the value n under the labels.
LEMMA DistinctByName ==
    ASSUME NEW list, NEW points, NEW n, NEW labels, NEW key, DOMAIN points = Each(list),
           \A i \in DOMAIN list :
              n \in DOMAIN points[<<i>>] /\ points[<<i>>][n].Labels = labels[i],
           \A i, j \in DOMAIN list : labels[i] = labels[j] => key[i] = key[j],
           \A i, j \in DOMAIN list : key[i] = key[j] => i = j
    PROVE  Distinct(list, points, n)
<1>1. Holders(points, n) = Each(list)
  BY DEF Holders, Each
<1>2. \A i, j \in DOMAIN list : points[<<i>>][n].Labels = points[<<j>>][n].Labels => i = j
  OBVIOUS
<1> QED  BY <1>1, <1>2 DEF Distinct

\* The nodes of a scrape have labels of their own.
LEMMA NodesDistinct ==
    ASSUME ItemsReported, IsList(o.Nodes), UniqueBy(o.Nodes, NameOf)
    PROVE  Distinct(o.Nodes, ForEach(o.Nodes, NodePoints), Item("node"))
<1> DEFINE list == o.Nodes
           n == Item("node")
           points == ForEach(o.Nodes, NodePoints)
           labels == [i \in DOMAIN list |-> NodeLabels(list[i])]
           key == [i \in DOMAIN list |-> NameOf(list[i])]
<1>1. DOMAIN points = Each(list) /\ \A i \in DOMAIN list : points[<<i>>] = NodePoints(list[i])
  BY DEF ForEach, Each
<1>2. ASSUME NEW i \in DOMAIN list
      PROVE  n \in DOMAIN points[<<i>>] /\ points[<<i>>][n].Labels = labels[i]
  <2>1. "node" \in DOMAIN NodeValues(list[i]) /\ NodeValues(list[i])["node"] = Items
    BY DEF NodeValues, GetValuesForNode
  <2> HIDE DEF list, points
  <2> QED  BY <1>1, <2>1, ItemCounted DEF NodePoints
<1>3. ASSUME NEW i \in DOMAIN list PROVE list[i] # Nil
  BY DEF IsList, ToSet
<1>4. ASSUME NEW i \in DOMAIN list, NEW j \in DOMAIN list, labels[i] = labels[j] PROVE key[i] = key[j]
  <2> HIDE DEF list
  <2> QED  BY <1>3, <1>4, NodeNamed DEF NameOf
<1>5. \A i, j \in DOMAIN list : key[i] = key[j] => i = j
  BY DEF UniqueBy
<1> HIDE DEF list, points, labels, key, n
<1> QED  BY <1>1, <1>2, <1>4, <1>5, DistinctByName DEF list, points, n

\* Its volumes.
LEMMA PVsDistinct ==
    ASSUME ItemsReported, IsList(o.PVs), UniqueBy(o.PVs, NameOf)
    PROVE  Distinct(o.PVs, ForEach(o.PVs, PVPoints), Item("pv"))
<1> DEFINE list == o.PVs
           n == Item("pv")
           points == ForEach(o.PVs, PVPoints)
           labels == [i \in DOMAIN list |-> PVLabels(list[i])]
           key == [i \in DOMAIN list |-> NameOf(list[i])]
<1>1. DOMAIN points = Each(list) /\ \A i \in DOMAIN list : points[<<i>>] = PVPoints(list[i])
  BY DEF ForEach, Each
<1>2. ASSUME NEW i \in DOMAIN list
      PROVE  n \in DOMAIN points[<<i>>] /\ points[<<i>>][n].Labels = labels[i]
  <2>1. "pv" \in DOMAIN GetValuesForPV(list[i]) /\ GetValuesForPV(list[i])["pv"] = Items
    BY DEF GetValuesForPV
  <2> HIDE DEF list, points
  <2> QED  BY <1>1, <2>1, ItemCounted DEF PVPoints
<1>3. ASSUME NEW i \in DOMAIN list PROVE list[i] # Nil
  BY DEF IsList, ToSet
<1>4. ASSUME NEW i \in DOMAIN list, NEW j \in DOMAIN list, labels[i] = labels[j] PROVE key[i] = key[j]
  <2> HIDE DEF list
  <2> QED  BY <1>3, <1>4, PVNamed DEF NameOf
<1>5. \A i, j \in DOMAIN list : key[i] = key[j] => i = j
  BY DEF UniqueBy
<1> HIDE DEF list, points, labels, key, n
<1> QED  BY <1>1, <1>2, <1>4, <1>5, DistinctByName DEF list, points, n

\* Its claims.
LEMMA PVCsDistinct ==
    ASSUME ItemsReported, IsList(o.PVCs), UniqueBy(o.PVCs, QualifiedName)
    PROVE  Distinct(o.PVCs, ForEach(o.PVCs, PVCPoints), Item("pvc"))
<1> DEFINE list == o.PVCs
           n == Item("pvc")
           points == ForEach(o.PVCs, PVCPoints)
           labels == [i \in DOMAIN list |-> PVCLabels(list[i])]
           key == [i \in DOMAIN list |-> QualifiedName(list[i])]
<1>1. DOMAIN points = Each(list) /\ \A i \in DOMAIN list : points[<<i>>] = PVCPoints(list[i])
  BY DEF ForEach, Each
<1>2. ASSUME NEW i \in DOMAIN list
      PROVE  n \in DOMAIN points[<<i>>] /\ points[<<i>>][n].Labels = labels[i]
  <2>1. "pvc" \in DOMAIN GetValuesForPVC(list[i]) /\ GetValuesForPVC(list[i])["pvc"] = Items
    BY DEF GetValuesForPVC
  <2> HIDE DEF list, points
  <2> QED  BY <1>1, <2>1, ItemCounted DEF PVCPoints
<1>3. ASSUME NEW i \in DOMAIN list PROVE list[i] # Nil
  BY DEF IsList, ToSet
<1>4. ASSUME NEW i \in DOMAIN list, NEW j \in DOMAIN list, labels[i] = labels[j] PROVE key[i] = key[j]
  <2> HIDE DEF list
  <2> QED  BY <1>3, <1>4, PVCNamed DEF QualifiedName
<1>5. \A i, j \in DOMAIN list : key[i] = key[j] => i = j
  BY DEF UniqueBy
<1> HIDE DEF list, points, labels, key, n
<1> QED  BY <1>1, <1>2, <1>4, <1>5, DistinctByName DEF list, points, n

\* Its namespaces.
LEMMA NamespacesDistinct ==
    ASSUME IsList(o.Namespaces), UniqueBy(o.Namespaces, NameOf)
    PROVE  Distinct(o.Namespaces, ForEach(o.Namespaces, NamespacePoints), Item("namespace"))
<1> DEFINE list == o.Namespaces
           n == Item("namespace")
           points == ForEach(o.Namespaces, NamespacePoints)
           labels == [i \in DOMAIN list |-> NamespaceLabels(list[i])]
           key == [i \in DOMAIN list |-> NameOf(list[i])]
<1>1. DOMAIN points = Each(list) /\ \A i \in DOMAIN list : points[<<i>>] = NamespacePoints(list[i])
  BY DEF ForEach, Each
<1>2. ASSUME NEW i \in DOMAIN list
      PROVE  n \in DOMAIN points[<<i>>] /\ points[<<i>>][n].Labels = labels[i]
  <2> DEFINE values == [namespace |-> Items]
  <2>1. "namespace" \in DOMAIN values /\ "items" \in DOMAIN values["namespace"] \cap {"items"}
    BY DEF Items
  <2>2. NamespacePoints(list[i]) = Points("namespace", values, NamespaceLabels(list[i]), {"items"})
    BY DEF NamespacePoints
  <2> HIDE DEF list, points, values
  <2> QED  BY <1>1, <2>1, <2>2, PointsHave DEF Item
<1>3. ASSUME NEW i \in DOMAIN list PROVE list[i] # Nil
  BY DEF IsList, ToSet
<1>4. ASSUME NEW i \in DOMAIN list, NEW j \in DOMAIN list, labels[i] = labels[j] PROVE key[i] = key[j]
  <2> HIDE DEF list
  <2> QED  BY <1>3, <1>4, NamespaceNamed DEF NameOf
<1>5. \A i, j \in DOMAIN list : key[i] = key[j] => i = j
  BY DEF UniqueBy
<1> HIDE DEF list, points, labels, key, n
<1> QED  BY <1>1, <1>2, <1>4, <1>5, DistinctByName DEF list, points, n

\* what QuotaPoints adds for the item of a quota
LEMMA QuotaItem ==
    ASSUME NEW q, q # Nil, NEW class
    PROVE  /\ Item("quota") \in DOMAIN QuotaPoints(q, class)
           /\ QuotaPoints(q, class)[Item("quota")].Labels.BuiltIn["QuotaName"] = q.Name
           /\ QuotaPoints(q, class)[Item("quota")].Labels.BuiltIn["NamespaceName"] = q.Namespace
<1> DEFINE values == QuotaValues(q)
           l == QuotaLabels(q)
           Prior(s) == [l EXCEPT !.BuiltIn.StorageClass = Get(class, s)]
           At(s, r) == IF s = "quota" \/ QuotaKey[r].StorageClass = "" THEN Prior(s)
                       ELSE [Prior(s) EXCEPT !.BuiltIn =
                                BuiltInForPVCQuota(@, q, r, QuotaKey[r].StorageClass)]
           N == UNION {{<<"quota", s, r>> : r \in Reported(q, s)} : s \in DOMAIN values}
<1>1. QuotaPoints(q, class) = [n \in N |-> [Labels |-> At(n[2], n[3]), Value |-> values[n[2]][n[3]]]]
  BY DEF QuotaPoints
<1>2. "quota" \in DOMAIN values
  BY DEF QuotaValues, GetValuesForQuota, Merge
<1>3. Item("quota") \in N
  <2>1. "items" \in Reported(q, "quota")
    BY DEF Reported
  <2> HIDE DEF values
  <2> QED  BY <1>2, <2>1 DEF Item
<1>4. Item("quota")[2] = "quota" /\ Item("quota")[3] = "items"
  BY DEF Item
<1> HIDE DEF N, values
<1>5. QuotaPoints(q, class)[Item("quota")].Labels = At("quota", "items")
  <2> HIDE DEF At
  <2> QED  BY <1>1, <1>3, <1>4
<1>6. At("quota", "items") = [l EXCEPT !.BuiltIn.StorageClass = Get(class, "quota")]
  OBVIOUS
<1>7. /\ l.BuiltIn["QuotaName"] = q.Name /\ l.BuiltIn["NamespaceName"] = q.Namespace
      /\ DOMAIN l.BuiltIn = BuiltInField /\ "BuiltIn" \in DOMAIN l
  BY QuotaNamed
<1> HIDE DEF l, At
<1>8. /\ At("quota", "items").BuiltIn["QuotaName"] = q.Name
      /\ At("quota", "items").BuiltIn["NamespaceName"] = q.Namespace
  BY <1>6, <1>7, NoLabelsFields DEF NameFields
<1>9. Item("quota") \in DOMAIN QuotaPoints(q, class)
  BY <1>1, <1>3
<1> QED  BY <1>5, <1>8, <1>9

\* the points collectQuota collects, for the classes its sources have found
PointsOfQuotas(class) == [p \in Each(o.Quotas) |-> QuotaPoints(o.Quotas[p[1]], class[p[1]])]

\* Its quotas, whatever the class of a quota is taken to be.
LEMMA QuotasDistinct ==
    ASSUME IsList(o.Quotas), UniqueBy(o.Quotas, QualifiedName), NEW class
    PROVE  Distinct(o.Quotas, PointsOfQuotas(class), Item("quota"))
<1> DEFINE list == o.Quotas
           n == Item("quota")
           points == PointsOfQuotas(class)
           labels == [i \in DOMAIN list |-> points[<<i>>][n].Labels]
           key == [i \in DOMAIN list |-> QualifiedName(list[i])]
<1>1. DOMAIN points = Each(list) /\ \A i \in DOMAIN list : points[<<i>>] = QuotaPoints(list[i], class[i])
  BY DEF Each, PointsOfQuotas
<1>2. ASSUME NEW i \in DOMAIN list PROVE list[i] # Nil
  BY DEF IsList, ToSet
<1> HIDE DEF n, points
<1>3. ASSUME NEW i \in DOMAIN list
      PROVE  /\ n \in DOMAIN points[<<i>>]
             /\ points[<<i>>][n].Labels.BuiltIn["QuotaName"] = list[i].Name
             /\ points[<<i>>][n].Labels.BuiltIn["NamespaceName"] = list[i].Namespace
  <2> DEFINE q == list[i]
  <2>1. q # Nil
    BY <1>2
  <2>2. points[<<i>>] = QuotaPoints(q, class[i])
    BY <1>1
  <2> HIDE DEF list, q
  <2>3. /\ n \in DOMAIN QuotaPoints(q, class[i])
        /\ QuotaPoints(q, class[i])[n].Labels.BuiltIn["QuotaName"] = q.Name
        /\ QuotaPoints(q, class[i])[n].Labels.BuiltIn["NamespaceName"] = q.Namespace
    BY <2>1, QuotaItem DEF n
  <2> QED  BY <2>2, <2>3 DEF q
<1>4. \A i \in DOMAIN list : n \in DOMAIN points[<<i>>] /\ points[<<i>>][n].Labels = labels[i]
  BY <1>3
<1>5. ASSUME NEW i \in DOMAIN list, NEW j \in DOMAIN list, labels[i] = labels[j] PROVE key[i] = key[j]
  <2> HIDE DEF list
  <2> QED  BY <1>3, <1>5 DEF QualifiedName
<1>6. \A i, j \in DOMAIN list : key[i] = key[j] => i = j
  BY DEF UniqueBy
<1> HIDE DEF list, labels, key
<1> QED  BY <1>1, <1>4, <1>5, <1>6, DistinctByName DEF list, n, points

\* the points collectContainers collects
PodAndContainerPoints(found) ==
    Merge(ForEach(o.Pods, PodPoints),
          [c \in Containers |->
              addValuesToMetrics(ContainerValues(found, c), ContainerLabels(PodOf(c), ContainerOf(c)), "container")])

\* Pods and containers have different positions.
LEMMA PointsOfContainers ==
    ASSUME NEW found
    PROVE  /\ DOMAIN PodAndContainerPoints(found) = Each(o.Pods) \cup Containers
           /\ \A i \in DOMAIN o.Pods : PodAndContainerPoints(found)[<<i>>] = PodPoints(o.Pods[i])
           /\ \A c \in Containers : PodAndContainerPoints(found)[c] =
                 addValuesToMetrics(ContainerValues(found, c), ContainerLabels(PodOf(c), ContainerOf(c)), "container")
<1> DEFINE a == ForEach(o.Pods, PodPoints)
           V(c) == addValuesToMetrics(ContainerValues(found, c), ContainerLabels(PodOf(c), ContainerOf(c)),
                                      "container")
           b == [c \in Containers |-> V(c)]
<1>1. PodAndContainerPoints(found) =
        [x \in DOMAIN a \cup DOMAIN b |-> IF x \in DOMAIN a THEN a[x] ELSE b[x]]
  BY DEF PodAndContainerPoints, Merge
<1>2. DOMAIN a = Each(o.Pods) /\ \A i \in DOMAIN o.Pods : a[<<i>>] = PodPoints(o.Pods[i])
  BY DEF ForEach, Each
<1> HIDE DEF a, V
<1>3. \A c \in Containers : c \notin Each(o.Pods)
  <2>1. \A x \in Each(o.Pods) : Len(x) = 1
    BY DEF Each
  <2>2. \A c \in Containers : Len(c) = 2
    BY DEF Containers
  <2> QED  BY <2>1, <2>2
<1>4. \A i \in DOMAIN o.Pods : <<i>> \in Each(o.Pods)
  BY DEF Each
<1>5. DOMAIN PodAndContainerPoints(found) = Each(o.Pods) \cup Containers
  BY <1>1, <1>2
<1>6. \A c \in Containers : PodAndContainerPoints(found)[c] = V(c)
  BY <1>1, <1>2, <1>3
<1>7. \A i \in DOMAIN o.Pods : PodAndContainerPoints(found)[<<i>>] = PodPoints(o.Pods[i])
  BY <1>1, <1>2, <1>4
<1> QED  BY <1>5, <1>6, <1>7 DEF V

\* The pods of a scrape have labels of their own.
LEMMA PodsDistinct ==
    ASSUME ItemsReported, IsList(o.Pods), UniqueBy(o.Pods, QualifiedName), NEW found
    PROVE  Distinct(o.Pods, PodAndContainerPoints(found), Item("pod"))
<1> DEFINE list == o.Pods
           n == Item("pod")
           points == PodAndContainerPoints(found)
<1>1. /\ DOMAIN points = Each(list) \cup Containers
      /\ \A i \in DOMAIN list : points[<<i>>] = PodPoints(list[i])
      /\ \A c \in Containers : points[c] =
            addValuesToMetrics(ContainerValues(found, c), ContainerLabels(PodOf(c), ContainerOf(c)), "container")
  BY PointsOfContainers
<1>2. ASSUME NEW pod
      PROVE  n \in DOMAIN PodPoints(pod) /\ PodPoints(pod)[n].Labels = PodLabels(pod)
  <2> DEFINE a == addValuesToMetrics(GetValuesForPod(pod), PodLabels(pod), "pod")
             b == addValuesToMetrics(GetValuesForSchedulerHealth(pod, Config.SchedulerHealth), PodLabels(pod),
                                     "scheduler_health")
  <2>1. PodPoints(pod) = [x \in DOMAIN a \cup DOMAIN b |-> IF x \in DOMAIN a THEN a[x] ELSE b[x]]
    BY DEF PodPoints, Merge
  <2>2. "pod" \in DOMAIN GetValuesForPod(pod) /\ GetValuesForPod(pod)["pod"] = Items
    BY DEF GetValuesForPod
  <2>3. n \in DOMAIN a /\ a[n].Labels = PodLabels(pod)
    BY <2>2, ItemCounted
  <2> HIDE DEF a, b, n
  <2> QED  BY <2>1, <2>3
<1>3. ASSUME NEW c \in Containers PROVE n \notin DOMAIN points[c]
  <2>1. \A x \in DOMAIN points[c] : x[1] = "container"
    <3> HIDE DEF points
    <3> QED  BY <1>1, PointsHave DEF addValuesToMetrics
  <2>2. n[1] = "pod"
    BY DEF Item
  <2> QED  BY <2>1, <2>2
<1> HIDE DEF points, n
<1>4. Holders(points, n) = Each(list)
  <2>1. \A p \in Each(list) : n \in DOMAIN points[p]
    BY <1>1, <1>2 DEF Each
  <2> QED  BY <1>1, <1>3, <2>1 DEF Holders
<1>5. ASSUME NEW i \in DOMAIN list, NEW j \in DOMAIN list, points[<<i>>][n].Labels = points[<<j>>][n].Labels
      PROVE  i = j
  <2>1. list[i] # Nil /\ list[j] # Nil
    BY DEF IsList, ToSet
  <2>2. PodLabels(list[i]) = PodLabels(list[j])
    BY <1>1, <1>2, <1>5
  <2>3. list[i].Name = list[j].Name /\ list[i].Namespace = list[j].Namespace
    <3> HIDE DEF list
    <3> QED  BY <2>1, <2>2, PodNamed
  <2> QED  BY <2>3 DEF UniqueBy, QualifiedName
<1> QED  BY <1>4, <1>5 DEF Distinct, points, n

\* The containers of a scrape are finitely many.
LEMMA FiniteContainers ==
    ASSUME IsList(o.Pods), \A pod \in ToSet(o.Pods) : IsList(pod.Containers)
    PROVE  IsFiniteSet(Containers)
<1> DEFINE D == DOMAIN o.Pods
           E(i) == DOMAIN o.Pods[i].Containers
           P(i) == {<<i, j>> : j \in E(i)}
           S == {P(i) : i \in D}
<1>1. Containers = UNION S
  BY DEF Containers
<1>2. IsFiniteSet(D)
  <2>1. D = 1 .. Len(o.Pods) /\ Len(o.Pods) \in Nat
    BY DEF IsList
  <2> QED  BY <2>1, Interval
<1>3. ASSUME NEW i \in D PROVE IsFiniteSet(P(i))
  <2>1. IsList(o.Pods[i].Containers)
    BY DEF ToSet
  <2>2. E(i) = 1 .. Len(o.Pods[i].Containers) /\ Len(o.Pods[i].Containers) \in Nat
    BY <2>1 DEF IsList
  <2>3. IsFiniteSet(E(i))
    BY <2>2, Interval
  <2> DEFINE f == [j \in E(i) |-> <<i, j>>]
  <2> HIDE DEF E
  <2>4. f \in Surjection(E(i), P(i))
    BY DEF Surjection
  <2> HIDE DEF f, P
  <2> QED  BY <2>3, <2>4, FS_Surjection
<1>4. IsFiniteSet(S)
  <2> DEFINE g == [i \in D |-> P(i)]
  <2> HIDE DEF D, P
  <2>1. g \in Surjection(D, S)
    BY DEF Surjection
  <2> HIDE DEF g, S
  <2> QED  BY <1>2, <2>1, FS_Surjection
<1>5. \A T \in S : IsFiniteSet(T)
  <2> HIDE DEF P, D
  <2> QED  BY <1>3
<1> HIDE DEF S
<1>6. IsFiniteSet(UNION S)
  BY <1>4, <1>5, FS_UNION
<1> QED  BY <1>1, <1>6

\* Two containers of a scrape do not have the same labels.
LEMMA ContainersDistinct ==
    ASSUME IsList(o.Pods), UniqueBy(o.Pods, QualifiedName),
           \A pod \in ToSet(o.Pods) : IsList(pod.Containers) /\ UniqueBy(pod.Containers, NameOf),
           NEW c \in Containers, NEW d \in Containers,
           ContainerLabels(PodOf(c), ContainerOf(c)) = ContainerLabels(PodOf(d), ContainerOf(d))
    PROVE  c = d
<1> DEFINE L(x) == ContainerLabels(PodOf(x), ContainerOf(x))
<1>1. /\ c = <<c[1], c[2]>> /\ c[1] \in DOMAIN o.Pods /\ c[2] \in DOMAIN o.Pods[c[1]].Containers
      /\ d = <<d[1], d[2]>> /\ d[1] \in DOMAIN o.Pods /\ d[2] \in DOMAIN o.Pods[d[1]].Containers
  BY DEF Containers
<1>2. /\ PodOf(c) \in ToSet(o.Pods) /\ ContainerOf(c) \in ToSet(PodOf(c).Containers)
      /\ PodOf(d) \in ToSet(o.Pods) /\ ContainerOf(d) \in ToSet(PodOf(d).Containers)
  BY <1>1 DEF PodOf, ContainerOf, ToSet
<1>3. PodOf(c) # Nil /\ ContainerOf(c) # Nil /\ PodOf(d) # Nil /\ ContainerOf(d) # Nil
  BY <1>2 DEF IsList
<1>4. L(c) = L(d)
  OBVIOUS
<1>5. /\ PodOf(c).Name = PodOf(d).Name /\ PodOf(c).Namespace = PodOf(d).Namespace
      /\ ContainerOf(c).Name = ContainerOf(d).Name
  <2> DEFINE K(x) == /\ L(x).BuiltIn["PodName"] = PodOf(x).Name
                     /\ L(x).BuiltIn["NamespaceName"] = PodOf(x).Namespace
                     /\ L(x).BuiltIn["ContainerName"] = ContainerOf(x).Name
  <2>1. K(c)
    BY <1>3, ContainerNamed
  <2>2. K(d)
    BY <1>3, ContainerNamed
  <2> HIDE DEF L
  <2> QED  BY <1>4, <2>1, <2>2
<1>6. c[1] = d[1]
  BY <1>1, <1>5 DEF UniqueBy, QualifiedName, PodOf
<1>7. UniqueBy(PodOf(c).Containers, NameOf) /\ PodOf(c) = PodOf(d)
  BY <1>2, <1>6 DEF PodOf
<1>8. c[2] = d[2]
  BY <1>1, <1>5, <1>7 DEF UniqueBy, NameOf, PodOf, ContainerOf
<1> QED  BY <1>1, <1>6, <1>8

\* The containers have labels of their own, whatever samples were found.
LEMMA ContainersCounted ==
    ASSUME ItemsReported, IsList(o.Pods), UniqueBy(o.Pods, QualifiedName), NEW found,
           \A pod \in ToSet(o.Pods) : IsList(pod.Containers) /\ UniqueBy(pod.Containers, NameOf)
    PROVE  Cardinality(DOMAIN MetricOf(Collected(PodAndContainerPoints(found)), Item("container")))
               = Cardinality(Containers)
<1> DEFINE n == Item("container")
           points == PodAndContainerPoints(found)
           L(c) == ContainerLabels(PodOf(c), ContainerOf(c))
           V(c) == addValuesToMetrics(ContainerValues(found, c), L(c), "container")
<1>1. /\ DOMAIN points = Each(o.Pods) \cup Containers
      /\ \A i \in DOMAIN o.Pods : points[<<i>>] = PodPoints(o.Pods[i])
      /\ \A c \in Containers : points[c] = V(c)
  BY PointsOfContainers
<1>2. ASSUME NEW pod PROVE n \notin DOMAIN PodPoints(pod)
  <2> DEFINE a == addValuesToMetrics(GetValuesForPod(pod), PodLabels(pod), "pod")
             b == addValuesToMetrics(GetValuesForSchedulerHealth(pod, Config.SchedulerHealth), PodLabels(pod),
                                     "scheduler_health")
  <2>1. DOMAIN PodPoints(pod) = DOMAIN a \cup DOMAIN b
    BY DEF PodPoints, Merge
  <2>2. \A x \in DOMAIN a : x[1] = "pod"
    BY PointsHave DEF addValuesToMetrics
  <2>3. \A x \in DOMAIN b : x[1] = "scheduler_health"
    BY PointsHave DEF addValuesToMetrics
  <2>4. n[1] = "container"
    BY DEF Item
  <2> HIDE DEF a, b, n
  <2> QED  BY <2>1, <2>2, <2>3, <2>4
<1>3. ASSUME NEW c \in Containers PROVE n \in DOMAIN points[c] /\ points[c][n].Labels = L(c)
  <2> DEFINE values == ContainerValues(found, c)
  <2>1. "container" \in DOMAIN values /\ values["container"] = Items
    BY DEF ContainerValues, GetValuesForContainer, Merge
  <2> HIDE DEF values, L
  <2>2. n \in DOMAIN addValuesToMetrics(values, L(c), "container")
        /\ addValuesToMetrics(values, L(c), "container")[n].Labels = L(c)
    BY <2>1, ItemCounted
  <2> HIDE DEF points, n
  <2> QED  BY <1>1, <2>2 DEF values
<1> HIDE DEF points, n, V
<1>4. Containers = Holders(points, n)
  <2>1. \A p \in Each(o.Pods) : n \notin DOMAIN points[p]
    BY <1>1, <1>2 DEF Each
  <2> QED  BY <1>1, <1>3, <2>1 DEF Holders
<1>5. ASSUME NEW c \in Containers, NEW d \in Containers, points[c][n].Labels = points[d][n].Labels
      PROVE  c = d
  BY <1>3, <1>5, ContainersDistinct
<1>6. IsFiniteSet(Containers)
  BY FiniteContainers
<1>7. Cardinality(DOMAIN MetricOf(Collected(points), n)) = Cardinality(Containers)
  BY <1>4, <1>5, <1>6, MetricCounts
<1> QED  BY <1>7 DEF points, n

-----------------------------------------------------------------------------
(* Each object listed is counted once.                                     *)

\* what a scrape has listed is what the API server may hold
ObjectsFit ==
    /\ \A f \in ListFields : IsList(o[f])
    /\ \A f \in {"Nodes", "Namespaces", "PVs"} : UniqueBy(o[f], NameOf)
    /\ \A f \in {"Pods", "Quotas", "PVCs"} : UniqueBy(o[f], QualifiedName)
    /\ \A pod \in ToSet(o.Pods) : IsList(pod.Containers) /\ UniqueBy(pod.Containers, NameOf)
    /\ \A f \in DOMAIN NoObjects \ {"Utilization"} : o[f] = NoObjects[f] \/ \E c \in Clusters : o[f] = c[f]

FitInv ==
    /\ cluster \in Clusters /\ ObjectsFit
    /\ DOMAIN metrics = done

ItemsInv == FitInv /\ ItemsConserved

\* the metrics m count n objects of the type
CountsOf(m, type, n) == Cardinality(DOMAIN MetricOf(m, Item(type))) = n

\* what the metrics of the function f have to count
Complete(f, m) ==
    /\ f = "collect_containers" => CountsOf(m, "container", Cardinality(Containers)) /\ CountsOf(m, "pod", Len(o.Pods))
    /\ f = "collect_nodes" => CountsOf(m, "node", Len(o.Nodes))
    /\ f = "collect_quotas" => CountsOf(m, "quota", Len(o.Quotas))
    /\ f = "collect_namespace" => CountsOf(m, "namespace", Len(o.Namespaces))
    /\ f = "collect_pvs" => CountsOf(m, "pv", Len(o.PVs))
    /\ f = "collect_pvcs" => CountsOf(m, "pvc", Len(o.PVCs))

\* ItemsConserved, function by function.
LEMMA ConservedIsComplete ==
    ItemsConserved <=> (phase = "collecting" => \A f \in done : Complete(f, metrics[f]))
<1>1. \A f, n : Metric(f, n) = MetricOf(metrics[f], n)
  BY DEF Metric, MetricOf
<1> DEFINE Counted(f, type, n) == f \in done => CountsOf(metrics[f], type, n)
<1>2. ItemsConserved <=>
        (phase = "collecting" =>
            /\ Counted("collect_containers", "container", Cardinality(Containers))
            /\ Counted("collect_containers", "pod", Len(o.Pods))
            /\ Counted("collect_nodes", "node", Len(o.Nodes))
            /\ Counted("collect_quotas", "quota", Len(o.Quotas))
            /\ Counted("collect_namespace", "namespace", Len(o.Namespaces))
            /\ Counted("collect_pvs", "pv", Len(o.PVs))
            /\ Counted("collect_pvcs", "pvc", Len(o.PVCs)))
  BY <1>1 DEF ItemsConserved, CountsOf, Item
<1> QED  BY <1>2 DEF Complete

\* The same of the next state.
LEMMA ConservedNext ==
    (ItemsConserved <=> (phase = "collecting" => \A f \in done : Complete(f, metrics[f])))'
  BY ConservedIsComplete, PTL

\* Nothing listed is something the API server may hold.
LEMMA NoObjectsFit == ASSUME o = NoObjects PROVE ObjectsFit
<1>1. /\ \A f \in ListFields : o[f] = <<>>
      /\ {"Nodes", "Namespaces", "PVs", "Pods", "Quotas", "PVCs"} \subseteq ListFields
  BY DEF NoObjects, ListFields
<1>2. IsList(<<>>) /\ ToSet(<<>>) = {}
  BY DEF IsList, ToSet
<1>3. UniqueBy(<<>>, NameOf) /\ UniqueBy(<<>>, QualifiedName)
  BY DEF UniqueBy
<1>4. o.Pods = <<>>
  BY <1>1
<1>5. \A f \in ListFields : IsList(o[f]) /\ UniqueBy(o[f], NameOf) /\ UniqueBy(o[f], QualifiedName)
  BY <1>1, <1>2, <1>3
<1> QED  BY <1>1, <1>2, <1>4, <1>5 DEF ObjectsFit

\* The same of the next state.
LEMMA NoObjectsFitNext == (o = NoObjects => ObjectsFit)'
<1>1. o = NoObjects => ObjectsFit
  BY NoObjectsFit
<1> QED  BY <1>1, PTL

\* ItemsInv holds at first, and each action preserves it.
LEMMA InitItems == ASSUME Init PROVE ItemsInv
<1>1. cluster \in Clusters /\ o = NoObjects /\ metrics = Empty /\ done = {} /\ phase = "idle"
  BY DEF Init
<1>2. ObjectsFit
  BY <1>1, NoObjectsFit
<1>3. ItemsConserved
  BY <1>1 DEF ItemsConserved
<1> QED  BY <1>1, <1>2, <1>3 DEF ItemsInv, FitInv, Empty

\* A step that leaves the objects and the metrics alone.
LEMMA QuietItems ==
    ASSUME ItemsInv, UNCHANGED <<o, metrics, done>>, cluster' \in Clusters,
           phase' = "collecting" => phase = "collecting"
    PROVE  ItemsInv'
<1>1. ObjectsFit'
  BY DEF ItemsInv, FitInv, ObjectsFit
<1>2. Containers' = Containers
  BY DEF Containers
<1>3. \A f, n : Metric(f, n)' = Metric(f, n)
  BY DEF Metric
<1>4. ItemsConserved'
  BY <1>2, <1>3 DEF ItemsInv, FitInv, ItemsConserved
<1> QED  BY <1>1, <1>4 DEF ItemsInv, FitInv

\* A function that returns with metrics that count what they have to.
LEMMA ReturnsItems ==
    ASSUME ItemsInv, NEW f, NEW m, Returns(f, m), Complete(f, m), UNCHANGED <<o, cluster, phase>>
    PROVE  ItemsInv'
<1>1. f \notin done /\ done' = done \cup {f} /\ metrics' = Put(metrics, f, m) /\ phase = "collecting"
  BY DEF Returns, Turn
<1>2. /\ DOMAIN metrics' = done' /\ metrics'[f] = m
      /\ \A g \in done : metrics'[g] = metrics[g]
  BY <1>1 DEF ItemsInv, FitInv, Put
<1>3. ObjectsFit'
  BY DEF ItemsInv, FitInv, ObjectsFit
<1>4. Containers' = Containers
  BY DEF Containers
<1>5. \A g, x : Complete(g, x)' <=> Complete(g, x)
  BY <1>4 DEF Complete
<1>6. \A g \in done' : Complete(g, metrics'[g])
  <2>1. \A g \in done : Complete(g, metrics[g])
    BY <1>1, ConservedIsComplete DEF ItemsInv, FitInv
  <2> QED  BY <1>1, <1>2, <2>1
<1>7. (\A g \in done : Complete(g, metrics[g]))'
  BY <1>5, <1>6
<1>8. (ItemsConserved <=> (phase = "collecting" => \A g \in done : Complete(g, metrics[g])))'
  BY ConservedNext
<1>9. ItemsConserved'
  BY <1>7, <1>8
<1> QED  BY <1>2, <1>3, <1>9 DEF ItemsInv, FitInv

\* A scrape that begins has counted nothing.
LEMMA ListItems ==
    ASSUME FitInv, NEW bad, NEW late, NEW next \in Clusters, listCapacityObjects(bad, late, next)
    PROVE  ItemsInv'
<1>1. done' = {} /\ metrics' = Empty /\ cluster' \in Clusters
  BY DEF listCapacityObjects, ItemsInv, FitInv
<1> DEFINE List(f) == CHOOSE l \in DOMAIN FieldOf : FieldOf[l] = f
           Field(f) == IF f = "Utilization" THEN responses ELSE Listed(List(f), bad, late, next)
<1>2. o' = NoObjects \/ o' = [f \in DOMAIN NoObjects |-> Field(f)]
  <2> HIDE DEF List
  <2> QED  BY DEF listCapacityObjects, List
<1>3. ObjectsFit'
  <2>1. CASE o' = NoObjects
    <3>1. (o = NoObjects => ObjectsFit)'
      BY NoObjectsFitNext
    <3> QED  BY <2>1, <3>1
  <2>2. CASE o' = [f \in DOMAIN NoObjects |-> Field(f)]
    <3>1. \A f \in ListFields : f \in DOMAIN NoObjects /\ f # "Utilization"
      BY DEF ListFields
    <3>a. \A f \in DOMAIN NoObjects \ {"Utilization"} : FieldOf[List(f)] = f
      BY DEF NoObjects, FieldOf
    <3> HIDE DEF List
    <3>b. ASSUME NEW f \in DOMAIN NoObjects, f # "Utilization"
          PROVE  o'[f] = NoObjects[f] \/ \E c \in Clusters : o'[f] = c[f]
      <4>1. o'[f] = Listed(List(f), bad, late, next)
        BY <2>2, <3>b
      <4>2. o'[f] \in {NoObjects[f], next[f], cluster[f]}
        BY <3>a, <3>b, <4>1 DEF Listed
      <4> QED  BY <4>2 DEF FitInv
    <3>3. ASSUME NEW f \in ListFields PROVE o'[f] = <<>> \/ \E c \in Clusters : o'[f] = c[f]
      <4>1. NoObjects[f] = <<>>
        BY DEF NoObjects, ListFields
      <4> QED  BY <3>1, <3>b, <4>1
    <3>4. IsList(<<>>) /\ ToSet(<<>>) = {} /\ UniqueBy(<<>>, NameOf) /\ UniqueBy(<<>>, QualifiedName)
      BY DEF IsList, ToSet, UniqueBy
    <3>5. {"Nodes", "Namespaces", "PVs", "Pods", "Quotas", "PVCs"} \subseteq ListFields
      BY DEF NoObjects, ListFields
    <3>6. \A f \in ListFields : IsList(o'[f])
      BY <3>3, <3>4, FieldsAssumption
    <3>7. \A f \in {"Nodes", "Namespaces", "PVs"} : UniqueBy(o'[f], NameOf)
      BY <3>3, <3>4, <3>5, ObjectsAssumption
    <3>8. \A f \in {"Pods", "Quotas", "PVCs"} : UniqueBy(o'[f], QualifiedName)
      BY <3>3, <3>4, <3>5, ObjectsAssumption
    <3>9. \A pod \in ToSet(o'.Pods) : IsList(pod.Containers) /\ UniqueBy(pod.Containers, NameOf)
      BY <3>3, <3>4, <3>5, FieldsAssumption, ObjectsAssumption
    <3> QED  BY <3>6, <3>7, <3>8, <3>9, <3>b DEF ObjectsFit
  <2> QED  BY <1>2, <2>1, <2>2
<1>4. ItemsConserved'
  BY <1>1 DEF ItemsConserved
<1> QED  BY <1>1, <1>3, <1>4 DEF ItemsInv, FitInv, Empty

\* Nor has a process that starts.
LEMMA RestartItems == ASSUME FitInv, Restart PROVE ItemsInv'
<1>1. done' = {} /\ metrics' = Empty /\ cluster' = cluster /\ o' = NoObjects /\ phase' = "idle"
  BY DEF Restart
<1>2. ObjectsFit'
  BY <1>1, NoObjectsFitNext
<1>3. ItemsConserved'
  BY <1>1 DEF ItemsConserved
<1> QED  BY <1>1, <1>2, <1>3 DEF ItemsInv, FitInv, Empty

\* the lists of a scrape, as the lemmas on the functions need them
LEMMA ListsFit ==
    ASSUME FitInv
    PROVE  /\ IsList(o.Pods) /\ IsList(o.Nodes) /\ IsList(o.Quotas) /\ IsList(o.Namespaces)
           /\ IsList(o.PVs) /\ IsList(o.PVCs)
           /\ UniqueBy(o.Nodes, NameOf) /\ UniqueBy(o.Namespaces, NameOf) /\ UniqueBy(o.PVs, NameOf)
           /\ UniqueBy(o.Pods, QualifiedName) /\ UniqueBy(o.Quotas, QualifiedName)
           /\ UniqueBy(o.PVCs, QualifiedName)
           /\ \A pod \in ToSet(o.Pods) : IsList(pod.Containers) /\ UniqueBy(pod.Containers, NameOf)
<1>1. {"Nodes", "Namespaces", "PVs", "Pods", "Quotas", "PVCs"} \subseteq ListFields
  BY DEF NoObjects, ListFields
<1>2. ObjectsFit
  BY DEF ItemsInv, FitInv
<1> QED  BY <1>1, <1>2 DEF ObjectsFit

\* What each collection function returns counts what it has to.
LEMMA CollectItems ==
    ASSUME ItemsReported, FitInv
    PROVE  /\ Complete("collect_pvs", Collected(ForEach(o.PVs, PVPoints)))
           /\ Complete("collect_pvcs", Collected(ForEach(o.PVCs, PVCPoints)))
           /\ Complete("collect_namespace", Collected(ForEach(o.Namespaces, NamespacePoints)))
           /\ Complete("collect_nodes", Collected(ForEach(o.Nodes, NodePoints)))
           /\ \A class : Complete("collect_quotas", Collected(PointsOfQuotas(class)))
           /\ \A found : Complete("collect_containers", Collected(PodAndContainerPoints(found)))
<1>1. CountsOf(Collected(ForEach(o.PVs, PVPoints)), "pv", Len(o.PVs))
  BY ListsFit, PVsDistinct, ListCounts DEF CountsOf
<1>2. CountsOf(Collected(ForEach(o.PVCs, PVCPoints)), "pvc", Len(o.PVCs))
  BY ListsFit, PVCsDistinct, ListCounts DEF CountsOf
<1>3. CountsOf(Collected(ForEach(o.Namespaces, NamespacePoints)), "namespace", Len(o.Namespaces))
  BY ListsFit, NamespacesDistinct, ListCounts DEF CountsOf
<1>4. CountsOf(Collected(ForEach(o.Nodes, NodePoints)), "node", Len(o.Nodes))
  BY ListsFit, NodesDistinct, ListCounts DEF CountsOf
<1>5. \A class : CountsOf(Collected(PointsOfQuotas(class)), "quota", Len(o.Quotas))
  BY ListsFit, QuotasDistinct, ListCounts DEF CountsOf
<1>6. \A found : CountsOf(Collected(PodAndContainerPoints(found)), "pod", Len(o.Pods))
  BY ListsFit, PodsDistinct, ListCounts DEF CountsOf
<1>7. \A found : CountsOf(Collected(PodAndContainerPoints(found)), "container", Cardinality(Containers))
  BY ListsFit, ContainersCounted DEF CountsOf
<1> QED  BY <1>1, <1>2, <1>3, <1>4, <1>5, <1>6, <1>7 DEF Complete

\* collectQuota.
LEMMA QuotaItems == ASSUME ItemsReported, ItemsInv, collectQuota PROVE ItemsInv'
<1> DEFINE Q == o.Quotas
           exposed == UNION {{<<i, s>> : s \in Exposed(Q[i])} : i \in {i \in DOMAIN Q : StorageClasses(Q[i]) # {}}}
           Chosen(class, i) == [s \in {e[2] : e \in {e \in exposed : e[1] = i}} |-> class[<<i, s>>]]
<1>1. PICK class : Returns("collect_quotas",
                     Collected([p \in {<<i>> : i \in DOMAIN Q} |-> QuotaPoints(Q[p[1]], Chosen(class, p[1]))]))
  BY Zenon DEF collectQuota
<1> DEFINE chosen == [i \in DOMAIN Q |-> Chosen(class, i)]
<1>2. [p \in {<<i>> : i \in DOMAIN Q} |-> QuotaPoints(Q[p[1]], Chosen(class, p[1]))] = PointsOfQuotas(chosen)
  <2> HIDE DEF Chosen
  <2>1. \A p \in {<<i>> : i \in DOMAIN Q} : chosen[p[1]] = Chosen(class, p[1])
    OBVIOUS
  <2> HIDE DEF chosen
  <2> QED  BY <2>1 DEF PointsOfQuotas, Each
<1> HIDE DEF chosen
<1>3. Returns("collect_quotas", Collected(PointsOfQuotas(chosen)))
  BY <1>1, <1>2, Zenon
<1>4. UNCHANGED <<o, cluster, phase>>
  BY Zenon DEF collectQuota, Undisturbed
<1> QED  BY <1>3, <1>4, CollectItems, ReturnsItems DEF ItemsInv

\* collectContainers.
LEMMA ContainerItems == ASSUME ItemsReported, ItemsInv, collectContainers PROVE ItemsInv'
<1>1. PICK order : Returns("collect_containers", ContainerMetrics(Found(GetContainerUsageSummary(order))))
  BY Zenon DEF collectContainers
<1> DEFINE found == Found(GetContainerUsageSummary(order))
<1>2. ContainerMetrics(found) = Collected(PodAndContainerPoints(found))
  <2> HIDE DEF found
  <2> QED  BY Zenon DEF ContainerMetrics, PodAndContainerPoints
<1>3. UNCHANGED <<o, cluster, phase>>
  BY Zenon DEF collectContainers
<1> HIDE DEF found
<1>4. Returns("collect_containers", Collected(PodAndContainerPoints(found)))
  BY <1>1, <1>2, Zenon DEF found
<1> QED  BY <1>3, <1>4, CollectItems, ReturnsItems DEF ItemsInv

\* So ItemsInv is inductive.
LEMMA NextItems == ASSUME ItemsReported, ItemsInv, [Next]_vars PROVE ItemsInv'
<1>1. CASE UNCHANGED vars
  BY <1>1, QuietItems DEF vars, ItemsInv, FitInv
<1>2. ASSUME NEW r \in Responses, Push(r) PROVE ItemsInv'
  BY <1>2, QuietItems DEF Push, scrape, ItemsInv, FitInv
<1>3. ASSUME NEW n \in DOMAIN responses, ClearMetrics(n) PROVE ItemsInv'
  BY <1>3, QuietItems DEF ClearMetrics, scrape, ItemsInv, FitInv
<1>4. ASSUME NEW c \in Clusters, ClusterChanges(c) PROVE ItemsInv'
  BY <1>4, QuietItems DEF ClusterChanges, scrape, ItemsInv, FitInv
<1>5. CASE WarmUp
  BY <1>5, QuietItems DEF WarmUp, ItemsInv, FitInv
<1>6. ASSUME NEW bad \in SUBSET MayFail, NEW late \in SUBSET MayLag, NEW next \in Clusters,
             listCapacityObjects(bad, late, next)
      PROVE  ItemsInv'
  BY <1>6, ListItems DEF ItemsInv
<1>7. CASE collectContainers
  BY <1>7, ContainerItems
<1>8. CASE collectQuota
  BY <1>8, QuotaItems
<1>9. CASE collectNodes
  <2>1. Returns("collect_nodes", Collected(ForEach(o.Nodes, NodePoints))) /\ Undisturbed
    BY <1>9, Zenon DEF collectNodes
  <2> QED  BY <2>1, CollectItems, ReturnsItems DEF Undisturbed, ItemsInv
<1>10. CASE collectPVs
  <2>1. Returns("collect_pvs", Collected(ForEach(o.PVs, PVPoints))) /\ Undisturbed
    BY <1>10, Zenon DEF collectPVs
  <2> QED  BY <2>1, CollectItems, ReturnsItems DEF Undisturbed, ItemsInv
<1>11. CASE collectPVCs
  <2>1. Returns("collect_pvcs", Collected(ForEach(o.PVCs, PVCPoints))) /\ Undisturbed
    BY <1>11, Zenon DEF collectPVCs
  <2> QED  BY <2>1, CollectItems, ReturnsItems DEF Undisturbed, ItemsInv
<1>12. CASE collectNamespaces
  <2>1. Returns("collect_namespace", Collected(ForEach(o.Namespaces, NamespacePoints))) /\ Undisturbed
    BY <1>12, Zenon DEF collectNamespaces
  <2> QED  BY <2>1, CollectItems, ReturnsItems DEF Undisturbed, ItemsInv
<1>13. CASE collectClusterScoped
  <2>1. PICK m : Returns("collect_cluster_scoped", m)
    BY <1>13, Zenon DEF collectClusterScoped
  <2>2. UNCHANGED <<o, cluster, phase>>
    BY <1>13, Zenon DEF collectClusterScoped, Undisturbed
  <2>3. Complete("collect_cluster_scoped", m)
    BY DEF Complete
  <2> QED  BY <2>1, <2>2, <2>3, ReturnsItems
<1>14. CASE collectCGroups
  <2>1. UNCHANGED <<cluster, o>>
    BY <1>14, Zenon DEF collectCGroups
  <2>2. \/ phase' = "crashed" /\ UNCHANGED <<done, metrics>>
        \/ phase' = phase /\ \E m : Returns("collect_cgroups", m)
    BY <1>14, Zenon DEF collectCGroups
  <2>3. CASE phase' = "crashed" /\ UNCHANGED <<done, metrics>>
    BY <2>1, <2>3, QuietItems DEF ItemsInv, FitInv
  <2>4. ASSUME phase' = phase, NEW m, Returns("collect_cgroups", m) PROVE ItemsInv'
    <3>1. Complete("collect_cgroups", m)
      BY DEF Complete
    <3> QED  BY <2>1, <2>4, <3>1, ReturnsItems
  <2> QED  BY <2>2, <2>3, <2>4
<1>15. CASE FinishScrape
  BY <1>15, QuietItems DEF FinishScrape, ItemsInv, FitInv
<1>16. CASE Restart
  BY <1>16, RestartItems DEF ItemsInv
<1> QED
  BY <1>1, <1>2, <1>3, <1>4, <1>5, <1>6, <1>7, <1>8, <1>9, <1>10, <1>11, <1>12, <1>13, <1>14, <1>15,
     <1>16, Zenon DEF Next

\* ItemsConserved for every cluster and configuration that reports "items":
\* whatever a scrape has listed, each object is counted once by the function
\* that collects it, because its labels name it (BuiltInLabels' SetFor...) and
\* the API server holds one object of a name.
THEOREM ItemsCounted ==
    ASSUME ItemsReported
    PROVE  Spec => []ItemsConserved
<1>1. Init => ItemsInv
  BY InitItems
<1>2. ItemsInv /\ [Next]_vars => ItemsInv'
  BY NextItems
<1>3. ItemsInv => ItemsConserved
  BY DEF ItemsInv, FitInv
<1> QED  BY <1>1, <1>2, <1>3, PTL DEF Spec

-----------------------------------------------------------------------------
(* One response for the containers and the cgroups of a node.              *)

\* FitInv by itself, which needs no value "items".
LEMMA InitFit == ASSUME Init PROVE FitInv
  BY InitItems DEF ItemsInv, FitInv

\* A function returns.
LEMMA ReturnsFit ==
    ASSUME FitInv, NEW f, NEW m, Returns(f, m), UNCHANGED <<o, cluster>>
    PROVE  FitInv'
<1>1. done' = done \cup {f} /\ metrics' = Put(metrics, f, m)
  BY DEF Returns
<1>2. DOMAIN metrics' = done'
  BY <1>1 DEF FitInv, Put
<1>3. ObjectsFit'
  BY DEF FitInv, ObjectsFit
<1> QED  BY <1>2, <1>3 DEF FitInv

\* A step lists the objects anew, starts the process again, or leaves them
\* alone while at most one function returns.
LEMMA StepKinds ==
    ASSUME [Next]_vars
    PROVE  \/ \E bad, late : \E next \in Clusters : listCapacityObjects(bad, late, next)
           \/ Restart
           \/ /\ UNCHANGED <<o, metrics, done>> /\ (cluster' = cluster \/ cluster' \in Clusters)
              /\ phase' = "collecting" => phase = "collecting"
           \/ collectCGroups
           \/ /\ UNCHANGED <<o, cluster, phase, received>>
              /\ \E f, m : Returns(f, m) /\ f # "collect_cgroups"
<1>1. CASE UNCHANGED vars
  BY <1>1 DEF vars
<1>2. ASSUME NEW r \in Responses, Push(r) PROVE UNCHANGED <<o, metrics, done, cluster, phase>>
  BY <1>2 DEF Push, scrape
<1>3. ASSUME NEW n \in DOMAIN responses, ClearMetrics(n) PROVE UNCHANGED <<o, metrics, done, cluster, phase>>
  BY <1>3 DEF ClearMetrics, scrape
<1>4. ASSUME NEW c \in Clusters, ClusterChanges(c)
      PROVE  UNCHANGED <<o, metrics, done, phase>> /\ cluster' \in Clusters
  BY <1>4 DEF ClusterChanges, scrape
<1>5. CASE WarmUp
  BY <1>5 DEF WarmUp
<1>6. CASE collectContainers
  <2>1. UNCHANGED <<o, cluster, phase, received>> /\ \E m : Returns("collect_containers", m)
    BY <1>6, Zenon DEF collectContainers
  <2> QED  BY <2>1
<1>7. CASE collectQuota
  <2>1. UNCHANGED <<o, cluster, phase, received>> /\ \E m : Returns("collect_quotas", m)
    BY <1>7, Zenon DEF collectQuota, Undisturbed
  <2> QED  BY <2>1
<1>8. CASE collectNodes
  <2>1. UNCHANGED <<o, cluster, phase, received>> /\ \E m : Returns("collect_nodes", m)
    BY <1>8, Zenon DEF collectNodes, Undisturbed
  <2> QED  BY <2>1
<1>9. CASE collectPVs
  <2>1. UNCHANGED <<o, cluster, phase, received>> /\ \E m : Returns("collect_pvs", m)
    BY <1>9, Zenon DEF collectPVs, Undisturbed
  <2> QED  BY <2>1
<1>10. CASE collectPVCs
  <2>1. UNCHANGED <<o, cluster, phase, received>> /\ \E m : Returns("collect_pvcs", m)
    BY <1>10, Zenon DEF collectPVCs, Undisturbed
  <2> QED  BY <2>1
<1>11. CASE collectNamespaces
  <2>1. UNCHANGED <<o, cluster, phase, received>> /\ \E m : Returns("collect_namespace", m)
    BY <1>11, Zenon DEF collectNamespaces, Undisturbed
  <2> QED  BY <2>1
<1>12. CASE collectClusterScoped
  <2>1. UNCHANGED <<o, cluster, phase, received>> /\ \E m : Returns("collect_cluster_scoped", m)
    BY <1>12, Zenon DEF collectClusterScoped, Undisturbed
  <2> QED  BY <2>1
<1>13. CASE FinishScrape
  BY <1>13 DEF FinishScrape
<1> QED
  BY <1>1, <1>2, <1>3, <1>4, <1>5, <1>6, <1>7, <1>8, <1>9, <1>10, <1>11, <1>12, <1>13 DEF Next

\* The two outcomes of collectCGroups.
LEMMA CGroupsStep ==
    ASSUME collectCGroups
    PROVE  /\ UNCHANGED <<cluster, o, received, usageOf>>
           /\ \/ phase' = "crashed" /\ UNCHANGED <<done, metrics>>
              \/ /\ phase' = phase
                 /\ Returns("collect_cgroups", Collected([p \in CGroups |-> CGroupPoints(o.Nodes[p[1]], p[2])]))
<1>1. UNCHANGED <<cluster, o, received, usageOf>>
  BY Zenon DEF collectCGroups
<1>2. \/ phase' = "crashed" /\ UNCHANGED <<done, metrics>>
      \/ /\ phase' = phase
         /\ Returns("collect_cgroups", Collected([p \in CGroups |-> CGroupPoints(o.Nodes[p[1]], p[2])]))
  BY Zenon DEF collectCGroups
<1> QED  BY <1>1, <1>2

\* So FitInv is inductive.
LEMMA NextFit == ASSUME FitInv, [Next]_vars PROVE FitInv'
<1>1. ASSUME NEW bad, NEW late, NEW next \in Clusters, listCapacityObjects(bad, late, next) PROVE FitInv'
  BY <1>1, ListItems DEF ItemsInv
<1>2. CASE Restart
  BY <1>2, RestartItems DEF ItemsInv
<1>3. CASE UNCHANGED <<o, metrics, done>> /\ (cluster' = cluster \/ cluster' \in Clusters)
  BY <1>3 DEF FitInv, ObjectsFit
<1>4. ASSUME NEW f, NEW m, Returns(f, m), UNCHANGED <<o, cluster>> PROVE FitInv'
  BY <1>4, ReturnsFit
<1>5. CASE collectCGroups
  <2>1. CASE UNCHANGED <<cluster, o, done, metrics>>
    BY <2>1 DEF FitInv, ObjectsFit
  <2> QED  BY <1>4, <1>5, <2>1, CGroupsStep
<1> QED  BY <1>1, <1>2, <1>3, <1>4, <1>5, StepKinds

\* Under labels that only one object has, a metric has the value of that object.
LEMMA ValueOfMetric ==
    ASSUME NEW points, NEW n, NEW p, p \in Holders(points, n),
           \A q \in Holders(points, n) : points[q][n].Labels = points[p][n].Labels => q = p
    PROVE  /\ points[p][n].Labels \in DOMAIN MetricOf(Collected(points), n)
           /\ MetricOf(Collected(points), n)[points[p][n].Labels] = points[p][n].Value
<1> DEFINE N == UNION {DOMAIN points[q] : q \in DOMAIN points}
           With(l) == {q \in Holders(points, n) : points[q][n].Labels = l}
           Latest(P) == CHOOSE x \in P : \A q \in P \ {x} : Later(x, q)
           l == points[p][n].Labels
<1>1. n \in N /\ DOMAIN Collected(points) = N
  <2>1. DOMAIN Collected(points) = N
    BY Zenon DEF Collected
  <2> QED  BY <2>1 DEF Holders
<1>2. Collected(points)[n] = [k \in LabelsAt(points, n) |-> points[Latest(With(k))][n].Value]
  <2>1. Collected(points)[n] =
            LET at      == {q \in DOMAIN points : n \in DOMAIN points[q]}
                W(k)    == {q \in at : points[q][n].Labels = k}
                La(P)   == CHOOSE x \in P : \A q \in P \ {x} : Later(x, q)
            IN  [k \in {points[q][n].Labels : q \in at} |-> points[La(W(k))][n].Value]
    BY <1>1, Zenon DEF Collected
  <2> QED  BY <2>1, Zenon DEF LabelsAt, Holders
<1>3. With(l) = {p}
  OBVIOUS
<1>4. Latest({p}) = p
  OBVIOUS
<1>5. l \in LabelsAt(points, n)
  BY DEF LabelsAt
<1>6. MetricOf(Collected(points), n) = Collected(points)[n]
  BY <1>1 DEF MetricOf
<1> HIDE DEF With, Latest, l
<1>7. Collected(points)[n][l] = points[p][n].Value /\ l \in DOMAIN Collected(points)[n]
  BY <1>2, <1>3, <1>4, <1>5
<1> QED  BY <1>6, <1>7 DEF l

\* the directory a cgroup is labelled with
BaseOf(g) == IF g.Level = <<>> THEN "." ELSE Last(g.Level)

\* The cgroups of a response that have the same base have different sources.
SourcesTellApart ==
    \A r \in Responses : \A g, h \in ToSet(r.CGroups) : \A s \in DOMAIN CGroupValues(g) :
        BaseOf(g) = BaseOf(h) /\ s \in DOMAIN CGroupValues(h) => g = h

\* the metrics m have what the response of the node n says of the cgroup g
HasCGroup(m, n, g) ==
    \A s \in DOMAIN CGroupValues(g) :
        /\ CGroupLabels(n, g) \in DOMAIN MetricOf(m, <<"cgroup", s, "cpu">>)
        /\ MetricOf(m, <<"cgroup", s, "cpu">>)[CGroupLabels(n, g)] = CGroupValues(g)[s].cpu

CGroupsPushed(m) ==
    \A n \in ToSet(o.Nodes) : n.Name \in DOMAIN o.Utilization =>
        \A g \in ToSet(received[o.Utilization[n.Name]].CGroups) : HasCGroup(m, n, g)

CGroupInv ==
    phase = "collecting" /\ "collect_cgroups" \in done => CGroupsPushed(metrics["collect_cgroups"])

\* The labels of a cgroup name its node and its base.
LEMMA CGroupNamed ==
    ASSUME NEW n, n # Nil, NEW g
    PROVE  CGroupLabels(n, g).BuiltIn["NodeName"] = n.Name /\ CGroupLabels(n, g).BuiltIn["CGroup"] = BaseOf(g)
<1> DEFINE l == NodeLabels(n)
<1>1. /\ l.BuiltIn["NodeName"] = n.Name
      /\ DOMAIN l.BuiltIn = BuiltInField /\ "BuiltIn" \in DOMAIN l
  BY NoLabelsFields, NodeNamed DEF NodeLabels, BuiltInForNode
<1>2. CGroupLabels(n, g) = [l EXCEPT !.BuiltIn = BuiltInForCGroup(@, BaseOf(g))]
  BY DEF CGroupLabels, BaseOf
<1>3. {"NodeName", "CGroup"} \subseteq BuiltInField
  BY DEF BuiltInField, BuiltInName
<1> HIDE DEF l
<1>4. CGroupLabels(n, g).BuiltIn = [l.BuiltIn EXCEPT !.CGroup = BaseOf(g)]
  BY <1>1, <1>2 DEF BuiltInForCGroup
<1> QED  BY <1>1, <1>3, <1>4

\* collectCGroups reports each cgroup of the responses of the scrape: no two of
\* them have the same name and labels.
LEMMA CGroupsComplete ==
    ASSUME SourcesTellApart, CInv, FitInv
    PROVE  CGroupsPushed(Collected([p \in CGroups |-> CGroupPoints(o.Nodes[p[1]], p[2])]))
<1> DEFINE points == [p \in CGroups |-> CGroupPoints(o.Nodes[p[1]], p[2])]
           U == o.Utilization
           N(i) == o.Nodes[i]
           G(i) == received[U[N(i).Name]].CGroups
<1>1. ASSUME NEW i \in DOMAIN o.Nodes, N(i).Name \in DOMAIN U
      PROVE  AggregatedMetrics(N(i)) = G(i) /\ received[U[N(i).Name]] \in Responses
  <2>1. U[N(i).Name] \in DOMAIN received
    BY <1>1 DEF CInv, Cached
  <2>2. heap[U[N(i).Name]].CGroups = received[U[N(i).Name]].CGroups
    BY <2>1 DEF CInv, HeapInv, Kept
  <2>3. received[U[N(i).Name]] \in Responses
    BY <2>1 DEF CInv, HeapInv
  <2> QED  BY <2>2, <2>3 DEF AggregatedMetrics
<1>2. CGroups = UNION {{<<i, j>> : j \in DOMAIN AggregatedMetrics(N(i))} :
                       i \in {i \in DOMAIN o.Nodes : N(i).Name \in DOMAIN U}}
  BY DEF CGroups
<1> HIDE DEF G, N, U
<1>3. \A i \in DOMAIN o.Nodes : N(i).Name \in DOMAIN U => \A j \in DOMAIN G(i) : <<i, j>> \in CGroups
  BY <1>1, <1>2
<1>4. \A p \in CGroups : /\ p = <<p[1], p[2]>> /\ p[1] \in DOMAIN o.Nodes /\ N(p[1]).Name \in DOMAIN U
                         /\ p[2] \in DOMAIN G(p[1])
  BY <1>1, <1>2
<1>5. \A p \in CGroups : points[p] =
         Points("cgroup", CGroupValues(G(p[1])[p[2]]), CGroupLabels(N(p[1]), G(p[1])[p[2]]), {"cpu", "memory"})
  BY <1>1, <1>4 DEF CGroupPoints, N
<1>6. DOMAIN points = CGroups
  OBVIOUS
<1> HIDE DEF points
<1>7. SUFFICES ASSUME NEW i \in DOMAIN o.Nodes, N(i).Name \in DOMAIN U, NEW j \in DOMAIN G(i)
               PROVE  HasCGroup(Collected(points), N(i), G(i)[j])
  BY DEF CGroupsPushed, ToSet, N, G, U, points
<1> DEFINE g == G(i)[j]
           p == <<i, j>>
<1>8. SUFFICES ASSUME NEW s \in DOMAIN CGroupValues(g)
               PROVE  /\ CGroupLabels(N(i), g) \in DOMAIN MetricOf(Collected(points), <<"cgroup", s, "cpu">>)
                      /\ MetricOf(Collected(points), <<"cgroup", s, "cpu">>)[CGroupLabels(N(i), g)]
                            = CGroupValues(g)[s].cpu
  BY DEF HasCGroup
<1> DEFINE n == <<"cgroup", s, "cpu">>
<1>9. ASSUME NEW x PROVE "cpu" \in DOMAIN CGroupValues(x)[s] \/ s \notin DOMAIN CGroupValues(x)
  BY DEF CGroupValues
<1>10. p \in CGroups /\ p[1] = i /\ p[2] = j
  BY <1>3, <1>7
<1>11. /\ n \in DOMAIN points[p] /\ points[p][n].Labels = CGroupLabels(N(i), g)
       /\ points[p][n].Value = CGroupValues(g)[s]["cpu"]
  <2>1. n[2] = s /\ n[3] = "cpu"
    OBVIOUS
  <2>2. "cpu" \in DOMAIN CGroupValues(g)[s] \cap {"cpu", "memory"}
    BY <1>9
  <2> HIDE DEF g, p
  <2> QED  BY <1>5, <1>10, <2>1, <2>2, PointsHave DEF g
<1>12. ASSUME NEW q \in Holders(points, n), points[q][n].Labels = points[p][n].Labels
       PROVE  q = p
  <2> DEFINE k == q[1]
             h == G(k)[q[2]]
  <2>1. q \in CGroups /\ n \in DOMAIN points[q]
    BY <1>6 DEF Holders
  <2>2. q = <<k, q[2]>> /\ k \in DOMAIN o.Nodes /\ N(k).Name \in DOMAIN U /\ q[2] \in DOMAIN G(k)
    BY <1>4, <2>1
  <2>3. points[q] = Points("cgroup", CGroupValues(h), CGroupLabels(N(k), h), {"cpu", "memory"})
    BY <1>5, <2>1
  <2>4. points[q][n].Labels = CGroupLabels(N(k), h) /\ s \in DOMAIN CGroupValues(h)
    <3>1. points[q][n].Labels = CGroupLabels(N(k), h)
      <4> HIDE DEF h, n
      <4> QED  BY <2>1, <2>3, PointsHave
    <3>2. s \in DOMAIN CGroupValues(h)
      <4> HIDE DEF h
      <4> QED  BY <2>1, <2>3 DEF Points
    <3> QED  BY <3>1, <3>2
  <2>5. N(i) # Nil /\ N(k) # Nil
    <3>1. IsList(o.Nodes)
      BY ListsFit
    <3> QED  BY <1>7, <2>2, <3>1 DEF IsList, ToSet, N
  <2>6. N(i).Name = N(k).Name /\ BaseOf(g) = BaseOf(h)
    <3> DEFINE K(x, y) == /\ CGroupLabels(x, y).BuiltIn["NodeName"] = x.Name
                          /\ CGroupLabels(x, y).BuiltIn["CGroup"] = BaseOf(y)
    <3>1. K(N(i), g)
      BY <2>5, CGroupNamed
    <3>2. K(N(k), h)
      BY <2>5, CGroupNamed
    <3>3. CGroupLabels(N(i), g) = CGroupLabels(N(k), h)
      BY <1>11, <1>12, <2>4
    <3> HIDE DEF g, h
    <3> QED  BY <3>1, <3>2, <3>3
  <2>7. i = k
    <3>1. UniqueBy(o.Nodes, NameOf)
      BY ListsFit, Zenon
    <3> QED  BY <1>7, <2>2, <2>6, <3>1 DEF UniqueBy, NameOf, N
  <2>8. received[U[N(i).Name]] \in Responses /\ G(i) = received[U[N(i).Name]].CGroups
    BY <1>1, <1>7 DEF G, N, U
  <2>9. g \in ToSet(G(i)) /\ h \in ToSet(G(i)) /\ h = G(i)[q[2]] /\ q[2] \in DOMAIN G(i)
    BY <1>7, <2>2, <2>7 DEF ToSet
  <2>10. g = h
    <3> DEFINE r == received[U[N(i).Name]]
    <3>1. r \in Responses /\ g \in ToSet(r.CGroups) /\ h \in ToSet(r.CGroups)
      BY <2>8, <2>9
    <3>2. s \in DOMAIN CGroupValues(g) /\ s \in DOMAIN CGroupValues(h) /\ BaseOf(g) = BaseOf(h)
      BY <1>8, <2>4, <2>6
    <3> HIDE DEF g, h, r
    <3> QED  BY <3>1, <3>2 DEF SourcesTellApart
  <2>11. j = q[2]
    BY <1>7, <2>8, <2>9, <2>10, ObjectsAssumption DEF IsInjective
  <2> QED  BY <2>2, <2>7, <2>11
<1>13. p \in Holders(points, n)
  BY <1>6, <1>10, <1>11 DEF Holders
<1> HIDE DEF n, p, g
<1>14. /\ points[p][n].Labels \in DOMAIN MetricOf(Collected(points), n)
       /\ MetricOf(Collected(points), n)[points[p][n].Labels] = points[p][n].Value
  BY <1>12, <1>13, ValueOfMetric
<1> QED  BY <1>11, <1>14 DEF n

\* Responses are only ever added.
LEMMA ReceivedGrows ==
    ASSUME [Next]_vars, received \in Seq(Responses)
    PROVE  \A h \in DOMAIN received : h \in DOMAIN received' /\ received'[h] = received[h]
<1>1. received' = received \/ \E r \in Responses : received' = Append(received, r)
  <2>1. ASSUME NEW r \in Responses, Push(r) PROVE received' = Append(received, r)
    BY <2>1 DEF Push
  <2>2. CASE UNCHANGED vars
    BY <2>2 DEF vars
  <2>3. ASSUME NEW n \in DOMAIN responses, ClearMetrics(n) PROVE received' = received
    BY <2>3 DEF ClearMetrics
  <2>4. ASSUME NEW c \in Clusters, ClusterChanges(c) PROVE received' = received
    BY <2>4 DEF ClusterChanges
  <2>5. CASE WarmUp
    BY <2>5 DEF WarmUp
  <2>6. ASSUME NEW bad \in SUBSET MayFail, NEW late \in SUBSET MayLag, NEW next \in Clusters,
               listCapacityObjects(bad, late, next)
        PROVE  received' = received
    BY <2>6, Zenon DEF listCapacityObjects
  <2>7. CASE collectContainers
    BY <2>7, Zenon DEF collectContainers
  <2>8. CASE collectQuota \/ collectNodes \/ collectPVs \/ collectPVCs \/ collectNamespaces \/ collectClusterScoped
    <3>1. Undisturbed
      BY <2>8, Zenon DEF collectQuota, collectNodes, collectPVs, collectPVCs, collectNamespaces, collectClusterScoped
    <3> QED  BY <3>1 DEF Undisturbed
  <2>9. CASE collectCGroups
    BY <2>9, CGroupsStep
  <2>10. CASE FinishScrape \/ Restart
    BY <2>10 DEF FinishScrape, Restart
  <2> QED
    BY <2>1, <2>2, <2>3, <2>4, <2>5, <2>6, <2>7, <2>8, <2>9, <2>10, Zenon DEF Next
<1>2. ASSUME NEW r \in Responses, received' = Append(received, r), NEW h \in DOMAIN received
      PROVE  h \in DOMAIN received' /\ received'[h] = received[h]
  BY <1>2
<1> QED  BY <1>1, <1>2

\* No cgroups are reported at first.
LEMMA InitCGroups == ASSUME Init PROVE CGroupInv
  BY DEF Init, CGroupInv

\* What the scrape has taken stays what was pushed.
LEMMA PushedStays ==
    ASSUME CInv, [Next]_vars, UNCHANGED o, NEW m, CGroupsPushed(m)
    PROVE  CGroupsPushed(m)'
<1> DEFINE U == o.Utilization
<1>1. ASSUME NEW n, n.Name \in DOMAIN U
      PROVE  received'[U[n.Name]] = received[U[n.Name]]
  <2>1. U[n.Name] \in DOMAIN received
    BY <1>1 DEF CInv, Cached
  <2>2. received \in Seq(Responses)
    BY DEF CInv, HeapInv
  <2> QED  BY <2>1, <2>2, ReceivedGrows
<1>2. \A n, g : HasCGroup(m, n, g) <=> HasCGroup(m, n, g)'
  BY DEF HasCGroup
<1>3. SUFFICES ASSUME NEW n \in ToSet(o.Nodes), n.Name \in DOMAIN U,
                      NEW g \in ToSet(received'[U[n.Name]].CGroups)
               PROVE  HasCGroup(m, n, g)
  BY <1>2 DEF CGroupsPushed
<1> QED  BY <1>1, <1>3 DEF CGroupsPushed

\* A step that leaves the cgroups reported alone.
LEMMA CGroupsStay ==
    ASSUME CInv, CGroupInv, [Next]_vars, UNCHANGED o, phase' = "collecting" => phase = "collecting",
           "collect_cgroups" \in done' =>
               "collect_cgroups" \in done /\ metrics'["collect_cgroups"] = metrics["collect_cgroups"]
    PROVE  CGroupInv'
<1> SUFFICES ASSUME phase' = "collecting", "collect_cgroups" \in done'
             PROVE  CGroupsPushed(metrics["collect_cgroups"])'
  BY DEF CGroupInv
<1> DEFINE m == metrics["collect_cgroups"]
<1>1. CGroupsPushed(m)
  BY DEF CGroupInv
<1>2. ASSUME NEW x, CGroupsPushed(x), x = m PROVE CGroupsPushed(x)'
  BY <1>2, PushedStays
<1> QED  BY <1>1, <1>2

\* So CGroupInv is inductive, with CInv and FitInv.
LEMMA NextCGroups ==
    ASSUME SourcesTellApart, CInv, FitInv, CGroupInv, [Next]_vars
    PROVE  CGroupInv'
<1>1. ASSUME NEW bad, NEW late, NEW next \in Clusters, listCapacityObjects(bad, late, next)
      PROVE  CGroupInv'
  <2>1. done' = {}
    BY <1>1, Zenon DEF listCapacityObjects
  <2> QED  BY <2>1 DEF CGroupInv
<1>2. CASE Restart
  BY <1>2 DEF Restart, CGroupInv
<1>3. CASE UNCHANGED <<o, metrics, done>> /\ (phase' = "collecting" => phase = "collecting")
  BY <1>3, CGroupsStay
<1>4. CASE collectCGroups
  <2> DEFINE m == Collected([p \in CGroups |-> CGroupPoints(o.Nodes[p[1]], p[2])])
  <2>1. CASE phase' = "crashed"
    BY <2>1 DEF CGroupInv
  <2>2. CASE Returns("collect_cgroups", m)
    <3>1. metrics' = Put(metrics, "collect_cgroups", m)
      BY <2>2 DEF Returns
    <3>2. CGroupsPushed(m)
      BY CGroupsComplete
    <3>3. UNCHANGED <<o, received>>
      BY <1>4, CGroupsStep
    <3> HIDE DEF m
    <3>4. metrics'["collect_cgroups"] = m
      BY <3>1 DEF Put
    <3> QED  BY <3>2, <3>3, <3>4 DEF CGroupInv, CGroupsPushed, HasCGroup
  <2> QED  BY <1>4, <2>1, <2>2, CGroupsStep
<1>5. ASSUME UNCHANGED <<o, phase>>, NEW f, NEW m, Returns(f, m), f # "collect_cgroups" PROVE CGroupInv'
  <2>1. done' = done \cup {f} /\ metrics' = Put(metrics, f, m)
    BY <1>5 DEF Returns
  <2>2. "collect_cgroups" \in done' =>
            "collect_cgroups" \in done /\ metrics'["collect_cgroups"] = metrics["collect_cgroups"]
    BY <1>5, <2>1 DEF FitInv, Put
  <2> QED  BY <1>5, <2>2, CGroupsStay
<1> QED  BY <1>1, <1>2, <1>3, <1>4, <1>5, StepKinds

\* The response of a node is the one the scrape took when it began.
LEMMA ResponseOfScrape ==
    ASSUME CInv, CGroupInv
    PROVE  OneResponsePerScrape
<1> DEFINE U == o.Utilization
<1> SUFFICES ASSUME phase = "collecting", {"collect_cgroups", "collect_containers"} \subseteq done,
                    NEW n \in ToSet(o.Nodes), n.Name \in DOMAIN U
             PROVE  \E r \in DOMAIN received :
                      /\ received[r].Node = n.Name
                      /\ \A c \in Containers : usageOf[c] # Nil =>
                            (received[usageOf[c][1]].Node = n.Name => usageOf[c][1] = r)
                      /\ \A g \in ToSet(received[r].CGroups) : HasCGroup(metrics["collect_cgroups"], n, g)
  BY Zenon DEF OneResponsePerScrape, HasCGroup, Metric, MetricOf
<1> DEFINE r == U[n.Name]
<1>1. r \in DOMAIN received /\ received[r].Node = n.Name
  BY DEF CInv, Cached
<1>2. ASSUME NEW c \in Containers, usageOf[c] # Nil, received[usageOf[c][1]].Node = n.Name
      PROVE  usageOf[c][1] = r
  <2>1. usageOf[c][1] \in Range(U)
    BY <1>2 DEF CInv, OwnInv, OwnSamples
  <2>2. PICK k \in DOMAIN U : U[k] = usageOf[c][1]
    BY <2>1 DEF Range
  <2>3. received[U[k]].Node = k
    BY DEF CInv, Cached
  <2> QED  BY <1>2, <2>2, <2>3
<1>3. \A g \in ToSet(received[r].CGroups) : HasCGroup(metrics["collect_cgroups"], n, g)
  BY DEF CGroupInv, CGroupsPushed
<1> QED  BY <1>1, <1>2, <1>3

\* OneResponsePerScrape for every cluster and every order of pushes: what
\* collectContainers and collectCGroups report for a node comes from the one
\* response the scrape took for it, and every cgroup of that response is
\* reported.  The hypothesis on cgroups is needed: two directories of a response
\* with the same base and source would have the same labels.
THEOREM OneResponse ==
    ASSUME NilIsNoTuple, SourcesTellApart
    PROVE  Spec => []OneResponsePerScrape
<1> DEFINE I == CInv /\ FitInv /\ CGroupInv
<1>1. Init => I
  BY InitCInv, InitFit, InitCGroups
<1>2. I /\ [Next]_vars => I'
  BY NextCInv, NextFit, NextCGroups
<1>3. I => OneResponsePerScrape
  BY ResponseOfScrape
<1> HIDE DEF I
<1> QED  BY <1>1, <1>2, <1>3, PTL DEF Spec

-----------------------------------------------------------------------------
(* What is reported of the samples is within the limit.                    *)

\* the pods the API server may ever hold
KnownPods == UNION {ToSet(x.Pods) : x \in Clusters}

\* the containers, of any state of the cluster, that samples with the key k
\* may be found for, and their limits
Claimants(k) ==
    UNION {{x \in ToSet(p.Containers) : k \in OwnKeys(p, x.Name)} : p \in KnownPods}

LimitsFor(k, r) == {Qty(x.Limits, r) : x \in Claimants(k)}

\* the statuses s of the pod p and t of q give the same UID and id
SameIds(p, s, q, t) ==
    /\ PodUID(p) = PodUID(q)
    /\ normalizeContainerID(s.ContainerID) = normalizeContainerID(t.ContainerID)
    /\ normalizeContainerID(s.ContainerID) # ""

SameNames(p, s, q, t) == p.Namespace = q.Namespace /\ p.Name = q.Name /\ s.Name = t.Name

\* The UID of a pod and the id of a container tell which container it is.
IdsIdentify ==
    \A p, q \in KnownPods : \A s \in ToSet(p.Statuses), t \in ToSet(q.Statuses) :
        SameIds(p, s, q, t) => SameNames(p, s, q, t)

\* samples in memory have the form of those pushed
SampleFits(u, pushed) ==
    /\ {"Cpu", "Memory", "AvgCpu"} \subseteq DOMAIN u
    /\ u.Cpu \in Seq(Int) /\ Len(u.Cpu) = Len(pushed.Cpu)
    /\ u.Memory \in Seq(Int) /\ Len(u.Memory) = Len(pushed.Memory)
    /\ u.AvgCpu \in Int

\* restricted to the limit, they are what was pushed, restricted to the limit
SameWithin(limit, u, pushed, r) ==
    /\ AllAtMost(limit, SamplesOf(u, r)) = AllAtMost(limit, SamplesOf(pushed, r))
    /\ r = "cpu" => AtMost(limit, u.AvgCpu) = AtMost(limit, pushed.AvgCpu)

SampleInv(u, h, i) ==
    /\ SampleFits(u, received[h].Containers[i])
    /\ \A r \in {"cpu", "memory"}, limit \in Nat : LimitsFor(PushedKey(h, i), r) \subseteq {limit} =>
          SameWithin(limit, u, received[h].Containers[i], r)

SamplesInv ==
    \A h \in DOMAIN received : \A i \in DOMAIN received[h].Containers :
        SampleInv(heap[h].Containers[i], h, i)

\* what the metrics m show under the labels l for a container and its samples
Clamped(m, l, pod, container, pushed, r) ==
    LET limit    == Qty(container.Limits, r)
        Shown(s) == MetricOf(m, <<"container", s, r>>)[l]
    IN  ~Completed(pod) /\ pushed.Cpu # <<>> /\ pushed.Memory # <<>> =>
            /\ \A i \in DOMAIN SamplesOf(pushed, r) : Shown("utilization")[i] <= limit
            /\ r = "cpu" => Shown("avg_utilization")[1] <= limit
            /\ LimitsOf(pod, container, r) = {limit} =>
                  /\ Shown("utilization") = AllAtMost(limit, SamplesOf(pushed, r))
                  /\ r = "cpu" => Shown("avg_utilization") = <<AtMost(limit, pushed.AvgCpu)>>

\* the resources whose samples are reported
Restrictable == {"cpu", "memory"} \cap Config.Resources

ReportsClamped(m) ==
    \A c \in Containers, r \in Restrictable : usageOf[c] # Nil =>
        Clamped(m, ContainerLabels(PodOf(c), ContainerOf(c)), PodOf(c), ContainerOf(c),
                received[usageOf[c][1]].Containers[usageOf[c][2]], r)

ClampInv ==
    /\ ToSet(o.Pods) \subseteq KnownPods
    /\ SamplesInv
    /\ phase = "collecting" /\ "collect_containers" \in done /\ Config.RestrictMaxUtilization =>
          ReportsClamped(metrics["collect_containers"])

\* The least of some numbers.
LEMMA MinIsLeast ==
    ASSUME NEW S \in SUBSET Nat, S # {}
    PROVE  Min(S) \in S /\ \A x \in S : Min(S) <= x
<1>1. PICK n \in S : \A m \in S : n <= m
  BY LeastNumber
<1> QED  BY <1>1, Zenon DEF Min

\* Restricting twice to a limit is restricting once.
LEMMA AtMostTwice ==
    ASSUME NEW limit \in Nat, NEW v \in Int
    PROVE  AtMost(limit, v) \in Int /\ AtMost(limit, v) <= limit /\ AtMost(limit, AtMost(limit, v)) = AtMost(limit, v)
  BY DEF AtMost

\* The same of each of several values.
LEMMA AllAtMostTwice ==
    ASSUME NEW limit \in Nat, NEW s \in Seq(Int)
    PROVE  /\ AllAtMost(limit, s) \in Seq(Int) /\ Len(AllAtMost(limit, s)) = Len(s)
           /\ AllAtMost(limit, AllAtMost(limit, s)) = AllAtMost(limit, s)
           /\ \A i \in DOMAIN s : AllAtMost(limit, s)[i] <= limit
<1> DEFINE n == Len(s)
           t == AllAtMost(limit, s)
<1>1. n \in Nat /\ DOMAIN s = 1 .. n /\ \A i \in 1 .. n : s[i] \in Int
  OBVIOUS
<1>2. t = [i \in 1 .. n |-> AtMost(limit, s[i])]
  BY <1>1 DEF AllAtMost
<1>3. \A i \in 1 .. n : AtMost(limit, s[i]) \in Int /\ AtMost(limit, s[i]) <= limit
                        /\ AtMost(limit, AtMost(limit, s[i])) = AtMost(limit, s[i])
  BY <1>1, AtMostTwice
<1>4. t \in Seq(Int) /\ Len(t) = n
  <2>1. t \in [1 .. n -> Int]
    BY <1>2, <1>3
  <2> HIDE DEF t
  <2> QED  BY <1>1, <2>1
<1>5. AllAtMost(limit, t) = t
  <2>1. AllAtMost(limit, t) = [i \in 1 .. n |-> AtMost(limit, t[i])]
    BY <1>2 DEF AllAtMost
  <2>2. \A i \in 1 .. n : AtMost(limit, t[i]) = AtMost(limit, s[i])
    BY <1>2, <1>3
  <2> QED  BY <1>2, <2>1, <2>2
<1>6. \A i \in DOMAIN s : t[i] <= limit
  BY <1>1, <1>2, <1>3
<1> QED  BY <1>4, <1>5, <1>6

\* the least limit of some containers
Least(containers, r) == Min({Qty(x.Limits, r) : x \in containers})

\* What restriction does to the samples of some containers with limits.
LEMMA RestrictedValues ==
    ASSUME NEW u, NEW pushed, SampleFits(u, pushed), NEW containers, containers # {},
           \A x \in containers : Qty(x.Limits, "cpu") \in Nat /\ Qty(x.Limits, "memory") \in Nat,
           NEW r \in {"cpu", "memory"}
    PROVE  LET w == Restricted(u, containers)
           IN  /\ SampleFits(w, pushed)
               /\ Least(containers, r) \in {Qty(x.Limits, r) : x \in containers}
               /\ \A x \in containers : Least(containers, r) <= Qty(x.Limits, r)
               /\ IF Config.RestrictMaxUtilization
                  THEN /\ SamplesOf(w, r) = AllAtMost(Least(containers, r), SamplesOf(u, r))
                       /\ r = "cpu" => w.AvgCpu = AtMost(Least(containers, r), u.AvgCpu)
                  ELSE SamplesOf(w, r) = SamplesOf(u, r) /\ w.AvgCpu = u.AvgCpu
<1> DEFINE w == Restricted(u, containers)
           C == Least(containers, "cpu")
           M == Least(containers, "memory")
           v == IF Config.RestrictMaxUtilization
                THEN [u EXCEPT !.Cpu = AllAtMost(C, @), !.Memory = AllAtMost(M, @),
                               !.AvgCpu = AtMost(C, @)]
                ELSE u
<1>1. ASSUME NEW q \in {"cpu", "memory"}
      PROVE  /\ Least(containers, q) \in {Qty(x.Limits, q) : x \in containers}
             /\ \A x \in containers : Least(containers, q) <= Qty(x.Limits, q)
  <2> DEFINE S == {Qty(x.Limits, q) : x \in containers}
  <2>1. S \in SUBSET Nat /\ S # {} /\ \A x \in containers : Qty(x.Limits, q) \in S
    OBVIOUS
  <2>2. Least(containers, q) = Min(S)
    BY DEF Least
  <2> HIDE DEF S
  <2>3. Min(S) \in S /\ \A y \in S : Min(S) <= y
    BY <2>1, MinIsLeast
  <2> QED  BY <2>1, <2>2, <2>3 DEF S
<1>3. C \in Nat /\ M \in Nat
  BY <1>1
<1>4. w = IF ~(Config.RestrictMaxPeriods > 0) THEN v
          ELSE [v EXCEPT !.Periods = AllAtMost(Config.RestrictMaxPeriods, @),
                         !.Throttled = AllAtMost(Config.RestrictMaxPeriods, @)]
  BY Zenon DEF Restricted, Least
<1> HIDE DEF C, M
<1>6. {"Cpu", "Memory", "AvgCpu"} \subseteq DOMAIN u
  BY DEF SampleFits
<1>7. /\ DOMAIN v = DOMAIN u
      /\ v.Cpu = IF Config.RestrictMaxUtilization THEN AllAtMost(C, u.Cpu) ELSE u.Cpu
      /\ v.Memory = IF Config.RestrictMaxUtilization THEN AllAtMost(M, u.Memory) ELSE u.Memory
      /\ v.AvgCpu = IF Config.RestrictMaxUtilization THEN AtMost(C, u.AvgCpu) ELSE u.AvgCpu
  BY <1>6
<1> HIDE DEF v
<1>8. DOMAIN w = DOMAIN u /\ w.Cpu = v.Cpu /\ w.Memory = v.Memory /\ w.AvgCpu = v.AvgCpu
  BY <1>4, <1>7
<1> HIDE DEF w
<1>9. SampleFits(w, pushed)
  <2>1. v.Cpu \in Seq(Int) /\ Len(v.Cpu) = Len(pushed.Cpu)
    BY <1>3, <1>7, AllAtMostTwice DEF SampleFits
  <2>2. v.Memory \in Seq(Int) /\ Len(v.Memory) = Len(pushed.Memory)
    BY <1>3, <1>7, AllAtMostTwice DEF SampleFits
  <2>3. v.AvgCpu \in Int
    BY <1>3, <1>7, AtMostTwice DEF SampleFits
  <2> QED  BY <1>6, <1>8, <2>1, <2>2, <2>3 DEF SampleFits
<1>10. IF Config.RestrictMaxUtilization
       THEN /\ SamplesOf(w, r) = AllAtMost(Least(containers, r), SamplesOf(u, r))
            /\ r = "cpu" => w.AvgCpu = AtMost(Least(containers, r), u.AvgCpu)
       ELSE SamplesOf(w, r) = SamplesOf(u, r) /\ w.AvgCpu = u.AvgCpu
  <2>1. CASE r = "cpu"
    BY <1>7, <1>8, <2>1 DEF SamplesOf, C
  <2>2. CASE r = "memory"
    BY <1>7, <1>8, <2>2 DEF SamplesOf, M
  <2> QED  BY <2>1, <2>2
<1> QED  BY <1>1, <1>9, <1>10 DEF w

\* Samples have the form of a list of numbers.
LEMMA SamplesFit ==
    ASSUME NEW u, NEW pushed, SampleFits(u, pushed), NEW r \in {"cpu", "memory"}
    PROVE  SamplesOf(u, r) \in Seq(Int) /\ Len(SamplesOf(u, r)) = Len(SamplesOf(pushed, r)) /\ u.AvgCpu \in Int
  BY DEF SampleFits, SamplesOf

\* Restriction by containers that the samples may be found for.
LEMMA RestrictedSample ==
    ASSUME NEW u, NEW h, NEW i, SampleInv(u, h, i), NEW containers,
           containers \subseteq Claimants(PushedKey(h, i)),
           \A x \in containers : Qty(x.Limits, "cpu") \in Nat /\ Qty(x.Limits, "memory") \in Nat
    PROVE  SampleInv(Restricted(u, containers), h, i)
<1> DEFINE w == Restricted(u, containers)
           pushed == received[h].Containers[i]
<1>1. CASE containers = {}
  BY <1>1 DEF Restricted
<1>2. CASE containers # {}
  <2>1. SampleFits(u, pushed)
    BY DEF SampleInv
  <2>2. ASSUME NEW r \in {"cpu", "memory"}
        PROVE  /\ SampleFits(w, pushed) /\ Least(containers, r) \in {Qty(x.Limits, r) : x \in containers}
               /\ IF Config.RestrictMaxUtilization
                  THEN /\ SamplesOf(w, r) = AllAtMost(Least(containers, r), SamplesOf(u, r))
                       /\ r = "cpu" => w.AvgCpu = AtMost(Least(containers, r), u.AvgCpu)
                  ELSE SamplesOf(w, r) = SamplesOf(u, r) /\ w.AvgCpu = u.AvgCpu
    <3> HIDE DEF pushed
    <3> QED  BY <1>2, <2>1, RestrictedValues
  <2>3. \A r : {Qty(x.Limits, r) : x \in containers} \subseteq LimitsFor(PushedKey(h, i), r)
    BY DEF LimitsFor
  <2> HIDE DEF w, pushed
  <2>4. ASSUME NEW r \in {"cpu", "memory"}, NEW limit \in Nat, LimitsFor(PushedKey(h, i), r) \subseteq {limit}
        PROVE  SameWithin(limit, w, pushed, r)
    <3> DEFINE m == Least(containers, r)
    <3>1. m = limit
      BY <2>2, <2>3, <2>4
    <3>2. SameWithin(limit, u, pushed, r)
      BY <2>4 DEF SampleInv, pushed
    <3> HIDE DEF m
    <3>3. /\ AllAtMost(limit, SamplesOf(w, r)) = AllAtMost(limit, SamplesOf(u, r))
          /\ r = "cpu" => AtMost(limit, w.AvgCpu) = AtMost(limit, u.AvgCpu)
      <4>1. SamplesOf(u, r) \in Seq(Int) /\ u.AvgCpu \in Int
        BY <2>1, SamplesFit
      <4>2. /\ AllAtMost(limit, AllAtMost(limit, SamplesOf(u, r))) = AllAtMost(limit, SamplesOf(u, r))
            /\ AtMost(limit, AtMost(limit, u.AvgCpu)) = AtMost(limit, u.AvgCpu)
        BY <4>1, AtMostTwice, AllAtMostTwice
      <4>3. IF Config.RestrictMaxUtilization
            THEN SamplesOf(w, r) = AllAtMost(m, SamplesOf(u, r)) /\ (r = "cpu" => w.AvgCpu = AtMost(m, u.AvgCpu))
            ELSE SamplesOf(w, r) = SamplesOf(u, r) /\ w.AvgCpu = u.AvgCpu
        BY <2>2 DEF m
      <4> QED  BY <3>1, <4>2, <4>3
    <3> QED  BY <3>2, <3>3 DEF SameWithin
  <2>5. SampleFits(w, pushed)
    BY <2>2
  <2> QED  BY <2>4, <2>5 DEF SampleInv, w, pushed
<1> QED  BY <1>1, <1>2

\* The two kinds of keys differ, and an id key has its parts.
LEMMA KeysDiffer ==
    /\ \A a, b, c, d, e : <<"id", a, b>> # <<"name", c, d, e>>
    /\ \A a, b, c, d : <<"id", a, b>> = <<"id", c, d>> => a = c /\ b = d
<1>1. ASSUME NEW a, NEW b, NEW c, NEW d, NEW e PROVE <<"id", a, b>> # <<"name", c, d, e>>
  <2>1. <<"id", a, b>>[1] = "id" /\ <<"name", c, d, e>>[1] = "name"
    OBVIOUS
  <2> QED  BY <2>1
<1>2. ASSUME NEW a, NEW b, NEW c, NEW d, <<"id", a, b>> = <<"id", c, d>> PROVE a = c /\ b = d
  BY <1>2
<1> QED  BY <1>1, <1>2

\* A key that was pushed is claimed by the containers of one name only.
LEMMA ClaimantsAgree ==
    ASSUME IdsIdentify, NEW pod \in KnownPods, NEW container, NEW k, NEW r,
           k \in OwnKeys(pod, container.Name), \A uid, id : k = <<"id", uid, id>> => id # ""
    PROVE  LimitsFor(k, r) \subseteq LimitsOf(pod, container, r)
<1> SUFFICES ASSUME NEW p \in KnownPods, NEW x \in ToSet(p.Containers), k \in OwnKeys(p, x.Name)
             PROVE  Qty(x.Limits, r) \in LimitsOf(pod, container, r)
  BY DEF LimitsFor, Claimants
<1>1. SUFFICES p.Namespace = pod.Namespace /\ p.Name = pod.Name /\ x.Name = container.Name
  BY DEF LimitsOf, KnownPods
<1> DEFINE N(q, name) == <<"name", q.Namespace, q.Name, name>>
           I(q, name) == IdKeys(q, Mine(q, name))
<1>2. ASSUME NEW q, NEW name, k \in OwnKeys(q, name) PROVE k = N(q, name) \/ k \in I(q, name)
  <2>1. Live(q, name) \subseteq Mine(q, name)
    BY DEF Live
  <2> QED  BY <1>2, <2>1 DEF OwnKeys, IdKeys
<1> DEFINE Id(t) == normalizeContainerID(t.ContainerID)
           Has(q, name) == \E t \in ToSet(q.Statuses) :
                              k = <<"id", PodUID(q), Id(t)>> /\ t.Name = name /\ Id(t) # ""
<1>3. ASSUME NEW q, NEW name, k \in I(q, name) PROVE Has(q, name)
  <2>1. PICK t \in Mine(q, name) : k = <<"id", PodUID(q), normalizeContainerID(t.ContainerID)>>
    BY <1>3 DEF IdKeys
  <2>2. normalizeContainerID(t.ContainerID) # ""
    BY <2>1
  <2> QED  BY <2>1, <2>2 DEF Mine
<1>4. CASE k = N(pod, container.Name)
  <2>0. k \in I(p, x.Name) => Has(p, x.Name)
    <3> HIDE DEF I, Has
    <3> QED  BY <1>3
  <2>1. k \notin I(p, x.Name)
    BY <1>4, <2>0, KeysDiffer
  <2>2. k = N(p, x.Name)
    BY <1>2, <2>1
  <2> QED  BY <1>4, <2>2
<1>5. CASE k \in I(pod, container.Name)
  <2>1. PICK t \in ToSet(pod.Statuses) :
            k = <<"id", PodUID(pod), Id(t)>> /\ t.Name = container.Name /\ Id(t) # ""
    <3>1. Has(pod, container.Name)
      <4> HIDE DEF I, Has
      <4> QED  BY <1>3, <1>5
    <3> QED  BY <3>1
  <2>2. k \in I(p, x.Name)
    BY <1>2, <2>1, KeysDiffer
  <2>3. PICK e \in ToSet(p.Statuses) :
            k = <<"id", PodUID(p), Id(e)>> /\ e.Name = x.Name /\ Id(e) # ""
    <3>1. Has(p, x.Name)
      <4> HIDE DEF I, Has
      <4> QED  BY <1>3, <2>2
    <3> QED  BY <3>1
  <2>4. PodUID(p) = PodUID(pod) /\ Id(e) = Id(t)
    <3> DEFINE a == PodUID(p)
               b == Id(e)
               c == PodUID(pod)
               d == Id(t)
    <3> HIDE DEF a, b, c, d
    <3>1. k = <<"id", a, b>>
      BY <2>3 DEF a, b
    <3>2. k = <<"id", c, d>>
      BY <2>1 DEF c, d
    <3>3. <<"id", a, b>> = <<"id", c, d>>
      BY <3>1, <3>2, Zenon
    <3>4. a = c /\ b = d
      BY <3>3
    <3> QED  BY <3>4 DEF a, b, c, d
  <2>5. Id(e) # "" /\ e.Name = x.Name /\ t.Name = container.Name
    BY <2>1, <2>3
  <2>6. p.Namespace = pod.Namespace /\ p.Name = pod.Name /\ e.Name = t.Name
    <3>1. e \in ToSet(p.Statuses) /\ t \in ToSet(pod.Statuses)
      OBVIOUS
    <3>2. Id(e) # "" /\ Id(e) = Id(t) /\ PodUID(p) = PodUID(pod)
      BY <2>4, <2>5
    <3>3. SameIds(p, e, pod, t)
      BY <3>2 DEF SameIds
    <3>4. SameNames(p, e, pod, t)
      BY <3>1, <3>3 DEF IdsIdentify
    <3> QED  BY <3>4 DEF SameNames
  <2> QED  BY <2>5, <2>6
<1> QED  BY <1>2, <1>4, <1>5

\* what the values v show of the samples u
ShowsSamples(v, u, r) ==
    /\ {"utilization", "avg_utilization"} \subseteq DOMAIN v
    /\ r \in DOMAIN v["utilization"] /\ v["utilization"][r] = SamplesOf(u, r)
    /\ r \in DOMAIN v["avg_utilization"] /\ v["avg_utilization"]["cpu"] = <<u.AvgCpu>>

\* The samples of a container that runs are reported as they are.
LEMMA MeasuredShown ==
    ASSUME NEW container, NEW pod, ~Completed(pod), NEW u, u.Cpu \in Seq(Int), u.Cpu # <<>>,
           u.Memory \in Seq(Int), u.Memory # <<>>, NEW r \in {"cpu", "memory"}
    PROVE  /\ ShowsSamples(UtilizationValues(container, pod, u), u, r)
           /\ DOMAIN UtilizationValues(container, pod, u)
                  \cap {"container", "requests_allocated", "limits_allocated"} = {}
<1> DEFINE C == Stripped(pod, u.Cpu)
           M == Stripped(pod, u.Memory)
           f == [cpu |-> C, memory |-> M]
           measured == NonEmpty(f)
           requests == IF Completed(pod) THEN Empty ELSE container.Requests
           avg == Merge([cpu |-> u.AvgCpu, memory |-> u.AvgMemory], u.AvgNetwork)
           N == NonEmpty(u.Network)
           v == UtilizationValues(container, pod, u)
           d == [q \in DOMAIN measured |->
                    [i \in DOMAIN measured[q] |-> Qty(requests, q) - measured[q][i]]]
<1>1. C = u.Cpu /\ M = u.Memory
  BY DEF Stripped
<1> HIDE DEF C, M
<1>2. r \in DOMAIN measured /\ measured[r] = SamplesOf(u, r)
  <2>1. r \in DOMAIN f /\ f[r] = SamplesOf(u, r) /\ f[r] # <<>>
    BY <1>1 DEF SamplesOf
  <2> HIDE DEF f
  <2> QED  BY <2>1 DEF NonEmpty
<1>3. v = [avg_utilization |-> Single(avg), utilization |-> Merge(measured, N),
           requests_allocated_minus_utilization |-> d]
  BY Zenon DEF UtilizationValues, C, M
<1>4. "cpu" \in DOMAIN avg /\ r \in DOMAIN avg /\ avg["cpu"] = u.AvgCpu
  <2> DEFINE a == [cpu |-> u.AvgCpu, memory |-> u.AvgMemory]
  <2>1. "cpu" \in DOMAIN a /\ r \in DOMAIN a /\ a["cpu"] = u.AvgCpu
    OBVIOUS
  <2> HIDE DEF a
  <2>2. /\ "cpu" \in DOMAIN Merge(a, u.AvgNetwork) /\ r \in DOMAIN Merge(a, u.AvgNetwork)
        /\ Merge(a, u.AvgNetwork)["cpu"] = u.AvgCpu
    BY <2>1 DEF Merge
  <2> QED  BY <2>2 DEF a
<1> HIDE DEF measured, N, avg, d
<1>5. r \in DOMAIN Merge(measured, N) /\ Merge(measured, N)[r] = SamplesOf(u, r)
  BY <1>2 DEF Merge
<1>6. r \in DOMAIN Single(avg) /\ Single(avg)["cpu"] = <<u.AvgCpu>>
  BY <1>4 DEF Single
<1> HIDE DEF v
<1>7. /\ DOMAIN v = {"avg_utilization", "utilization", "requests_allocated_minus_utilization"}
      /\ v["utilization"] = Merge(measured, N) /\ v["avg_utilization"] = Single(avg)
  BY <1>3
<1> QED  BY <1>5, <1>6, <1>7 DEF v, ShowsSamples

\* So does GetValuesForContainer.
LEMMA UsageShown ==
    ASSUME NEW container, NEW pod, ~Completed(pod), NEW u, u # Nil, u.Cpu \in Seq(Int),
           u.Cpu # <<>>, u.Memory \in Seq(Int), u.Memory # <<>>, NEW r \in {"cpu", "memory"}
    PROVE  ShowsSamples(GetValuesForContainer(container, pod, u), u, r)
<1> DEFINE U == UtilizationValues(container, pod, u)
           known == Merge([container |-> Items], AllocatedValues(container, pod))
           used == Merge(known, U)
           all == Merge(used, PeriodValues(pod, u))
           v == GetValuesForContainer(container, pod, u)
<1>1. v = used \/ v = all
  BY Zenon DEF GetValuesForContainer
<1>2. DOMAIN known = {"container", "requests_allocated", "limits_allocated"}
  <2>1. DOMAIN AllocatedValues(container, pod) = {"requests_allocated", "limits_allocated"}
    BY DEF AllocatedValues
  <2> DEFINE a == [container |-> Items]
             b == AllocatedValues(container, pod)
  <2>2. DOMAIN a = {"container"}
    OBVIOUS
  <2> HIDE DEF a, b
  <2>3. DOMAIN Merge(a, b) = DOMAIN a \cup DOMAIN b
    BY DEF Merge
  <2> QED  BY <2>1, <2>2, <2>3 DEF a, b
<1>3. ShowsSamples(U, u, r)
  BY MeasuredShown
<1> HIDE DEF U, known
<1>4. \A s \in {"utilization", "avg_utilization"} : s \in DOMAIN used /\ used[s] = U[s]
  BY <1>2, <1>3 DEF Merge, ShowsSamples
<1> HIDE DEF used
<1>5. \A s \in {"utilization", "avg_utilization"} : s \in DOMAIN all /\ all[s] = U[s]
  BY <1>4 DEF Merge
<1> HIDE DEF all, v
<1>6. \A s \in {"utilization", "avg_utilization"} : s \in DOMAIN v /\ v[s] = U[s]
  BY <1>1, <1>4, <1>5
<1> QED  BY <1>3, <1>6 DEF v, ShowsSamples

\* Go's nil is none of the records, lists and keys.
NilIsNoFunction == Nil # [x \in DOMAIN Nil |-> Nil[x]]

\* Keys are tuples, and so functions.
LEMMA NilDiffers == ASSUME NilIsNoFunction PROVE NilIsNoTuple
<1>1. ASSUME NEW a, NEW b PROVE Nil # <<a, b>>
  <2>1. <<a, b>> = [x \in DOMAIN <<a, b>> |-> <<a, b>>[x]]
    OBVIOUS
  <2> QED  BY <2>1 DEF NilIsNoFunction
<1>2. ASSUME NEW a, NEW b, NEW c PROVE Nil # <<a, b, c>>
  <2>1. <<a, b, c>> = [x \in DOMAIN <<a, b, c>> |-> <<a, b, c>>[x]]
    OBVIOUS
  <2> QED  BY <2>1 DEF NilIsNoFunction
<1> QED  BY <1>1, <1>2 DEF NilIsNoTuple

\* So samples that have been restricted are there to report.
LEMMA RestrictedIsRecord ==
    ASSUME NilIsNoFunction, Config.RestrictMaxUtilization, NEW u, NEW containers, containers # {}
    PROVE  Restricted(u, containers) # Nil
<1> DEFINE C == Min({Qty(c.Limits, "cpu") : c \in containers})
           M == Min({Qty(c.Limits, "memory") : c \in containers})
           v == [u EXCEPT !.Cpu = AllAtMost(C, @), !.Memory = AllAtMost(M, @), !.AvgCpu = AtMost(C, @)]
           P == Config.RestrictMaxPeriods
           w == [v EXCEPT !.Periods = AllAtMost(P, @), !.Throttled = AllAtMost(P, @)]
           r == Restricted(u, containers)
<1>1. r = v \/ r = w
  BY Zenon DEF Restricted
<1>2. v = [x \in DOMAIN v |-> v[x]]
  <2> HIDE DEF C, M
  <2> QED  OBVIOUS
<1> HIDE DEF v
<1>3. w = [x \in DOMAIN w |-> w[x]]
  <2> HIDE DEF P
  <2> QED  OBVIOUS
<1> HIDE DEF w, r
<1>4. r # Nil
  BY <1>1, <1>2, <1>3 DEF NilIsNoFunction
<1> QED  BY <1>4 DEF r

\* The pods of a scrape are pods the API server may hold.
LEMMA PodsKnown == ObjectsFit => ToSet(o.Pods) \subseteq KnownPods
<1>1. "Pods" \in DOMAIN NoObjects \ {"Utilization"} /\ NoObjects["Pods"] = <<>>
  BY DEF NoObjects
<1>2. ASSUME ObjectsFit PROVE o["Pods"] = <<>> \/ \E c \in Clusters : o["Pods"] = c["Pods"]
  BY <1>1, <1>2 DEF ObjectsFit
<1> QED  BY <1>2 DEF ToSet, KnownPods

\* So are their containers.
LEMMA ContainersKnown ==
    ASSUME ToSet(o.Pods) \subseteq KnownPods, NEW c \in Containers
    PROVE  /\ PodOf(c) \in KnownPods /\ ContainerOf(c) \in ToSet(PodOf(c).Containers)
           /\ Qty(ContainerOf(c).Limits, "cpu") \in Nat /\ Qty(ContainerOf(c).Limits, "memory") \in Nat
           /\ Qty(ContainerOf(c).Requests, "cpu") \in Nat /\ Qty(ContainerOf(c).Requests, "memory") \in Nat
<1>1. /\ c = <<c[1], c[2]>> /\ c[1] \in DOMAIN o.Pods /\ c[2] \in DOMAIN o.Pods[c[1]].Containers
  BY DEF Containers
<1>2. PodOf(c) \in ToSet(o.Pods) /\ ContainerOf(c) \in ToSet(PodOf(c).Containers)
  BY <1>1 DEF PodOf, ContainerOf, ToSet
<1>3. PodOf(c) \in KnownPods
  BY <1>2
<1>4. PICK x \in Clusters : PodOf(c) \in ToSet(x.Pods)
  BY <1>3 DEF KnownPods
<1>5. \A r \in {"cpu", "memory"} : Qty(ContainerOf(c).Requests, r) \in Nat /\ Qty(ContainerOf(c).Limits, r) \in Nat
  BY <1>2, <1>4, FieldsAssumption
<1> QED  BY <1>2, <1>3, <1>5

\* what the containers have found, each its own samples
FoundOwn(found) == \A c \in Containers : OwnSamples(PodOf(c), ContainerOf(c).Name, found[c])

\* The containers that find the samples e may all claim them.
LEMMA FindersClaim ==
    ASSUME ToSet(o.Pods) \subseteq KnownPods, NEW found, FoundOwn(found), NEW e, e # Nil,
           NEW finders, finders \subseteq {ContainerOf(c) : c \in {c \in Containers : found[c] = e}}
    PROVE  /\ finders \subseteq Claimants(PushedKey(e[1], e[2]))
           /\ \A x \in finders : Qty(x.Limits, "cpu") \in Nat /\ Qty(x.Limits, "memory") \in Nat
<1> SUFFICES ASSUME NEW c \in Containers, found[c] = e
             PROVE  /\ ContainerOf(c) \in Claimants(PushedKey(e[1], e[2]))
                    /\ Qty(ContainerOf(c).Limits, "cpu") \in Nat /\ Qty(ContainerOf(c).Limits, "memory") \in Nat
  OBVIOUS
<1>1. PushedKey(e[1], e[2]) \in OwnKeys(PodOf(c), ContainerOf(c).Name)
  BY DEF FoundOwn, OwnSamples
<1> QED  BY <1>1, ContainersKnown DEF Claimants

\* the containers that have a value of the resource r from the source s
Having(found, s, r) ==
    {c \in Containers : s \in DOMAIN ContainerValues(found, c) /\ r \in DOMAIN ContainerValues(found, c)[s]}

LabelsOf(containers) == {ContainerLabels(PodOf(c), ContainerOf(c)) : c \in containers}

ContainerMetric(found, s, r) == MetricOf(Collected(PodAndContainerPoints(found)), <<"container", s, r>>)

\* They report it, each under its own labels.
LEMMA ContainerReports ==
    ASSUME FitInv, NEW found, NEW s, NEW r, r \in Config.Resources
    PROVE  /\ DOMAIN ContainerMetric(found, s, r) = LabelsOf(Having(found, s, r))
           /\ \A c \in Having(found, s, r) :
                 ContainerMetric(found, s, r)[ContainerLabels(PodOf(c), ContainerOf(c))]
                     = ContainerValues(found, c)[s][r]
<1> DEFINE n == <<"container", s, r>>
           points == PodAndContainerPoints(found)
           L(d) == ContainerLabels(PodOf(d), ContainerOf(d))
           V(d) == ContainerValues(found, d)
           having == {c \in Containers : s \in DOMAIN V(c) /\ r \in DOMAIN V(c)[s]}
<1>1. /\ DOMAIN points = Each(o.Pods) \cup Containers
      /\ \A i \in DOMAIN o.Pods : points[<<i>>] = PodPoints(o.Pods[i])
      /\ \A d \in Containers : points[d] = Points("container", V(d), L(d), Config.Resources)
  <2> HIDE DEF points
  <2> QED  BY PointsOfContainers DEF addValuesToMetrics, points
<1>2. ASSUME NEW pod PROVE n \notin DOMAIN PodPoints(pod)
  <2> DEFINE a == addValuesToMetrics(GetValuesForPod(pod), PodLabels(pod), "pod")
             b == addValuesToMetrics(GetValuesForSchedulerHealth(pod, Config.SchedulerHealth), PodLabels(pod),
                                     "scheduler_health")
  <2>1. DOMAIN PodPoints(pod) = DOMAIN a \cup DOMAIN b
    BY DEF PodPoints, Merge
  <2>2. \A x \in DOMAIN a : x[1] = "pod"
    BY PointsHave DEF addValuesToMetrics
  <2>3. \A x \in DOMAIN b : x[1] = "scheduler_health"
    BY PointsHave DEF addValuesToMetrics
  <2>4. n[1] = "container"
    OBVIOUS
  <2> HIDE DEF a, b, n
  <2> QED  BY <2>1, <2>2, <2>3, <2>4
<1> HIDE DEF points
<1>3. ASSUME NEW c \in having
      PROVE  n \in DOMAIN points[c] /\ points[c][n].Labels = L(c) /\ points[c][n].Value = V(c)[s][r]
  <2>1. n[2] = s /\ n[3] = r
    OBVIOUS
  <2>2. c \in Containers /\ r \in DOMAIN V(c)[s] \cap Config.Resources /\ s \in DOMAIN V(c)
    OBVIOUS
  <2> HIDE DEF V, L
  <2> QED  BY <1>1, <2>1, <2>2, PointsHave
<1>4. Holders(points, n) = having
  <2>1. \A p \in Each(o.Pods) : n \notin DOMAIN points[p]
    <3> HIDE DEF n
    <3> QED  BY <1>1, <1>2 DEF Each
  <2>2. ASSUME NEW q \in Containers, n \in DOMAIN points[q] PROVE q \in having
    <3>1. points[q] = Points("container", V(q), L(q), Config.Resources)
      BY <1>1
    <3>2. \E t \in DOMAIN V(q) : \E u \in DOMAIN V(q)[t] : n = <<"container", t, u>>
      <4> HIDE DEF V, L, n
      <4> QED  BY <2>2, <3>1 DEF Points
    <3> HIDE DEF V
    <3> QED  BY <3>2
  <2>3. \A q \in having : q \in Containers
    OBVIOUS
  <2> HIDE DEF having, n
  <2> QED  BY <1>1, <1>3, <2>1, <2>2, <2>3 DEF Holders
<1>5. \A c, d \in having : L(c) = L(d) => c = d
  BY ListsFit, ContainersDistinct
<1> HIDE DEF n, L, having
<1>6. ASSUME NEW c \in having PROVE MetricOf(Collected(points), n)[L(c)] = V(c)[s][r]
  <2>1. \A q \in Holders(points, n) : points[q][n].Labels = points[c][n].Labels => q = c
    BY <1>3, <1>4, <1>5
  <2>2. MetricOf(Collected(points), n)[points[c][n].Labels] = points[c][n].Value
    BY <1>4, <2>1, ValueOfMetric
  <2> HIDE DEF V
  <2> QED  BY <1>3, <2>2
<1>7. DOMAIN MetricOf(Collected(points), n) = {L(c) : c \in having}
  <2>1. LabelsAt(points, n) = {L(c) : c \in having}
    BY <1>3, <1>4 DEF LabelsAt
  <2> QED  BY <2>1, LabelsOfMetric
<1>8. having = Having(found, s, r)
  BY DEF Having, having, V
<1> QED  BY <1>6, <1>7, <1>8 DEF n, L, V, points, ContainerMetric, LabelsOf

\* What a container reports of the samples it has found.
LEMMA ValueReported ==
    ASSUME FitInv, NEW found, NEW c \in Containers, NEW s, NEW r \in Config.Resources,
           s \in DOMAIN ContainerValues(found, c), r \in DOMAIN ContainerValues(found, c)[s]
    PROVE  MetricOf(Collected(PodAndContainerPoints(found)), <<"container", s, r>>)
                   [ContainerLabels(PodOf(c), ContainerOf(c))]
               = ContainerValues(found, c)[s][r]
<1>1. c \in Having(found, s, r)
  BY DEF Having
<1>2. \A d \in Having(found, s, r) :
          ContainerMetric(found, s, r)[ContainerLabels(PodOf(d), ContainerOf(d))]
              = ContainerValues(found, d)[s][r]
  BY ContainerReports
<1> QED  BY <1>1, <1>2 DEF ContainerMetric

\* the containers that restrict what c has found before c reads it
Readers(found, c) ==
    {ContainerOf(d) : d \in {d \in Containers : found[d] = found[c] /\ (d = c \/ Later(c, d))}}

\* What is reported for the samples a container has found: they are restricted
\* to the least limit of those that have read them, and so to its own.
LEMMA SampleReported ==
    ASSUME NilIsNoFunction, IdsIdentify, Config.RestrictMaxUtilization, CInv, FitInv, SamplesInv,
           ToSet(o.Pods) \subseteq KnownPods, NEW found, FoundOwn(found),
           NEW c \in Containers, found[c] # Nil, NEW r \in Restrictable
    PROVE  Clamped(Collected(PodAndContainerPoints(found)), ContainerLabels(PodOf(c), ContainerOf(c)),
                   PodOf(c), ContainerOf(c), received[found[c][1]].Containers[found[c][2]], r)
<1> DEFINE pod == PodOf(c)
           container == ContainerOf(c)
           e == found[c]
           h == e[1]
           i == e[2]
           k == PushedKey(h, i)
           pushed == received[h].Containers[i]
           limit == Qty(container.Limits, r)
           readers == Readers(found, c)
           u == Entry(e)
           w == Restricted(u, readers)
           m == Least(readers, r)
           M == Collected(PodAndContainerPoints(found))
           l == ContainerLabels(pod, container)
           v == GetValuesForContainer(container, pod, w)
<1>0. r \in {"cpu", "memory"} /\ r \in Config.Resources
  BY DEF Restrictable
<1>1. h \in DOMAIN received /\ i \in DOMAIN received[h].Containers /\ k \in OwnKeys(pod, container.Name)
  <2>1. /\ h \in Range(o.Utilization) /\ i \in DOMAIN received[h].Containers
        /\ k \in OwnKeys(pod, container.Name)
    BY DEF FoundOwn, OwnSamples
  <2>2. h \in DOMAIN received
    BY <2>1, KeysKept DEF CInv
  <2> QED  BY <2>1, <2>2
<1>2. SampleInv(u, h, i)
  BY <1>1 DEF SamplesInv, Entry
<1>3. /\ readers \subseteq Claimants(k)
      /\ \A x \in readers : Qty(x.Limits, "cpu") \in Nat /\ Qty(x.Limits, "memory") \in Nat
  <2>1. readers \subseteq {ContainerOf(d) : d \in {d \in Containers : found[d] = e}}
    BY DEF Readers
  <2>2. e # Nil
    OBVIOUS
  <2> HIDE DEF readers, e
  <2>3. /\ readers \subseteq Claimants(PushedKey(e[1], e[2]))
        /\ \A x \in readers : Qty(x.Limits, "cpu") \in Nat /\ Qty(x.Limits, "memory") \in Nat
    BY <2>1, <2>2, FindersClaim
  <2> QED  BY <2>3
<1>4. container \in readers /\ pod \in KnownPods /\ limit \in Nat
  BY <1>0, ContainersKnown DEF Readers
<1>5. ContainerValues(found, c) = v
  BY DEF ContainerValues, ReadBy, Readers
<1> HIDE DEF readers, u
<1>6. /\ SampleFits(w, pushed) /\ m \in {Qty(x.Limits, r) : x \in readers} /\ m <= limit
      /\ SamplesOf(w, r) = AllAtMost(m, SamplesOf(u, r)) /\ (r = "cpu" => w.AvgCpu = AtMost(m, u.AvgCpu))
  <2>1. SampleFits(u, pushed)
    BY <1>2 DEF SampleInv
  <2> HIDE DEF pushed, container
  <2>2. /\ SampleFits(w, pushed) /\ m \in {Qty(x.Limits, r) : x \in readers}
        /\ \A x \in readers : m <= Qty(x.Limits, r)
        /\ IF Config.RestrictMaxUtilization
           THEN SamplesOf(w, r) = AllAtMost(m, SamplesOf(u, r)) /\ (r = "cpu" => w.AvgCpu = AtMost(m, u.AvgCpu))
           ELSE SamplesOf(w, r) = SamplesOf(u, r) /\ w.AvgCpu = u.AvgCpu
    BY <1>0, <1>3, <1>4, <2>1, RestrictedValues
  <2> QED  BY <1>4, <2>2
<1>7. w # Nil
  BY <1>4, RestrictedIsRecord
<1>8. m \in Nat
  BY <1>0, <1>3, <1>6
<1> HIDE DEF w, m, v, M, l
<1>9. SUFFICES ASSUME ~Completed(pod), pushed.Cpu # <<>>, pushed.Memory # <<>>
      PROVE  LET Shown(s) == MetricOf(M, <<"container", s, r>>)[l]
             IN  /\ \A j \in DOMAIN SamplesOf(pushed, r) : Shown("utilization")[j] <= limit
                 /\ r = "cpu" => Shown("avg_utilization")[1] <= limit
                 /\ LimitsOf(pod, container, r) = {limit} =>
                       /\ Shown("utilization") = AllAtMost(limit, SamplesOf(pushed, r))
                       /\ r = "cpu" => Shown("avg_utilization") = <<AtMost(limit, pushed.AvgCpu)>>
  BY Zenon DEF Clamped, M, l
<1>10. received[h] \in Responses /\ pushed.Cpu \in Seq(Int) /\ pushed.Memory \in Seq(Int) /\ pushed.AvgCpu \in Int
  <2>1. received[h] \in Responses
    BY <1>1 DEF CInv, HeapInv
  <2>2. pushed \in ToSet(received[h].Containers)
    BY <1>1 DEF ToSet
  <2> QED  BY <2>1, <2>2, FieldsAssumption
<1>11. /\ SamplesOf(u, r) \in Seq(Int) /\ Len(SamplesOf(u, r)) = Len(SamplesOf(pushed, r)) /\ u.AvgCpu \in Int
       /\ w.Cpu \in Seq(Int) /\ w.Cpu # <<>> /\ w.Memory \in Seq(Int) /\ w.Memory # <<>>
  <2>1. SampleFits(u, pushed)
    BY <1>2 DEF SampleInv
  <2>2. \A a, b \in Seq(Int) : Len(a) = Len(b) /\ a # <<>> => b # <<>>
    OBVIOUS
  <2> HIDE DEF pushed
  <2>3. w.Cpu \in Seq(Int) /\ w.Memory \in Seq(Int) /\ Len(w.Cpu) = Len(pushed.Cpu) /\ Len(w.Memory) = Len(pushed.Memory)
    BY <1>6 DEF SampleFits
  <2>4. w.Cpu # <<>> /\ w.Memory # <<>>
    BY <1>9, <1>10, <2>2, <2>3
  <2>5. SamplesOf(u, r) \in Seq(Int) /\ Len(SamplesOf(u, r)) = Len(SamplesOf(pushed, r)) /\ u.AvgCpu \in Int
    BY <1>0, <2>1, SamplesFit
  <2> QED  BY <2>3, <2>4, <2>5
<1>12. ShowsSamples(v, w, r)
  <2> HIDE DEF pod, container
  <2>1. ~Completed(pod) /\ w # Nil /\ w.Cpu \in Seq(Int) /\ w.Cpu # <<>> /\ w.Memory \in Seq(Int) /\ w.Memory # <<>>
    BY <1>7, <1>9, <1>11
  <2>2. ShowsSamples(GetValuesForContainer(container, pod, w), w, r)
    BY <1>0, <2>1, UsageShown, Zenon
  <2> QED  BY <2>2 DEF v
<1>13. /\ MetricOf(M, <<"container", "utilization", r>>)[l] = SamplesOf(w, r)
       /\ r = "cpu" => MetricOf(M, <<"container", "avg_utilization", r>>)[l] = <<w.AvgCpu>>
  <2>1. ASSUME NEW s \in {"utilization", "avg_utilization"}
        PROVE  MetricOf(M, <<"container", s, r>>)[l] = v[s][r]
    <3>1. s \in DOMAIN v /\ r \in DOMAIN v[s]
      BY <1>12 DEF ShowsSamples
    <3> QED  BY <1>0, <1>5, <3>1, ValueReported DEF M, l
  <2> QED  BY <1>12, <2>1 DEF ShowsSamples
<1> HIDE DEF pushed, limit, k, pod, container
<1>14. \A j \in DOMAIN SamplesOf(pushed, r) : SamplesOf(w, r)[j] <= limit
  <2>0. SamplesOf(pushed, r) \in Seq(Int)
    BY <1>10 DEF SamplesOf
  <2> DEFINE a == SamplesOf(pushed, r)
             b == SamplesOf(u, r)
  <2>1. a \in Seq(Int) /\ b \in Seq(Int) /\ Len(a) = Len(b) /\ SamplesOf(w, r) = AllAtMost(m, b)
    BY <1>6, <1>11, <2>0
  <2> HIDE DEF a, b
  <2>2. /\ AllAtMost(m, b) \in Seq(Int) /\ Len(AllAtMost(m, b)) = Len(b)
        /\ \A j \in DOMAIN b : AllAtMost(m, b)[j] <= m
    BY <1>8, <2>1, AllAtMostTwice
  <2> DEFINE t == AllAtMost(m, b)
  <2>3. t \in Seq(Int) /\ Len(t) = Len(b) /\ SamplesOf(w, r) = t /\ \A j \in DOMAIN b : t[j] <= m
    BY <2>1, <2>2
  <2> HIDE DEF t
  <2>4. \A j \in DOMAIN a : j \in DOMAIN b /\ t[j] \in Int
    BY <2>1, <2>3
  <2>5. \A j \in DOMAIN a : t[j] <= limit
    BY <1>4, <1>6, <1>8, <2>3, <2>4
  <2> QED  BY <2>3, <2>5 DEF a
<1>15. r = "cpu" => <<w.AvgCpu>>[1] <= limit
  <2>1. AtMost(m, u.AvgCpu) \in Int /\ AtMost(m, u.AvgCpu) <= m
    BY <1>8, <1>11, AtMostTwice
  <2> QED  BY <1>4, <1>6, <1>8, <2>1
<1>16. ASSUME LimitsOf(pod, container, r) = {limit}
       PROVE  /\ SamplesOf(w, r) = AllAtMost(limit, SamplesOf(pushed, r))
              /\ r = "cpu" => w.AvgCpu = AtMost(limit, pushed.AvgCpu)
  <2>1. \A uid, id : k = <<"id", uid, id>> => id # ""
    BY NilDiffers, KeyHasId DEF k, PushedKey
  <2>2. LimitsFor(k, r) \subseteq {limit}
    <3>1. pod \in KnownPods /\ k \in OwnKeys(pod, container.Name)
      BY <1>1, <1>4
    <3>2. LimitsFor(k, r) \subseteq LimitsOf(pod, container, r)
      BY <2>1, <3>1, ClaimantsAgree
    <3> QED  BY <1>16, <3>2
  <2>3. m = limit
    BY <1>3, <1>6, <2>2 DEF LimitsFor
  <2>4. SameWithin(limit, u, pushed, r)
    BY <1>0, <1>2, <1>4, <2>2 DEF SampleInv, k, pushed
  <2> QED  BY <1>6, <2>3, <2>4 DEF SameWithin
<1> QED  BY <1>13, <1>14, <1>15, <1>16

\* the function of the containers had returned before, and its metrics remain
StillReported ==
    phase' = "collecting" /\ "collect_containers" \in done' =>
        /\ phase = "collecting" /\ "collect_containers" \in done
        /\ UNCHANGED <<usageOf, cluster>> /\ metrics'["collect_containers"] = metrics["collect_containers"]

\* A step lists the objects anew, starts the process again, is that of the
\* containers, or leaves alone what they have reported.
LEMMA ReportKinds ==
    ASSUME FitInv, [Next]_vars
    PROVE  \/ \E bad, late : \E next \in Clusters : listCapacityObjects(bad, late, next)
           \/ Restart
           \/ collectContainers
           \/ /\ UNCHANGED o /\ StillReported
              /\ UNCHANGED <<received, heap>> \/ \E r \in Responses : Push(r)
<1> DEFINE Quiets == UNCHANGED <<o, received, heap>> /\ StillReported
<1>1. CASE UNCHANGED vars
  BY <1>1 DEF vars, StillReported
<1>2. ASSUME NEW r \in Responses, Push(r) PROVE UNCHANGED o /\ StillReported
  BY <1>2 DEF Push, scrape, StillReported
<1>3. ASSUME NEW n \in DOMAIN responses, ClearMetrics(n) PROVE Quiets
  BY <1>3 DEF ClearMetrics, scrape, StillReported
<1>4. ASSUME NEW c \in Clusters, ClusterChanges(c) PROVE Quiets
  BY <1>4 DEF ClusterChanges, scrape, StillReported
<1>5. CASE WarmUp
  BY <1>5 DEF WarmUp, StillReported
<1>6. ASSUME NEW f, f # "collect_containers", NEW m, Returns(f, m), UNCHANGED <<cluster, usageOf, phase>>
      PROVE  StillReported
  <2>1. done' = done \cup {f} /\ metrics' = Put(metrics, f, m)
    BY <1>6 DEF Returns
  <2> QED  BY <1>6, <2>1 DEF StillReported, FitInv, Put
<1>7. ASSUME Undisturbed, NEW f, f # "collect_containers", NEW m, Returns(f, m) PROVE Quiets
  BY <1>6, <1>7 DEF Undisturbed
<1>8. CASE collectQuota
  <2>1. Undisturbed /\ \E m : Returns("collect_quotas", m)
    BY <1>8, Zenon DEF collectQuota
  <2> QED  BY <1>7, <2>1
<1>9. CASE collectNodes
  <2>1. Undisturbed /\ \E m : Returns("collect_nodes", m)
    BY <1>9, Zenon DEF collectNodes
  <2> QED  BY <1>7, <2>1
<1>10. CASE collectPVs
  <2>1. Undisturbed /\ \E m : Returns("collect_pvs", m)
    BY <1>10, Zenon DEF collectPVs
  <2> QED  BY <1>7, <2>1
<1>11. CASE collectPVCs
  <2>1. Undisturbed /\ \E m : Returns("collect_pvcs", m)
    BY <1>11, Zenon DEF collectPVCs
  <2> QED  BY <1>7, <2>1
<1>12. CASE collectNamespaces
  <2>1. Undisturbed /\ \E m : Returns("collect_namespace", m)
    BY <1>12, Zenon DEF collectNamespaces
  <2> QED  BY <1>7, <2>1
<1>13. CASE collectClusterScoped
  <2>1. Undisturbed /\ \E m : Returns("collect_cluster_scoped", m)
    BY <1>13, Zenon DEF collectClusterScoped
  <2> QED  BY <1>7, <2>1
<1>14. CASE collectCGroups
  <2>1. UNCHANGED <<o, received, heap, cluster, usageOf>>
    BY <1>14, Zenon DEF collectCGroups
  <2>2. CASE phase' = "crashed"
    BY <2>1, <2>2 DEF StillReported
  <2>3. CASE phase' = phase /\ \E m : Returns("collect_cgroups", m)
    BY <1>6, <2>1, <2>3
  <2> QED  BY <1>14, <2>2, <2>3, CGroupsStep
<1>15. CASE FinishScrape
  BY <1>15 DEF FinishScrape, StillReported
<1> QED
  BY <1>1, <1>2, <1>3, <1>4, <1>5, <1>8, <1>9, <1>10, <1>11, <1>12, <1>13, <1>14, <1>15 DEF Next

\* What is in memory for a response does not depend on later ones.
LEMMA SampleStays ==
    ASSUME NEW u, NEW h, NEW i, received'[h] = received[h], SampleInv(u, h, i)
    PROVE  SampleInv(u, h, i)'
<1>1. PushedKey(h, i)' = PushedKey(h, i)
  BY DEF PushedKey
<1>2. \A k, r : LimitsFor(k, r)' = LimitsFor(k, r)
  OBVIOUS
<1> QED  BY <1>1, <1>2 DEF SampleInv

\* A response pushed is in memory as it was pushed.
LEMMA PushSamples ==
    ASSUME CInv, SamplesInv, NEW r \in Responses, Push(r)
    PROVE  SamplesInv'
<1> DEFINE n == Len(received)
<1>1. /\ received \in Seq(Responses) /\ heap \in Seq(ToSet(heap)) /\ Len(heap) = n /\ n \in Nat
      /\ DOMAIN received = 1 .. n /\ DOMAIN heap = 1 .. n
  BY DEF CInv, HeapInv
<1>2. received' = Append(received, r) /\ heap' = Append(heap, r)
  BY DEF Push
<1>3. /\ DOMAIN received' = 1 .. n + 1 /\ received'[n + 1] = r /\ \A h \in 1 .. n : received'[h] = received[h]
  BY <1>1, <1>2
<1>4. heap'[n + 1] = r /\ \A h \in 1 .. n : heap'[h] = heap[h]
  <2> DEFINE T == ToSet(heap) \cup {r}
  <2>1. heap \in Seq(T) /\ r \in T
    BY <1>1
  <2> HIDE DEF T
  <2> QED  BY <1>1, <1>2, <2>1
<1>5. ASSUME NEW h \in 1 .. n, NEW i \in DOMAIN received'[h].Containers
      PROVE  SampleInv(heap[h].Containers[i], h, i)'
  <2> DEFINE u == heap[h].Containers[i]
  <2>1. SampleInv(u, h, i) /\ received'[h] = received[h] /\ heap'[h] = heap[h]
    BY <1>1, <1>3, <1>4, <1>5 DEF SamplesInv
  <2>2. ASSUME NEW w, SampleInv(w, h, i) PROVE SampleInv(w, h, i)'
    BY <2>1, <2>2, SampleStays
  <2> QED  BY <2>1, <2>2 DEF SampleInv
<1>6. ASSUME NEW i \in DOMAIN r.Containers, NEW w, w = r.Containers[i], NEW h, h = n + 1
      PROVE  SampleInv(w, h, i)'
  <2>1. w \in ToSet(r.Containers)
    BY <1>6 DEF ToSet
  <2>2. SampleFits(w, w)
    BY <2>1, FieldsAssumption DEF SampleFits
  <2>3. \A q \in {"cpu", "memory"}, limit \in Nat : SameWithin(limit, w, w, q)
    BY DEF SameWithin
  <2> QED  BY <1>3, <1>6, <2>2, <2>3 DEF SampleInv
<1>7. \A h \in 1 .. n + 1 : h \in 1 .. n \/ h = n + 1
  BY <1>1
<1> QED  BY <1>3, <1>4, <1>5, <1>6, <1>7 DEF SamplesInv

\* The labels of a container, and what a metric shows under them, depend on the
\* objects of the scrape and on what was pushed only.
LEMMA ReportStays ==
    ASSUME CInv, [Next]_vars, UNCHANGED <<o, usageOf, cluster>>, phase = "collecting",
           "collect_containers" \in done, NEW m, ReportsClamped(m)
    PROVE  ReportsClamped(m)'
<1>1. Containers' = Containers /\ \A c : PodOf(c)' = PodOf(c) /\ ContainerOf(c)' = ContainerOf(c)
  BY DEF Containers, PodOf, ContainerOf
<1>2. \A pod, x : ContainerLabels(pod, x)' = ContainerLabels(pod, x)
  <2>1. \A pod : getWorkloadForPod(pod)' = getWorkloadForPod(pod)
    BY DEF getWorkloadForPod, getWorkloadFor
  <2>2. \A pod : PodLabels(pod)' = PodLabels(pod)
    BY <2>1 DEF PodLabels
  <2> QED  BY <2>2 DEF ContainerLabels
<1>3. ASSUME NEW c \in Containers, usageOf[c] # Nil
      PROVE  received'[usageOf[c][1]] = received[usageOf[c][1]]
  <2>1. usageOf[c][1] \in Range(o.Utilization)
    BY <1>3 DEF CInv, OwnInv, OwnSamples
  <2>2. usageOf[c][1] \in DOMAIN received
    BY <2>1, KeysKept DEF CInv
  <2>3. received \in Seq(Responses)
    BY DEF CInv, HeapInv
  <2> QED  BY <2>2, <2>3, ReceivedGrows
<1> SUFFICES ASSUME NEW c \in Containers, NEW r \in Restrictable, usageOf[c] # Nil
             PROVE  Clamped(m, ContainerLabels(PodOf(c), ContainerOf(c)), PodOf(c), ContainerOf(c),
                            received[usageOf[c][1]].Containers[usageOf[c][2]], r)'
  BY <1>1 DEF ReportsClamped, Restrictable
<1>4. Clamped(m, ContainerLabels(PodOf(c), ContainerOf(c)), PodOf(c), ContainerOf(c),
              received[usageOf[c][1]].Containers[usageOf[c][2]], r)
  BY DEF ReportsClamped
<1>5. ASSUME NEW l, NEW pod, NEW x, NEW p, Clamped(m, l, pod, x, p, r) PROVE Clamped(m, l, pod, x, p, r)'
  BY <1>5
<1> QED  BY <1>1, <1>2, <1>3, <1>4, <1>5

\* collectContainers restricts the samples that are found, and reports them.
LEMMA ContainersClamp ==
    ASSUME NilIsNoFunction, IdsIdentify, CInv, FitInv, ClampInv, collectContainers
    PROVE  ClampInv'
<1>1. PICK order \in SetToSeqs(DOMAIN o.Utilization) :
         /\ Returns("collect_containers", ContainerMetrics(Found(GetContainerUsageSummary(order))))
         /\ usageOf' = Found(GetContainerUsageSummary(order))
         /\ heap' = [h \in DOMAIN heap |-> [heap[h] EXCEPT !.Containers =
                        [i \in DOMAIN @ |-> After(Found(GetContainerUsageSummary(order)), <<h, i>>)]]]
  BY Zenon DEF collectContainers
<1>2. UNCHANGED <<cluster, received, responses, phase, o>>
  BY DEF collectContainers
<1> DEFINE found == Found(GetContainerUsageSummary(order))
           M == Collected(PodAndContainerPoints(found))
<1>3. CInv'
  BY NilDiffers, ContainersCInv
<1>4. phase = "collecting" /\ "collect_containers" \in done'
  BY <1>1, Zenon DEF Returns, Turn
<1>5. Containers' = Containers /\ \A c : PodOf(c)' = PodOf(c) /\ ContainerOf(c)' = ContainerOf(c)
  BY <1>2 DEF Containers, PodOf, ContainerOf
<1>6. \A pod, name, e : OwnSamples(pod, name, e)' <=> OwnSamples(pod, name, e)
  <2>1. \A h, i : PushedKey(h, i)' = PushedKey(h, i)
    BY <1>2 DEF PushedKey
  <2>2. PushedKeys' = PushedKeys
    BY <1>2, <2>1 DEF PushedKeys
  <2> QED  BY <1>2, <2>1, <2>2 DEF OwnSamples
<1> HIDE DEF found
<1>7. FoundOwn(found)
  <2>1. usageOf' = found
    BY <1>1 DEF found
  <2>2. \A c \in Containers : OwnSamples(PodOf(c), ContainerOf(c).Name, usageOf'[c])
    BY <1>2, <1>3, <1>4, <1>5, <1>6 DEF CInv, OwnInv
  <2> QED  BY <2>1, <2>2 DEF FoundOwn
<1>8. ToSet(o.Pods) \subseteq KnownPods /\ SamplesInv
  BY DEF ClampInv
<1>9. (ToSet(o.Pods) \subseteq KnownPods)'
  BY <1>2, <1>8
<1>10. SamplesInv'
  <2>1. /\ DOMAIN heap = DOMAIN received
        /\ \A h \in DOMAIN received : Kept(heap[h], received[h])
    BY DEF CInv, HeapInv
  <2>2. ASSUME NEW h \in DOMAIN received, NEW i \in DOMAIN received[h].Containers
        PROVE  heap'[h].Containers[i] = After(found, <<h, i>>)
    <3>1. "Containers" \in DOMAIN heap[h] /\ i \in DOMAIN heap[h].Containers
      BY <2>1 DEF Kept
    <3>2. heap'[h] = [heap[h] EXCEPT !.Containers = [j \in DOMAIN @ |-> After(found, <<h, j>>)]]
      BY <1>1, <2>1 DEF found
    <3>3. heap'[h].Containers = [j \in DOMAIN heap[h].Containers |-> After(found, <<h, j>>)]
      BY <3>1, <3>2
    <3> QED  BY <3>1, <3>3
  <2>3. ASSUME NEW h \in DOMAIN received, NEW i \in DOMAIN received[h].Containers
        PROVE  SampleInv(After(found, <<h, i>>), h, i)
    <3> DEFINE e == <<h, i>>
               finders == {ContainerOf(c) : c \in {c \in Containers : found[c] = e}}
               u == heap[h].Containers[i]
    <3>1. e # Nil /\ e[1] = h /\ e[2] = i
      BY NilDiffers DEF NilIsNoTuple
    <3>2. SampleInv(u, h, i)
      BY <1>8 DEF SamplesInv
    <3>3. After(found, e) = Restricted(u, finders)
      BY DEF After, Entry
    <3>4. /\ finders \subseteq Claimants(PushedKey(e[1], e[2]))
          /\ \A x \in finders : Qty(x.Limits, "cpu") \in Nat /\ Qty(x.Limits, "memory") \in Nat
      <4>1. finders \subseteq {ContainerOf(c) : c \in {c \in Containers : found[c] = e}}
        OBVIOUS
      <4> HIDE DEF e, finders
      <4> QED  BY <1>7, <1>8, <3>1, <4>1, FindersClaim
    <3> HIDE DEF u, finders
    <3>5. SampleInv(Restricted(u, finders), h, i)
      BY <3>1, <3>2, <3>4, RestrictedSample
    <3> QED  BY <3>3, <3>5
  <2>4. ASSUME NEW h \in DOMAIN received, NEW i \in DOMAIN received[h].Containers
        PROVE  SampleInv(heap[h].Containers[i], h, i)'
    <3>1. SampleInv(heap'[h].Containers[i], h, i)
      BY <2>2, <2>3
    <3>2. ASSUME NEW w, SampleInv(w, h, i) PROVE SampleInv(w, h, i)'
      BY <1>2, <3>2, SampleStays
    <3> QED  BY <3>1, <3>2 DEF SampleInv
  <2> QED  BY <1>2, <2>4 DEF SamplesInv
<1>11. metrics'["collect_containers"] = M
  <2>1. ContainerMetrics(found) = Collected(PodAndContainerPoints(found))
    BY Zenon DEF ContainerMetrics, PodAndContainerPoints
  <2>2. metrics' = Put(metrics, "collect_containers", M)
    BY <1>1, <2>1, Zenon DEF found, Returns
  <2> QED  BY <2>2 DEF Put
<1>12. Config.RestrictMaxUtilization => ReportsClamped(metrics["collect_containers"])'
  <2> SUFFICES ASSUME Config.RestrictMaxUtilization, NEW c \in Containers, NEW r \in Restrictable, found[c] # Nil
               PROVE  Clamped(metrics["collect_containers"], ContainerLabels(PodOf(c), ContainerOf(c)), PodOf(c),
                              ContainerOf(c), received[usageOf[c][1]].Containers[usageOf[c][2]], r)'
    BY <1>1, <1>5 DEF ReportsClamped, found, Restrictable
  <2>1. Clamped(M, ContainerLabels(PodOf(c), ContainerOf(c)), PodOf(c), ContainerOf(c),
                received[found[c][1]].Containers[found[c][2]], r)
    BY <1>7, <1>8, SampleReported
  <2>2. \A pod, x : ContainerLabels(pod, x)' = ContainerLabels(pod, x)
    <3>1. \A pod : getWorkloadForPod(pod)' = getWorkloadForPod(pod)
      BY <1>2 DEF getWorkloadForPod, getWorkloadFor
    <3>2. \A pod : PodLabels(pod)' = PodLabels(pod)
      BY <1>2, <3>1 DEF PodLabels
    <3> QED  BY <3>2 DEF ContainerLabels
  <2>3. ASSUME NEW m, NEW l, NEW pod, NEW x, NEW p, Clamped(m, l, pod, x, p, r) PROVE Clamped(m, l, pod, x, p, r)'
    BY <2>3
  <2>4. usageOf' = found
    BY <1>1 DEF found
  <2> QED  BY <1>2, <1>5, <1>11, <2>1, <2>2, <2>3, <2>4
<1> QED  BY <1>9, <1>10, <1>12 DEF ClampInv

\* ClampInv holds at first, and each action preserves it.
LEMMA InitClamp == ASSUME Init PROVE ClampInv
<1>1. received = <<>> /\ o = NoObjects /\ phase = "idle"
  BY DEF Init
<1>2. ToSet(o.Pods) = {}
  BY <1>1 DEF NoObjects, ToSet
<1>3. SamplesInv
  BY <1>1 DEF SamplesInv
<1> QED  BY <1>1, <1>2, <1>3 DEF ClampInv

\* Samples in memory that no step touches.
LEMMA SamplesStay ==
    ASSUME SamplesInv, UNCHANGED <<received, heap>>
    PROVE  SamplesInv'
<1>1. ASSUME NEW h \in DOMAIN received, NEW i \in DOMAIN received[h].Containers
      PROVE  SampleInv(heap[h].Containers[i], h, i)'
  <2>1. SampleInv(heap[h].Containers[i], h, i)
    BY DEF SamplesInv
  <2>2. ASSUME NEW w, SampleInv(w, h, i) PROVE SampleInv(w, h, i)'
    BY <2>2, SampleStays
  <2> QED  BY <2>1, <2>2 DEF SampleInv
<1> QED  BY <1>1 DEF SamplesInv

\* A scrape that begins has reported nothing.
LEMMA ListClamp ==
    ASSUME FitInv, ClampInv, NEW bad, NEW late, NEW next \in Clusters, listCapacityObjects(bad, late, next)
    PROVE  ClampInv'
<1>1. done' = {} /\ UNCHANGED <<received, heap>>
  BY DEF listCapacityObjects
<1>2. (ObjectsFit => ToSet(o.Pods) \subseteq KnownPods)'
  BY PodsKnown, PTL
<1>3. ObjectsFit'
  BY ListItems DEF ItemsInv, FitInv
<1>4. SamplesInv'
  BY <1>1, SamplesStay DEF ClampInv
<1> QED  BY <1>1, <1>2, <1>3, <1>4 DEF ClampInv

\* Nor has a process that starts.
LEMMA RestartClamp == ASSUME ClampInv, Restart PROVE ClampInv'
<1>1. o' = NoObjects /\ done' = {} /\ UNCHANGED <<received, heap>>
  BY DEF Restart
<1>2. (ToSet(o.Pods) \subseteq KnownPods)'
  BY <1>1 DEF NoObjects, ToSet
<1>3. SamplesInv'
  BY <1>1, SamplesStay DEF ClampInv
<1> QED  BY <1>1, <1>2, <1>3 DEF ClampInv

\* So ClampInv is inductive, with CInv and FitInv.
LEMMA NextClamp ==
    ASSUME NilIsNoFunction, IdsIdentify, CInv, FitInv, ClampInv, [Next]_vars
    PROVE  ClampInv'
<1>1. ASSUME NEW bad, NEW late, NEW next \in Clusters, listCapacityObjects(bad, late, next) PROVE ClampInv'
  BY <1>1, ListClamp
<1>2. CASE Restart
  BY <1>2, RestartClamp
<1>3. CASE collectContainers
  BY <1>3, ContainersClamp
<1>4. ASSUME UNCHANGED o, StillReported, UNCHANGED <<received, heap>> \/ \E r \in Responses : Push(r)
      PROVE  ClampInv'
  <2>1. SamplesInv'
    BY <1>4, SamplesStay, PushSamples DEF ClampInv
  <2>2. (ToSet(o.Pods) \subseteq KnownPods)'
    BY <1>4 DEF ClampInv
  <2>3. ASSUME phase' = "collecting", "collect_containers" \in done', Config.RestrictMaxUtilization
        PROVE  ReportsClamped(metrics["collect_containers"])'
    <3> DEFINE m == metrics["collect_containers"]
    <3>1. /\ phase = "collecting" /\ "collect_containers" \in done
          /\ UNCHANGED <<usageOf, cluster>> /\ m' = m
      BY <1>4, <2>3 DEF StillReported
    <3>2. ReportsClamped(m)
      BY <2>3, <3>1 DEF ClampInv
    <3>3. ASSUME NEW x, ReportsClamped(x) PROVE ReportsClamped(x)'
      BY <1>4, <3>1, <3>3, ReportStays
    <3>4. ASSUME NEW x, x = m PROVE ReportsClamped(x)'
      BY <3>2, <3>3, <3>4
    <3> QED  BY <3>1, <3>4
  <2> QED  BY <2>1, <2>2, <2>3 DEF ClampInv
<1> QED  BY <1>1, <1>2, <1>3, <1>4, ReportKinds

\* In terms of the metrics of the state: the invariant says what ReportedIsClamped says.
LEMMA ClampInvImplies == ASSUME ClampInv PROVE ReportedIsClamped
<1> SUFFICES ASSUME phase = "collecting" /\ "collect_containers" \in done /\ Config.RestrictMaxUtilization,
                    NEW z \in Measured
             PROVE  LET c         == z[1]
                        r         == z[2]
                        container == ContainerOf(c)
                        limit     == Qty(container.Limits, r)
                        pushed    == received[usageOf[c][1]].Containers[usageOf[c][2]]
                        Shown(s)  == Metric("collect_containers", <<"container", s, r>>)
                                        [ContainerLabels(PodOf(c), container)]
                    IN  /\ \A i \in DOMAIN SamplesOf(pushed, r) : Shown("utilization")[i] <= limit
                        /\ r = "cpu" => Shown("avg_utilization")[1] <= limit
                        /\ LimitsOf(PodOf(c), container, r) = {limit} =>
                              /\ Shown("utilization") = AllAtMost(limit, SamplesOf(pushed, r))
                              /\ r = "cpu" => Shown("avg_utilization") = <<AtMost(limit, pushed.AvgCpu)>>
  BY Zenon DEF ReportedIsClamped
<1> DEFINE c == z[1]
           r == z[2]
           pushed == received[usageOf[c][1]].Containers[usageOf[c][2]]
<1>1. /\ c \in Containers /\ r \in Restrictable /\ usageOf[c] # Nil /\ ~Completed(PodOf(c))
      /\ \A q \in {"cpu", "memory"} : SamplesOf(pushed, q) # <<>>
  BY DEF Measured, Restrictable
<1>2. pushed.Cpu # <<>> /\ pushed.Memory # <<>>
  BY <1>1 DEF SamplesOf
<1>3. Clamped(metrics["collect_containers"], ContainerLabels(PodOf(c), ContainerOf(c)), PodOf(c), ContainerOf(c),
              pushed, r)
  BY <1>1 DEF ClampInv, ReportsClamped
<1> QED  BY <1>1, <1>2, <1>3, Zenon DEF Clamped, Metric, MetricOf

\* ReportedIsClamped for every cluster, every response, any order of pushes and
\* any number of scrapes: the samples of cpu and memory and the average of cpu
\* that collectContainers reports for a container are within its limit, and are
\* what the sampler pushed up to the limit, although each scrape restricts in
\* place what the next one reads (ClampInv).  The hypotheses: Go's nil is no
\* record, and the UID of a pod and the id of a container identify the container.
THEOREM UsageWithinLimits ==
    ASSUME NilIsNoFunction, IdsIdentify
    PROVE  Spec => []ReportedIsClamped
<1> DEFINE I == CInv /\ FitInv /\ ClampInv
<1>1. Init => I
  BY InitCInv, InitFit, InitClamp
<1>2. I /\ [Next]_vars => I'
  BY NilDiffers, NextCInv, NextFit, NextClamp
<1>3. I => ReportedIsClamped
  BY ClampInvImplies
<1> HIDE DEF I
<1> QED  BY <1>1, <1>2, <1>3, PTL DEF Spec
-----------------------------------------------------------------------------
(* Sums over finite sets, by induction over their subsets.                *)

\* Induction over numbers, with a set as the parameter.
LEMMA NumberInduction ==
    ASSUME NEW P \in SUBSET Nat, 0 \in P, \A n \in P : n + 1 \in P
    PROVE  P = Nat
<1> SUFFICES ASSUME Nat \ P # {} PROVE FALSE
  OBVIOUS
<1>1. PICK n \in Nat \ P : \A m \in Nat \ P : n <= m
  <2> DEFINE B == Nat \ P
  <2>1. B \in SUBSET Nat /\ B # {}
    OBVIOUS
  <2> HIDE DEF B
  <2>2. \E n \in B : \A m \in B : n <= m
    BY <2>1, LeastNumber
  <2> QED  BY <2>2 DEF B
<1>2. n # 0 /\ n - 1 \in Nat
  OBVIOUS
<1>3. n - 1 \in P
  BY <1>1, <1>2
<1>4. (n - 1) + 1 = n
  OBVIOUS
<1> QED  BY <1>3, <1>4

\* Over finite sets, one element at a time.
LEMMA SubsetInduction ==
    ASSUME NEW U, IsFiniteSet(U), NEW P \in SUBSET (SUBSET U), {} \in P,
           \A s \in P : \A x \in U \ s : s \cup {x} \in P
    PROVE  P = SUBSET U
<1> DEFINE N == {n \in Nat : \A s \in SUBSET U : Cardinality(s) = n => s \in P}
<1>1. 0 \in N
  <2>1. \A s \in SUBSET U : Cardinality(s) = 0 => s = {}
    BY FS_Subset, FS_EmptySet
  <2> QED  BY <2>1
<1>2. ASSUME NEW n \in N
      PROVE  n + 1 \in N
  <2> SUFFICES ASSUME NEW s \in SUBSET U, Cardinality(s) = n + 1
               PROVE  s \in P
    OBVIOUS
  <2>1. s # {} /\ IsFiniteSet(s)
    BY FS_Subset, FS_EmptySet
  <2>2. PICK x \in s : TRUE
    BY <2>1
  <2> DEFINE t == s \ {x}
  <2>3. Cardinality(t) = n
    <3>1. Cardinality(t) = Cardinality(s) - 1
      BY <2>1, FS_RemoveElement
    <3> QED  BY <3>1
  <2>4. t \in P /\ x \in U \ t /\ t \cup {x} = s
    BY <2>3
  <2> HIDE DEF t
  <2> QED  BY <2>4
<1>3. N = Nat
  <2>1. N \in SUBSET Nat
    OBVIOUS
  <2> HIDE DEF N
  <2> QED  BY <1>1, <1>2, <2>1, NumberInduction
<1>4. \A s \in SUBSET U : Cardinality(s) \in Nat
  BY FS_Subset, FS_CardinalityType
<1> QED  BY <1>3, <1>4

\* A function takes a finite set to a finite set.
LEMMA FiniteImage ==
    ASSUME NEW S, IsFiniteSet(S), NEW f
    PROVE  IsFiniteSet({f[x] : x \in S})
<1> DEFINE T == {f[x] : x \in S}
           g == [x \in S |-> f[x]]
<1>1. g \in Surjection(S, T)
  BY DEF Surjection
<1> HIDE DEF T, g
<1>2. IsFiniteSet(T)
  BY <1>1, FS_Surjection
<1> QED  BY <1>2 DEF T

\* the function SumFunctionOnSet defines by recursion over subsets
IsSum(g, f, D) ==
    g = [s \in D |-> IF s = {} THEN 0
                     ELSE LET x == CHOOSE x \in s : TRUE IN f[x] + g[s \ {x}]]

\* One element less, at each step of the recursion.
LEMMA ChosenElement ==
    ASSUME NEW S, IsFiniteSet(S), NEW s \in SUBSET S, s # {}
    PROVE  LET x == CHOOSE x \in s : TRUE
           IN  /\ x \in s /\ x \in S
               /\ s \ {x} \in SUBSET S
               /\ Cardinality(s) \in Nat /\ Cardinality(s \ {x}) = Cardinality(s) - 1
               /\ Cardinality(s) > 0
<1> DEFINE x == CHOOSE x \in s : TRUE
<1>1. x \in s
  OBVIOUS
<1>2. IsFiniteSet(s)
  BY FS_Subset
<1> HIDE DEF x
<1>3. Cardinality(s \ {x}) = Cardinality(s) - 1
  BY <1>1, <1>2, FS_RemoveElement
<1>4. Cardinality(s) \in Nat /\ Cardinality(s) # 0
  BY <1>2, FS_CardinalityType, FS_EmptySet
<1> QED  BY <1>1, <1>3, <1>4 DEF x

\* It exists, by induction on the size of the subsets: the sums over subsets
\* of n elements give those over subsets of n + 1.
LEMMA SumExists ==
    ASSUME NEW S, IsFiniteSet(S), NEW f
    PROVE  \E g : IsSum(g, f, SUBSET S)
<1> DEFINE D(n) == {s \in SUBSET S : Cardinality(s) <= n}
<1> DEFINE Bad == {n \in Nat : ~ \E g : IsSum(g, f, D(n))}
<1>1. Bad = {}
  <2> SUFFICES ASSUME Bad # {} PROVE FALSE
    OBVIOUS
  <2>1. PICK n \in Bad : \A m \in Bad : n <= m
    <3>1. Bad \in SUBSET Nat
      OBVIOUS
    <3> HIDE DEF Bad
    <3> QED  BY <3>1, LeastNumber
  <2>2. \A s \in D(0) : s = {}
    <3> TAKE s \in D(0)
    <3>1. s # {} => Cardinality(s) \in Nat /\ Cardinality(s) > 0
      BY ChosenElement
    <3> QED  BY <3>1
  <2>3. n # 0
    <3>1. IsSum([s \in D(0) |-> 0], f, D(0))
      BY <2>2 DEF IsSum
    <3> QED  BY <3>1
  <2>4. n - 1 \in Nat /\ n - 1 \notin Bad
    <3>1. n \in Nat
      BY <2>1
    <3> HIDE DEF Bad
    <3> QED  BY <3>1, <2>1, <2>3
  <2>5. PICK h : IsSum(h, f, D(n - 1))
    BY <2>4
  <2> DEFINE g == [s \in D(n) |-> IF s = {} THEN 0
                        ELSE LET x == CHOOSE x \in s : TRUE IN f[x] + h[s \ {x}]]
  <2>6. ASSUME NEW s \in D(n), s # {}
        PROVE  LET x == CHOOSE x \in s : TRUE
               IN  s \ {x} \in D(n - 1) /\ s \ {x} \in D(n)
    BY <2>4, <2>6, ChosenElement
  <2>7. \A s \in D(n - 1) : s \in D(n) => g[s] = h[s]
    BY <2>5 DEF IsSum
  <2>8. ASSUME NEW s \in D(n), s # {}
        PROVE  LET x == CHOOSE x \in s : TRUE IN g[s] = f[x] + g[s \ {x}]
    BY <2>6, <2>7, <2>8
  <2>9. IsSum(g, f, D(n))
    <3>1. g = [s \in D(n) |-> g[s]]
      OBVIOUS
    <3>2. \A s \in D(n) : s = {} => g[s] = 0
      OBVIOUS
    <3> HIDE DEF g, D
    <3>3. \A s \in D(n) : g[s] = IF s = {} THEN 0
                     ELSE LET x == CHOOSE x \in s : TRUE IN f[x] + g[s \ {x}]
      BY <3>2, <2>8
    <3> QED  BY <3>1, <3>3 DEF IsSum
  <2> QED  BY <2>1, <2>9
<1>2. Cardinality(S) \in Nat /\ D(Cardinality(S)) = SUBSET S
  <2>1. Cardinality(S) \in Nat
    BY FS_CardinalityType
  <2>2. \A s \in SUBSET S : Cardinality(s) <= Cardinality(S)
    BY FS_Subset
  <2> QED  BY <2>1, <2>2
<1>3. \E g : IsSum(g, f, D(Cardinality(S)))
  <2> HIDE DEF D
  <2> QED  BY <1>1, <1>2
<1> HIDE DEF D
<1> QED  BY <1>2, <1>3

\* So a sum is a value of such a function.
LEMMA SumSolution ==
    ASSUME NEW S, IsFiniteSet(S), NEW f
    PROVE  \E g : IsSum(g, f, SUBSET S) /\ SumFunctionOnSet(f, S) = g[S]
<1> DEFINE P(g) == g = [s \in SUBSET S |-> IF s = {} THEN 0
                        ELSE LET x == CHOOSE x \in s : TRUE IN f[x] + g[s \ {x}]]
           sum  == CHOOSE g : P(g)
<1>1. SumFunctionOnSet(f, S) = sum[S]
  BY DEF SumFunctionOnSet, FoldFunctionOnSet, MapThenFoldSet
<1>2. \A g : P(g) <=> IsSum(g, f, SUBSET S)
  BY DEF IsSum
<1>3. \E g : IsSum(g, f, SUBSET S)
  BY SumExists
<1> HIDE DEF P
<1>4. IsSum(sum, f, SUBSET S)
  BY <1>2, <1>3
<1> HIDE DEF sum
<1> QED  BY <1>1, <1>4

\* Two solutions agree where the summands do.
LEMMA SumUnique ==
    ASSUME NEW S, NEW T, NEW U, NEW f, NEW e, NEW g, NEW h
    PROVE  /\ IsFiniteSet(S) /\ IsFiniteSet(T) /\ U \subseteq S /\ U \subseteq T
           /\ \A x \in U : f[x] = e[x]
           /\ IsSum(g, f, SUBSET S) /\ IsSum(h, e, SUBSET T)
           => g[U] = h[U]
<1> SUFFICES ASSUME IsFiniteSet(S), IsFiniteSet(T), U \subseteq S, U \subseteq T,
                    \A x \in U : f[x] = e[x],
                    IsSum(g, f, SUBSET S), IsSum(h, e, SUBSET T)
             PROVE  g[U] = h[U]
  OBVIOUS
<1> DEFINE N == {n \in Nat : \A s \in SUBSET U : Cardinality(s) = n => g[s] = h[s]}
<1>0. IsFiniteSet(U)
  BY FS_Subset
<1>1. 0 \in N
  <2>1. \A s \in SUBSET U : Cardinality(s) = 0 => s = {}
    BY <1>0, FS_Subset, FS_EmptySet
  <2>2. g[{}] = 0 /\ h[{}] = 0
    BY DEF IsSum
  <2> QED  BY <2>1, <2>2
<1>2. ASSUME NEW n \in N
      PROVE  n + 1 \in N
  <2> SUFFICES ASSUME NEW s \in SUBSET U, Cardinality(s) = n + 1
               PROVE  g[s] = h[s]
    OBVIOUS
  <2>1. s # {} /\ IsFiniteSet(s)
    BY <1>0, FS_Subset, FS_EmptySet
  <2> DEFINE x == CHOOSE x \in s : TRUE
             t == s \ {x}
  <2>2. x \in s /\ t \in SUBSET U /\ Cardinality(t) = n
    BY <1>0, <2>1, ChosenElement
  <2>3. g[s] = f[x] + g[t]
    <3>1. s \in SUBSET S
      OBVIOUS
    <3> QED  BY <2>1, <3>1 DEF IsSum
  <2>4. h[s] = e[x] + h[t]
    <3>1. s \in SUBSET T
      OBVIOUS
    <3> QED  BY <2>1, <3>1 DEF IsSum
  <2> HIDE DEF x, t
  <2>5. f[x] = e[x] /\ g[t] = h[t]
    BY <2>2
  <2> QED  BY <2>3, <2>4, <2>5
<1>3. N = Nat
  <2>1. N \in SUBSET Nat
    OBVIOUS
  <2> HIDE DEF N
  <2> QED  BY <1>1, <1>2, <2>1, NumberInduction
<1>4. Cardinality(U) \in Nat
  BY <1>0, FS_CardinalityType
<1> QED  BY <1>3, <1>4

\* A sum depends on the summands only.
LEMMA SumSame ==
    ASSUME NEW S, IsFiniteSet(S), NEW f, NEW e, \A x \in S : f[x] = e[x]
    PROVE  SumFunctionOnSet(f, S) = SumFunctionOnSet(e, S)
<1>1. PICK g : IsSum(g, f, SUBSET S) /\ SumFunctionOnSet(f, S) = g[S]
  BY SumSolution
<1>2. PICK h : IsSum(h, e, SUBSET S) /\ SumFunctionOnSet(e, S) = h[S]
  BY SumSolution
<1>3. S \subseteq S /\ IsSum(g, f, SUBSET S) /\ IsSum(h, e, SUBSET S)
  BY <1>1, <1>2
<1>4. g[S] = h[S]
  BY <1>3, SumUnique
<1> QED  BY <1>1, <1>2, <1>4

\* No summands.
LEMMA SumEmpty == \A f : SumFunctionOnSet(f, {}) = 0
<1> TAKE f
<1>1. PICK g : IsSum(g, f, SUBSET {}) /\ SumFunctionOnSet(f, {}) = g[{}]
  BY FS_EmptySet, SumSolution
<1> QED  BY <1>1 DEF IsSum

\* The solution gives the sums over the subsets, too.
LEMMA SumPart ==
    ASSUME NEW S, IsFiniteSet(S), NEW T \in SUBSET S, NEW f, NEW g, IsSum(g, f, SUBSET S)
    PROVE  g[T] = SumFunctionOnSet(f, T)
<1>1. IsFiniteSet(T) /\ T \subseteq S /\ T \subseteq T
  BY FS_Subset
<1>2. PICK h : IsSum(h, f, SUBSET T) /\ SumFunctionOnSet(f, T) = h[T]
  BY <1>1, SumSolution
<1>3. g[T] = h[T]
  BY <1>1, <1>2, SumUnique
<1> QED  BY <1>2, <1>3

\* One step of the recursion.
LEMMA SumChosen ==
    ASSUME NEW S, IsFiniteSet(S), S # {}, NEW f
    PROVE  LET x == CHOOSE x \in S : TRUE
           IN  SumFunctionOnSet(f, S) = f[x] + SumFunctionOnSet(f, S \ {x})
<1> DEFINE x == CHOOSE x \in S : TRUE
           T == S \ {x}
<1>1. PICK g : IsSum(g, f, SUBSET S) /\ SumFunctionOnSet(f, S) = g[S]
  BY SumSolution
<1>2. g[S] = f[x] + g[T]
  BY <1>1 DEF IsSum
<1>3. T \in SUBSET S
  OBVIOUS
<1> HIDE DEF T
<1>4. g[T] = SumFunctionOnSet(f, T)
  BY <1>1, <1>3, SumPart
<1> QED  BY <1>1, <1>2, <1>4 DEF T

\* Sums of integers are integers.
LEMMA SumType ==
    ASSUME NEW S, IsFiniteSet(S), NEW f, \A x \in S : f[x] \in Int
    PROVE  SumFunctionOnSet(f, S) \in Int
<1> DEFINE N == {n \in Nat : \A s \in SUBSET S : Cardinality(s) = n => SumFunctionOnSet(f, s) \in Int}
<1>1. 0 \in N
  <2>1. \A s \in SUBSET S : Cardinality(s) = 0 => s = {}
    BY FS_Subset, FS_EmptySet
  <2> QED  BY <2>1, SumEmpty
<1>2. ASSUME NEW n \in N
      PROVE  n + 1 \in N
  <2> SUFFICES ASSUME NEW s \in SUBSET S, Cardinality(s) = n + 1
               PROVE  SumFunctionOnSet(f, s) \in Int
    OBVIOUS
  <2>1. s # {} /\ IsFiniteSet(s)
    BY FS_Subset, FS_EmptySet
  <2> DEFINE x == CHOOSE x \in s : TRUE
             t == s \ {x}
  <2>2. x \in S /\ t \in SUBSET S /\ Cardinality(t) = n
    BY <2>1, ChosenElement
  <2>3. SumFunctionOnSet(f, s) = f[x] + SumFunctionOnSet(f, t)
    BY <2>1, SumChosen
  <2> HIDE DEF x, t
  <2>4. f[x] \in Int /\ SumFunctionOnSet(f, t) \in Int
    BY <2>2
  <2> QED  BY <2>3, <2>4
<1>3. N = Nat
  <2>1. N \in SUBSET Nat
    OBVIOUS
  <2> HIDE DEF N
  <2> QED  BY <1>1, <1>2, <2>1, NumberInduction
<1>4. Cardinality(S) \in Nat
  BY FS_CardinalityType
<1> QED  BY <1>3, <1>4

\* Any summand can be split off.
LEMMA SumRemove ==
    ASSUME NEW S, IsFiniteSet(S), NEW f, \A x \in S : f[x] \in Int, NEW a \in S
    PROVE  SumFunctionOnSet(f, S) = f[a] + SumFunctionOnSet(f, S \ {a})
<1> DEFINE Sum(s) == SumFunctionOnSet(f, s)
           N == {n \in Nat : \A s \in SUBSET S : Cardinality(s) = n =>
                                \A x \in s : Sum(s) = f[x] + Sum(s \ {x})}
<1>1. 0 \in N
  <2>1. \A s \in SUBSET S : Cardinality(s) = 0 => s = {}
    BY FS_Subset, FS_EmptySet
  <2> HIDE DEF Sum
  <2> QED  BY <2>1
<1>0. \A s \in SUBSET S : Sum(s) \in Int
  BY FS_Subset, SumType
<1>2. ASSUME NEW n \in N
      PROVE  n + 1 \in N
  <2> SUFFICES ASSUME NEW s \in SUBSET S, Cardinality(s) = n + 1, NEW x \in s
               PROVE  Sum(s) = f[x] + Sum(s \ {x})
    OBVIOUS
  <2>1. s # {} /\ IsFiniteSet(s)
    BY FS_Subset, FS_EmptySet
  <2> DEFINE y == CHOOSE y \in s : TRUE
  <2>2. y \in s /\ Sum(s) = f[y] + Sum(s \ {y})
    BY <2>1, SumChosen
  <2> HIDE DEF y, Sum
  <2>3. CASE x = y
    BY <2>2, <2>3
  <2>4. CASE x # y
    <3> DEFINE sx == s \ {x}
               sy == s \ {y}
               sxy == s \ {x, y}
    <3>1. sx \ {y} = sxy /\ sy \ {x} = sxy /\ y \in sx /\ x \in sy
      BY <2>2, <2>4
    <3>2. sx \in SUBSET S /\ sy \in SUBSET S /\ sxy \in SUBSET S
      OBVIOUS
    <3>3. Cardinality(sx) = n /\ Cardinality(sy) = n
      <4>1. Cardinality(sx) = Cardinality(s) - 1 /\ Cardinality(sy) = Cardinality(s) - 1
        BY <2>1, <2>2, FS_RemoveElement
      <4> QED  BY <4>1
    <3> HIDE DEF sx, sy, sxy
    <3>4. Sum(sx) = f[y] + Sum(sxy) /\ Sum(sy) = f[x] + Sum(sxy)
      BY <3>1, <3>2, <3>3
    <3>5. f[x] \in Int /\ f[y] \in Int /\ Sum(sxy) \in Int
      BY <1>0, <2>2, <3>2
    <3>6. Sum(s) = f[y] + Sum(sy)
      BY <2>2 DEF sy
    <3>7. Sum(s) = f[x] + Sum(sx)
      BY <3>4, <3>5, <3>6
    <3> QED  BY <3>7 DEF sx
  <2> QED  BY <2>3, <2>4
<1>3. N = Nat
  <2>1. N \in SUBSET Nat
    OBVIOUS
  <2> HIDE DEF N
  <2> QED  BY <1>1, <1>2, <2>1, NumberInduction
<1>4. Cardinality(S) \in Nat
  BY FS_CardinalityType
<1> HIDE DEF Sum
<1>5. Sum(S) = f[a] + Sum(S \ {a})
  BY <1>3, <1>4
<1> QED  BY <1>5 DEF Sum

\* A summand more.
LEMMA SumAdd ==
    ASSUME NEW S, IsFiniteSet(S), NEW a, a \notin S, NEW f, \A x \in S \cup {a} : f[x] \in Int
    PROVE  SumFunctionOnSet(f, S \cup {a}) = f[a] + SumFunctionOnSet(f, S)
<1> DEFINE T == S \cup {a}
<1>1. IsFiniteSet(T) /\ a \in T /\ \A x \in T : f[x] \in Int
  BY FS_AddElement
<1>2. T \ {a} = S
  OBVIOUS
<1> HIDE DEF T
<1>3. SumFunctionOnSet(f, T) = f[a] + SumFunctionOnSet(f, T \ {a})
  BY <1>1, SumRemove
<1> QED  BY <1>2, <1>3 DEF T

\* b names the summands e of J in S, where they are those of f; the other
\* summands of I are zero
Renames(b, I, J, S, e, f) ==
    /\ IsFiniteSet(I) /\ J \subseteq I /\ \A i, j \in J : b[i] = b[j] => i = j
    /\ \A i \in J : e[i] = f[b[i]] /\ f[b[i]] \in Int
    /\ \A i \in I \ J : e[i] = 0
    /\ \A i \in J : b[i] \in S
    /\ \A x \in S : \E i \in J : x = b[i]

\* Renaming the summands, and leaving out some that are zero.
LEMMA SumRenamed ==
    ASSUME NEW I, NEW J, NEW S, NEW b, NEW f, NEW e, Renames(b, I, J, S, e, f)
    PROVE  SumFunctionOnSet(e, I) = SumFunctionOnSet(f, S)
<1> SUFFICES ASSUME IsFiniteSet(I), J \subseteq I, \A i, j \in J : b[i] = b[j] => i = j,
                    \A i \in J : e[i] = f[b[i]] /\ f[b[i]] \in Int, \A i \in I \ J : e[i] = 0,
                    \A i \in J : b[i] \in S, \A x \in S : \E i \in J : x = b[i]
             PROVE  SumFunctionOnSet(e, I) = SumFunctionOnSet(f, S)
  BY DEF Renames
<1> DEFINE Img(K) == {b[i] : i \in K \cap J}
           P == {K \in SUBSET I : SumFunctionOnSet(e, K) = SumFunctionOnSet(f, Img(K))}
<1>1. {} \in P
  <2>1. Img({}) = {}
    OBVIOUS
  <2> HIDE DEF Img
  <2> QED  BY <2>1, SumEmpty
<1>2. ASSUME NEW K \in P, NEW x \in I \ K
      PROVE  K \cup {x} \in P
  <2>1. IsFiniteSet(K) /\ x \notin K /\ \A y \in K \cup {x} : e[y] \in Int
    BY FS_Subset
  <2>2. SumFunctionOnSet(e, K \cup {x}) = e[x] + SumFunctionOnSet(e, K)
    BY <2>1, SumAdd
  <2>3. SumFunctionOnSet(e, K) = SumFunctionOnSet(f, Img(K))
    OBVIOUS
  <2>4. CASE x \in J
    <3>1. Img(K \cup {x}) = Img(K) \cup {b[x]} /\ b[x] \notin Img(K)
      BY <2>4
    <3>2. IsFiniteSet(K \cap J)
      BY <2>1, FS_Subset
    <3>3. IsFiniteSet(Img(K)) /\ \A y \in Img(K) \cup {b[x]} : f[y] \in Int
      BY <2>4, <3>2, FiniteImage
    <3>4. e[x] = f[b[x]]
      BY <2>4
    <3> HIDE DEF Img
    <3>5. SumFunctionOnSet(f, Img(K) \cup {b[x]}) = f[b[x]] + SumFunctionOnSet(f, Img(K))
      BY <3>1, <3>3, SumAdd
    <3> QED  BY <2>2, <2>3, <3>1, <3>4, <3>5
  <2>5. CASE x \notin J
    <3>1. Img(K \cup {x}) = Img(K) /\ e[x] = 0
      BY <2>5
    <3>2. SumFunctionOnSet(e, K) \in Int
      BY <2>1, SumType
    <3> HIDE DEF Img
    <3>3. SumFunctionOnSet(e, K \cup {x}) = SumFunctionOnSet(f, Img(K \cup {x}))
      BY <2>2, <2>3, <3>1, <3>2
    <3> QED  BY <3>3
  <2> QED  BY <2>4, <2>5
<1>3. P = SUBSET I
  <2>1. P \in SUBSET (SUBSET I)
    OBVIOUS
  <2> HIDE DEF P
  <2> QED  BY <1>1, <1>2, <2>1, SubsetInduction
<1>4. I \in P /\ Img(I) = S
  BY <1>3
<1> HIDE DEF Img
<1> QED  BY <1>4
-----------------------------------------------------------------------------
(* The requests of a node are those of its containers.                     *)

\* the containers that hold their requests on the node
HoldersOn(name) == {c \in Containers : PodOf(c).NodeName = name /\ ~Completed(PodOf(c))}

RequestOf(r) == [c \in Containers |-> Qty(ContainerOf(c).Requests, r)]

Held(name, r) == SumFunctionOnSet(RequestOf(r), HoldersOn(name))

\* Unless its pod has completed, a container has the requests it is given.
LEMMA RequestsShown ==
    ASSUME NEW container, NEW pod, NEW u
    PROVE  LET v == GetValuesForContainer(container, pod, u)
           IN  /\ "requests_allocated" \in DOMAIN v <=> ~Completed(pod)
               /\ ~Completed(pod) => v["requests_allocated"] = Single(container.Requests)
<1> DEFINE a == AllocatedValues(container, pod)
           i == [container |-> Items]
           U == UtilizationValues(container, pod, u)
           P == PeriodValues(pod, u)
           known == Merge(i, a)
           used == Merge(known, U)
           all == Merge(used, P)
           v == GetValuesForContainer(container, pod, u)
           s == "requests_allocated"
           Shows(x) == /\ s \in DOMAIN x <=> ~Completed(pod)
                       /\ ~Completed(pod) => x[s] = Single(container.Requests)
<1>1. v = known \/ v = used \/ v = all
  BY Zenon DEF GetValuesForContainer
<1>2. Shows(a)
  BY DEF AllocatedValues, Empty
<1>3. s \notin DOMAIN i /\ s \notin DOMAIN U /\ s \notin DOMAIN P
  <2>1. s \notin DOMAIN i
    OBVIOUS
  <2>2. DOMAIN U = {"avg_utilization", "utilization", "requests_allocated_minus_utilization"}
    BY DEF UtilizationValues
  <2>3. DOMAIN P = {"nr_periods", "avg_nr_periods", "nr_throttled", "avg_nr_throttled", "oom_kill", "oom"}
    BY DEF PeriodValues
  <2> QED  BY <2>1, <2>2, <2>3
<1> HIDE DEF a, i, U, P
<1>4. Shows(known)
  BY <1>2, <1>3 DEF Merge
<1> HIDE DEF known
<1>5. Shows(used)
  BY <1>3, <1>4 DEF Merge
<1> HIDE DEF used
<1>6. Shows(all)
  BY <1>3, <1>5 DEF Merge
<1> HIDE DEF all, v
<1>7. Shows(v)
  BY <1>1, <1>4, <1>5, <1>6
<1> QED  BY <1>7 DEF v

\* So those that report requests are those whose pods have not completed.
LEMMA RequestsReported ==
    ASSUME NEW found, NEW r
    PROVE  /\ Having(found, "requests_allocated", r) =
                 {c \in Containers : ~Completed(PodOf(c)) /\ r \in DOMAIN ContainerOf(c).Requests}
           /\ \A c \in Having(found, "requests_allocated", r) :
                 ContainerValues(found, c)["requests_allocated"][r] = <<Qty(ContainerOf(c).Requests, r)>>
<1> DEFINE s == "requests_allocated"
<1>1. \A c : /\ s \in DOMAIN ContainerValues(found, c) <=> ~Completed(PodOf(c))
             /\ ~Completed(PodOf(c)) => ContainerValues(found, c)[s] = Single(ContainerOf(c).Requests)
  BY RequestsShown DEF ContainerValues
<1>2. \A q : DOMAIN Single(q) = DOMAIN q /\ \A x \in DOMAIN q : Single(q)[x] = <<Qty(q, x)>>
  BY DEF Single, Qty
<1> QED  BY <1>1, <1>2 DEF Having

\* The positions of containers, and their quantities.
LEMMA ContainersTyped ==
    ASSUME FitInv, NEW r \in {"cpu", "memory"}
    PROVE  /\ IsFiniteSet(Containers)
           /\ \A c \in Containers :
                 /\ c = <<c[1], c[2]>> /\ c[1] \in DOMAIN o.Pods /\ c[2] \in DOMAIN PodOf(c).Containers
                 /\ PodOf(c) \in ToSet(o.Pods) /\ PodOf(c) # Nil /\ ContainerOf(c) # Nil
                 /\ Qty(ContainerOf(c).Requests, r) \in Int
<1>1. IsFiniteSet(Containers)
  BY ListsFit, FiniteContainers
<1>2. ToSet(o.Pods) \subseteq KnownPods
  BY PodsKnown DEF FitInv
<1>3. ASSUME NEW c \in Containers
      PROVE  c = <<c[1], c[2]>> /\ c[1] \in DOMAIN o.Pods /\ c[2] \in DOMAIN PodOf(c).Containers
  BY DEF Containers, PodOf
<1>4. ASSUME NEW c \in Containers PROVE Qty(ContainerOf(c).Requests, r) \in Int
  <2>1. Qty(ContainerOf(c).Requests, "cpu") \in Nat /\ Qty(ContainerOf(c).Requests, "memory") \in Nat
    BY <1>2, ContainersKnown
  <2> QED  BY <2>1
<1>5. ASSUME NEW c \in Containers PROVE PodOf(c) \in ToSet(o.Pods) /\ PodOf(c) # Nil /\ ContainerOf(c) # Nil
  <2>1. PodOf(c) \in ToSet(o.Pods)
    BY <1>3 DEF PodOf, ToSet
  <2>2. ContainerOf(c) \in ToSet(PodOf(c).Containers)
    BY <1>3 DEF ContainerOf, ToSet
  <2>3. IsList(o.Pods) /\ IsList(PodOf(c).Containers)
    BY <2>1, ListsFit
  <2> QED  BY <2>1, <2>2, <2>3 DEF IsList
<1> QED  BY <1>1, <1>3, <1>4, <1>5

\* What collectNodes adds up: each pod of the list once, whatever its position.
LEMMA TotalIsHeld ==
    ASSUME FitInv, NEW name, NEW r \in {"cpu", "memory"}
    PROVE  getNodeRequestsLimits(PodsByNodeName(name)).Requests[r] = Held(name, r)
<1> DEFINE live == {p \in PodsByNodeName(name) : ~Completed(p)}
           S == UNION {{<<p, j>> : j \in DOMAIN p.Containers} : p \in live}
           f == [x \in S |-> Qty(x[1].Containers[x[2]]["Requests"], r)]
           I == HoldersOn(name)
           b == [c \in I |-> <<PodOf(c), c[2]>>]
           e == RequestOf(r)
<1>1. getNodeRequestsLimits(PodsByNodeName(name)).Requests[r] = SumFunctionOnSet(f, S)
  <2> DEFINE g(q) == [x \in S |-> Qty(x[1].Containers[x[2]]["Requests"], q)]
  <2>1. getNodeRequestsLimits(PodsByNodeName(name)).Requests = NodeTotal(live, "Requests")
    BY DEF getNodeRequestsLimits
  <2>2. NodeTotal(live, "Requests") = [cpu |-> SumFunction(g("cpu")), memory |-> SumFunction(g("memory"))]
    BY DEF NodeTotal
  <2>3. \A q : SumFunction(g(q)) = SumFunctionOnSet(g(q), S)
    BY DEF SumFunction
  <2> HIDE DEF S, live
  <2>4. [cpu |-> SumFunction(g("cpu")), memory |-> SumFunction(g("memory"))][r] = SumFunction(g(r))
    OBVIOUS
  <2> QED  BY <2>1, <2>2, <2>3, <2>4
<1>2. \A c \in I : c \in Containers /\ PodOf(c).NodeName = name /\ ~Completed(PodOf(c))
  BY DEF HoldersOn
<1>3. IsFiniteSet(I)
  BY ContainersTyped, FS_Subset DEF HoldersOn
<1>4. ASSUME NEW c \in I, NEW d \in I, b[c] = b[d] PROVE c = d
  <2>1. PodOf(c) = PodOf(d) /\ c[2] = d[2]
    BY <1>4
  <2>2. c[1] \in DOMAIN o.Pods /\ d[1] \in DOMAIN o.Pods /\ c = <<c[1], c[2]>> /\ d = <<d[1], d[2]>>
    BY <1>2, ContainersTyped
  <2>3. c[1] = d[1]
    BY <2>1, <2>2, ListsFit DEF UniqueBy, QualifiedName, PodOf
  <2> QED  BY <2>1, <2>2, <2>3
<1>5. (\A c \in I : b[c] \in S) /\ \A x \in S : \E c \in I : x = b[c]
  <2>1. ASSUME NEW c \in I PROVE b[c] \in S
    <3>1. PodOf(c) \in ToSet(o.Pods) /\ c[2] \in DOMAIN PodOf(c).Containers
      BY <1>2, ContainersTyped
    <3>2. PodOf(c) \in live
      BY <1>2, <3>1 DEF PodsByNodeName
    <3> QED  BY <3>1, <3>2
  <2>2. ASSUME NEW x \in S PROVE \E c \in I : x = b[c]
    <3>a. PICK p \in live : \E j \in DOMAIN p.Containers : x = <<p, j>>
      OBVIOUS
    <3>1. PICK j \in DOMAIN p.Containers : x = <<p, j>>
      BY <3>a
    <3>2. p \in ToSet(o.Pods) /\ p.NodeName = name /\ ~Completed(p)
      BY DEF PodsByNodeName
    <3>3. PICK i \in DOMAIN o.Pods : o.Pods[i] = p
      BY <3>2 DEF ToSet
    <3> DEFINE c == <<i, j>>
    <3>4. c \in Containers
      BY <3>1, <3>3 DEF Containers
    <3>5. PodOf(c) = p /\ c[2] = j
      BY <3>3 DEF PodOf
    <3> HIDE DEF c
    <3>6. c \in I
      BY <3>2, <3>4, <3>5 DEF HoldersOn
    <3> QED  BY <3>1, <3>5, <3>6
  <2> HIDE DEF S, I, b
  <2> QED  BY <2>1, <2>2
<1>6. ASSUME NEW c \in I PROVE e[c] = f[b[c]] /\ f[b[c]] \in Int
  <2>1. b[c] \in S
    <3> HIDE DEF S, I, b
    <3> QED  BY <1>5
  <2>2. b[c][1] = PodOf(c) /\ b[c][2] = c[2]
    OBVIOUS
  <2>3. e[c] = Qty(ContainerOf(c).Requests, r)
    BY <1>2 DEF RequestOf
  <2>4. ContainerOf(c) = PodOf(c).Containers[c[2]]
    BY DEF ContainerOf
  <2>5. e[c] \in Int
    BY <1>2, <2>3, ContainersTyped
  <2> HIDE DEF S, b, I, e
  <2> QED  BY <2>1, <2>2, <2>3, <2>4, <2>5
<1> HIDE DEF S, b, I, e, f
<1>7. SumFunctionOnSet(e, I) = SumFunctionOnSet(f, S)
  <2>1. Renames(b, I, I, S, e, f)
    BY <1>3, <1>4, <1>5, <1>6 DEF Renames
  <2> QED  BY <2>1, SumRenamed
<1> QED  BY <1>1, <1>7 DEF Held, e, I

\* what collectClusterScoped collects
ScopedPoints ==
    LET Labels(entry) == [NoLabels EXCEPT !.BuiltIn = BuiltInForClusterScoped(@, entry.Labels)]
        sources    == Config.ClusterScopedSources
        Objects(k) == IF sources[k] \in DOMAIN o.ClusterScoped THEN o.ClusterScoped[sources[k]] ELSE <<>>
        At(k)      == UNION {{<<k, i, j>> : j \in DOMAIN Objects(k)[i].Entries} : i \in DOMAIN Objects(k)}
        Added(k, entry) ==
            addValuesToMetrics(Put(Empty, sources[k], Single(entry.Values)), Labels(entry), "cluster_scoped")
    IN  [p \in UNION {At(k) : k \in DOMAIN sources} |-> Added(p[1], Objects(p[1])[p[2]].Entries[p[3]])]

\* the storage classes that the sources of the quotas may find
ClassesFit(class) ==
    \A i \in DOMAIN o.Quotas : \A s \in DOMAIN class[i] : class[i][s] \in {""} \cup StorageClasses(o.Quotas[i])

\* what the function f returns, in the state in which it does
Result(f, m) ==
    \/ f = "collect_pvs" /\ m = Collected(ForEach(o.PVs, PVPoints))
    \/ f = "collect_pvcs" /\ m = Collected(ForEach(o.PVCs, PVCPoints))
    \/ f = "collect_namespace" /\ m = Collected(ForEach(o.Namespaces, NamespacePoints))
    \/ f = "collect_nodes" /\ m = Collected(ForEach(o.Nodes, NodePoints))
    \/ f = "collect_cluster_scoped" /\ m = Collected(ScopedPoints)
    \/ f = "collect_cgroups" /\ m = Collected([p \in CGroups |-> CGroupPoints(o.Nodes[p[1]], p[2])])
    \/ f = "collect_quotas" /\ \E class : ClassesFit(class) /\ m = Collected(PointsOfQuotas(class))
    \/ f = "collect_containers" /\ \E order \in SetToSeqs(DOMAIN o.Utilization) :
            m = Collected(PodAndContainerPoints(Found(GetContainerUsageSummary(order))))

\* What collectQuota returns: it takes one of the classes each source may find.
LEMMA QuotaResult ==
    ASSUME collectQuota
    PROVE  \E m : Returns("collect_quotas", m) /\ Result("collect_quotas", m)
<1> DEFINE Q == o.Quotas
           exposed == UNION {{<<i, s>> : s \in Exposed(Q[i])} : i \in {i \in DOMAIN Q : StorageClasses(Q[i]) # {}}}
           Classes(i) == {""} \cup StorageClasses(Q[i])
           Chosen(class, i) == [s \in {e[2] : e \in {e \in exposed : e[1] = i}} |-> class[<<i, s>>]]
<1>1. PICK class :
        /\ \A e \in exposed : class[e] \in Classes(e[1])
        /\ Returns("collect_quotas",
               Collected([p \in {<<i>> : i \in DOMAIN Q} |-> QuotaPoints(Q[p[1]], Chosen(class, p[1]))]))
  BY Zenon DEF collectQuota
<1> DEFINE chosen == [i \in DOMAIN Q |-> Chosen(class, i)]
<1>2. [p \in {<<i>> : i \in DOMAIN Q} |-> QuotaPoints(Q[p[1]], Chosen(class, p[1]))] = PointsOfQuotas(chosen)
  <2> HIDE DEF Chosen
  <2>1. \A p \in {<<i>> : i \in DOMAIN Q} : chosen[p[1]] = Chosen(class, p[1])
    OBVIOUS
  <2> HIDE DEF chosen
  <2> QED  BY <2>1 DEF PointsOfQuotas, Each
<1>3. ClassesFit(chosen)
  <2> SUFFICES ASSUME NEW i \in DOMAIN Q, NEW s \in DOMAIN chosen[i]
               PROVE  chosen[i][s] \in Classes(i)
    BY DEF ClassesFit
  <2>0. chosen[i] = Chosen(class, i)
    <3> HIDE DEF Chosen
    <3> QED  OBVIOUS
  <2>1. \A e \in exposed : e = <<e[1], e[2]>>
    OBVIOUS
  <2> HIDE DEF exposed, chosen, Classes
  <2>2. PICK e \in exposed : e[1] = i /\ e[2] = s
    BY <2>0
  <2>3. e = <<i, s>> /\ Chosen(class, i)[s] = class[<<i, s>>]
    BY <2>0, <2>1, <2>2
  <2> HIDE DEF Chosen
  <2> QED  BY <1>1, <2>0, <2>2, <2>3
<1> HIDE DEF chosen
<1>4. Returns("collect_quotas", Collected(PointsOfQuotas(chosen)))
  BY <1>1, <1>2, Zenon
<1> QED  BY <1>3, <1>4 DEF Result

\* What collectContainers returns, the responses taken in some order.
LEMMA ContainersResult ==
    ASSUME collectContainers
    PROVE  \E m : Returns("collect_containers", m) /\ Result("collect_containers", m)
<1>1. PICK order \in SetToSeqs(DOMAIN o.Utilization) :
         Returns("collect_containers", ContainerMetrics(Found(GetContainerUsageSummary(order))))
  BY Zenon DEF collectContainers
<1> DEFINE found == Found(GetContainerUsageSummary(order))
<1>2. ContainerMetrics(found) = Collected(PodAndContainerPoints(found))
  <2> HIDE DEF found
  <2> QED  BY Zenon DEF ContainerMetrics, PodAndContainerPoints
<1> HIDE DEF found
<1>3. Returns("collect_containers", Collected(PodAndContainerPoints(found)))
  BY <1>1, <1>2, Zenon DEF found
<1> QED  BY <1>3 DEF Result, found

\* A step lists the objects anew, starts the process again, leaves alone what
\* the functions have returned, or is the return of one of them.
LEMMA ResultKinds ==
    ASSUME [Next]_vars
    PROVE  \/ \E bad, late : \E next \in Clusters : listCapacityObjects(bad, late, next)
           \/ Restart
           \/ UNCHANGED <<o, metrics, done>> /\ (phase' = "collecting" => phase = "collecting")
           \/ UNCHANGED <<o, phase>> /\ \E f, m : Returns(f, m) /\ Result(f, m)
<1>1. CASE collectContainers
  <2>1. UNCHANGED <<o, phase>>
    BY <1>1, Zenon DEF collectContainers
  <2> QED  BY <1>1, <2>1, ContainersResult
<1>2. CASE collectQuota
  <2>1. UNCHANGED <<o, phase>>
    BY <1>2, Zenon DEF collectQuota, Undisturbed
  <2> QED  BY <1>2, <2>1, QuotaResult
<1>3. CASE collectNodes
  <2>1. UNCHANGED <<o, phase>> /\ Returns("collect_nodes", Collected(ForEach(o.Nodes, NodePoints)))
    BY <1>3, Zenon DEF collectNodes, Undisturbed
  <2> QED  BY <2>1 DEF Result
<1>4. CASE collectPVs
  <2>1. UNCHANGED <<o, phase>> /\ Returns("collect_pvs", Collected(ForEach(o.PVs, PVPoints)))
    BY <1>4, Zenon DEF collectPVs, Undisturbed
  <2> QED  BY <2>1 DEF Result
<1>5. CASE collectPVCs
  <2>1. UNCHANGED <<o, phase>> /\ Returns("collect_pvcs", Collected(ForEach(o.PVCs, PVCPoints)))
    BY <1>5, Zenon DEF collectPVCs, Undisturbed
  <2> QED  BY <2>1 DEF Result
<1>6. CASE collectNamespaces
  <2>1. UNCHANGED <<o, phase>> /\ Returns("collect_namespace", Collected(ForEach(o.Namespaces, NamespacePoints)))
    BY <1>6, Zenon DEF collectNamespaces, Undisturbed
  <2> QED  BY <2>1 DEF Result
<1>7. CASE collectClusterScoped
  <2>1. UNCHANGED <<o, phase>> /\ Returns("collect_cluster_scoped", Collected(ScopedPoints))
    BY <1>7, Zenon DEF collectClusterScoped, Undisturbed, ScopedPoints
  <2> QED  BY <2>1 DEF Result
<1>8. CASE collectCGroups
  BY <1>8, CGroupsStep DEF Result
<1>9. ASSUME ~collectCGroups, ~collectClusterScoped, ~collectNamespaces, ~collectPVCs, ~collectPVs, ~collectNodes,
             ~collectQuota, ~collectContainers
      PROVE  \/ \E bad, late : \E next \in Clusters : listCapacityObjects(bad, late, next)
             \/ Restart
             \/ UNCHANGED <<o, metrics, done>> /\ (phase' = "collecting" => phase = "collecting")
  <2>1. CASE UNCHANGED vars
    BY <2>1 DEF vars
  <2>2. CASE \E r \in Responses : Push(r)
    BY <2>2 DEF Push, scrape
  <2>3. CASE \E n \in DOMAIN responses : ClearMetrics(n)
    BY <2>3 DEF ClearMetrics, scrape
  <2>4. CASE \E c \in Clusters : ClusterChanges(c)
    BY <2>4 DEF ClusterChanges, scrape
  <2>5. CASE WarmUp
    BY <2>5 DEF WarmUp
  <2>6. CASE FinishScrape
    BY <2>6 DEF FinishScrape
  <2> QED  BY <1>9, <2>1, <2>2, <2>3, <2>4, <2>5, <2>6 DEF Next
<1> QED  BY <1>1, <1>2, <1>3, <1>4, <1>5, <1>6, <1>7, <1>8, <1>9

\* the sum of the requests of the metrics m for the node
RequestsIn(m, name, r) ==
    LET k == MetricOf(m, <<"container", "requests_allocated", r>>)
    IN  SumFunction([l \in {l \in DOMAIN k : l.BuiltIn.NodeName = name} |-> k[l][1]])

\* What collectContainers reports for the containers of a node.
LEMMA ContainersHold ==
    ASSUME FitInv, NEW found, NEW name, NEW r \in {"cpu", "memory"} \cap Config.Resources
    PROVE  RequestsIn(Collected(PodAndContainerPoints(found)), name, r) = Held(name, r)
<1> DEFINE s == "requests_allocated"
           k == ContainerMetric(found, s, r)
           S == {l \in DOMAIN k : l.BuiltIn.NodeName = name}
           f == [l \in S |-> k[l][1]]
           I == HoldersOn(name)
           J == {c \in I : r \in DOMAIN ContainerOf(c).Requests}
           L(c) == ContainerLabels(PodOf(c), ContainerOf(c))
           b == [c \in Containers |-> L(c)]
           e == RequestOf(r)
           having == Having(found, s, r)
<1>1. RequestsIn(Collected(PodAndContainerPoints(found)), name, r) = SumFunctionOnSet(f, S)
  BY DEF RequestsIn, ContainerMetric, SumFunction
<1>2. \A c \in I : c \in Containers /\ PodOf(c).NodeName = name /\ ~Completed(PodOf(c))
  BY DEF HoldersOn
<1>3. IsFiniteSet(I)
  BY ContainersTyped, FS_Subset DEF HoldersOn
<1>4. having = {c \in Containers : ~Completed(PodOf(c)) /\ r \in DOMAIN ContainerOf(c).Requests}
  BY RequestsReported
<1>5. \A c \in having : ContainerValues(found, c)[s][r] = <<Qty(ContainerOf(c).Requests, r)>>
  BY RequestsReported
<1>6. DOMAIN k = LabelsOf(having) /\ \A c \in having : k[L(c)] = ContainerValues(found, c)[s][r]
  BY ContainerReports
<1>7. \A c \in Containers : L(c).BuiltIn["NodeName"] = PodOf(c).NodeName
  BY ContainersTyped, ContainerNamed
<1>8. \A c \in Containers : b[c] = L(c) /\ e[c] = Qty(ContainerOf(c).Requests, r) /\ e[c] \in Int
  BY ContainersTyped DEF RequestOf
<1>9. \A c, d \in Containers : L(c) = L(d) => c = d
  BY ListsFit, ContainersDistinct
<1>10. \A c \in J : c \in I /\ c \in Containers /\ c \in having
  BY <1>2, <1>4
<1>11. \A l \in DOMAIN k : \E c \in having : l = L(c)
  BY <1>6 DEF LabelsOf
<1>12. \A c \in having : L(c) \in DOMAIN k
  BY <1>6 DEF LabelsOf
<1>13. \A c \in I \ J : e[c] = 0
  BY <1>2, <1>8 DEF Qty
<1>14. \A c \in having : c \in Containers /\ (PodOf(c).NodeName = name => c \in J)
  BY <1>4 DEF HoldersOn
<1> HIDE DEF k, L, b, e, having, J, I
<1>15. \A c \in J : b[c] \in S /\ e[c] = f[b[c]] /\ f[b[c]] \in Int
  <2> TAKE c \in J
  <2>1. b[c] = L(c) /\ L(c) \in S
    BY <1>2, <1>7, <1>8, <1>10, <1>12
  <2>2. k[L(c)] = <<e[c]>> /\ e[c] \in Int
    BY <1>5, <1>6, <1>8, <1>10
  <2> QED  BY <2>1, <2>2
<1>16. \A l \in S : \E c \in J : l = b[c]
  <2> TAKE l \in S
  <2>1. PICK c \in having : l = L(c)
    BY <1>11
  <2> QED  BY <1>7, <1>8, <1>14, <2>1
<1>17. J \subseteq I /\ \A c, d \in J : b[c] = b[d] => c = d
  BY <1>8, <1>9, <1>10
<1> HIDE DEF S, f
<1>18. SumFunctionOnSet(e, I) = SumFunctionOnSet(f, S)
  <2>1. Renames(b, I, J, S, e, f)
    BY <1>3, <1>13, <1>15, <1>16, <1>17 DEF Renames
  <2> QED  BY <2>1, SumRenamed
<1> QED  BY <1>1, <1>18 DEF Held, e, I

\* What collectNodes reports for a node.
LEMMA NodeHolds ==
    ASSUME FitInv, NEW n \in ToSet(o.Nodes), NEW r \in {"cpu", "memory"} \cap Config.Resources
    PROVE  MetricOf(Collected(ForEach(o.Nodes, NodePoints)), <<"node", "node_requests", r>>)[NodeLabels(n)]
               = <<Held(n.Name, r)>>
<1> DEFINE list == o.Nodes
           s == "node_requests"
           x == <<"node", s, r>>
           points == ForEach(o.Nodes, NodePoints)
           V(y) == NodeValues(y)
<1>1. DOMAIN points = Each(list) /\ \A i \in DOMAIN list : points[<<i>>] = Points("node", V(list[i]), NodeLabels(list[i]), Config.Resources)
  BY DEF ForEach, Each, NodePoints, addValuesToMetrics
<1>2. ASSUME NEW y
      PROVE  s \in DOMAIN V(y) /\ r \in DOMAIN V(y)[s] /\ V(y)[s][r] = <<Held(y.Name, r)>>
  <2> DEFINE T == getNodeRequestsLimits(PodsByNodeName(y.Name)).Requests
  <2>1. s \in DOMAIN V(y) /\ V(y)[s] = Single(T)
    BY DEF NodeValues, GetValuesForNode
  <2>2. r \in DOMAIN T
    BY DEF getNodeRequestsLimits, NodeTotal
  <2>3. T[r] = Held(y.Name, r)
    BY TotalIsHeld
  <2> HIDE DEF T, V
  <2> QED  BY <2>1, <2>2, <2>3 DEF Single
<1>3. PICK i \in DOMAIN list : list[i] = n
  BY DEF ToSet
<1>4. \A j \in DOMAIN list : list[j] # Nil
  BY ListsFit DEF IsList, ToSet
<1>5. UniqueBy(list, NameOf)
  BY ListsFit
<1> HIDE DEF points, V, list
<1>6. ASSUME NEW j \in DOMAIN list
      PROVE  /\ x \in DOMAIN points[<<j>>] /\ points[<<j>>][x].Labels = NodeLabels(list[j])
             /\ points[<<j>>][x].Value = V(list[j])[s][r]
  <2>1. r \in DOMAIN V(list[j])[s] \cap Config.Resources /\ s \in DOMAIN V(list[j])
    BY <1>2
  <2>2. x[2] = s /\ x[3] = r
    OBVIOUS
  <2> QED  BY <1>1, <2>1, <2>2, PointsHave
<1> HIDE DEF x
<1>7. ASSUME NEW q \in Holders(points, x), points[q][x].Labels = points[<<i>>][x].Labels PROVE q = <<i>>
  <2>1. PICK j \in DOMAIN list : q = <<j>>
    BY <1>1 DEF Holders, Each
  <2>2. NodeLabels(list[j]) = NodeLabels(list[i])
    BY <1>3, <1>6, <1>7, <2>1
  <2>3. list[j].Name = list[i].Name
    BY <1>3, <1>4, <2>2, NodeNamed
  <2> QED  BY <1>3, <1>5, <2>1, <2>3 DEF UniqueBy, NameOf
<1>8. <<i>> \in Holders(points, x)
  BY <1>1, <1>3, <1>6 DEF Holders, Each
<1>9. MetricOf(Collected(points), x)[points[<<i>>][x].Labels] = points[<<i>>][x].Value
  BY <1>7, <1>8, ValueOfMetric
<1>10. MetricOf(Collected(points), x)[NodeLabels(n)] = <<Held(n.Name, r)>>
  BY <1>2, <1>3, <1>6, <1>9
<1> QED  BY <1>10 DEF points, x, s

\* the metrics m of the function f have the requests that are held
Agrees(f, m) ==
    \A n \in ToSet(o.Nodes), r \in {"cpu", "memory"} \cap Config.Resources :
        /\ f = "collect_nodes" => MetricOf(m, <<"node", "node_requests", r>>)[NodeLabels(n)] = <<Held(n.Name, r)>>
        /\ f = "collect_containers" => RequestsIn(m, n.Name, r) = Held(n.Name, r)

\* Both functions add up what is held: each for itself, whenever it returns.
RequestsInv == phase = "collecting" => \A f \in done : Agrees(f, metrics[f])

\* What the functions return.
LEMMA ResultsAgree == ASSUME FitInv, NEW f, NEW m, Result(f, m) PROVE Agrees(f, m)
<1>1. CASE f = "collect_nodes"
  <2>1. m = Collected(ForEach(o.Nodes, NodePoints))
    BY <1>1 DEF Result
  <2> QED  BY <1>1, <2>1, NodeHolds DEF Agrees
<1>2. CASE f = "collect_containers"
  <2>1. PICK found : m = Collected(PodAndContainerPoints(found))
    BY <1>2 DEF Result
  <2> QED  BY <1>2, <2>1, ContainersHold DEF Agrees
<1> QED  BY <1>1, <1>2 DEF Agrees

\* What is held depends on the objects of the scrape only.
LEMMA AgreesNext == ASSUME UNCHANGED o PROVE \A f, m : Agrees(f, m)' <=> Agrees(f, m)
<1>1. Containers' = Containers
  BY DEF Containers
<1>2. \A c : PodOf(c)' = PodOf(c) /\ ContainerOf(c)' = ContainerOf(c)
  BY DEF PodOf, ContainerOf
<1>3. \A n, r : HoldersOn(n)' = HoldersOn(n) /\ RequestOf(r)' = RequestOf(r)
  BY <1>1, <1>2 DEF HoldersOn, RequestOf
<1>4. \A n, r : Held(n, r)' = Held(n, r)
  BY <1>3 DEF Held
<1> QED  BY <1>4 DEF Agrees

\* So RequestsInv is inductive, with FitInv.
LEMMA NextRequests == ASSUME FitInv, RequestsInv, [Next]_vars PROVE RequestsInv'
<1>1. CASE done' = {}
  BY <1>1 DEF RequestsInv
<1>2. CASE UNCHANGED <<o, metrics, done>> /\ (phase' = "collecting" => phase = "collecting")
  <2>1. \A f, m : Agrees(f, m)' <=> Agrees(f, m)
    BY <1>2, AgreesNext
  <2> QED  BY <1>2, <2>1 DEF RequestsInv
<1>3. ASSUME UNCHANGED <<o, phase>>, NEW f, NEW m, Returns(f, m), Result(f, m) PROVE RequestsInv'
  <2>1. done' = done \cup {f} /\ metrics' = Put(metrics, f, m) /\ phase = "collecting" /\ f \notin done
    BY <1>3 DEF Returns, Turn
  <2>2. metrics'[f] = m /\ \A g \in done : metrics'[g] = metrics[g]
    BY <2>1 DEF Put, FitInv
  <2>3. \A g, x : Agrees(g, x)' <=> Agrees(g, x)
    BY <1>3, AgreesNext
  <2>4. Agrees(f, m) /\ \A g \in done : Agrees(g, metrics[g])
    BY <1>3, <2>1, ResultsAgree DEF RequestsInv
  <2>5. \A g \in done' : Agrees(g, metrics'[g])
    BY <2>1, <2>2, <2>4
  <2> QED  BY <2>3, <2>5 DEF RequestsInv
<1>4. ASSUME NEW bad, NEW late, NEW next \in Clusters, listCapacityObjects(bad, late, next) PROVE done' = {}
  BY <1>4 DEF listCapacityObjects
<1>5. Restart => done' = {}
  BY DEF Restart
<1> QED  BY <1>1, <1>2, <1>3, <1>4, <1>5, ResultKinds

\* In terms of the metrics of the state: the invariant says what NodeRequestsMatch says.
LEMMA RequestsInvImplies == ASSUME RequestsInv PROVE NodeRequestsMatch
<1> SUFFICES ASSUME phase = "collecting" /\ {"collect_nodes", "collect_containers"} \subseteq done,
                    NEW n \in ToSet(o.Nodes), NEW r \in {"cpu", "memory"} \cap Config.Resources
             PROVE  MetricOf(metrics["collect_nodes"], <<"node", "node_requests", r>>)[NodeLabels(n)]
                        = <<RequestsIn(metrics["collect_containers"], n.Name, r)>>
  BY Zenon DEF NodeRequestsMatch, Metric, MetricOf, RequestsIn
<1>1. Agrees("collect_nodes", metrics["collect_nodes"]) /\ Agrees("collect_containers", metrics["collect_containers"])
  BY DEF RequestsInv
<1> QED  BY <1>1 DEF Agrees

\* NodeRequestsMatch for every cluster and configuration: whichever order the
\* functions return in, the requests that collectNodes reports for a node
\* (getNodeRequestsLimits over the pods of the node) are the sum of those that
\* collectContainers reports for the containers on it, because both leave out
\* exactly the pods that have completed and no two containers share labels.
THEOREM NodeRequestsAgree == Spec => []NodeRequestsMatch
<1> DEFINE I == FitInv /\ RequestsInv
<1>1. Init => I
  <2>1. Init => done = {}
    BY DEF Init
  <2> QED  BY <2>1, InitFit DEF RequestsInv
<1>2. I /\ [Next]_vars => I'
  BY NextFit, NextRequests
<1>3. I => NodeRequestsMatch
  BY RequestsInvImplies
<1> HIDE DEF I
<1> QED  BY <1>1, <1>2, <1>3, PTL DEF Spec
-----------------------------------------------------------------------------
(* Types: the value of a metric is that of its latest position.            *)

\* Positions of one loop depth are ordered.
LEMMA LaterOrders ==
    ASSUME NEW d \in Nat, NEW p \in [1 .. d -> Nat], NEW q \in [1 .. d -> Nat]
    PROVE  /\ p # q => Later(p, q) \/ Later(q, p)
           /\ \A r \in [1 .. d -> Nat] : Later(p, q) /\ Later(q, r) => Later(p, r)
<1>1. ASSUME p # q PROVE Later(p, q) \/ Later(q, p)
  <2> DEFINE S == {e \in 1 .. d : p[e] # q[e]}
  <2>1. S \in SUBSET Nat /\ S # {}
    BY <1>1
  <2>2. PICK e \in S : \A f \in S : e <= f
    <3> HIDE DEF S
    <3> QED  BY <2>1, LeastNumber
  <2>3. \A f \in 1 .. e - 1 : p[f] = q[f]
    BY <2>2
  <2>4. p[e] > q[e] \/ q[e] > p[e]
    OBVIOUS
  <2> QED  BY <2>3, <2>4 DEF Later
<1>2. ASSUME NEW r \in [1 .. d -> Nat], Later(p, q), Later(q, r) PROVE Later(p, r)
  <2>1. PICK e \in 1 .. d : p[e] > q[e] /\ \A g \in 1 .. e - 1 : p[g] = q[g]
    BY <1>2 DEF Later
  <2>2. PICK f \in 1 .. d : q[f] > r[f] /\ \A g \in 1 .. f - 1 : q[g] = r[g]
    BY <1>2 DEF Later
  <2>3. CASE e <= f
    <3>1. p[e] > r[e] /\ \A g \in 1 .. e - 1 : p[g] = r[g]
      BY <2>1, <2>2, <2>3
    <3> QED  BY <3>1 DEF Later
  <2>4. CASE f < e
    <3>1. p[f] > r[f] /\ \A g \in 1 .. f - 1 : p[g] = r[g]
      BY <2>1, <2>2, <2>4
    <3> QED  BY <3>1 DEF Later
  <2> QED  BY <2>3, <2>4
<1> QED  BY <1>1, <1>2

\* the position of P that the loops reach last
IsLatest(p, P) == p \in P /\ \A q \in P \ {p} : Later(p, q)

\* So of finitely many one is the latest.
LEMMA LatestExists ==
    ASSUME NEW d \in Nat, NEW U, IsFiniteSet(U), U \subseteq [1 .. d -> Nat], U # {}
    PROVE  \E p \in U : IsLatest(p, U)
<1> DEFINE S == {s \in SUBSET U : s # {} => \E p \in s : IsLatest(p, s)}
<1>1. {} \in S
  OBVIOUS
<1>2. ASSUME NEW s \in S, NEW x \in U \ s PROVE s \cup {x} \in S
  <2>1. CASE s = {}
    <3>1. IsLatest(x, s \cup {x})
      BY <2>1 DEF IsLatest
    <3> QED  BY <3>1
  <2>2. CASE s # {}
    <3>1. PICK p \in s : IsLatest(p, s)
      BY <2>2
    <3>2. Later(p, x) \/ Later(x, p)
      BY LaterOrders
    <3>3. \A q \in s : Later(x, p) /\ Later(p, q) => Later(x, q)
      BY LaterOrders
    <3>4. IsLatest(p, s \cup {x}) \/ IsLatest(x, s \cup {x})
      BY <3>1, <3>2, <3>3 DEF IsLatest
    <3> QED  BY <3>4 DEF IsLatest
  <2> QED  BY <2>1, <2>2
<1>3. S \in SUBSET (SUBSET U)
  OBVIOUS
<1> HIDE DEF S
<1>4. S = SUBSET U
  BY <1>1, <1>2, <1>3, SubsetInduction
<1>5. U \in S
  BY <1>4
<1> QED  BY <1>5 DEF S

\* values of the metrics of an object: lists of numbers
ListTyped(value) == \A r \in DOMAIN value : value[r] \in Seq(Int)
\* the values of an object by source
ValuesTyped(values) == \A s \in DOMAIN values : ListTyped(values[s])

\* what one object adds to the metrics
PointTyped(point) == \A n \in DOMAIN point : point[n].Labels \in LabelsValues /\ point[n].Value \in Seq(Int)

\* a metric of the model's type: numbers, by labels
MetricTyped(m) == \A n \in DOMAIN m : \A l \in DOMAIN m[n] : l \in LabelsValues /\ m[n][l] \in Seq(Int)

\* the objects that add to one metric are reached through as many loops
Arranged(points) ==
    \A n : IsFiniteSet(Holders(points, n)) /\ \E d \in Nat : Holders(points, n) \subseteq [1 .. d -> Nat]

\* What is collected from typed points is typed: each list is that of one point.
LEMMA CollectedTyped ==
    ASSUME NEW points, Arranged(points), \A p \in DOMAIN points : PointTyped(points[p])
    PROVE  MetricTyped(Collected(points))
<1> SUFFICES ASSUME NEW n \in DOMAIN Collected(points), NEW l \in DOMAIN Collected(points)[n]
             PROVE  l \in LabelsValues /\ Collected(points)[n][l] \in Seq(Int)
  BY Zenon DEF MetricTyped
<1> DEFINE at == {p \in DOMAIN points : n \in DOMAIN points[p]}
           With(k) == {p \in at : points[p][n].Labels = k}
           Latest(P) == CHOOSE p \in P : \A q \in P \ {p} : Later(p, q)
           m == [k \in {points[p][n].Labels : p \in at} |-> points[Latest(With(k))][n].Value]
<1>1. Collected(points)[n] = m
  <2>1. n \in UNION {DOMAIN points[p] : p \in DOMAIN points}
    BY Zenon DEF Collected
  <2> QED  BY <2>1, Zenon DEF Collected
<1>2. at = Holders(points, n)
  BY DEF Holders
<1>3. PICK d \in Nat : IsFiniteSet(at) /\ at \subseteq [1 .. d -> Nat]
  BY <1>2 DEF Arranged
<1> HIDE DEF Latest
<1>4. l \in {points[p][n].Labels : p \in at} /\ m[l] = points[Latest(With(l))][n].Value
  BY <1>1
<1> DEFINE W == With(l)
<1>5. W # {} /\ W \subseteq at
  BY <1>4
<1>6. IsFiniteSet(W) /\ W \subseteq [1 .. d -> Nat]
  BY <1>3, <1>5, FS_Subset
<1> HIDE DEF W
<1>7. PICK p \in W : IsLatest(p, W)
  BY <1>5, <1>6, LatestExists
<1>8. Latest(W) \in W
  BY <1>7, Zenon DEF Latest, IsLatest
<1>9. Latest(W) \in DOMAIN points /\ n \in DOMAIN points[Latest(W)] /\ points[Latest(W)][n].Labels = l
  BY <1>8 DEF W
<1>10. points[Latest(W)][n].Labels \in LabelsValues /\ points[Latest(W)][n].Value \in Seq(Int)
  BY <1>9 DEF PointTyped
<1> HIDE DEF m
<1> QED  BY <1>1, <1>4, <1>9, <1>10 DEF W

\* What a search of a list finds is in the list.
LEMMA InList ==
    ASSUME NEW list, list \in Seq(ToSet(list)), NEW I \in SUBSET (1 .. Len(list))
    PROVE  LET first == IF I # {} THEN Min(I) ELSE 0
               last  == IF I # {} THEN Max(I) ELSE 0
           IN  /\ first # 0 => first \in DOMAIN list /\ list[first] \in ToSet(list)
               /\ last # 0 => last \in DOMAIN list /\ list[last] \in ToSet(list)
               /\ ItemAt(list, first) \in ToSet(list) \cup {Nil}
               /\ ItemAt(list, last) \in ToSet(list) \cup {Nil}
<1>1. Len(list) \in Nat /\ DOMAIN list = 1 .. Len(list) /\ \A i \in DOMAIN list : list[i] \in ToSet(list)
  OBVIOUS
<1>2. I # {} => Min(I) \in I /\ Max(I) \in I
  BY <1>1, FirstAndLast
<1>3. ASSUME NEW i, i = 0 \/ i \in I
      PROVE  /\ i # 0 => i \in DOMAIN list /\ list[i] \in ToSet(list)
             /\ ItemAt(list, i) \in ToSet(list) \cup {Nil}
  BY <1>1, <1>3 DEF ItemAt
<1> QED  BY <1>2, <1>3

\* An object looked up by its name is in the list, or nil.
LEMMA NamedFound ==
    ASSUME NEW list, list \in Seq(ToSet(list))
    PROVE  /\ \A name : Named(list, name) \in ToSet(list) \cup {Nil}
           /\ \A namespace, name : NamedIn(list, namespace, name) \in ToSet(list) \cup {Nil}
           /\ ControllerOf(list) \in ToSet(list) \cup {Nil}
<1>1. ASSUME NEW name PROVE Named(list, name) \in ToSet(list) \cup {Nil}
  <2> DEFINE I == {i \in 1 .. Len(list) : list[i].Name = name}
  <2>1. Named(list, name) = ItemAt(list, IF I # {} THEN Max(I) ELSE 0)
    BY Zenon DEF Named, SelectLastInSeq
  <2>2. I \in SUBSET (1 .. Len(list))
    OBVIOUS
  <2> HIDE DEF I
  <2> QED  BY <2>1, <2>2, InList
<1>2. ASSUME NEW namespace, NEW name PROVE NamedIn(list, namespace, name) \in ToSet(list) \cup {Nil}
  <2> DEFINE I == {i \in 1 .. Len(list) : list[i].Namespace = namespace /\ list[i].Name = name}
  <2>1. NamedIn(list, namespace, name) = ItemAt(list, IF I # {} THEN Max(I) ELSE 0)
    BY Zenon DEF NamedIn, SelectLastInSeq
  <2>2. I \in SUBSET (1 .. Len(list))
    OBVIOUS
  <2> HIDE DEF I
  <2> QED  BY <2>1, <2>2, InList
<1>3. ControllerOf(list) \in ToSet(list) \cup {Nil}
  <2> DEFINE I == {i \in 1 .. Len(list) : list[i].Controller}
  <2>1. ControllerOf(list) = ItemAt(list, IF I # {} THEN Min(I) ELSE 0)
    BY Zenon DEF ControllerOf, SelectInSeq
  <2>2. I \in SUBSET (1 .. Len(list))
    OBVIOUS
  <2> HIDE DEF I
  <2> QED  BY <2>1, <2>2, InList
<1> QED  BY <1>1, <1>2, <1>3

-----------------------------------------------------------------------------
(* The types of the labels.                                                *)

ExtensionTyped(labels) == labels \in [LabelId -> STRING]

\* built-in labels are text
BuiltInTyped(labels) == labels \in [BuiltInField -> STRING]

\* Text set as extension labels keeps them text.
LEMMA SetValueTyped ==
    ASSUME NEW labels, ExtensionTyped(labels), NEW ext, ext \in Seq(ToSet(ext)), NEW values,
           DOMAIN values \subseteq DOMAIN ext, \A i \in DOMAIN values : values[i] \in STRING
    PROVE  ExtensionTyped(SetValue(labels, ext, values))
<1> SUFFICES ASSUME NEW id \in LabelId
             PROVE  LET calls == {i \in DOMAIN values : ext[i].ID = id}
                    IN  (IF calls = {} THEN labels[id] ELSE values[Max(calls)]) \in STRING
  BY DEF SetValue, ExtensionTyped
<1> DEFINE calls == {i \in DOMAIN values : ext[i].ID = id}
<1>1. Len(ext) \in Nat /\ DOMAIN ext = 1 .. Len(ext)
  OBVIOUS
<1>2. calls \in SUBSET (1 .. Len(ext)) /\ calls \subseteq DOMAIN values
  BY <1>1
<1> HIDE DEF calls
<1>3. calls # {} => Max(calls) \in calls
  BY <1>1, <1>2, FirstAndLast
<1>4. labels[id] \in STRING
  BY DEF ExtensionTyped
<1>5. (IF calls = {} THEN labels[id] ELSE values[Max(calls)]) \in STRING
  BY <1>2, <1>3, <1>4
<1> QED  BY <1>5 DEF calls

\* A missing label or annotation is the empty text.
LEMMA GetTyped == ASSUME NEW map, IsText(map) PROVE \A k : Get(map, k) \in STRING
BY EmptyIsString DEF Get, IsText

\* the metadata of an object
MetaTyped(meta) == IsText(meta.Labels) /\ IsText(meta.Annotations)

\* A label taken from the metadata is text, its default included.
LEMMA MetadataTyped ==
    ASSUME NEW v, v.Value \in STRING, v.LabelKeys \in Seq(STRING), v.AnnotationKeys \in Seq(STRING),
           NEW meta, MetaTyped(meta)
    PROVE  MetadataValue(v, meta) \in STRING
<1> DEFINE a == [i \in DOMAIN v.LabelKeys |-> Get(meta.Labels, v.LabelKeys[i])]
           b == [i \in DOMAIN v.AnnotationKeys |-> Get(meta.Annotations, v.AnnotationKeys[i])]
           c == a \o b
           I == {i \in 1 .. Len(c) : c[i] # ""}
<1>1. a \in Seq(STRING) /\ b \in Seq(STRING)
  <2>1. (\A k : Get(meta.Labels, k) \in STRING) /\ \A k : Get(meta.Annotations, k) \in STRING
    BY GetTyped DEF MetaTyped
  <2>2. DOMAIN v.LabelKeys = 1 .. Len(v.LabelKeys) /\ DOMAIN v.AnnotationKeys = 1 .. Len(v.AnnotationKeys)
    OBVIOUS
  <2> QED  BY <2>1, <2>2
<1> HIDE DEF a, b
<1>2. c \in Seq(STRING)
  BY <1>1
<1>3. MetadataValue(v, meta) = LET found == IF I # {} THEN Min(I) ELSE 0 IN IF found = 0 THEN v.Value ELSE c[found]
  <2>1. SelectInSeq(c, LAMBDA x : x # "") = IF I # {} THEN Min(I) ELSE 0
    <3> HIDE DEF c
    <3> QED  BY Zenon DEF SelectInSeq
  <2>2. MetadataValue(v, meta) = LET found == SelectInSeq(c, LAMBDA x : x # "") IN IF found = 0 THEN v.Value ELSE c[found]
    BY Zenon DEF MetadataValue, a, b
  <2> HIDE DEF c, I
  <2> QED  BY <2>1, <2>2, Zenon
<1> HIDE DEF c
<1>4. Len(c) \in Nat /\ I \in SUBSET (1 .. Len(c)) /\ \A i \in 1 .. Len(c) : c[i] \in STRING
  <2>1. I \in SUBSET (1 .. Len(c))
    OBVIOUS
  <2> HIDE DEF I
  <2>2. DOMAIN c = 1 .. Len(c) /\ Len(c) \in Nat
    BY <1>2
  <2>3. \A i \in DOMAIN c : c[i] \in STRING
    BY <1>2
  <2> QED  BY <2>1, <2>2, <2>3
<1> HIDE DEF I
<1>5. I # {} => Min(I) \in I
  BY <1>4, FirstAndLast
<1> QED  BY <1>3, <1>4, <1>5

\* the kinds of labels that are read from metadata
MetadataKinds == {"Pods", "Quota", "Nodes", "Namespaces", "PVCs", "PVs"}

\* Extensions of each kind are lists, with text for defaults and keys.
LEMMA KindsTyped ==
    LET e == Config.Extensions
    IN  /\ \A k \in MetadataKinds \cup {"SideCars", "NodeTaints"} : e[k] \in Seq(ToSet(e[k]))
        /\ \A k \in MetadataKinds \cup {"SideCars"} : \A v \in ToSet(e[k]) :
              v.Value \in STRING /\ v.LabelKeys \in Seq(STRING) /\ v.AnnotationKeys \in Seq(STRING)
<1>1. ToSet(Kinds) = MetadataKinds \cup {"SideCars", "NodeTaints"}
  BY DEF Kinds, MetadataKinds, ToSet
<1>2. "NodeTaints" \notin MetadataKinds \cup {"SideCars"}
  BY DEF MetadataKinds
<1> QED  BY <1>1, <1>2, ConfigTypes

\* Extension labels from the metadata of an object are text.
LEMMA MetadataLabelsTyped ==
    ASSUME NEW k \in MetadataKinds, NEW labels, ExtensionTyped(labels), NEW meta, MetaTyped(meta)
    PROVE  ExtensionTyped(SetLabelsForMetadata(labels, Config.Extensions[k], meta))
<1> DEFINE ext == Config.Extensions[k]
           values == [i \in {i \in DOMAIN ext : MetadataValue(ext[i], meta) # ""} |-> MetadataValue(ext[i], meta)]
<1>1. ext \in Seq(ToSet(ext))
  BY KindsTyped
<1>2. ASSUME NEW i \in DOMAIN ext PROVE MetadataValue(ext[i], meta) \in STRING
  <2>1. ext[i] \in ToSet(ext)
    BY DEF ToSet
  <2> QED  BY <2>1, KindsTyped, MetadataTyped
<1>3. SetLabelsForMetadata(labels, ext, meta) = SetValue(labels, ext, values)
  BY Zenon DEF SetLabelsForMetadata
<1>4. DOMAIN values \subseteq DOMAIN ext /\ \A i \in DOMAIN values : values[i] \in STRING
  BY <1>2
<1> HIDE DEF values, ext
<1>5. ExtensionTyped(SetValue(labels, ext, values))
  BY <1>1, <1>4, SetValueTyped
<1> QED  BY <1>3, <1>5 DEF ext

\* an object that may be missing
HasMeta(x) == x = Nil \/ MetaTyped(x.meta)

\* a node, as far as its labels read it
NodeTyped(n) ==
    /\ n.Name \in STRING /\ MetaTyped(n.meta)
    /\ n.Taints \in Seq(ToSet(n.Taints)) /\ \A t \in ToSet(n.Taints) : t.Value \in STRING

\* Each kind of extension labels keeps the type of the labels it is given.
LEMMA SideCarsTyped ==
    ASSUME NEW labels, ExtensionTyped(labels)
    PROVE  ExtensionTyped(ExtensionForSideCars(Config.Extensions, labels))
<1> DEFINE ext == Config.Extensions["SideCars"]
           values == [i \in DOMAIN ext |-> ext[i].Value]
<1>1. ext \in Seq(ToSet(ext)) /\ \A v \in ToSet(ext) : v.Value \in STRING
  BY KindsTyped
<1>2. DOMAIN values \subseteq DOMAIN ext /\ \A i \in DOMAIN values : values[i] \in STRING
  BY <1>1 DEF ToSet
<1>3. ExtensionForSideCars(Config.Extensions, labels) = SetValue(labels, ext, values)
  BY Zenon DEF ExtensionForSideCars
<1> HIDE DEF values, ext
<1>4. ExtensionTyped(SetValue(labels, ext, values))
  BY <1>1, <1>2, SetValueTyped
<1> QED  BY <1>3, <1>4

\* The label for a taint is text: the taint's value, or one configured.
LEMMA TaintsTyped ==
    ASSUME NEW t, {t.LabelValue, t.LabelNegativeValue} \subseteq STRING, NEW node, NodeTyped(node)
    PROVE  getLabelValueForNodeTaint(t, node) \in STRING
<1> DEFINE list == node.Taints
           I == {i \in 1 .. Len(list) : isMatchNodeTaint(t, list[i])}
           found == IF I # {} THEN Min(I) ELSE 0
<1>1. SelectInSeq(list, LAMBDA taint : isMatchNodeTaint(t, taint)) = found
  BY Zenon DEF SelectInSeq
<1>2. I \in SUBSET (1 .. Len(list))
  OBVIOUS
<1>3. list \in Seq(ToSet(list)) /\ \A x \in ToSet(list) : x.Value \in STRING
  BY DEF NodeTyped
<1> HIDE DEF I
<1>4. found # 0 => list[found].Value \in STRING
  <2> HIDE DEF list
  <2> QED  BY <1>2, <1>3, InList
<1>5. getLabelValueForNodeTaint(t, node) =
        IF found = 0 THEN t.LabelNegativeValue ELSE IF t.LabelValue # "" THEN t.LabelValue ELSE list[found].Value
  <2> HIDE DEF found
  <2> QED  BY <1>1, Zenon DEF getLabelValueForNodeTaint
<1> HIDE DEF found, list
<1> QED  BY <1>4, <1>5

\* Extension labels of a namespace.
LEMMA NamespaceExtension ==
    ASSUME NEW labels, ExtensionTyped(labels), NEW namespace, HasMeta(namespace)
    PROVE  ExtensionTyped(ExtensionForNamespace(Config.Extensions, labels, namespace))
<1> DEFINE l == ExtensionForSideCars(Config.Extensions, labels)
<1>1. ExtensionTyped(l)
  BY SideCarsTyped
<1> HIDE DEF l
<1>2. namespace # Nil => ExtensionTyped(SetLabelsForMetadata(l, Config.Extensions["Namespaces"], namespace.meta))
  BY <1>1, MetadataLabelsTyped DEF HasMeta, MetadataKinds
<1>3. ExtensionForNamespace(Config.Extensions, labels, namespace) =
        IF namespace = Nil THEN l ELSE SetLabelsForMetadata(l, Config.Extensions["Namespaces"], namespace.meta)
  BY Zenon DEF ExtensionForNamespace, l
<1> QED  BY <1>1, <1>2, <1>3

\* Extension labels of a node, those of its taints included.
LEMMA NodeExtension ==
    ASSUME NEW labels, ExtensionTyped(labels), NEW node, node = Nil \/ NodeTyped(node)
    PROVE  ExtensionTyped(ExtensionForNode(Config.Extensions, labels, node))
<1> DEFINE l == ExtensionForSideCars(Config.Extensions, labels)
           k == SetLabelsForMetadata(l, Config.Extensions["Nodes"], node.meta)
           ext == Config.Extensions["NodeTaints"]
           values == [i \in DOMAIN ext |-> getLabelValueForNodeTaint(ext[i], node)]
<1>1. ExtensionForNode(Config.Extensions, labels, node) = IF node = Nil THEN l ELSE SetValue(k, ext, values)
  BY Zenon DEF ExtensionForNode
<1>2. ExtensionTyped(l)
  BY SideCarsTyped
<1> HIDE DEF l
<1>3. ASSUME node # Nil PROVE ExtensionTyped(SetValue(k, ext, values))
  <2>1. ExtensionTyped(k)
    BY <1>2, <1>3, MetadataLabelsTyped DEF MetadataKinds, NodeTyped
  <2>2. ext \in Seq(ToSet(ext)) /\ \A t \in ToSet(ext) : {t.LabelValue, t.LabelNegativeValue} \subseteq STRING
    BY KindsTyped, ConfigTypes
  <2>3. \A i \in DOMAIN ext : getLabelValueForNodeTaint(ext[i], node) \in STRING
    BY <1>3, <2>2, TaintsTyped DEF ToSet
  <2>4. DOMAIN values \subseteq DOMAIN ext /\ \A i \in DOMAIN values : values[i] \in STRING
    BY <2>3
  <2> HIDE DEF k, values, ext
  <2> QED  BY <2>1, <2>2, <2>4, SetValueTyped
<1> QED  BY <1>1, <1>2, <1>3

\* Extension labels of a quota, with those of its namespace.
LEMMA QuotaExtension ==
    ASSUME NEW labels, ExtensionTyped(labels), NEW quota, HasMeta(quota), NEW namespace, HasMeta(namespace)
    PROVE  ExtensionTyped(ExtensionForQuota(Config.Extensions, labels, quota, namespace))
<1> DEFINE l == ExtensionForNamespace(Config.Extensions, labels, namespace)
<1>1. ExtensionTyped(l)
  BY NamespaceExtension
<1> HIDE DEF l
<1>2. quota # Nil => ExtensionTyped(SetLabelsForMetadata(l, Config.Extensions["Quota"], quota.meta))
  BY <1>1, MetadataLabelsTyped DEF HasMeta, MetadataKinds
<1>3. ExtensionForQuota(Config.Extensions, labels, quota, namespace) =
        IF quota = Nil THEN l ELSE SetLabelsForMetadata(l, Config.Extensions["Quota"], quota.meta)
  BY Zenon DEF ExtensionForQuota, l
<1> QED  BY <1>1, <1>2, <1>3

\* Extension labels of a pod, with those of its node and namespace.
LEMMA PodExtension ==
    ASSUME NEW labels, ExtensionTyped(labels), NEW pod, HasMeta(pod), NEW node, node = Nil \/ NodeTyped(node),
           NEW namespace, HasMeta(namespace)
    PROVE  ExtensionTyped(ExtensionForPod(Config.Extensions, labels, pod, node, namespace))
<1> DEFINE l == IF pod = Nil THEN labels ELSE SetLabelsForMetadata(labels, Config.Extensions["Pods"], pod.meta)
           q == ExtensionForQuota(Config.Extensions, l, Nil, namespace)
<1>1. ExtensionTyped(l)
  BY MetadataLabelsTyped DEF HasMeta, MetadataKinds
<1>2. ExtensionForPod(Config.Extensions, labels, pod, node, namespace) = ExtensionForNode(Config.Extensions, q, node)
  BY Zenon DEF ExtensionForPod
<1> HIDE DEF l
<1>3. ExtensionTyped(q)
  BY <1>1, QuotaExtension DEF HasMeta
<1> HIDE DEF q
<1> QED  BY <1>2, <1>3, NodeExtension

\* Extension labels of a volume, with those of its node.
LEMMA PVExtension ==
    ASSUME NEW labels, ExtensionTyped(labels), NEW pv, HasMeta(pv), NEW node, node = Nil \/ NodeTyped(node)
    PROVE  ExtensionTyped(ExtensionForPV(Config.Extensions, labels, pv, node))
<1> DEFINE l == IF pv = Nil THEN labels ELSE SetLabelsForMetadata(labels, Config.Extensions["PVs"], pv.meta)
<1>1. ExtensionTyped(l)
  BY MetadataLabelsTyped DEF HasMeta, MetadataKinds
<1>2. ExtensionForPV(Config.Extensions, labels, pv, node) = ExtensionForNode(Config.Extensions, l, node)
  BY Zenon DEF ExtensionForPV
<1> HIDE DEF l
<1> QED  BY <1>1, <1>2, NodeExtension

\* Extension labels of a claim, with those of its volume, namespace, pod and node.
LEMMA PVCExtension ==
    ASSUME NEW labels, ExtensionTyped(labels), NEW pvc, HasMeta(pvc), NEW pv, HasMeta(pv),
           NEW namespace, HasMeta(namespace), NEW pod, HasMeta(pod), NEW node, node = Nil \/ NodeTyped(node)
    PROVE  ExtensionTyped(ExtensionForPVC(Config.Extensions, labels, pvc, pv, namespace, pod, node))
<1> DEFINE l == IF pvc = Nil THEN labels ELSE SetLabelsForMetadata(labels, Config.Extensions["PVCs"], pvc.meta)
           k == ExtensionForPV(Config.Extensions, l, pv, node)
<1>1. ExtensionTyped(l)
  BY MetadataLabelsTyped DEF HasMeta, MetadataKinds
<1>2. ExtensionForPVC(Config.Extensions, labels, pvc, pv, namespace, pod, node)
        = ExtensionForPod(Config.Extensions, k, pod, node, namespace)
  BY Zenon DEF ExtensionForPVC
<1> HIDE DEF l
<1>3. ExtensionTyped(k)
  BY <1>1, PVExtension
<1> HIDE DEF k
<1> QED  BY <1>2, <1>3, PodExtension

\* a workload that owns a pod
WorkloadTyped(w) == {w.Name, w.Kind, w.APIGroup, w.APIVersion} \subseteq STRING

\* The workload an owner reference names: its API has a part, so a last one.
LEMMA OwnerTyped ==
    ASSUME NEW name \in STRING, NEW kind \in STRING, NEW api \in Seq(STRING) \ {<<>>}
    PROVE  WorkloadTyped(OwnerWorkload(name, kind, api))
<1>1. Len(api) \in Nat /\ Len(api) # 0 /\ DOMAIN api = 1 .. Len(api) /\ \A i \in DOMAIN api : api[i] \in STRING
  OBVIOUS
<1>2. api[1] \in STRING
  BY <1>1
<1>3. Len(api) < 2 \/ api[2] \in STRING
  BY <1>1
<1>4. LET g == getAPIGroupVersion(api) IN g.Group \in STRING /\ g.Version \in STRING
  BY <1>2, <1>3, LiteralsAreStrings DEF getAPIGroupVersion
<1> QED  BY <1>4 DEF WorkloadTyped, OwnerWorkload

\* The workload that annotations name.
LEMMA AnnotatedTyped ==
    ASSUME NEW a, IsText(a), "workload-name" \in DOMAIN a
    PROVE  WorkloadTyped(AnnotatedWorkload(a))
BY GetTyped DEF AnnotatedWorkload, WorkloadTyped, IsText

\* The reference of a controller is one of the references.
LEMMA ControllerTyped ==
    ASSUME NEW owners, OwnersFit(owners), ControllerOf(owners) # Nil
    PROVE  LET r == ControllerOf(owners)
           IN  r.Name \in STRING /\ r.Kind \in STRING /\ r.API \in Seq(STRING) \ {<<>>}
<1>1. ControllerOf(owners) \in ToSet(owners)
  BY NamedFound DEF OwnersFit
<1> QED  BY <1>1 DEF OwnersFit

\* a pod, as far as labels and values read it
PodTyped(pod) ==
    /\ {pod.Name, pod.Namespace, pod.NodeName, pod.PriorityClass} \subseteq STRING
    /\ MetaTyped(pod.meta) /\ OwnersFit(pod.Owners) /\ StatusesFit(pod)
    /\ pod.Age \in Int \cup {Nil} /\ pod.ScheduledAfter \in Int
    /\ \A s \in ToSet(pod.Statuses) : s.ImageID \in STRING
    /\ IsList(pod.Containers)
    /\ \A x \in ToSet(pod.Containers) :
          /\ {x.Name, x.Image} \subseteq STRING /\ IsAmounts(x.Requests) /\ IsAmounts(x.Limits)
          /\ \A r \in {"cpu", "memory"} : Qty(x.Limits, r) \in Nat

\* The workload of a pod is text, however it was found.
LEMMA WorkloadOfPod ==
    ASSUME cluster \in Clusters, NEW pod, PodTyped(pod)
    PROVE  WorkloadTyped(getWorkloadForPod(pod))
<1> DEFINE ref == ControllerOf(pod.Owners)
           a == pod.meta.Annotations
<1>1. "workload-name" \in DOMAIN a => WorkloadTyped(AnnotatedWorkload(a))
  BY AnnotatedTyped DEF PodTyped, MetaTyped
<1>2. WorkloadTyped(OwnerWorkload(pod.Name, "pod", <<"v1">>))
  <2>1. pod.Name \in STRING /\ "pod" \in STRING /\ <<"v1">> \in Seq(STRING) \ {<<>>}
    BY LiteralsAreStrings DEF PodTyped
  <2> QED  BY <2>1, OwnerTyped
<1>3. ref # Nil => ref.Name \in STRING /\ ref.Kind \in STRING /\ ref.API \in Seq(STRING) \ {<<>>}
  BY ControllerTyped DEF PodTyped
<1>4. getWorkloadForPod(pod) =
        IF "workload-name" \in DOMAIN a THEN AnnotatedWorkload(a)
        ELSE IF ref = Nil THEN OwnerWorkload(pod.Name, "pod", <<"v1">>)
        ELSE IF ref.Kind \in {"replicaset", "job"} THEN getWorkloadFor(ref, pod.Namespace)
        ELSE OwnerWorkload(ref.Name, ref.Kind, ref.API)
  BY Zenon DEF getWorkloadForPod
<1> HIDE DEF ref, a
<1>5. ASSUME ref # Nil PROVE WorkloadTyped(getWorkloadFor(ref, pod.Namespace))
  <2> DEFINE list == cluster.Controllers
             rs == NamedIn(list, pod.Namespace, ref.Name)
             top == ControllerOf(rs.Owners)
  <2>1. list \in Seq(ToSet(list)) /\ \A x \in ToSet(list) : IsText(x.Annotations) /\ OwnersFit(x.Owners)
    BY ObjectTypes
  <2>2. rs \in ToSet(list) \cup {Nil}
    <3> HIDE DEF list
    <3> QED  BY <2>1, NamedFound
  <2>3. getWorkloadFor(ref, pod.Namespace) =
          IF rs = Nil THEN OwnerWorkload(ref.Name, ref.Kind, ref.API)
          ELSE IF "workload-name" \in DOMAIN rs.Annotations THEN AnnotatedWorkload(rs.Annotations)
          ELSE IF top = Nil THEN OwnerWorkload(ref.Name, ref.Kind, ref.API)
          ELSE OwnerWorkload(top.Name, top.Kind, ref.API)
    BY Zenon DEF getWorkloadFor
  <2> HIDE DEF rs, list
  <2>4. rs # Nil => IsText(rs.Annotations) /\ OwnersFit(rs.Owners)
    BY <2>1, <2>2
  <2>5. rs # Nil /\ "workload-name" \in DOMAIN rs.Annotations => WorkloadTyped(AnnotatedWorkload(rs.Annotations))
    BY <2>4, AnnotatedTyped
  <2>6. WorkloadTyped(OwnerWorkload(ref.Name, ref.Kind, ref.API))
    BY <1>3, <1>5, OwnerTyped
  <2>7. rs # Nil /\ top # Nil => WorkloadTyped(OwnerWorkload(top.Name, top.Kind, ref.API))
    <3>1. rs # Nil /\ top # Nil => top.Name \in STRING /\ top.Kind \in STRING
      BY <2>4, ControllerTyped
    <3> HIDE DEF top
    <3> QED  BY <1>3, <1>5, <3>1, OwnerTyped
  <2> QED  BY <2>3, <2>5, <2>6, <2>7
<1>6. ref # Nil => WorkloadTyped(OwnerWorkload(ref.Name, ref.Kind, ref.API))
  BY <1>3, OwnerTyped
<1> QED  BY <1>1, <1>2, <1>4, <1>5, <1>6

\* A flag is written as text.
LEMMA FlagTyped == \A b : Flag(b) \in STRING
BY LiteralsAreStrings DEF Flag

\* Setting a label to a string.
LEMMA SetTyped ==
    ASSUME NEW labels, BuiltInTyped(labels), NEW f, NEW v \in STRING
    PROVE  BuiltInTyped([labels EXCEPT ![f] = v])
BY DEF BuiltInTyped

\* Built-in labels of a container.
LEMMA ContainerBuiltIn ==
    ASSUME NEW labels, BuiltInTyped(labels), NEW c, {c.Name, c.Image} \subseteq STRING
    PROVE  BuiltInTyped(BuiltInForContainer(labels, c))
BY DEF BuiltInTyped, BuiltInForContainer

\* Built-in labels of the status of a container.
LEMMA StatusBuiltIn ==
    ASSUME NEW labels, BuiltInTyped(labels), NEW s, s = Nil \/ s.ImageID \in STRING
    PROVE  BuiltInTyped(BuiltInForContainerStatus(labels, s))
BY DEF BuiltInTyped, BuiltInForContainerStatus

\* Built-in labels of a node.
LEMMA NodeBuiltIn ==
    ASSUME NEW labels, BuiltInTyped(labels), NEW node, node = Nil \/ node.Name \in STRING
    PROVE  BuiltInTyped(BuiltInForNode(labels, node))
BY LiteralsAreStrings, FlagTyped DEF BuiltInTyped, BuiltInForNode

\* Built-in labels of a cgroup.
LEMMA CGroupBuiltIn ==
    ASSUME NEW labels, BuiltInTyped(labels), NEW level \in STRING
    PROVE  BuiltInTyped(BuiltInForCGroup(labels, level))
BY DEF BuiltInTyped, BuiltInForCGroup

\* Built-in labels of a namespace.
LEMMA NamespaceBuiltIn ==
    ASSUME NEW labels, BuiltInTyped(labels), NEW namespace, namespace = Nil \/ namespace.Name \in STRING
    PROVE  BuiltInTyped(BuiltInForNamespace(labels, namespace))
BY LiteralsAreStrings DEF BuiltInTyped, BuiltInForNamespace

\* Built-in labels of an entry of a cluster-scoped object.
LEMMA ScopedBuiltIn ==
    ASSUME NEW labels, BuiltInTyped(labels), NEW found, IsText(found)
    PROVE  BuiltInTyped(BuiltInForClusterScoped(labels, found))
BY GetTyped DEF BuiltInTyped, BuiltInForClusterScoped

\* Built-in labels of a pod and its workload.
LEMMA PodBuiltIn ==
    ASSUME NEW labels, BuiltInTyped(labels), NEW p, NEW w,
           p = Nil \/ (PodTyped(p) /\ WorkloadTyped(w)), NEW node
    PROVE  BuiltInTyped(BuiltInForPod(labels, p, w, node))
<1>1. CASE p = Nil
  BY <1>1, LiteralsAreStrings DEF BuiltInTyped, BuiltInForPod
<1>2. CASE p # Nil
  <2>1. Get(p.meta.Labels, "app") \in STRING
    BY <1>2, GetTyped DEF PodTyped, MetaTyped
  <2>2. {p.Name, p.Namespace, p.NodeName, p.PriorityClass} \subseteq STRING
    BY <1>2 DEF PodTyped
  <2>3. {w.Name, w.Kind, w.APIGroup, w.APIVersion} \subseteq STRING
    BY <1>2 DEF WorkloadTyped
  <2> QED  BY <1>2, <2>1, <2>2, <2>3, FlagTyped, ZenonT(30) DEF BuiltInTyped, BuiltInForPod
<1> QED  BY <1>1, <1>2

\* Built-in labels a claim adds.
LEMMA ClaimBuiltIn ==
    ASSUME NEW labels, BuiltInTyped(labels), NEW pvc,
           pvc = Nil \/ {pvc.Name, pvc.Namespace, pvc.Phase} \subseteq STRING
    PROVE  BuiltInTyped(setLabelsForPersistentVolumeClaim(labels, pvc))
BY LiteralsAreStrings DEF BuiltInTyped, setLabelsForPersistentVolumeClaim

\* Built-in labels a volume adds.
LEMMA VolumeBuiltIn ==
    ASSUME NEW labels, BuiltInTyped(labels), NEW pv,
           pv = Nil \/ {pv.Name, pv.StorageClass, pv.Phase} \subseteq STRING
    PROVE  BuiltInTyped(setLabelsForPersistentVolume(labels, pv))
BY LiteralsAreStrings DEF BuiltInTyped, setLabelsForPersistentVolume

\* Built-in labels of a volume, with those of its claim and node.
LEMMA PVBuiltIn ==
    ASSUME NEW labels, BuiltInTyped(labels), NEW pv, {pv.Name, pv.StorageClass, pv.Phase, pv.Hostname} \subseteq STRING,
           NEW pvc, pvc = Nil \/ {pvc.Name, pvc.Namespace, pvc.Phase} \subseteq STRING,
           NEW node, node = Nil \/ node.Name \in STRING
    PROVE  BuiltInTyped(BuiltInForPV(labels, pv, pvc, node))
<1> DEFINE l == IF node = Nil THEN [labels EXCEPT !.NodeName = pv.Hostname] ELSE BuiltInForNode(labels, node)
           c == setLabelsForPersistentVolumeClaim(l, pvc)
<1>1. BuiltInTyped(l)
  <2>1. BuiltInTyped([labels EXCEPT !.NodeName = pv.Hostname])
    BY SetTyped
  <2> QED  BY <2>1, NodeBuiltIn
<1>2. BuiltInForPV(labels, pv, pvc, node) =
        IF pv = Nil THEN [labels EXCEPT !.PVName = Undefined] ELSE setLabelsForPersistentVolume(c, pv)
  BY Zenon DEF BuiltInForPV
<1> HIDE DEF l
<1>3. BuiltInTyped(c)
  BY <1>1, ClaimBuiltIn
<1>4. BuiltInTyped([labels EXCEPT !.PVName = Undefined])
  BY LiteralsAreStrings, SetTyped
<1> HIDE DEF c
<1> QED  BY <1>2, <1>3, <1>4, VolumeBuiltIn

\* Built-in labels of a claim, with those of its volume and pod.
LEMMA PVCBuiltIn ==
    ASSUME NEW labels, BuiltInTyped(labels), NEW pvc, {pvc.Name, pvc.Namespace, pvc.Phase} \subseteq STRING,
           NEW pv, pv = Nil \/ {pv.Name, pv.StorageClass, pv.Phase} \subseteq STRING,
           NEW pod, NEW w, pod = Nil \/ (PodTyped(pod) /\ WorkloadTyped(w)), NEW node
    PROVE  BuiltInTyped(BuiltInForPVC(labels, pvc, pv, pod, w, node))
<1> DEFINE p == BuiltInForPod(labels, pod, w, node)
           v == setLabelsForPersistentVolume(p, pv)
<1>1. BuiltInForPVC(labels, pvc, pv, pod, w, node) =
        IF pvc = Nil THEN [labels EXCEPT !.PVCName = Undefined] ELSE setLabelsForPersistentVolumeClaim(v, pvc)
  BY Zenon DEF BuiltInForPVC
<1>2. BuiltInTyped(p)
  BY PodBuiltIn
<1> HIDE DEF p
<1>3. BuiltInTyped(v)
  BY <1>2, VolumeBuiltIn
<1>4. BuiltInTyped([labels EXCEPT !.PVCName = Undefined])
  BY LiteralsAreStrings, SetTyped
<1> HIDE DEF v
<1> QED  BY <1>1, <1>3, <1>4, ClaimBuiltIn

\* The priority class of a quota is text, if several expressions name one too.
LEMMA PriorityTyped ==
    ASSUME NEW class \in STRING, NEW list, \A e \in ToSet(list) : e.Values \subseteq STRING
    PROVE  PriorityClassOf(class, list) \in STRING
<1> DEFINE scopes == {s \in ToSet(list) : s.Scope = "PriorityClass" /\ Cardinality(s.Values) = 1 /\ s.Operator = "In"}
           named == ({class} \cup UNION {s.Values : s \in scopes}) \ {""}
<1>1. named \subseteq STRING
  <2>1. \A s \in scopes : s.Values \subseteq STRING
    OBVIOUS
  <2> HIDE DEF scopes
  <2>2. ASSUME NEW x \in named PROVE x = class \/ \E s \in scopes : x \in s.Values
    <3>1. x = class \/ x \in UNION {s.Values : s \in scopes}
      BY Zenon
    <3> QED  BY <3>1
  <2> QED  BY <2>1, <2>2
<1>2. PriorityClassOf(class, list) = CASE Cardinality(named) = 0 -> ""
                                       [] Cardinality(named) = 1 -> CHOOSE c \in named : TRUE
                                       [] OTHER -> Undefined
  BY DEF PriorityClassOf
<1> HIDE DEF named
<1>3. Cardinality(named) = 1 => named # {}
  <2>1. Cardinality({}) = 0
    BY FS_EmptySet
  <2> QED  BY <2>1
<1>4. CASE Cardinality(named) = 0
  <2>0. Cardinality(named) # 1
    BY <1>4
  <2>1. PriorityClassOf(class, list) = ""
    BY <1>2, <1>4, <2>0, Zenon
  <2> QED  BY <2>1, EmptyIsString
<1>5. CASE Cardinality(named) = 1
  BY <1>1, <1>2, <1>3, <1>5
<1>6. CASE Cardinality(named) # 0 /\ Cardinality(named) # 1
  BY <1>2, <1>6, LiteralsAreStrings
<1> QED  BY <1>4, <1>5, <1>6

\* Built-in labels of a quota, with those of its descriptor.
LEMMA QuotaBuiltIn ==
    ASSUME NEW labels, BuiltInTyped(labels), NEW quota, {quota.Name, quota.Namespace} \subseteq STRING,
           \A e \in ToSet(quota.MatchExpressions) : e.Values \subseteq STRING,
           NEW rqd, rqd = Nil \/ rqd.Strategy \in STRING, NEW use
    PROVE  BuiltInTyped(BuiltInForQuota(labels, quota, rqd, use))
<1>1. PriorityClassOf(labels["PriorityClass"], quota.MatchExpressions) \in STRING
  <2>1. labels["PriorityClass"] \in STRING
    BY DEF BuiltInTyped, BuiltInField, BuiltInName
  <2> QED  BY <2>1, PriorityTyped
<1>2. BuiltInTyped([labels EXCEPT !.QuotaName = Undefined])
  BY LiteralsAreStrings, SetTyped
<1>3. quota # Nil => BuiltInForQuota(labels, quota, rqd, use) =
        [labels EXCEPT
            !.AllocationStrategy = IF rqd = Nil THEN Undefined ELSE rqd.Strategy,
            !.NamespaceName = quota.Namespace, !.QuotaName = quota.Name,
            !.PriorityClass = IF use THEN quota.Name ELSE PriorityClassOf(labels["PriorityClass"], quota.MatchExpressions)]
  BY DEF BuiltInForQuota, BuiltInTyped, BuiltInField, BuiltInName
<1>4. CASE quota = Nil
  BY <1>2, <1>4 DEF BuiltInForQuota
<1>5. CASE quota # Nil
  BY <1>1, <1>3, <1>5, LiteralsAreStrings DEF BuiltInTyped
<1> QED  BY <1>4, <1>5
-----------------------------------------------------------------------------
(* The types of the values.                                                *)

LEMMA SingleTyped == ASSUME NEW x, IsAmounts(x) PROVE ListTyped(Single(x)) /\ DOMAIN Single(x) = DOMAIN x
BY DEF IsAmounts, ListTyped, Single

\* A single value.
LEMMA OneTyped ==
    ASSUME NEW f, NEW r, NEW v \in Int, f = [x \in {r} |-> <<v>>]
    PROVE  ListTyped(f)
<1>1. <<v>> \in Seq(Int)
  OBVIOUS
<1> QED  BY <1>1 DEF ListTyped

\* The count of an object.
LEMMA ItemsTyped == ListTyped(Items)
<1>1. Items = [x \in {"items"} |-> <<1>>]
  BY DEF Items
<1> QED  BY <1>1, OneTyped

\* What has no entry.
LEMMA EmptyTyped == ListTyped(Empty) /\ IsAmounts(Empty) /\ ValuesTyped(Empty) /\ DOMAIN Empty = {}
BY DEF ListTyped, IsAmounts, ValuesTyped, Empty

\* A union of maps whose values are typed.
LEMMA MergeTyped ==
    ASSUME NEW a, NEW b
    PROVE  /\ ListTyped(a) /\ ListTyped(b) => ListTyped(Merge(a, b))
           /\ ValuesTyped(a) /\ ValuesTyped(b) => ValuesTyped(Merge(a, b))
           /\ IsAmounts(a) /\ IsAmounts(b) => IsAmounts(Merge(a, b))
           /\ PointTyped(a) /\ PointTyped(b) => PointTyped(Merge(a, b))
<1>1. DOMAIN Merge(a, b) = DOMAIN a \cup DOMAIN b
  BY DEF Merge
<1>2. \A x \in DOMAIN Merge(a, b) : Merge(a, b)[x] = IF x \in DOMAIN a THEN a[x] ELSE b[x]
  BY DEF Merge
<1> HIDE DEF Merge
<1> QED  BY <1>1, <1>2 DEF ListTyped, ValuesTyped, IsAmounts, PointTyped

\* Dropping what has no value.
LEMMA NonEmptyTyped == ASSUME NEW x, ListTyped(x) PROVE ListTyped(NonEmpty(x))
BY DEF NonEmpty, ListTyped

\* A quantity that is missing is zero.
LEMMA QtyTyped == ASSUME NEW x, IsAmounts(x) PROVE \A r : Qty(x, r) \in Int
BY DEF IsAmounts, Qty

\* The greatest of a set of numbers with a bound.
LEMMA GreatestWithin ==
    ASSUME NEW n \in Nat, NEW I \in SUBSET (0 .. n), I # {}
    PROVE  Max(I) \in I
<1> DEFINE U == {n - i : i \in I}
<1>1. \A i \in I : i \in Nat /\ n - i \in Nat
  OBVIOUS
<1>2. U \in SUBSET Nat /\ U # {}
  BY <1>1
<1>3. \E x \in I : \A y \in I : x >= y
  <2> HIDE DEF U
  <2>1. PICK u \in U : \A v \in U : u <= v
    BY <1>2, LeastNumber
  <2>2. PICK x \in I : u = n - x
    BY DEF U
  <2>3. \A y \in I : n - x <= n - y
    BY <2>1, <2>2 DEF U
  <2> QED  BY <1>1, <2>3
<1> QED  BY <1>3 DEF Max

\* Values without those of the start of a pod.
LEMMA StrippedTyped ==
    ASSUME NEW pod, NEW values \in Seq(Int)
    PROVE  Stripped(pod, values) \in Seq(Int)
<1> DEFINE n == Len(values)
           I == {0} \cup {i \in DOMAIN values : values[i] # 0}
<1>1. n \in Nat /\ DOMAIN values = 1 .. n
  OBVIOUS
<1>2. I \in SUBSET (0 .. n) /\ I # {}
  BY <1>1
<1>3. Stripped(pod, values) = SubSeq(values, 1, IF Completed(pod) THEN Max(I) ELSE n)
  BY Zenon DEF Stripped
<1> HIDE DEF I
<1>4. Max(I) \in I
  BY <1>1, <1>2, GreatestWithin
<1>5. Max(I) \in 0 .. n
  BY <1>2, <1>4
<1>6. \A m \in 0 .. n : SubSeq(values, 1, m) \in Seq(Int)
  BY <1>1
<1> QED  BY <1>1, <1>3, <1>5, <1>6

\* The values createValue makes of a list.
LEMMA CreateTyped ==
    ASSUME NEW pod, NEW values \in Seq(Int), NEW r
    PROVE  ListTyped(createValue(pod, values, r))
<1>1. ListTyped(Put(Empty, r, Stripped(pod, values)))
  BY StrippedTyped DEF ListTyped, Put, Empty
<1> QED  BY <1>1, NonEmptyTyped DEF createValue

\* the samples of a container, as far as values read them
SampleTyped(s) ==
    /\ ListsOfSample \cup NumbersOfSample \cup {"Network", "AvgNetwork"} \subseteq DOMAIN s
    /\ \A f \in ListsOfSample : s[f] \in Seq(Int)
    /\ \A f \in NumbersOfSample : s[f] \in Int
    /\ ListTyped(s.Network) /\ IsAmounts(s.AvgNetwork)

\* Values of the use of cpu, memory and network.
LEMMA UtilizationTyped ==
    ASSUME NEW container, IsAmounts(container.Requests), NEW pod, NEW u, SampleTyped(u)
    PROVE  ValuesTyped(UtilizationValues(container, pod, u))
<1> DEFINE measured == NonEmpty([cpu |-> Stripped(pod, u.Cpu), memory |-> Stripped(pod, u.Memory)])
           requests == IF Completed(pod) THEN Empty ELSE container.Requests
           a == Single(Merge([cpu |-> u.AvgCpu, memory |-> u.AvgMemory], u.AvgNetwork))
           b == Merge(measured, NonEmpty(u.Network))
           c == [r \in DOMAIN measured |-> [i \in DOMAIN measured[r] |-> Qty(requests, r) - measured[r][i]]]
<1>1. u.Cpu \in Seq(Int) /\ u.Memory \in Seq(Int) /\ u.AvgCpu \in Int /\ u.AvgMemory \in Int
  BY DEF SampleTyped, ListsOfSample, NumbersOfSample
<1>2. ListTyped(measured)
  <2>1. ListTyped([cpu |-> Stripped(pod, u.Cpu), memory |-> Stripped(pod, u.Memory)])
    BY <1>1, StrippedTyped DEF ListTyped
  <2> QED  BY <2>1, NonEmptyTyped
<1>3. UtilizationValues(container, pod, u) =
        [avg_utilization |-> a, utilization |-> b, requests_allocated_minus_utilization |-> c]
  BY Zenon DEF UtilizationValues
<1>4. ListTyped(a)
  <2>1. IsAmounts([cpu |-> u.AvgCpu, memory |-> u.AvgMemory]) /\ IsAmounts(u.AvgNetwork)
    BY <1>1 DEF IsAmounts, SampleTyped
  <2> QED  BY <2>1, MergeTyped, SingleTyped
<1> HIDE DEF measured
<1>5. ListTyped(b)
  BY <1>2, MergeTyped, NonEmptyTyped DEF SampleTyped
<1>6. ListTyped(c)
  <2>1. \A r : Qty(requests, r) \in Int
    BY QtyTyped, EmptyTyped
  <2> HIDE DEF requests
  <2> SUFFICES ASSUME NEW r \in DOMAIN measured
               PROVE  [i \in DOMAIN measured[r] |-> Qty(requests, r) - measured[r][i]] \in Seq(Int)
    BY DEF ListTyped
  <2>2. measured[r] \in Seq(Int)
    BY <1>2 DEF ListTyped
  <2>3. DOMAIN measured[r] = 1 .. Len(measured[r]) /\ Len(measured[r]) \in Nat
    BY <2>2
  <2>4. \A i \in DOMAIN measured[r] : Qty(requests, r) - measured[r][i] \in Int
    BY <2>1, <2>2
  <2> QED  BY <2>3, <2>4
<1> HIDE DEF a, b, c
<1> QED  BY <1>3, <1>4, <1>5, <1>6 DEF ValuesTyped

\* Values of the throttling of a container.
LEMMA PeriodsTyped ==
    ASSUME NEW pod, NEW u, SampleTyped(u)
    PROVE  ValuesTyped(PeriodValues(pod, u))
<1>1. /\ u.Periods \in Seq(Int) /\ u.Throttled \in Seq(Int) /\ u.AvgPeriods \in Int /\ u.AvgThrottled \in Int
      /\ u.Oom \in Int /\ u.OomKill \in Int
  BY DEF SampleTyped, ListsOfSample, NumbersOfSample
<1>2. ListTyped(createValue(pod, u.Periods, "periods")) /\ ListTyped(createValue(pod, u.Throttled, "periods"))
  BY <1>1, CreateTyped
<1> DEFINE a == createValue(pod, u.Periods, "periods")
           b == [periods |-> <<u.AvgPeriods>>]
           c == createValue(pod, u.Throttled, "periods")
           d == [periods |-> <<u.AvgThrottled>>]
           e == [items |-> <<u.OomKill>>]
           f == [items |-> <<u.Oom>>]
<1>3. PeriodValues(pod, u) = [nr_periods |-> a, avg_nr_periods |-> b, nr_throttled |-> c, avg_nr_throttled |-> d,
                              oom_kill |-> e, oom |-> f]
  BY DEF PeriodValues
<1>4. ListTyped(b) /\ ListTyped(d) /\ ListTyped(e) /\ ListTyped(f)
  <2>1. b = [x \in {"periods"} |-> <<u.AvgPeriods>>] /\ d = [x \in {"periods"} |-> <<u.AvgThrottled>>]
    OBVIOUS
  <2>2. e = [x \in {"items"} |-> <<u.OomKill>>] /\ f = [x \in {"items"} |-> <<u.Oom>>]
    OBVIOUS
  <2> HIDE DEF b, d, e, f
  <2> QED  BY <1>1, <2>1, <2>2, OneTyped
<1> HIDE DEF a, b, c, d, e, f
<1> QED  BY <1>2, <1>3, <1>4 DEF ValuesTyped, a, c

\* Values of a container, with samples or without.
LEMMA ContainerValuesTyped ==
    ASSUME NEW container, IsAmounts(container.Requests), IsAmounts(container.Limits), NEW pod, NEW u,
           u = Nil \/ SampleTyped(u)
    PROVE  ValuesTyped(GetValuesForContainer(container, pod, u))
<1> DEFINE a == AllocatedValues(container, pod)
           known == Merge([container |-> Items], a)
           used == Merge(known, UtilizationValues(container, pod, u))
           all == Merge(used, PeriodValues(pod, u))
<1>1. ValuesTyped(a)
  BY SingleTyped, EmptyTyped DEF AllocatedValues, ValuesTyped
<1>2. ValuesTyped([container |-> Items])
  BY ItemsTyped DEF ValuesTyped
<1>3. ValuesTyped(known)
  BY <1>1, <1>2, MergeTyped
<1>4. u # Nil => ValuesTyped(UtilizationValues(container, pod, u)) /\ ValuesTyped(PeriodValues(pod, u))
  BY UtilizationTyped, PeriodsTyped
<1>5. u # Nil => ValuesTyped(used)
  <2> HIDE DEF known
  <2> QED  BY <1>3, <1>4, MergeTyped
<1>6. u # Nil => ValuesTyped(all)
  <2> HIDE DEF used
  <2> QED  BY <1>4, <1>5, MergeTyped
<1>7. LET v == GetValuesForContainer(container, pod, u) IN v = known \/ (u # Nil /\ (v = used \/ v = all))
  BY Zenon DEF GetValuesForContainer
<1> HIDE DEF known, used, all
<1> QED  BY <1>3, <1>5, <1>6, <1>7

\* Values of the time a pod took to be scheduled.
LEMMA SchedulerTyped ==
    ASSUME NEW pod, pod.Age \in Int \cup {Nil}, pod.ScheduledAfter \in Int, NEW s
    PROVE  ValuesTyped(GetValuesForSchedulerHealth(pod, s))
<1> DEFINE waited == IF pod.NodeName # "" THEN pod.ScheduledAfter ELSE IF pod.Age > s.MinPodAge THEN pod.Age ELSE 0
<1>1. pod.Age # Nil => waited \in Int
  <2>1. waited = pod.ScheduledAfter \/ waited = pod.Age \/ waited = 0
    BY Zenon
  <2> HIDE DEF waited
  <2> QED  BY <2>1
<1>2. \/ GetValuesForSchedulerHealth(pod, s) = Empty
      \/ pod.Age # Nil /\ GetValuesForSchedulerHealth(pod, s) = [pod_schedule_wait |-> [time |-> <<waited>>]]
  BY Zenon DEF GetValuesForSchedulerHealth
<1> HIDE DEF waited
<1>3. ASSUME NEW v \in Int PROVE ValuesTyped([pod_schedule_wait |-> [time |-> <<v>>]])
  <2> DEFINE t == [time |-> <<v>>]
  <2>1. t = [x \in {"time"} |-> <<v>>]
    OBVIOUS
  <2> HIDE DEF t
  <2>2. ListTyped(t)
    BY <2>1, OneTyped
  <2>3. ValuesTyped([pod_schedule_wait |-> t])
    BY <2>2 DEF ValuesTyped
  <2> QED  BY <2>3 DEF t
<1> QED  BY <1>1, <1>2, <1>3, EmptyTyped

\* Points made of typed values are typed.
LEMMA PointsTyped ==
    ASSUME NEW type, NEW values, ValuesTyped(values), NEW labels \in LabelsValues, NEW resources
    PROVE  PointTyped(Points(type, values, labels, resources))
<1> DEFINE points == Points(type, values, labels, resources)
<1>1. ASSUME NEW n \in DOMAIN points PROVE n[2] \in DOMAIN values /\ n[3] \in DOMAIN values[n[2]]
  BY DEF Points
<1>2. \A n \in DOMAIN points : points[n].Labels = labels /\ points[n].Value = values[n[2]][n[3]]
  BY PointsHave
<1> HIDE DEF points
<1> QED  BY <1>1, <1>2 DEF points, PointTyped, ValuesTyped, ListTyped

\* a list of a quota
QuotaAmounts(list) == IsAmounts(list) /\ DOMAIN list \subseteq DOMAIN QuotaKey

\* The part of a quota with a prefix: its keys lose the prefix.
LEMMA SplitTyped ==
    ASSUME NEW list, QuotaAmounts(list), NEW prefix
    PROVE  QuotaAmounts(splitRequestsLimitsQuota(list, prefix))
<1> DEFINE keys == {k \in DOMAIN list : QuotaKey[k].Prefix = prefix}
           s == splitRequestsLimitsQuota(list, prefix)
           At(r) == CHOOSE k \in keys : QuotaKey[k].Resource = r
<1>1. s = [r \in {QuotaKey[k].Resource : k \in keys} |-> list[At(r)]]
  BY Zenon DEF splitRequestsLimitsQuota
<1>2. \A k \in keys : k \in DOMAIN list /\ k \in DOMAIN QuotaKey
  BY DEF QuotaAmounts
<1> HIDE DEF s, keys
<1>3. ASSUME NEW r \in DOMAIN s PROVE s[r] \in Int /\ r \in DOMAIN QuotaKey
  <2>1. PICK k \in keys : QuotaKey[k].Resource = r
    BY <1>1, <1>3
  <2>2. At(r) \in keys
    BY <2>1, Zenon
  <2> HIDE DEF At
  <2>3. r \in DOMAIN QuotaKey
    BY <1>2, <2>1, ConfigTypes
  <2> QED  BY <1>1, <1>2, <2>2, <2>3 DEF QuotaAmounts, IsAmounts
<1> QED  BY <1>3 DEF QuotaAmounts, IsAmounts, s

\* The difference of two lists of a quota.
LEMMA SubTyped ==
    ASSUME NEW a, QuotaAmounts(a), NEW b, QuotaAmounts(b)
    PROVE  QuotaAmounts(subLists(a, b))
BY DEF QuotaAmounts, IsAmounts, subLists

\* The part of a proposed quota with a prefix.
LEMMA ProposedTyped ==
    ASSUME NEW list, QuotaAmounts(list), NEW prefix
    PROVE  QuotaAmounts(getProposedQuota(list, prefix))
<1> DEFINE s == splitRequestsLimitsQuota(list, prefix)
<1>1. QuotaAmounts(s)
  BY SplitTyped
<1>2. getProposedQuota(list, prefix) = [r \in DOMAIN s \cap ResourceNames |-> s[r]]
  BY DEF getProposedQuota
<1> HIDE DEF s
<1> QED  BY <1>1, <1>2 DEF QuotaAmounts, IsAmounts

\* The part of a quota for claims.
LEMMA PVCQuotaTyped ==
    ASSUME NEW list, QuotaAmounts(list)
    PROVE  QuotaAmounts(getRequestsPVCQuota(list))
BY DEF QuotaAmounts, IsAmounts, getRequestsPVCQuota

\* values of a quota: lists by the keys of quotas, but for the item
QuotaList(value) == ListTyped(value) /\ DOMAIN value \subseteq DOMAIN QuotaKey

\* A list of a quota as values.
LEMMA QuotaSingle == ASSUME NEW a, QuotaAmounts(a) PROVE QuotaList(Single(a))
BY SingleTyped DEF QuotaAmounts, QuotaList

\* Values of a quota descriptor.
LEMMA DescriptorTyped ==
    ASSUME NEW quota, QuotaAmounts(quota.StatusHard), NEW rqd,
           rqd = Nil \/ (QuotaAmounts(rqd.Proposed) /\ QuotaAmounts(rqd.MaxObserved))
    PROVE  LET v == DescriptorValues(quota, rqd)
           IN  "quota" \notin DOMAIN v /\ \A s \in DOMAIN v : QuotaList(v[s])
<1> DEFINE Hard(p) == splitRequestsLimitsQuota(quota.StatusHard, p)
           Proposed(p) == IF rqd = Nil THEN Empty ELSE getProposedQuota(rqd.Proposed, p)
           Observed(p) == IF rqd = Nil THEN Empty ELSE splitRequestsLimitsQuota(rqd.MaxObserved, p)
           a == Single(Proposed("requests"))
           b == Single(Proposed("limits"))
           c == Single(subLists(Hard("requests"), Proposed("requests")))
           d == Single(subLists(Hard("limits"), Proposed("limits")))
           e == Single(subLists(Observed("requests"), Hard("requests")))
           f == Single(subLists(Observed("limits"), Hard("limits")))
<1>1. DescriptorValues(quota, rqd) =
        [requests_quota_proposed |-> a, limits_quota_proposed |-> b, requests_quota_hard_minus_proposed |-> c,
         limits_quota_hard_minus_proposed |-> d, requests_quota_max_observed_minus_hard |-> e,
         limits_quota_max_observed_minus_hard |-> f]
  BY Zenon DEF DescriptorValues
<1>2. QuotaAmounts(Empty)
  BY EmptyTyped DEF QuotaAmounts
<1>3. \A p : QuotaAmounts(Hard(p)) /\ QuotaAmounts(Proposed(p)) /\ QuotaAmounts(Observed(p))
  BY <1>2, SplitTyped, ProposedTyped
<1> HIDE DEF Hard, Proposed, Observed
<1>4. QuotaList(a) /\ QuotaList(b)
  BY <1>3, QuotaSingle
<1>5. QuotaList(c) /\ QuotaList(d) /\ QuotaList(e) /\ QuotaList(f)
  BY <1>3, SubTyped, QuotaSingle
<1> HIDE DEF a, b, c, d, e, f
<1> QED  BY <1>1, <1>4, <1>5

\* Values of a quota: all but its count are keyed by keys of quotas.
LEMMA QuotaValuesTyped ==
    ASSUME NEW quota, QuotaAmounts(quota.StatusHard), QuotaAmounts(quota.StatusUsed), NEW rqd,
           rqd = Nil \/ (QuotaAmounts(rqd.Proposed) /\ QuotaAmounts(rqd.MaxObserved)), NEW enable
    PROVE  LET v == GetValuesForQuota(quota, rqd, enable)
           IN  v["quota"] = Items /\ \A s \in DOMAIN v \ {"quota"} : QuotaList(v[s])
<1> DEFINE Hard(p) == splitRequestsLimitsQuota(quota.StatusHard, p)
           Used(p) == splitRequestsLimitsQuota(quota.StatusUsed, p)
           a == Single(Hard("requests"))
           b == Single(Hard("limits"))
           c == Single(Used("requests"))
           d == Single(Used("limits"))
           e == Single(subLists(Hard("requests"), Used("requests")))
           f == Single(subLists(Hard("limits"), Used("limits")))
           g == Single(getRequestsPVCQuota(quota.StatusHard))
           h == Single(getRequestsPVCQuota(quota.StatusUsed))
           values == [requests_quota_hard |-> a, limits_quota_hard |-> b, requests_quota_used |-> c,
                      limits_quota_used |-> d, requests_quota_hard_minus_used |-> e,
                      limits_quota_hard_minus_used |-> f, pvc_requests_quota_hard |-> g,
                      pvc_requests_quota_used |-> h, quota |-> Items]
           D == DescriptorValues(quota, rqd)
<1>1. GetValuesForQuota(quota, rqd, enable) = IF enable THEN Merge(values, D) ELSE values
  BY Zenon DEF GetValuesForQuota
<1>2. \A p : QuotaAmounts(Hard(p)) /\ QuotaAmounts(Used(p))
  BY SplitTyped
<1> HIDE DEF Hard, Used
<1>3. QuotaList(a) /\ QuotaList(b) /\ QuotaList(c) /\ QuotaList(d)
  BY <1>2, QuotaSingle
<1>4. QuotaList(e) /\ QuotaList(f)
  BY <1>2, SubTyped, QuotaSingle
<1>5. QuotaList(g) /\ QuotaList(h)
  BY PVCQuotaTyped, QuotaSingle
<1> HIDE DEF a, b, c, d, e, f, g, h
<1>6. "quota" \in DOMAIN values /\ values["quota"] = Items /\ \A s \in DOMAIN values \ {"quota"} : QuotaList(values[s])
  BY <1>3, <1>4, <1>5
<1>7. "quota" \notin DOMAIN D /\ \A s \in DOMAIN D : QuotaList(D[s])
  BY DescriptorTyped
<1> HIDE DEF values, D
<1>8. LET v == Merge(values, D) IN v["quota"] = Items /\ \A s \in DOMAIN v \ {"quota"} : QuotaList(v[s])
  BY <1>6, <1>7 DEF Merge
<1> QED  BY <1>1, <1>6, <1>8

\* The sums of a node are numbers.
LEMMA TotalTyped ==
    ASSUME NEW pods, IsFiniteSet(pods), NEW list,
           \A p \in pods : IsList(p.Containers) /\ \A x \in ToSet(p.Containers) : IsAmounts(x[list])
    PROVE  IsAmounts(NodeTotal(pods, list))
<1> DEFINE P(p) == {<<p, j>> : j \in DOMAIN p.Containers}
           S == UNION {P(p) : p \in pods}
           g(r) == [c \in S |-> Qty(c[1].Containers[c[2]][list], r)]
<1>1. ASSUME NEW p \in pods PROVE IsFiniteSet(P(p))
  <2> DEFINE E == DOMAIN p.Containers
             f == [j \in E |-> <<p, j>>]
  <2>1. IsFiniteSet(E)
    <3>1. E = 1 .. Len(p.Containers) /\ Len(p.Containers) \in Nat
      BY DEF IsList
    <3> QED  BY <3>1, Interval
  <2>2. P(p) = {f[j] : j \in E}
    OBVIOUS
  <2> HIDE DEF f, E, P
  <2> QED  BY <2>1, <2>2, FiniteImage
<1>2. IsFiniteSet(S)
  <2> DEFINE f == [p \in pods |-> P(p)]
  <2> HIDE DEF P
  <2>1. {P(p) : p \in pods} = {f[p] : p \in pods}
    OBVIOUS
  <2>2. IsFiniteSet({f[p] : p \in pods})
    <3> HIDE DEF f
    <3> QED  BY FiniteImage
  <2> HIDE DEF f
  <2>3. \A T \in {P(p) : p \in pods} : IsFiniteSet(T)
    BY <1>1
  <2> QED  BY <2>1, <2>2, <2>3, FS_UNION
<1>3. ASSUME NEW r, NEW c \in S PROVE g(r)[c] \in Int
  <2>1. PICK p \in pods : c \in P(p)
    OBVIOUS
  <2>2. PICK j \in DOMAIN p.Containers : c = <<p, j>>
    BY <2>1
  <2> DEFINE x == p.Containers[j]
  <2>3. IsAmounts(x[list])
    BY DEF ToSet
  <2>4. g(r)[c] = Qty(x[list], r)
    <3> HIDE DEF S
    <3> QED  BY <2>2
  <2> HIDE DEF x, g
  <2> QED  BY <2>3, <2>4, QtyTyped
<1>4. ASSUME NEW r PROVE SumFunction(g(r)) \in Int
  <2> DEFINE f == g(r)
  <2>1. DOMAIN f = S /\ \A c \in S : f[c] \in Int
    <3>1. \A c \in S : f[c] \in Int
      BY <1>3
    <3> HIDE DEF S
    <3> QED  BY <3>1
  <2> HIDE DEF f, S
  <2>2. SumFunctionOnSet(f, S) \in Int
    BY <1>2, <2>1, SumType
  <2>3. SumFunction(f) = SumFunctionOnSet(f, S)
    BY <2>1 DEF SumFunction
  <2> QED  BY <2>2, <2>3 DEF f
<1>5. NodeTotal(pods, list) = [cpu |-> SumFunction(g("cpu")), memory |-> SumFunction(g("memory"))]
  BY DEF NodeTotal
<1> HIDE DEF g
<1> QED  BY <1>4, <1>5 DEF IsAmounts

\* Values of a node, with what its pods request.
LEMMA NodeValuesTyped ==
    ASSUME NEW node, IsAmounts(node.Allocatable), IsAmounts(node.Capacity), NEW pods, IsFiniteSet(pods),
           \A p \in pods : IsList(p.Containers) /\
               \A x \in ToSet(p.Containers) : IsAmounts(x.Requests) /\ IsAmounts(x.Limits)
    PROVE  ValuesTyped(GetValuesForNode(node, pods))
<1> DEFINE live == {p \in pods : ~Completed(p)}
           R == NodeTotal(live, "Requests")
           L == NodeTotal(live, "Limits")
           M == getAllocatableMinusRequests(node.Allocatable, R)
           a == Single(node.Allocatable)
           b == Single(node.Capacity)
           c == Single(R)
           d == Single(L)
           e == Single(M)
<1>1. IsFiniteSet(live) /\ live \subseteq pods
  BY FS_Subset
<1>2. getNodeRequestsLimits(pods) = [Requests |-> R, Limits |-> L]
  BY DEF getNodeRequestsLimits
<1> HIDE DEF live
<1>3. IsAmounts(R) /\ IsAmounts(L)
  BY <1>1, TotalTyped
<1> HIDE DEF R, L
<1>4. IsAmounts(M)
  BY <1>3, QtyTyped DEF IsAmounts, getAllocatableMinusRequests
<1>5. GetValuesForNode(node, pods) =
        [node |-> Items, node_allocatable |-> a, node_capacity |-> b, node_requests |-> c, node_limits |-> d,
         node_allocatable_minus_requests |-> e]
  BY <1>2 DEF GetValuesForNode
<1> HIDE DEF M
<1>6. ListTyped(a) /\ ListTyped(b) /\ ListTyped(c) /\ ListTyped(d) /\ ListTyped(e)
  BY <1>3, <1>4, SingleTyped
<1> HIDE DEF a, b, c, d, e
<1> QED  BY <1>5, <1>6, ItemsTyped DEF ValuesTyped

\* Values of volumes and claims.
LEMMA VolumeValuesTyped ==
    /\ \A pv : IsAmounts(pv.Capacity) => ValuesTyped(GetValuesForPV(pv))
    /\ \A pvc : IsAmounts(pvc.Requests) /\ IsAmounts(pvc.Limits) /\ IsAmounts(pvc.Capacity)
                    => ValuesTyped(GetValuesForPVC(pvc))
<1>1. \A x : IsAmounts(x) => ListTyped(Single(x))
  BY SingleTyped
<1> QED  BY <1>1, ItemsTyped DEF ValuesTyped, GetValuesForPV, GetValuesForPVC

\* the samples of a cgroup
CGroupTyped(g) ==
    /\ g.Level \in Seq(STRING) /\ g.Cpu \in Seq(Int) /\ g.Memory \in Seq(Int)
    /\ g.AvgCpu \in Int /\ g.AvgMemory \in Int

\* Values of a cgroup.
LEMMA CGroupValuesTyped == ASSUME NEW g, CGroupTyped(g) PROVE ValuesTyped(CGroupValues(g))
<1> DEFINE src == getCGroupMetricSource(g.Level)
           a == [cpu |-> g.Cpu, memory |-> g.Memory]
           b == [cpu |-> <<g.AvgCpu>>, memory |-> <<g.AvgMemory>>]
<1>1. ListTyped(a)
  BY DEF ListTyped, CGroupTyped
<1>2. ListTyped(b)
  <2>1. <<g.AvgCpu>> \in Seq(Int) /\ <<g.AvgMemory>> \in Seq(Int)
    BY DEF CGroupTyped
  <2>2. DOMAIN b = {"cpu", "memory"} /\ b["cpu"] = <<g.AvgCpu>> /\ b["memory"] = <<g.AvgMemory>>
    OBVIOUS
  <2> HIDE DEF b
  <2> QED  BY <2>1, <2>2 DEF ListTyped
<1>3. CGroupValues(g) = [s \in {src.Name, src.AvgName} \ {""} |-> IF s = src.Name THEN a ELSE b]
  BY Zenon DEF CGroupValues
<1> HIDE DEF a, b, src
<1> QED  BY <1>1, <1>2, <1>3 DEF ValuesTyped
-----------------------------------------------------------------------------
(* The types of what a scrape has listed, and of what it collects.         *)

\* An object of a scrape is one of a cluster.
LEMMA ListedFrom ==
    ASSUME FitInv, NEW f \in ListFields, NEW x \in ToSet(o[f])
    PROVE  \E c \in Clusters : x \in ToSet(c[f])
<1>1. f \in DOMAIN NoObjects \ {"Utilization"} /\ NoObjects[f] = <<>>
  BY DEF ListFields, NoObjects
<1>2. o[f] = <<>> \/ \E c \in Clusters : o[f] = c[f]
  BY <1>1 DEF FitInv, ObjectsFit
<1>3. ToSet(<<>>) = {}
  BY DEF ToSet
<1> QED  BY <1>2, <1>3

\* a volume
PVTyped(pv) ==
    /\ {pv.Name, pv.StorageClass, pv.Phase, pv.Hostname} \subseteq STRING /\ MetaTyped(pv.meta)
    /\ IsAmounts(pv.Capacity)

\* a claim
PVCTyped(pvc) ==
    /\ {pvc.Name, pvc.Namespace, pvc.Phase} \subseteq STRING /\ MetaTyped(pvc.meta)
    /\ IsAmounts(pvc.Requests) /\ IsAmounts(pvc.Limits) /\ IsAmounts(pvc.Capacity)

\* a quota
QuotaTyped(q) ==
    /\ {q.Name, q.Namespace} \subseteq STRING /\ MetaTyped(q.meta)
    /\ \A e \in ToSet(q.MatchExpressions) : e.Values \subseteq STRING
    /\ QuotaAmounts(q.StatusHard) /\ QuotaAmounts(q.StatusUsed)

\* a quota descriptor
DescriptorFits(d) == d.Strategy \in STRING /\ QuotaAmounts(d.Proposed) /\ QuotaAmounts(d.MaxObserved)

\* Objects a scrape has listed are of Go's types.
LEMMA ObjectsTyped ==
    ASSUME FitInv
    PROVE  /\ \A pod \in ToSet(o.Pods) : PodTyped(pod)
           /\ \A n \in ToSet(o.Nodes) : NodeTyped(n) /\ IsAmounts(n.Allocatable) /\ IsAmounts(n.Capacity)
           /\ \A n \in ToSet(o.Namespaces) : n.Name \in STRING /\ MetaTyped(n.meta)
           /\ \A x \in ToSet(o.PVs) : PVTyped(x)
           /\ \A x \in ToSet(o.PVCs) : PVCTyped(x)
           /\ \A q \in ToSet(o.Quotas) : QuotaTyped(q)
           /\ \A d \in ToSet(o.RQDs) : DescriptorFits(d)
<1>1. {"Pods", "Nodes", "Namespaces", "Quotas", "RQDs", "PVCs", "PVs"} \subseteq ListFields
  BY DEF ListFields, NoObjects
<1>2. ASSUME NEW c \in Clusters, NEW f \in DOMAIN TextFields, NEW x \in ToSet(c[f])
      PROVE  (\A g \in TextFields[f] : x[g] \in STRING) /\ MetaTyped(x.meta)
  BY ObjectTypes DEF MetaTyped
<1>3. ASSUME NEW c \in Clusters, NEW f \in DOMAIN AmountFields, NEW x \in ToSet(c[f]), NEW g \in AmountFields[f]
      PROVE  IsAmounts(x[g]) /\ (f \in {"Quotas", "RQDs"} => QuotaAmounts(x[g]))
  BY ObjectTypes DEF QuotaAmounts
<1>4. ASSUME NEW pod \in ToSet(o.Pods) PROVE PodTyped(pod)
  <2>1. PICK c \in Clusters : pod \in ToSet(c.Pods)
    BY <1>1, ListedFrom
  <2>2. "Pods" \in DOMAIN TextFields /\ TextFields["Pods"] = {"Name", "Namespace", "NodeName", "PriorityClass"}
    BY DEF TextFields
  <2>3. {pod.Name, pod.Namespace, pod.NodeName, pod.PriorityClass} \subseteq STRING /\ MetaTyped(pod.meta)
    BY <1>2, <2>1, <2>2
  <2>4. /\ pod.Age \in Int \cup {Nil} /\ pod.ScheduledAfter \in Int /\ OwnersFit(pod.Owners)
        /\ \A s \in ToSet(pod.Statuses) : s.ImageID \in STRING
        /\ \A x \in ToSet(pod.Containers) :
              {x.Name, x.Image} \subseteq STRING /\ IsAmounts(x.Requests) /\ IsAmounts(x.Limits)
    BY <2>1, ObjectTypes
  <2>5. /\ IsList(pod.Containers) /\ StatusesFit(pod)
        /\ \A x \in ToSet(pod.Containers), r \in {"cpu", "memory"} : Qty(x.Limits, r) \in Nat
    BY <2>1, FieldsAssumption
  <2> QED  BY <2>3, <2>4, <2>5 DEF PodTyped
<1>5. ASSUME NEW n \in ToSet(o.Nodes) PROVE NodeTyped(n) /\ IsAmounts(n.Allocatable) /\ IsAmounts(n.Capacity)
  <2>1. PICK c \in Clusters : n \in ToSet(c.Nodes)
    BY <1>1, ListedFrom
  <2>2. "Nodes" \in DOMAIN TextFields /\ TextFields["Nodes"] = {"Name"}
    BY DEF TextFields
  <2>3. "Nodes" \in DOMAIN AmountFields /\ AmountFields["Nodes"] = {"Allocatable", "Capacity"}
    BY DEF AmountFields
  <2>4. n.Name \in STRING /\ MetaTyped(n.meta)
    BY <1>2, <2>1, <2>2
  <2>5. IsAmounts(n.Allocatable) /\ IsAmounts(n.Capacity)
    BY <1>3, <2>1, <2>3
  <2>6. n.Taints \in Seq(ToSet(n.Taints)) /\ \A t \in ToSet(n.Taints) : t.Value \in STRING
    BY <2>1, ObjectTypes
  <2> QED  BY <2>4, <2>5, <2>6 DEF NodeTyped
<1>6. ASSUME NEW n \in ToSet(o.Namespaces) PROVE n.Name \in STRING /\ MetaTyped(n.meta)
  <2>1. PICK c \in Clusters : n \in ToSet(c.Namespaces)
    BY <1>1, ListedFrom
  <2>2. "Namespaces" \in DOMAIN TextFields /\ TextFields["Namespaces"] = {"Name"}
    BY DEF TextFields
  <2> QED  BY <1>2, <2>1, <2>2
<1>7. ASSUME NEW x \in ToSet(o.PVs) PROVE PVTyped(x)
  <2>1. PICK c \in Clusters : x \in ToSet(c.PVs)
    BY <1>1, ListedFrom
  <2>2. "PVs" \in DOMAIN TextFields /\ TextFields["PVs"] = {"Name", "StorageClass", "Phase", "Hostname"}
    BY DEF TextFields
  <2>3. "PVs" \in DOMAIN AmountFields /\ AmountFields["PVs"] = {"Capacity"}
    BY DEF AmountFields
  <2>4. {x.Name, x.StorageClass, x.Phase, x.Hostname} \subseteq STRING /\ MetaTyped(x.meta)
    BY <1>2, <2>1, <2>2
  <2>5. IsAmounts(x.Capacity)
    BY <1>3, <2>1, <2>3
  <2> QED  BY <2>4, <2>5 DEF PVTyped
<1>8. ASSUME NEW x \in ToSet(o.PVCs) PROVE PVCTyped(x)
  <2>1. PICK c \in Clusters : x \in ToSet(c.PVCs)
    BY <1>1, ListedFrom
  <2>2. "PVCs" \in DOMAIN TextFields /\ TextFields["PVCs"] = {"Name", "Namespace", "Phase"}
    BY DEF TextFields
  <2>3. "PVCs" \in DOMAIN AmountFields /\ AmountFields["PVCs"] = {"Requests", "Limits", "Capacity"}
    BY DEF AmountFields
  <2>4. {x.Name, x.Namespace, x.Phase} \subseteq STRING /\ MetaTyped(x.meta)
    BY <1>2, <2>1, <2>2
  <2>5. IsAmounts(x.Requests) /\ IsAmounts(x.Limits) /\ IsAmounts(x.Capacity)
    BY <1>3, <2>1, <2>3
  <2> QED  BY <2>4, <2>5 DEF PVCTyped
<1>9. ASSUME NEW q \in ToSet(o.Quotas) PROVE QuotaTyped(q)
  <2>1. PICK c \in Clusters : q \in ToSet(c.Quotas)
    BY <1>1, ListedFrom
  <2>2. "Quotas" \in DOMAIN TextFields /\ TextFields["Quotas"] = {"Name", "Namespace"}
    BY DEF TextFields
  <2>3. "Quotas" \in DOMAIN AmountFields /\ AmountFields["Quotas"] = {"StatusHard", "StatusUsed"}
    BY DEF AmountFields
  <2>4. {q.Name, q.Namespace} \subseteq STRING /\ MetaTyped(q.meta)
    BY <1>2, <2>1, <2>2
  <2>5. QuotaAmounts(q.StatusHard) /\ QuotaAmounts(q.StatusUsed)
    BY <1>3, <2>1, <2>3
  <2>6. \A e \in ToSet(q.MatchExpressions) : e.Values \subseteq STRING
    BY <2>1, ObjectTypes
  <2> QED  BY <2>4, <2>5, <2>6 DEF QuotaTyped
<1>10. ASSUME NEW d \in ToSet(o.RQDs) PROVE DescriptorFits(d)
  <2>1. PICK c \in Clusters : d \in ToSet(c.RQDs)
    BY <1>1, ListedFrom
  <2>2. "RQDs" \in DOMAIN AmountFields /\ AmountFields["RQDs"] = {"Proposed", "MaxObserved"}
    BY DEF AmountFields
  <2>3. QuotaAmounts(d.Proposed) /\ QuotaAmounts(d.MaxObserved)
    BY <1>3, <2>1, <2>2
  <2>4. d.Strategy \in STRING
    BY <2>1, ObjectTypes
  <2> QED  BY <2>3, <2>4 DEF DescriptorFits
<1> QED  BY <1>4, <1>5, <1>6, <1>7, <1>8, <1>9, <1>10

\* Looked up by name, they are nil or typed.
LEMMA LookupsTyped ==
    ASSUME FitInv
    PROVE  /\ \A name : LET n == Named(o.Nodes, name) IN n = Nil \/ NodeTyped(n)
           /\ \A name : HasMeta(Named(o.Namespaces, name))
           /\ \A name : LET pv == Named(o.PVs, name) IN pv = Nil \/ PVTyped(pv)
           /\ \A ns, name : LET pvc == NamedIn(o.PVCs, ns, name) IN pvc = Nil \/ PVCTyped(pvc)
           /\ \A ns, name : LET d == NamedIn(o.RQDs, ns, name) IN d = Nil \/ DescriptorFits(d)
<1>1. {"Nodes", "Namespaces", "PVs", "PVCs", "RQDs"} \subseteq ListFields
  BY DEF ListFields, NoObjects
<1>2. \A f \in ListFields : o[f] \in Seq(ToSet(o[f]))
  BY DEF FitInv, ObjectsFit, IsList
<1>3. \A f \in ListFields : /\ \A name : Named(o[f], name) \in ToSet(o[f]) \cup {Nil}
                            /\ \A ns, name : NamedIn(o[f], ns, name) \in ToSet(o[f]) \cup {Nil}
  BY <1>2, NamedFound
<1>4. \A name : Named(o.Nodes, name) \in ToSet(o.Nodes) \cup {Nil}
  BY <1>1, <1>3
<1>5. \A name : Named(o.Namespaces, name) \in ToSet(o.Namespaces) \cup {Nil}
  BY <1>1, <1>3
<1>6. \A name : Named(o.PVs, name) \in ToSet(o.PVs) \cup {Nil}
  BY <1>1, <1>3
<1>7. \A ns, name : NamedIn(o.PVCs, ns, name) \in ToSet(o.PVCs) \cup {Nil}
  BY <1>1, <1>3
<1>8. \A ns, name : NamedIn(o.RQDs, ns, name) \in ToSet(o.RQDs) \cup {Nil}
  BY <1>1, <1>3
<1> QED  BY <1>4, <1>5, <1>6, <1>7, <1>8, ObjectsTyped DEF HasMeta

\* The labels a collection starts with.
LEMMA NoLabelsTyped == BuiltInTyped(NoLabels.BuiltIn) /\ ExtensionTyped(NoLabels.Extension)
BY EmptyIsString DEF NoLabels, BuiltInTyped, ExtensionTyped

\* Labels of text are labels of the model's type.
LEMMA LabelsTyped ==
    ASSUME NEW b, BuiltInTyped(b), NEW e, ExtensionTyped(e)
    PROVE  [BuiltIn |-> b, Extension |-> e] \in LabelsValues
BY DEF BuiltInTyped, ExtensionTyped, LabelsValues

\* Labels whose built-in part is replaced.
LEMMA ChangedBuiltIn ==
    ASSUME NEW l \in LabelsValues, NEW b, BuiltInTyped(b)
    PROVE  [l EXCEPT !.BuiltIn = b] \in LabelsValues /\ BuiltInTyped(l.BuiltIn)
BY DEF LabelsValues, BuiltInTyped

\* Labels of a node.
LEMMA NodeLabelsTyped == ASSUME NEW n, NodeTyped(n) PROVE NodeLabels(n) \in LabelsValues
<1>1. BuiltInTyped(BuiltInForNode(NoLabels.BuiltIn, n))
  BY NoLabelsTyped, NodeBuiltIn DEF NodeTyped
<1>2. ExtensionTyped(ExtensionForNode(Config.Extensions, NoLabels.Extension, n))
  BY NoLabelsTyped, NodeExtension
<1> QED  BY <1>1, <1>2, LabelsTyped DEF NodeLabels

\* Labels of a namespace.
LEMMA NamespaceLabelsTyped ==
    ASSUME NEW n, n.Name \in STRING, MetaTyped(n.meta)
    PROVE  NamespaceLabels(n) \in LabelsValues
<1>1. BuiltInTyped(BuiltInForNamespace(NoLabels.BuiltIn, n))
  BY NoLabelsTyped, NamespaceBuiltIn
<1>2. ExtensionTyped(ExtensionForNamespace(Config.Extensions, NoLabels.Extension, n))
  BY NoLabelsTyped, NamespaceExtension DEF HasMeta
<1> QED  BY <1>1, <1>2, LabelsTyped DEF NamespaceLabels

\* Labels of a volume: its claim and node may be missing.
LEMMA PVLabelsTyped == ASSUME FitInv, NEW pv, PVTyped(pv) PROVE PVLabels(pv) \in LabelsValues
<1> DEFINE pvc == IF pv.ClaimRef = Nil THEN Nil ELSE NamedIn(o.PVCs, pv.ClaimRef.Namespace, pv.ClaimRef.Name)
           node == IF pv.Hostname = "" THEN Nil ELSE Named(o.Nodes, pv.Hostname)
           b == BuiltInForPV(NoLabels.BuiltIn, pv, pvc, node)
           e == ExtensionForPV(Config.Extensions, NoLabels.Extension, pv, node)
<1>1. PVLabels(pv) = [BuiltIn |-> b, Extension |-> e]
  BY Zenon DEF PVLabels
<1>2. pvc = Nil \/ PVCTyped(pvc)
  BY LookupsTyped
<1>3. node = Nil \/ NodeTyped(node)
  BY LookupsTyped
<1> HIDE DEF pvc, node
<1>4. BuiltInTyped(b)
  BY <1>2, <1>3, NoLabelsTyped, PVBuiltIn DEF PVTyped, PVCTyped, NodeTyped
<1>5. ExtensionTyped(e)
  BY <1>3, NoLabelsTyped, PVExtension DEF PVTyped, HasMeta
<1> HIDE DEF b, e
<1> QED  BY <1>1, <1>4, <1>5, LabelsTyped

\* Labels of a claim: its volume, namespace, pod and node may be missing.
LEMMA PVCLabelsTyped == ASSUME FitInv, NEW pvc, PVCTyped(pvc) PROVE PVCLabels(pvc) \in LabelsValues
<1> DEFINE pods == PodsByPVC(pvc)
           pod == IF Cardinality(pods) = 1 THEN (CHOOSE p \in pods : TRUE)[1] ELSE Nil
           w == IF pod = Nil THEN Nil ELSE getWorkloadForPod(pod)
           node == IF pod = Nil THEN Nil ELSE Named(o.Nodes, pod.NodeName)
           pv == Named(o.PVs, pvc.VolumeName)
           ns == Named(o.Namespaces, pvc.Namespace)
           b == BuiltInForPVC(NoLabels.BuiltIn, pvc, pv, pod, w, node)
           e == ExtensionForPVC(Config.Extensions, NoLabels.Extension, pvc, pv, ns, pod, node)
<1>1. PVCLabels(pvc) = [BuiltIn |-> b, Extension |-> e]
  BY Zenon DEF PVCLabels
<1>2. pod = Nil \/ PodTyped(pod)
  <2>1. ASSUME NEW x \in pods PROVE x[1] \in ToSet(o.Pods)
    BY DEF PodsByPVC
  <2> HIDE DEF pods
  <2>2. Cardinality(pods) = 1 => pods # {}
    <3>1. Cardinality({}) = 0
      BY FS_EmptySet
    <3> QED  BY <3>1
  <2>3. Cardinality(pods) = 1 => (CHOOSE p \in pods : TRUE) \in pods
    BY <2>2
  <2>4. pod = Nil \/ pod \in ToSet(o.Pods)
    BY <2>1, <2>3
  <2> HIDE DEF pod
  <2> QED  BY <2>4, ObjectsTyped
<1> HIDE DEF pod
<1>3. pod = Nil \/ (PodTyped(pod) /\ WorkloadTyped(w))
  BY <1>2, WorkloadOfPod DEF FitInv
<1>4. node = Nil \/ NodeTyped(node)
  BY LookupsTyped
<1>5. pv = Nil \/ PVTyped(pv)
  BY LookupsTyped
<1>6. HasMeta(ns)
  BY LookupsTyped
<1> HIDE DEF w, node, pv, ns
<1>7. BuiltInTyped(b)
  BY <1>3, <1>5, NoLabelsTyped, PVCBuiltIn DEF PVTyped, PVCTyped
<1>8. ExtensionTyped(e)
  BY <1>2, <1>4, <1>5, <1>6, NoLabelsTyped, PVCExtension DEF PVTyped, PVCTyped, PodTyped, HasMeta
<1> HIDE DEF b, e
<1> QED  BY <1>1, <1>7, <1>8, LabelsTyped

\* Labels of a quota: its descriptor and namespace may be missing.
LEMMA QuotaLabelsTyped == ASSUME FitInv, NEW q, QuotaTyped(q) PROVE QuotaLabels(q) \in LabelsValues
<1> DEFINE rqd == NamedIn(o.RQDs, q.Namespace, q.Name)
           ns == Named(o.Namespaces, q.Namespace)
           b == BuiltInForQuota(NoLabels.BuiltIn, q, rqd, Config.UseQuotaName)
           e == ExtensionForQuota(Config.Extensions, NoLabels.Extension, q, ns)
<1>1. QuotaLabels(q) = [BuiltIn |-> b, Extension |-> e]
  BY Zenon DEF QuotaLabels
<1>2. (rqd = Nil \/ DescriptorFits(rqd)) /\ HasMeta(ns)
  BY LookupsTyped
<1> HIDE DEF rqd, ns
<1>3. BuiltInTyped(b)
  BY <1>2, NoLabelsTyped, QuotaBuiltIn DEF QuotaTyped, DescriptorFits
<1>4. ExtensionTyped(e)
  BY <1>2, NoLabelsTyped, QuotaExtension DEF QuotaTyped, HasMeta
<1> HIDE DEF b, e
<1> QED  BY <1>1, <1>3, <1>4, LabelsTyped

\* Labels of a pod: its node and namespace may be missing.
LEMMA PodLabelsTyped == ASSUME FitInv, NEW pod, PodTyped(pod) PROVE PodLabels(pod) \in LabelsValues
<1> DEFINE node == Named(o.Nodes, pod.NodeName)
           ns == Named(o.Namespaces, pod.Namespace)
           b == BuiltInForPod(NoLabels.BuiltIn, pod, getWorkloadForPod(pod), node)
           e == ExtensionForPod(Config.Extensions, NoLabels.Extension, pod, node, ns)
<1>1. PodLabels(pod) = [BuiltIn |-> b, Extension |-> e]
  BY Zenon DEF PodLabels
<1>2. (node = Nil \/ NodeTyped(node)) /\ HasMeta(ns)
  BY LookupsTyped
<1> HIDE DEF node, ns
<1>3. WorkloadTyped(getWorkloadForPod(pod))
  BY WorkloadOfPod DEF FitInv
<1>4. BuiltInTyped(b)
  BY <1>3, NoLabelsTyped, PodBuiltIn
<1>5. ExtensionTyped(e)
  BY <1>2, NoLabelsTyped, PodExtension DEF PodTyped, HasMeta
<1> HIDE DEF b, e
<1> QED  BY <1>1, <1>4, <1>5, LabelsTyped

\* Labels of a container: its status may be missing.
LEMMA ContainerLabelsTyped ==
    ASSUME FitInv, NEW pod, PodTyped(pod), NEW c \in ToSet(pod.Containers)
    PROVE  ContainerLabels(pod, c) \in LabelsValues
<1> DEFINE l == PodLabels(pod)
           sorted == SortedStatuses(pod)
           s == Named(sorted, c.Name)
           a == BuiltInForContainer(l.BuiltIn, c)
           b == BuiltInForContainerStatus(a, s)
<1>1. l \in LabelsValues
  BY PodLabelsTyped
<1>2. s = Nil \/ s.ImageID \in STRING
  <2> DEFINE n == Len(pod.Statuses)
  <2>1. n \in Nat /\ sorted = [p \in 1 .. n |-> sorted[p]] /\ ToSet(sorted) = ToSet(pod.Statuses)
    BY SortedIsPermutation DEF PodTyped
  <2> HIDE DEF sorted, n
  <2>2. sorted \in Seq(ToSet(sorted))
    <3>1. DOMAIN sorted = 1 .. n
      BY <2>1
    <3>2. \A i \in 1 .. n : sorted[i] \in ToSet(sorted)
      BY <3>1 DEF ToSet
    <3> DEFINE T == ToSet(sorted)
    <3> HIDE DEF T
    <3>3. \A i \in 1 .. n : sorted[i] \in T
      BY <3>2 DEF T
    <3>4. sorted \in [1 .. n -> T]
      BY <2>1, <3>3
    <3>5. sorted \in Seq(T)
      BY <2>1, <3>4
    <3> QED  BY <3>5 DEF T
  <2>3. s \in ToSet(sorted) \cup {Nil}
    BY <2>2, NamedFound
  <2> HIDE DEF s
  <2> QED  BY <2>1, <2>3 DEF PodTyped
<1>3. BuiltInTyped(l.BuiltIn)
  BY <1>1 DEF LabelsValues, BuiltInTyped
<1>4. ContainerLabels(pod, c) = [l EXCEPT !.BuiltIn = b]
  BY <1>1 DEF ContainerLabels, LabelsValues
<1> HIDE DEF l, s
<1>5. BuiltInTyped(a)
  BY <1>3, ContainerBuiltIn DEF PodTyped
<1> HIDE DEF a
<1>6. BuiltInTyped(b)
  BY <1>2, <1>5, StatusBuiltIn
<1> HIDE DEF b
<1> QED  BY <1>1, <1>4, <1>6, ChangedBuiltIn

\* Labels of a cgroup.
LEMMA CGroupLabelsTyped ==
    ASSUME NEW n, NodeTyped(n), NEW g, CGroupTyped(g)
    PROVE  CGroupLabels(n, g) \in LabelsValues
<1> DEFINE l == NodeLabels(n)
           v == IF g.Level = <<>> THEN "." ELSE Last(g.Level)
           b == BuiltInForCGroup(l.BuiltIn, v)
<1>1. l \in LabelsValues
  BY NodeLabelsTyped
<1>2. v \in STRING
  <2>1. g.Level \in Seq(STRING)
    BY DEF CGroupTyped
  <2>2. g.Level # <<>> => g.Level[Len(g.Level)] \in STRING
    BY <2>1
  <2> QED  BY <2>2, LiteralsAreStrings DEF Last
<1>3. CGroupLabels(n, g) = [l EXCEPT !.BuiltIn = b]
  BY <1>1 DEF CGroupLabels, LabelsValues
<1>4. BuiltInTyped(l.BuiltIn)
  BY <1>1 DEF LabelsValues, BuiltInTyped
<1> HIDE DEF l, v
<1>5. BuiltInTyped(b)
  BY <1>2, <1>4, CGroupBuiltIn
<1> HIDE DEF b
<1> QED  BY <1>1, <1>3, <1>5, ChangedBuiltIn

\* Objects that are all reached through the same loops.
LEMMA ArrangedBy ==
    ASSUME NEW points, IsFiniteSet(DOMAIN points), NEW d \in Nat, DOMAIN points \subseteq [1 .. d -> Nat]
    PROVE  Arranged(points)
<1>1. \A n : Holders(points, n) \subseteq DOMAIN points
  BY DEF Holders
<1>2. \A n : IsFiniteSet(Holders(points, n))
  BY <1>1, FS_Subset
<1> QED  BY <1>1, <1>2 DEF Arranged

\* A function that goes through one list.
LEMMA ListTypes ==
    ASSUME NEW list, IsList(list), NEW points, DOMAIN points = Each(list),
           \A i \in DOMAIN list : PointTyped(points[<<i>>])
    PROVE  MetricTyped(Collected(points))
<1>1. IsFiniteSet(DOMAIN points)
  BY EachCounts
<1>2. DOMAIN points \subseteq [1 .. 1 -> Nat]
  <2>1. \A i \in DOMAIN list : i \in Nat
    BY DEF IsList
  <2>2. \A i \in Nat : <<i>> \in [1 .. 1 -> Nat]
    <3> TAKE i \in Nat
    <3>1. <<i>> = [j \in 1 .. 1 |-> i]
      OBVIOUS
    <3> QED  BY <3>1
  <2> QED  BY <2>1, <2>2 DEF Each
<1>3. Arranged(points)
  BY <1>1, <1>2, ArrangedBy
<1>4. \A p \in DOMAIN points : PointTyped(points[p])
  BY DEF Each
<1> QED  BY <1>3, <1>4, CollectedTyped

\* What the objects of each kind add.
LEMMA NodeAdds == ASSUME FitInv, NEW n \in ToSet(o.Nodes) PROVE PointTyped(NodePoints(n))
<1> DEFINE pods == PodsByNodeName(n.Name)
<1>1. pods \subseteq ToSet(o.Pods)
  BY DEF PodsByNodeName
<1>2. IsFiniteSet(pods)
  <2>1. IsFiniteSet(DOMAIN o.Pods)
    <3>1. DOMAIN o.Pods = 1 .. Len(o.Pods) /\ Len(o.Pods) \in Nat
      BY ListsFit DEF IsList
    <3> QED  BY <3>1, Interval
  <2>2. IsFiniteSet(ToSet(o.Pods))
    BY <2>1, FiniteImage DEF ToSet
  <2> QED  BY <1>1, <2>2, FS_Subset
<1>3. \A p \in pods : PodTyped(p)
  BY <1>1, ObjectsTyped
<1> HIDE DEF pods
<1>4. NodeTyped(n) /\ IsAmounts(n.Allocatable) /\ IsAmounts(n.Capacity)
  BY ObjectsTyped
<1>5. ValuesTyped(GetValuesForNode(n, pods))
  BY <1>2, <1>3, <1>4, NodeValuesTyped DEF PodTyped
<1>6. NodeLabels(n) \in LabelsValues
  BY <1>4, NodeLabelsTyped
<1> QED  BY <1>5, <1>6, PointsTyped DEF NodePoints, addValuesToMetrics, NodeValues, pods

\* What a namespace adds to the metrics.
LEMMA NamespaceAdds == ASSUME FitInv, NEW n \in ToSet(o.Namespaces) PROVE PointTyped(NamespacePoints(n))
<1>1. NamespaceLabels(n) \in LabelsValues
  BY ObjectsTyped, NamespaceLabelsTyped
<1>2. ValuesTyped([namespace |-> Items])
  BY ItemsTyped DEF ValuesTyped
<1> QED  BY <1>1, <1>2, PointsTyped DEF NamespacePoints

\* What a volume adds.
LEMMA PVAdds == ASSUME FitInv, NEW pv \in ToSet(o.PVs) PROVE PointTyped(PVPoints(pv))
<1>1. PVTyped(pv)
  BY ObjectsTyped
<1>2. PVLabels(pv) \in LabelsValues
  BY <1>1, PVLabelsTyped
<1>3. ValuesTyped(GetValuesForPV(pv))
  BY <1>1, VolumeValuesTyped DEF PVTyped
<1> QED  BY <1>2, <1>3, PointsTyped DEF PVPoints, addValuesToMetrics

\* What a claim adds.
LEMMA PVCAdds == ASSUME FitInv, NEW pvc \in ToSet(o.PVCs) PROVE PointTyped(PVCPoints(pvc))
<1>1. PVCTyped(pvc)
  BY ObjectsTyped
<1>2. PVCLabels(pvc) \in LabelsValues
  BY <1>1, PVCLabelsTyped
<1>3. ValuesTyped(GetValuesForPVC(pvc))
  BY <1>1, VolumeValuesTyped DEF PVCTyped
<1> QED  BY <1>2, <1>3, PointsTyped DEF PVCPoints, addValuesToMetrics

\* What a pod adds.
LEMMA PodAdds == ASSUME FitInv, NEW pod \in ToSet(o.Pods) PROVE PointTyped(PodPoints(pod))
<1> DEFINE a == addValuesToMetrics(GetValuesForPod(pod), PodLabels(pod), "pod")
           b == addValuesToMetrics(GetValuesForSchedulerHealth(pod, Config.SchedulerHealth), PodLabels(pod),
                                   "scheduler_health")
<1>1. PodTyped(pod)
  BY ObjectsTyped
<1>2. PodLabels(pod) \in LabelsValues
  BY <1>1, PodLabelsTyped
<1>3. PointTyped(a)
  <2>1. ValuesTyped(GetValuesForPod(pod))
    BY ItemsTyped DEF ValuesTyped, GetValuesForPod
  <2> QED  BY <1>2, <2>1, PointsTyped DEF addValuesToMetrics
<1>4. PointTyped(b)
  <2>1. ValuesTyped(GetValuesForSchedulerHealth(pod, Config.SchedulerHealth))
    BY <1>1, SchedulerTyped DEF PodTyped
  <2> QED  BY <1>2, <2>1, PointsTyped DEF addValuesToMetrics
<1>5. PodPoints(pod) = Merge(a, b)
  BY DEF PodPoints
<1> HIDE DEF a, b
<1> QED  BY <1>3, <1>4, <1>5, MergeTyped

\* The functions that go through a list of objects.
LEMMA ListedTypes ==
    ASSUME FitInv
    PROVE  /\ MetricTyped(Collected(ForEach(o.PVs, PVPoints)))
           /\ MetricTyped(Collected(ForEach(o.PVCs, PVCPoints)))
           /\ MetricTyped(Collected(ForEach(o.Namespaces, NamespacePoints)))
           /\ MetricTyped(Collected(ForEach(o.Nodes, NodePoints)))
<1>1. MetricTyped(Collected(ForEach(o.PVs, PVPoints)))
  <2> DEFINE list == o.PVs
             points == ForEach(list, PVPoints)
  <2>1. DOMAIN points = Each(list) /\ \A i \in DOMAIN list : points[<<i>>] = PVPoints(list[i])
    BY DEF ForEach, Each
  <2> HIDE DEF points
  <2>2. \A i \in DOMAIN list : PointTyped(points[<<i>>])
    BY <2>1, PVAdds DEF ToSet
  <2>3. IsList(list)
    BY ListsFit
  <2>4. MetricTyped(Collected(points))
    BY <2>1, <2>2, <2>3, ListTypes
  <2> QED  BY <2>4 DEF points
<1>2. MetricTyped(Collected(ForEach(o.PVCs, PVCPoints)))
  <2> DEFINE list == o.PVCs
             points == ForEach(list, PVCPoints)
  <2>1. DOMAIN points = Each(list) /\ \A i \in DOMAIN list : points[<<i>>] = PVCPoints(list[i])
    BY DEF ForEach, Each
  <2> HIDE DEF points
  <2>2. \A i \in DOMAIN list : PointTyped(points[<<i>>])
    BY <2>1, PVCAdds DEF ToSet
  <2>3. IsList(list)
    BY ListsFit
  <2>4. MetricTyped(Collected(points))
    BY <2>1, <2>2, <2>3, ListTypes
  <2> QED  BY <2>4 DEF points
<1>3. MetricTyped(Collected(ForEach(o.Namespaces, NamespacePoints)))
  <2> DEFINE list == o.Namespaces
             points == ForEach(list, NamespacePoints)
  <2>1. DOMAIN points = Each(list) /\ \A i \in DOMAIN list : points[<<i>>] = NamespacePoints(list[i])
    BY DEF ForEach, Each
  <2> HIDE DEF points
  <2>2. \A i \in DOMAIN list : PointTyped(points[<<i>>])
    BY <2>1, NamespaceAdds DEF ToSet
  <2>3. IsList(list)
    BY ListsFit
  <2>4. MetricTyped(Collected(points))
    BY <2>1, <2>2, <2>3, ListTypes
  <2> QED  BY <2>4 DEF points
<1>4. MetricTyped(Collected(ForEach(o.Nodes, NodePoints)))
  <2> DEFINE list == o.Nodes
             points == ForEach(list, NodePoints)
  <2>1. DOMAIN points = Each(list) /\ \A i \in DOMAIN list : points[<<i>>] = NodePoints(list[i])
    BY DEF ForEach, Each
  <2> HIDE DEF points
  <2>2. \A i \in DOMAIN list : PointTyped(points[<<i>>])
    BY <2>1, NodeAdds DEF ToSet
  <2>3. IsList(list)
    BY ListsFit
  <2>4. MetricTyped(Collected(points))
    BY <2>1, <2>2, <2>3, ListTypes
  <2> QED  BY <2>4 DEF points
<1> QED  BY <1>1, <1>2, <1>3, <1>4

\* What a quota adds, whatever storage class an earlier resource left in the labels.
LEMMA QuotaAdds ==
    ASSUME FitInv, NEW q \in ToSet(o.Quotas), NEW class,
           \A s \in DOMAIN class : class[s] \in {""} \cup StorageClasses(q)
    PROVE  PointTyped(QuotaPoints(q, class))
<1> DEFINE values == QuotaValues(q)
           l == QuotaLabels(q)
           Prior(s) == [l EXCEPT !.BuiltIn.StorageClass = Get(class, s)]
           At(s, r) == IF s = "quota" \/ QuotaKey[r].StorageClass = "" THEN Prior(s)
                       ELSE [Prior(s) EXCEPT !.BuiltIn =
                                BuiltInForPVCQuota(@, q, r, QuotaKey[r].StorageClass)]
           N == UNION {{<<"quota", s, r>> : r \in Reported(q, s)} : s \in DOMAIN values}
<1>1. QuotaPoints(q, class) = [n \in N |-> [Labels |-> At(n[2], n[3]), Value |-> values[n[2]][n[3]]]]
  BY DEF QuotaPoints
<1>2. QuotaTyped(q)
  BY ObjectsTyped
<1>3. l \in LabelsValues
  BY <1>2, QuotaLabelsTyped
<1>4. values["quota"] = Items /\ \A s \in DOMAIN values \ {"quota"} : QuotaList(values[s])
  <2> DEFINE rqd == NamedIn(o.RQDs, q.Namespace, q.Name)
  <2>1. rqd = Nil \/ DescriptorFits(rqd)
    BY LookupsTyped
  <2>2. values = GetValuesForQuota(q, rqd, Config.EnableRQD)
    BY DEF QuotaValues
  <2> HIDE DEF rqd, values
  <2> QED  BY <1>2, <2>1, <2>2, QuotaValuesTyped DEF QuotaTyped, DescriptorFits
<1>5. \A s : Get(class, s) \in STRING
  <2>1. \A k \in DOMAIN q.StatusHard : QuotaKey[k].StorageClass \in STRING
    BY <1>2, ConfigTypes DEF QuotaTyped, QuotaAmounts
  <2>2. \A x \in {""} \cup StorageClasses(q) : x \in STRING
    BY <2>1, EmptyIsString DEF StorageClasses
  <2> QED  BY <2>2, EmptyIsString DEF Get
<1> HIDE DEF l
<1>6. \A s : Prior(s) \in LabelsValues
  <2> TAKE s
  <2> DEFINE b == [l.BuiltIn EXCEPT !["StorageClass"] = Get(class, s)]
  <2>1. Prior(s) = [l EXCEPT !.BuiltIn = b]
    BY <1>3 DEF LabelsValues
  <2>2. BuiltInTyped(l.BuiltIn)
    BY <1>3 DEF LabelsValues, BuiltInTyped
  <2>3. BuiltInTyped(b)
    BY <1>5, <2>2, SetTyped
  <2> HIDE DEF b, Prior
  <2> QED  BY <1>3, <2>1, <2>3, ChangedBuiltIn
<1> HIDE DEF Prior
<1>7. ASSUME NEW s, NEW r, s = "quota" \/ r \in DOMAIN QuotaKey PROVE At(s, r) \in LabelsValues
  <2> DEFINE p == Prior(s)
             b == BuiltInForPVCQuota(p.BuiltIn, q, r, QuotaKey[r].StorageClass)
  <2>1. CASE s = "quota" \/ QuotaKey[r].StorageClass = ""
    BY <1>6, <2>1
  <2>2. CASE ~(s = "quota" \/ QuotaKey[r].StorageClass = "")
    <3>1. p \in LabelsValues
      BY <1>6
    <3>2. At(s, r) = [p EXCEPT !.BuiltIn = b]
      BY <2>2, <3>1 DEF LabelsValues
    <3>3. BuiltInTyped(p.BuiltIn)
      BY <3>1 DEF LabelsValues, BuiltInTyped
    <3>4. QuotaKey[r].StorageClass \in STRING
      BY <1>7, <2>2, ConfigTypes
    <3> HIDE DEF p, At
    <3>5. BuiltInTyped(b)
      BY <3>3, <3>4, SetTyped DEF BuiltInForPVCQuota
    <3> HIDE DEF b
    <3> QED  BY <3>1, <3>2, <3>5, ChangedBuiltIn
  <2> QED  BY <2>1, <2>2
<1>8. ASSUME NEW n \in N
      PROVE  n[2] \in DOMAIN values /\ n[3] \in Reported(q, n[2])
  <2> HIDE DEF values
  <2>1. PICK s \in DOMAIN values : \E r \in Reported(q, s) : n = <<"quota", s, r>>
    BY <1>8
  <2>2. PICK r \in Reported(q, s) : n = <<"quota", s, r>>
    BY <2>1
  <2>3. n[2] = s /\ n[3] = r
    BY <2>2
  <2> QED  BY <2>3
<1> HIDE DEF N, At
<1>9. ASSUME NEW n \in N
      PROVE  At(n[2], n[3]) \in LabelsValues /\ values[n[2]][n[3]] \in Seq(Int)
  <2>1. CASE n[2] = "quota"
    <3>1. n[3] = "items"
      BY <1>8, <2>1 DEF Reported
    <3>2. Items["items"] \in Seq(Int)
      BY ItemsTyped DEF ListTyped, Items
    <3> QED  BY <1>4, <1>7, <2>1, <3>1, <3>2
  <2>2. CASE n[2] # "quota"
    <3>1. n[3] \in DOMAIN values[n[2]]
      BY <1>8, <2>2 DEF Reported
    <3>2. QuotaList(values[n[2]])
      BY <1>4, <1>8, <2>2
    <3> HIDE DEF values
    <3> QED  BY <1>7, <3>1, <3>2 DEF QuotaList, ListTyped
  <2> QED  BY <2>1, <2>2
<1> DEFINE points == QuotaPoints(q, class)
<1> HIDE DEF values
<1>10. DOMAIN points = N /\ \A n \in N : points[n].Labels = At(n[2], n[3]) /\ points[n].Value = values[n[2]][n[3]]
  <2> DEFINE P(n) == [Labels |-> At(n[2], n[3]), Value |-> values[n[2]][n[3]]]
  <2>1. points = [n \in N |-> P(n)]
    BY <1>1, Zenon
  <2>2. \A n \in N : P(n).Labels = At(n[2], n[3]) /\ P(n).Value = values[n[2]][n[3]]
    OBVIOUS
  <2> HIDE DEF P, points
  <2> QED  BY <2>1, <2>2, Zenon
<1> HIDE DEF points
<1>11. PointTyped(points)
  BY <1>9, <1>10 DEF PointTyped
<1> QED  BY <1>11 DEF points

\* What collectQuota yields.
LEMMA QuotaTypes ==
    ASSUME FitInv, NEW class, ClassesFit(class)
    PROVE  MetricTyped(Collected(PointsOfQuotas(class)))
<1> DEFINE list == o.Quotas
           points == PointsOfQuotas(class)
<1>1. DOMAIN points = Each(list) /\ \A i \in DOMAIN list : points[<<i>>] = QuotaPoints(list[i], class[i])
  BY DEF PointsOfQuotas, Each
<1> HIDE DEF points
<1>2. \A i \in DOMAIN list : PointTyped(points[<<i>>])
  <2> TAKE i \in DOMAIN list
  <2>1. list[i] \in ToSet(list) /\ \A s \in DOMAIN class[i] : class[i][s] \in {""} \cup StorageClasses(list[i])
    BY DEF ToSet, ClassesFit
  <2> QED  BY <1>1, <2>1, QuotaAdds
<1>3. IsList(list)
  BY ListsFit
<1>4. MetricTyped(Collected(points))
  BY <1>1, <1>2, <1>3, ListTypes
<1> QED  BY <1>4 DEF points

\* Two loops over finite lists.
LEMMA FinitePairs ==
    ASSUME NEW I, IsFiniteSet(I), NEW F, \A i \in I : IsFiniteSet(F[i])
    PROVE  IsFiniteSet(UNION {{<<i, j>> : j \in F[i]} : i \in I})
<1> DEFINE P(i) == {<<i, j>> : j \in F[i]}
           S == {P(i) : i \in I}
<1>1. ASSUME NEW i \in I PROVE IsFiniteSet(P(i))
  <2> DEFINE E == F[i]
             f == [j \in E |-> <<i, j>>]
  <2>1. IsFiniteSet(E)
    OBVIOUS
  <2>2. P(i) = {f[j] : j \in E}
    OBVIOUS
  <2> HIDE DEF f, E, P
  <2> QED  BY <2>1, <2>2, FiniteImage
<1>2. IsFiniteSet(S)
  <2> DEFINE f == [i \in I |-> P(i)]
  <2> HIDE DEF P
  <2>1. S = {f[i] : i \in I}
    OBVIOUS
  <2> HIDE DEF f, S
  <2> QED  BY <2>1, FiniteImage
<1> HIDE DEF P
<1>3. \A T \in S : IsFiniteSet(T)
  BY <1>1
<1> HIDE DEF S
<1>4. IsFiniteSet(UNION S)
  BY <1>2, <1>3, FS_UNION
<1> QED  BY <1>4 DEF S, P

\* the positions in a list are finitely many numbers
LEMMA FiniteDomain == ASSUME NEW list, NEW T, list \in Seq(T) PROVE IsFiniteSet(DOMAIN list) /\ DOMAIN list \subseteq Nat
<1>1. DOMAIN list = 1 .. Len(list) /\ Len(list) \in Nat
  OBVIOUS
<1> QED  BY <1>1, Interval

\* Positions in two loops.
LEMMA Pair == \A i, j \in Nat : <<i, j>> \in [1 .. 2 -> Nat]
OBVIOUS

\* What collectCGroups yields.
LEMMA CGroupTypes ==
    ASSUME CInv, FitInv
    PROVE  MetricTyped(Collected([p \in CGroups |-> CGroupPoints(o.Nodes[p[1]], p[2])]))
<1> DEFINE points == [p \in CGroups |-> CGroupPoints(o.Nodes[p[1]], p[2])]
           U == o.Utilization
           I == {i \in DOMAIN o.Nodes : o.Nodes[i].Name \in DOMAIN U}
           F == [i \in I |-> DOMAIN AggregatedMetrics(o.Nodes[i])]
<1>1. ASSUME NEW i \in I
      PROVE  LET G == AggregatedMetrics(o.Nodes[i])
             IN  G \in Seq(ToSet(G)) /\ \A g \in ToSet(G) : CGroupTyped(g)
  <2> DEFINE h == U[o.Nodes[i].Name]
  <2>1. h \in DOMAIN received
    BY DEF CInv, Cached
  <2>2. heap[h].CGroups = received[h].CGroups /\ received[h] \in Responses
    BY <2>1 DEF CInv, HeapInv, Kept
  <2>3. AggregatedMetrics(o.Nodes[i]) = received[h].CGroups
    BY <2>2 DEF AggregatedMetrics
  <2>4. received[h].CGroups \in Seq(ToSet(received[h].CGroups))
    BY <2>2, FieldsAssumption
  <2>5. \A g \in ToSet(received[h].CGroups) : CGroupTyped(g)
    BY <2>2, ResponseTypes DEF CGroupTyped
  <2> QED  BY <2>3, <2>4, <2>5
<1>2. CGroups = UNION {{<<i, j>> : j \in F[i]} : i \in I}
  <2>1. \A i \in I : {<<i, j>> : j \in F[i]} = {<<i, j>> : j \in DOMAIN AggregatedMetrics(o.Nodes[i])}
    OBVIOUS
  <2>2. CGroups = UNION {{<<i, j>> : j \in DOMAIN AggregatedMetrics(o.Nodes[i])} : i \in I}
    BY DEF CGroups
  <2> HIDE DEF I, F
  <2> QED  BY <2>1, <2>2
<1>3. IsFiniteSet(I) /\ I \subseteq Nat
  <2>1. IsFiniteSet(DOMAIN o.Nodes) /\ DOMAIN o.Nodes \subseteq Nat
    BY ListsFit, FiniteDomain DEF IsList
  <2> QED  BY <2>1, FS_Subset
<1>4. \A i \in I : IsFiniteSet(F[i]) /\ F[i] \subseteq Nat /\ F[i] = DOMAIN AggregatedMetrics(o.Nodes[i])
  BY <1>1, FiniteDomain
<1>5. ASSUME NEW p \in CGroups
      PROVE  /\ p[1] \in I /\ p[2] \in DOMAIN AggregatedMetrics(o.Nodes[p[1]]) /\ p[2] \in Nat
             /\ p = <<p[1], p[2]>>
  <2>1. PICK i \in I : \E j \in F[i] : p = <<i, j>>
    <3> HIDE DEF I, F
    <3> QED  BY <1>2
  <2>2. PICK j \in F[i] : p = <<i, j>>
    BY <2>1
  <2>3. p[1] = i /\ p[2] = j
    BY <2>2
  <2>4. j \in DOMAIN AggregatedMetrics(o.Nodes[i]) /\ j \in Nat
    <3> HIDE DEF I, F
    <3> QED  BY <1>4
  <2> HIDE DEF I, F
  <2> QED  BY <2>2, <2>3, <2>4
<1> HIDE DEF F
<1>6. IsFiniteSet(CGroups)
  BY <1>2, <1>3, <1>4, FinitePairs
<1>7. CGroups \subseteq [1 .. 2 -> Nat]
  BY <1>3, <1>5, Pair
<1>8. ASSUME NEW p \in CGroups PROVE PointTyped(points[p])
  <2> DEFINE n == o.Nodes[p[1]]
             g == AggregatedMetrics(n)[p[2]]
  <2>1. NodeTyped(n)
    BY <1>5, ObjectsTyped DEF ToSet
  <2>2. CGroupTyped(g)
    BY <1>1, <1>5 DEF ToSet
  <2>3. points[p] = Points("cgroup", CGroupValues(g), CGroupLabels(n, g), {"cpu", "memory"})
    BY DEF CGroupPoints
  <2> HIDE DEF n, g, points
  <2>4. ValuesTyped(CGroupValues(g)) /\ CGroupLabels(n, g) \in LabelsValues
    BY <2>1, <2>2, CGroupValuesTyped, CGroupLabelsTyped
  <2> QED  BY <2>3, <2>4, PointsTyped
<1>9. DOMAIN points = CGroups
  OBVIOUS
<1> HIDE DEF points
<1>10. Arranged(points)
  BY <1>6, <1>7, <1>9, ArrangedBy
<1>11. MetricTyped(Collected(points))
  BY <1>8, <1>9, <1>10, CollectedTyped
<1> QED  BY <1>11, Zenon DEF points

\* Positions in three loops.
LEMMA Triple == \A k, i, j \in Nat : <<k, i, j>> \in [1 .. 3 -> Nat]
OBVIOUS

\* the positions of three loops, the inner ones over F and G
Triples(I, F, G) ==
    {<<p[1][1], p[1][2], p[2]>> : p \in UNION {{<<q, l>> : l \in G[q]} :
        q \in UNION {{<<i, j>> : j \in F[i]} : i \in I}}}

\* Three loops over finite lists.
LEMMA FiniteTriples ==
    ASSUME NEW I, IsFiniteSet(I), NEW F, NEW G, \A i \in I : IsFiniteSet(F[i]) /\ \A j \in F[i] : IsFiniteSet(G[<<i, j>>])
    PROVE  IsFiniteSet(Triples(I, F, G))
<1> DEFINE Q == UNION {{<<i, j>> : j \in F[i]} : i \in I}
           P == UNION {{<<q, l>> : l \in G[q]} : q \in Q}
           f == [p \in P |-> <<p[1][1], p[1][2], p[2]>>]
<1>1. IsFiniteSet(Q)
  BY FinitePairs
<1>2. \A q \in Q : IsFiniteSet(G[q])
  OBVIOUS
<1> HIDE DEF Q
<1>3. IsFiniteSet(P)
  BY <1>1, <1>2, FinitePairs
<1> HIDE DEF P
<1>4. {f[p] : p \in P} = {<<p[1][1], p[1][2], p[2]>> : p \in P}
  OBVIOUS
<1> HIDE DEF f
<1>5. IsFiniteSet({f[p] : p \in P})
  BY <1>3, FiniteImage
<1> QED  BY <1>4, <1>5 DEF P, Q, Triples

\* an entry of a cluster-scoped object
EntryTyped(e) == IsText(e.Labels) /\ IsAmounts(e.Values)

\* The cluster-scoped objects a scrape has listed are of Go's types.
LEMMA ScopedListed ==
    ASSUME FitInv, NEW k \in DOMAIN o.ClusterScoped
    PROVE  /\ o.ClusterScoped[k] \in Seq(ToSet(o.ClusterScoped[k]))
           /\ \A x \in ToSet(o.ClusterScoped[k]) :
                 x.Entries \in Seq(ToSet(x.Entries)) /\ \A e \in ToSet(x.Entries) : EntryTyped(e)
<1>1. "ClusterScoped" \in DOMAIN NoObjects \ {"Utilization"} /\ NoObjects["ClusterScoped"] = Empty
  BY DEF NoObjects
<1>2. o["ClusterScoped"] = Empty \/ \E c \in Clusters : o["ClusterScoped"] = c["ClusterScoped"]
  BY <1>1 DEF FitInv, ObjectsFit
<1>3. PICK c \in Clusters : o["ClusterScoped"] = c["ClusterScoped"]
  BY <1>2, EmptyTyped
<1> QED  BY <1>3, ObjectTypes DEF EntryTyped

\* What collectClusterScoped yields.
LEMMA ScopedTypes == ASSUME FitInv PROVE MetricTyped(Collected(ScopedPoints))
<1> DEFINE Labels(entry) == [NoLabels EXCEPT !.BuiltIn = BuiltInForClusterScoped(@, entry.Labels)]
           sources == Config.ClusterScopedSources
           Objects(k) == IF sources[k] \in DOMAIN o.ClusterScoped THEN o.ClusterScoped[sources[k]] ELSE <<>>
           At(k) == UNION {{<<k, i, j>> : j \in DOMAIN Objects(k)[i].Entries} : i \in DOMAIN Objects(k)}
           Added(k, entry) ==
               addValuesToMetrics(Put(Empty, sources[k], Single(entry.Values)), Labels(entry), "cluster_scoped")
           D == UNION {At(k) : k \in DOMAIN sources}
           points == ScopedPoints
           I == DOMAIN sources
           F == [k \in I |-> DOMAIN Objects(k)]
           G == [q \in UNION {{<<k, i>> : i \in F[k]} : k \in I} |-> DOMAIN Objects(q[1])[q[2]].Entries]
<1>1. points = [p \in D |-> Added(p[1], Objects(p[1])[p[2]].Entries[p[3]])]
  BY Zenon DEF ScopedPoints
<1>2. ASSUME NEW k PROVE /\ Objects(k) \in Seq(ToSet(Objects(k)))
                         /\ \A x \in ToSet(Objects(k)) :
                               x.Entries \in Seq(ToSet(x.Entries)) /\ \A e \in ToSet(x.Entries) : EntryTyped(e)
  <2>1. <<>> \in Seq(ToSet(<<>>)) /\ ToSet(<<>>) = {}
    BY DEF ToSet
  <2> QED  BY <2>1, ScopedListed
<1> HIDE DEF Objects, Labels
<1>3. ASSUME NEW k PROVE /\ IsFiniteSet(DOMAIN Objects(k)) /\ DOMAIN Objects(k) \subseteq Nat
                         /\ \A i \in DOMAIN Objects(k) :
                               /\ IsFiniteSet(DOMAIN Objects(k)[i].Entries)
                               /\ DOMAIN Objects(k)[i].Entries \subseteq Nat
                               /\ \A j \in DOMAIN Objects(k)[i].Entries : EntryTyped(Objects(k)[i].Entries[j])
  <2>1. IsFiniteSet(DOMAIN Objects(k)) /\ DOMAIN Objects(k) \subseteq Nat
    BY <1>2, FiniteDomain
  <2>2. ASSUME NEW i \in DOMAIN Objects(k)
        PROVE  LET es == Objects(k)[i].Entries
               IN  es \in Seq(ToSet(es)) /\ \A e \in ToSet(es) : EntryTyped(e)
    BY <1>2 DEF ToSet
  <2>3. ASSUME NEW i \in DOMAIN Objects(k)
        PROVE  /\ IsFiniteSet(DOMAIN Objects(k)[i].Entries) /\ DOMAIN Objects(k)[i].Entries \subseteq Nat
               /\ \A j \in DOMAIN Objects(k)[i].Entries : EntryTyped(Objects(k)[i].Entries[j])
    <3> DEFINE es == Objects(k)[i].Entries
    <3>1. es \in Seq(ToSet(es)) /\ \A e \in ToSet(es) : EntryTyped(e)
      BY <2>2
    <3> HIDE DEF es
    <3>2. IsFiniteSet(DOMAIN es) /\ DOMAIN es \subseteq Nat
      BY <3>1, FiniteDomain
    <3>3. \A j \in DOMAIN es : EntryTyped(es[j])
      BY <3>1 DEF ToSet
    <3> QED  BY <3>2, <3>3 DEF es
  <2> QED  BY <2>1, <2>3
<1>4. IsFiniteSet(I) /\ I \subseteq Nat
  BY ConfigTypes, FiniteDomain
<1>5. ASSUME NEW p \in D
      PROVE  /\ p[1] \in I /\ p[2] \in DOMAIN Objects(p[1]) /\ p[3] \in DOMAIN Objects(p[1])[p[2]].Entries
             /\ p = <<p[1], p[2], p[3]>>
  <2>1. PICK k \in I : p \in At(k)
    BY <1>5
  <2>2. PICK i \in DOMAIN Objects(k) : \E j \in DOMAIN Objects(k)[i].Entries : p = <<k, i, j>>
    BY <2>1
  <2>3. PICK j \in DOMAIN Objects(k)[i].Entries : p = <<k, i, j>>
    BY <2>2
  <2>4. p[1] = k /\ p[2] = i /\ p[3] = j
    BY <2>3
  <2> HIDE DEF I
  <2> QED  BY <2>3, <2>4
<1> DEFINE T == Triples(I, F, G)
<1>6. IsFiniteSet(T)
  <2>1. \A k \in I : IsFiniteSet(F[k]) /\ F[k] = DOMAIN Objects(k)
    BY <1>3
  <2>2. ASSUME NEW k \in I, NEW i \in F[k] PROVE IsFiniteSet(G[<<k, i>>])
    <3>1. <<k, i>> \in UNION {{<<x, y>> : y \in F[x]} : x \in I}
      <4> HIDE DEF I, F
      <4> QED  OBVIOUS
    <3>2. <<k, i>>[1] = k /\ <<k, i>>[2] = i
      OBVIOUS
    <3>3. i \in DOMAIN Objects(k)
      BY <2>1
    <3>4. G[<<k, i>>] = DOMAIN Objects(k)[i].Entries
      <4> HIDE DEF I, F
      <4> QED  BY <3>1, <3>2
    <3> HIDE DEF G
    <3> QED  BY <1>3, <3>3, <3>4
  <2> HIDE DEF I, F, G
  <2>3. \A k \in I : IsFiniteSet(F[k]) /\ \A i \in F[k] : IsFiniteSet(G[<<k, i>>])
    BY <2>1, <2>2
  <2> QED  BY <1>4, <2>3, FiniteTriples
<1>7. D \subseteq T
  <2> SUFFICES ASSUME NEW p \in D PROVE p \in T
    OBVIOUS
  <2> DEFINE q == <<p[1], p[2]>>
             t == <<q, p[3]>>
  <2>1. p[1] \in I /\ p[2] \in F[p[1]] /\ p[3] \in DOMAIN Objects(p[1])[p[2]].Entries /\ p = <<p[1], p[2], p[3]>>
    <3> HIDE DEF D
    <3> QED  BY <1>5
  <2> HIDE DEF I, F, D
  <2>2. q \in UNION {{<<k, i>> : i \in F[k]} : k \in I} /\ q[1] = p[1] /\ q[2] = p[2]
    BY <2>1
  <2>3. p[3] \in G[q]
    <3>1. G[q] = DOMAIN Objects(q[1])[q[2]].Entries
      <4> HIDE DEF q
      <4> QED  BY <2>2
    <3> QED  BY <2>1, <2>2, <3>1
  <2> HIDE DEF G, q
  <2>4. t \in UNION {{<<y, l>> : l \in G[y]} : y \in UNION {{<<k, i>> : i \in F[k]} : k \in I}}
    BY <2>2, <2>3
  <2>5. t[1] = q /\ t[2] = p[3]
    OBVIOUS
  <2>6. p = <<t[1][1], t[1][2], t[2]>>
    BY <2>1, <2>2, <2>5
  <2> HIDE DEF t
  <2> QED  BY <2>4, <2>6 DEF Triples
<1> HIDE DEF T, F, G
<1>8. IsFiniteSet(D)
  BY <1>6, <1>7, FS_Subset
<1>9. D \subseteq [1 .. 3 -> Nat]
  <2> SUFFICES ASSUME NEW p \in D PROVE p \in [1 .. 3 -> Nat]
    OBVIOUS
  <2> HIDE DEF D
  <2>1. p[1] \in Nat /\ p[2] \in Nat /\ p[3] \in Nat /\ p = <<p[1], p[2], p[3]>>
    BY <1>3, <1>4, <1>5
  <2> QED  BY <2>1, Triple
<1>10. ASSUME NEW p \in D PROVE PointTyped(points[p])
  <2> DEFINE e == Objects(p[1])[p[2]].Entries[p[3]]
             v == Put(Empty, sources[p[1]], Single(e.Values))
  <2>1. EntryTyped(e)
    <3> HIDE DEF D
    <3> QED  BY <1>3, <1>5
  <2>2. points[p] = Points("cluster_scoped", v, Labels(e), Config.Resources)
    <3> HIDE DEF D, points
    <3> QED  BY <1>1 DEF addValuesToMetrics
  <2> HIDE DEF e, points, D
  <2>3. ValuesTyped(v)
    <3>1. ListTyped(Single(e.Values))
      BY <2>1, SingleTyped DEF EntryTyped
    <3> QED  BY <3>1 DEF ValuesTyped, Put, Empty
  <2>4. Labels(e) \in LabelsValues
    <3> DEFINE b == BuiltInForClusterScoped(NoLabels.BuiltIn, e.Labels)
    <3>1. BuiltInTyped(b)
      BY <2>1, NoLabelsTyped, ScopedBuiltIn DEF EntryTyped
    <3>2. NoLabels \in LabelsValues
      BY EmptyIsString DEF NoLabels, LabelsValues
    <3>3. Labels(e) = [NoLabels EXCEPT !.BuiltIn = b]
      BY <3>2 DEF Labels, LabelsValues
    <3> HIDE DEF b
    <3> QED  BY <3>1, <3>2, <3>3, ChangedBuiltIn
  <2> HIDE DEF v
  <2> QED  BY <2>2, <2>3, <2>4, PointsTyped
<1>11. DOMAIN points = D
  <2> HIDE DEF D, points, Added
  <2> QED  BY <1>1
<1> HIDE DEF points, D
<1>12. Arranged(points)
  BY <1>8, <1>9, <1>11, ArrangedBy
<1>13. MetricTyped(Collected(points))
  BY <1>10, <1>11, <1>12, CollectedTyped
<1> QED  BY <1>13 DEF points

\* Samples restricted to a limit are samples.
LEMMA AllAtMostTyped == ASSUME NEW max \in Int, NEW s \in Seq(Int) PROVE AllAtMost(max, s) \in Seq(Int)
<1> DEFINE n == Len(s)
<1>1. n \in Nat /\ DOMAIN s = 1 .. n /\ \A i \in 1 .. n : s[i] \in Int
  OBVIOUS
<1>2. AllAtMost(max, s) \in [1 .. n -> Int]
  BY <1>1 DEF AllAtMost, AtMost
<1> HIDE DEF n
<1> QED  BY <1>1, <1>2

\* Samples stay samples when their values are replaced.
LEMMA ReplacedTyped ==
    ASSUME NEW u, SampleTyped(u), NEW r, DOMAIN r = DOMAIN u,
           r.Cpu \in Seq(Int), r.Memory \in Seq(Int), r.AvgCpu \in Int, r.Periods \in Seq(Int), r.Throttled \in Seq(Int),
           \A f \in {"AvgMemory", "AvgPeriods", "AvgThrottled", "Oom", "OomKill", "Network", "AvgNetwork"} : r[f] = u[f]
    PROVE  SampleTyped(r)
<1>1. ListsOfSample = {"Cpu", "Memory", "Periods", "Throttled"}
  BY DEF ListsOfSample
<1>2. NumbersOfSample = {"AvgCpu", "AvgMemory", "AvgPeriods", "AvgThrottled", "Oom", "OomKill"}
  BY DEF NumbersOfSample
<1>3. \A f \in ListsOfSample : r[f] \in Seq(Int)
  BY <1>1
<1>4. \A f \in {"AvgMemory", "AvgPeriods", "AvgThrottled", "Oom", "OomKill"} : u[f] \in Int /\ r[f] = u[f]
  BY <1>2 DEF SampleTyped
<1>5. \A f \in NumbersOfSample : r[f] \in Int
  BY <1>2, <1>4
<1>6. r.Network = u.Network /\ r.AvgNetwork = u.AvgNetwork
  OBVIOUS
<1> QED  BY <1>3, <1>5, <1>6 DEF SampleTyped

\* Samples restricted to the limits of containers, in any number, are of the same type.
LEMMA RestrictedTyped ==
    ASSUME NEW u, SampleTyped(u), NEW containers,
           \A x \in containers : Qty(x.Limits, "cpu") \in Nat /\ Qty(x.Limits, "memory") \in Nat
    PROVE  SampleTyped(Restricted(u, containers))
<1> DEFINE r == Restricted(u, containers)
           C == {Qty(x.Limits, "cpu") : x \in containers}
           M == {Qty(x.Limits, "memory") : x \in containers}
           P == Config.RestrictMaxPeriods
           v == IF Config.RestrictMaxUtilization
                THEN [u EXCEPT !.Cpu = AllAtMost(Min(C), @), !.Memory = AllAtMost(Min(M), @),
                               !.AvgCpu = AtMost(Min(C), @)]
                ELSE u
           w == [v EXCEPT !.Periods = AllAtMost(P, @), !.Throttled = AllAtMost(P, @)]
<1>1. r = IF containers = {} THEN u ELSE IF ~(P > 0) THEN v ELSE w
  BY Zenon DEF Restricted
<1>2. CASE containers = {}
  BY <1>1, <1>2
<1>3. CASE containers # {}
  <2>1. Min(C) \in Nat
    <3>1. C \in SUBSET Nat /\ C # {}
      BY <1>3
    <3> HIDE DEF C
    <3> QED  BY <3>1, MinIsLeast
  <2>2. Min(M) \in Nat
    <3>1. M \in SUBSET Nat /\ M # {}
      BY <1>3
    <3> HIDE DEF M
    <3> QED  BY <3>1, MinIsLeast
  <2> HIDE DEF C, M, r
  <2>3. /\ u.Cpu \in Seq(Int) /\ u.Memory \in Seq(Int) /\ u.Periods \in Seq(Int) /\ u.Throttled \in Seq(Int)
        /\ u.AvgCpu \in Int
        /\ {"Cpu", "Memory", "Periods", "Throttled", "AvgCpu"} \subseteq DOMAIN u
        /\ {"AvgMemory", "AvgPeriods", "AvgThrottled", "Oom", "OomKill", "Network", "AvgNetwork"} \subseteq DOMAIN u
    BY DEF SampleTyped, ListsOfSample, NumbersOfSample
  <2>4. SampleTyped(v)
    <3>1. CASE Config.RestrictMaxUtilization
      <4>1. v = [u EXCEPT !.Cpu = AllAtMost(Min(C), u.Cpu), !.Memory = AllAtMost(Min(M), u.Memory),
                          !.AvgCpu = AtMost(Min(C), u.AvgCpu)]
        BY <3>1
      <4> HIDE DEF v
      <4>2. /\ DOMAIN v = DOMAIN u /\ v.Cpu = AllAtMost(Min(C), u.Cpu) /\ v.Memory = AllAtMost(Min(M), u.Memory)
            /\ v.AvgCpu = AtMost(Min(C), u.AvgCpu) /\ v.Periods = u.Periods /\ v.Throttled = u.Throttled
        BY <2>3, <4>1
      <4>3. \A f \in {"AvgMemory", "AvgPeriods", "AvgThrottled", "Oom", "OomKill", "Network", "AvgNetwork"} :
               v[f] = u[f]
        BY <2>3, <4>1
      <4>4. v.Cpu \in Seq(Int) /\ v.Memory \in Seq(Int)
        BY <2>1, <2>2, <2>3, <4>2, AllAtMostTyped
      <4>5. v.AvgCpu \in Int
        BY <2>1, <2>3, <4>2 DEF AtMost
      <4> QED  BY <2>3, <4>2, <4>3, <4>4, <4>5, ReplacedTyped
    <3>2. CASE ~Config.RestrictMaxUtilization
      BY <3>2
    <3> QED  BY <3>1, <3>2
  <2> HIDE DEF v
  <2>5. SampleTyped(w)
    <3>1. /\ v.Cpu \in Seq(Int) /\ v.Memory \in Seq(Int) /\ v.Periods \in Seq(Int) /\ v.Throttled \in Seq(Int)
          /\ v.AvgCpu \in Int
          /\ {"Cpu", "Memory", "Periods", "Throttled", "AvgCpu"} \subseteq DOMAIN v
          /\ {"AvgMemory", "AvgPeriods", "AvgThrottled", "Oom", "OomKill", "Network", "AvgNetwork"} \subseteq DOMAIN v
      BY <2>4 DEF SampleTyped, ListsOfSample, NumbersOfSample
    <3>2. /\ DOMAIN w = DOMAIN v /\ w.Cpu = v.Cpu /\ w.Memory = v.Memory /\ w.AvgCpu = v.AvgCpu
          /\ w.Periods = AllAtMost(P, v.Periods) /\ w.Throttled = AllAtMost(P, v.Throttled)
      BY <3>1
    <3>3. \A f \in {"AvgMemory", "AvgPeriods", "AvgThrottled", "Oom", "OomKill", "Network", "AvgNetwork"} :
             w[f] = v[f]
      BY <3>1
    <3>4. P \in Int
      BY ConfigTypes
    <3> HIDE DEF w, P
    <3>5. w.Periods \in Seq(Int) /\ w.Throttled \in Seq(Int)
      BY <3>1, <3>2, <3>4, AllAtMostTyped
    <3> QED  BY <2>4, <3>1, <3>2, <3>3, <3>5, ReplacedTyped
  <2> HIDE DEF w
  <2>6. SampleTyped(r)
    BY <1>1, <1>3, <2>4, <2>5
  <2> QED  BY <2>6 DEF r
<1> QED  BY <1>2, <1>3

\* the samples in memory are samples
SamplesTyped ==
    \A h \in DOMAIN received : \A i \in DOMAIN received[h].Containers : SampleTyped(heap[h].Containers[i])

\* what the containers have found points to samples of the responses of the scrape
PointsInto(found) ==
    \A c \in Containers : found[c] # Nil =>
        /\ found[c][1] \in Range(o.Utilization) /\ found[c][2] \in DOMAIN received[found[c][1]].Containers

\* Samples in memory, as some containers of the scrape leave them.
LEMMA LeftTyped ==
    ASSUME FitInv, SamplesTyped, NEW h \in DOMAIN received, NEW i \in DOMAIN received[h].Containers,
           NEW e, e[1] = h, e[2] = i, NEW D, D \subseteq Containers
    PROVE  SampleTyped(Restricted(Entry(e), {ContainerOf(c) : c \in D}))
<1> DEFINE finders == {ContainerOf(c) : c \in D}
<1>1. ToSet(o.Pods) \subseteq KnownPods
  BY PodsKnown DEF FitInv
<1>2. \A x \in finders : Qty(x.Limits, "cpu") \in Nat /\ Qty(x.Limits, "memory") \in Nat
  BY <1>1, ContainersKnown
<1>3. SampleTyped(Entry(e))
  BY DEF SamplesTyped, Entry
<1> HIDE DEF finders
<1>4. SampleTyped(Restricted(Entry(e), finders))
  BY <1>2, <1>3, RestrictedTyped
<1> QED  BY <1>4 DEF finders

\* So when all have returned.
LEMMA AfterTyped ==
    ASSUME FitInv, SamplesTyped, NEW found, NEW h \in DOMAIN received, NEW i \in DOMAIN received[h].Containers,
           NEW e, e[1] = h, e[2] = i
    PROVE  SampleTyped(After(found, e))
<1>1. {c \in Containers : found[c] = e} \subseteq Containers
  OBVIOUS
<1> QED  BY <1>1, LeftTyped DEF After

\* What containers find are places in the responses of the scrape.
LEMMA FoundPoints ==
    ASSUME CInv, NEW order \in SetToSeqs(DOMAIN o.Utilization)
    PROVE  PointsInto(Found(GetContainerUsageSummary(order)))
<1> DEFINE summary == GetContainerUsageSummary(order)
<1>1. SummaryFits(summary)
  BY SummaryOfKeys DEF CInv
<1> HIDE DEF summary
<1>2. \A k \in DOMAIN summary :
        summary[k][1] \in Range(o.Utilization) /\ summary[k][2] \in DOMAIN received[summary[k][1]].Containers
  BY <1>1 DEF SummaryFits
<1>3. ASSUME NEW c \in Containers
      PROVE  LET e == UsageFor(summary, PodOf(c), ContainerOf(c))
             IN  e = Nil \/ \E k \in DOMAIN summary : e = summary[k]
  BY DEF UsageFor
<1>4. \A c \in Containers : Found(summary)[c] = UsageFor(summary, PodOf(c), ContainerOf(c))
  BY DEF Found
<1>5. PointsInto(Found(summary))
  BY <1>2, <1>3, <1>4 DEF PointsInto
<1> QED  BY <1>5 DEF summary

\* What a container adds, with the samples it has found.
LEMMA ContainerAdds ==
    ASSUME CInv, FitInv, SamplesTyped, NEW found, PointsInto(found), NEW c \in Containers
    PROVE  PointTyped(addValuesToMetrics(ContainerValues(found, c), ContainerLabels(PodOf(c), ContainerOf(c)), "container"))
<1> DEFINE x == ContainerOf(c)
           pod == PodOf(c)
           u == IF found[c] = Nil THEN Nil ELSE ReadBy(found, c)
<1>1. pod \in ToSet(o.Pods) /\ x \in ToSet(pod.Containers)
  BY DEF Containers, PodOf, ContainerOf, ToSet
<1>2. PodTyped(pod)
  BY <1>1, ObjectsTyped
<1>3. u = Nil \/ SampleTyped(u)
  <2> SUFFICES ASSUME found[c] # Nil PROVE SampleTyped(ReadBy(found, c))
    OBVIOUS
  <2>1. found[c][1] \in Range(o.Utilization) /\ found[c][2] \in DOMAIN received[found[c][1]].Containers
    BY DEF PointsInto
  <2>2. found[c][1] \in DOMAIN received
    BY <2>1, KeysKept DEF CInv
  <2>3. {d \in Containers : found[d] = found[c] /\ (d = c \/ Later(c, d))} \subseteq Containers
    OBVIOUS
  <2> QED  BY <2>1, <2>2, <2>3, LeftTyped DEF ReadBy
<1>4. ContainerValues(found, c) = GetValuesForContainer(x, pod, u)
  BY DEF ContainerValues
<1> HIDE DEF x, pod, u
<1>5. IsAmounts(x.Requests) /\ IsAmounts(x.Limits)
  BY <1>1, <1>2 DEF PodTyped
<1>6. ValuesTyped(ContainerValues(found, c))
  BY <1>3, <1>4, <1>5, ContainerValuesTyped
<1>7. ContainerLabels(pod, x) \in LabelsValues
  BY <1>1, <1>2, ContainerLabelsTyped
<1> QED  BY <1>6, <1>7, PointsTyped DEF addValuesToMetrics, x, pod

\* What collectContainers yields.
LEMMA ContainerTypes ==
    ASSUME CInv, FitInv, SamplesTyped, NEW found, PointsInto(found)
    PROVE  MetricTyped(Collected(PodAndContainerPoints(found)))
<1> DEFINE points == PodAndContainerPoints(found)
<1>1. /\ DOMAIN points = Each(o.Pods) \cup Containers
      /\ \A i \in DOMAIN o.Pods : points[<<i>>] = PodPoints(o.Pods[i])
      /\ \A c \in Containers : points[c] =
            addValuesToMetrics(ContainerValues(found, c), ContainerLabels(PodOf(c), ContainerOf(c)), "container")
  BY PointsOfContainers
<1> HIDE DEF points
<1>2. \A i \in DOMAIN o.Pods : PointTyped(points[<<i>>])
  BY <1>1, PodAdds DEF ToSet
<1>3. \A c \in Containers : PointTyped(points[c])
  BY <1>1, ContainerAdds
<1>4. \A p \in DOMAIN points : PointTyped(points[p])
  BY <1>1, <1>2, <1>3 DEF Each
<1>5. ASSUME NEW pod, NEW n \in DOMAIN PodPoints(pod) PROVE n[1] # "container"
  <2> DEFINE a == addValuesToMetrics(GetValuesForPod(pod), PodLabels(pod), "pod")
             b == addValuesToMetrics(GetValuesForSchedulerHealth(pod, Config.SchedulerHealth), PodLabels(pod),
                                     "scheduler_health")
  <2>1. (\A x \in DOMAIN a : x[1] = "pod") /\ \A x \in DOMAIN b : x[1] = "scheduler_health"
    BY PointsHave DEF addValuesToMetrics
  <2>2. DOMAIN PodPoints(pod) = DOMAIN a \cup DOMAIN b
    BY DEF PodPoints, Merge
  <2> HIDE DEF a, b
  <2> QED  BY <2>1, <2>2
<1>6. ASSUME NEW c \in Containers, NEW n \in DOMAIN points[c] PROVE n[1] = "container"
  BY <1>1, <1>6, PointsHave DEF addValuesToMetrics
<1>7. IsFiniteSet(Each(o.Pods)) /\ Each(o.Pods) \subseteq [1 .. 1 -> Nat]
  <2>1. \A i \in DOMAIN o.Pods : i \in Nat
    BY ListsFit DEF IsList
  <2>2. \A i \in Nat : <<i>> \in [1 .. 1 -> Nat]
    <3> TAKE i \in Nat
    <3>1. <<i>> = [j \in 1 .. 1 |-> i]
      OBVIOUS
    <3> QED  BY <3>1
  <2> QED  BY <2>1, <2>2, EachCounts, ListsFit DEF Each
<1>8. IsFiniteSet(Containers) /\ Containers \subseteq [1 .. 2 -> Nat]
  <2>1. IsFiniteSet(Containers)
    BY ListsFit, FiniteContainers
  <2>2. ASSUME NEW c \in Containers PROVE c \in [1 .. 2 -> Nat]
    <3>1. c = <<c[1], c[2]>> /\ c[1] \in DOMAIN o.Pods /\ c[2] \in DOMAIN o.Pods[c[1]].Containers
      BY DEF Containers
    <3>2. IsList(o.Pods) /\ IsList(o.Pods[c[1]].Containers)
      BY <3>1, ListsFit DEF ToSet
    <3>3. c[1] \in Nat /\ c[2] \in Nat
      BY <3>1, <3>2, FiniteDomain DEF IsList
    <3> QED  BY <3>1, <3>3, Pair
  <2> QED  BY <2>1, <2>2
<1>9. Arranged(points)
  <2> SUFFICES ASSUME NEW n PROVE IsFiniteSet(Holders(points, n)) /\ \E d \in Nat : Holders(points, n) \subseteq [1 .. d -> Nat]
    BY DEF Arranged
  <2>1. CASE n[1] = "container"
    <3>1. Holders(points, n) \subseteq Containers
      BY <1>1, <1>5, <2>1 DEF Holders, Each
    <3> QED  BY <1>8, <3>1, FS_Subset
  <2>2. CASE n[1] # "container"
    <3>1. Holders(points, n) \subseteq Each(o.Pods)
      BY <1>1, <1>6, <2>2 DEF Holders
    <3> QED  BY <1>7, <3>1, FS_Subset
  <2> QED  BY <2>1, <2>2
<1>10. MetricTyped(Collected(points))
  BY <1>4, <1>9, CollectedTyped
<1> QED  BY <1>10 DEF points

\* So what every function returns has its type.
LEMMA ResultTyped == ASSUME CInv, FitInv, SamplesTyped, NEW f, NEW m, Result(f, m) PROVE MetricTyped(m) /\ f \in CollectorFuncs
<1>1. f \in CollectorFuncs
  BY DEF Result, CollectorFuncs
<1>2. CASE f = "collect_quotas"
  <2>1. PICK class : ClassesFit(class) /\ m = Collected(PointsOfQuotas(class))
    BY <1>2 DEF Result
  <2> QED  BY <1>1, <2>1, QuotaTypes
<1>3. CASE f = "collect_containers"
  <2>1. PICK order \in SetToSeqs(DOMAIN o.Utilization) :
           m = Collected(PodAndContainerPoints(Found(GetContainerUsageSummary(order))))
    BY <1>3 DEF Result
  <2> QED  BY <1>1, <2>1, FoundPoints, ContainerTypes
<1>4. CASE f = "collect_cgroups"
  <2>1. m = Collected([p \in CGroups |-> CGroupPoints(o.Nodes[p[1]], p[2])])
    BY <1>4 DEF Result
  <2> QED  BY <1>1, <2>1, CGroupTypes
<1>5. CASE f = "collect_cluster_scoped"
  <2>1. m = Collected(ScopedPoints)
    BY <1>5 DEF Result
  <2> QED  BY <1>1, <2>1, ScopedTypes
<1>6. CASE f \in {"collect_pvs", "collect_pvcs", "collect_namespace", "collect_nodes"}
  <2>1. m \in {Collected(ForEach(o.PVs, PVPoints)), Collected(ForEach(o.PVCs, PVCPoints)),
               Collected(ForEach(o.Namespaces, NamespacePoints)), Collected(ForEach(o.Nodes, NodePoints))}
    BY <1>6 DEF Result
  <2> QED  BY <1>1, <2>1, ListedTypes
<1> QED  BY <1>1, <1>2, <1>3, <1>4, <1>5, <1>6 DEF CollectorFuncs

\* the types of the state of the process
ProcessTyped ==
    /\ phase \in {"idle", "collecting", "crashed"} /\ warm \in BOOLEAN
    /\ failed \subseteq MayFail /\ Len(received) <= MaxPushes

\* the samples a scrape has found are in its responses
FoundInv ==
    \A c \in DOMAIN usageOf : usageOf[c] # Nil =>
        usageOf[c][1] \in Range(o.Utilization) /\ usageOf[c][2] \in DOMAIN received[usageOf[c][1]].Containers

\* what has been collected
MetricsTyped == done \subseteq CollectorFuncs /\ \A f \in done : MetricTyped(metrics[f])

\* the inductive invariant of TypeOK
TInv == CInv /\ FitInv /\ SamplesTyped /\ ProcessTyped /\ FoundInv /\ MetricsTyped

\* It holds of a process that starts.
LEMMA InitTypes == ASSUME Init PROVE TInv
<1>1. received = <<>> /\ done = {} /\ usageOf = Empty /\ phase = "idle" /\ warm = FALSE /\ failed = {}
  BY DEF Init
<1>2. ProcessTyped
  <2>1. Len(received) = 0 /\ MaxPushes \in Nat
    BY <1>1, CollectionAssumption
  <2>2. Len(received) <= MaxPushes
    BY <2>1
  <2>3. warm \in BOOLEAN /\ failed \subseteq MayFail /\ phase \in {"idle", "collecting", "crashed"}
    BY <1>1, Zenon
  <2> QED  BY <2>2, <2>3, Zenon DEF ProcessTyped
<1>3. SamplesTyped /\ FoundInv /\ MetricsTyped
  BY <1>1, EmptyTyped DEF SamplesTyped, FoundInv, MetricsTyped
<1> QED  BY <1>2, <1>3, InitCInv, InitFit DEF TInv

\* The process keeps its types: a scrape fails only where it may.
LEMMA NextProcess == ASSUME received \in Seq(Responses), ProcessTyped, [Next]_vars PROVE ProcessTyped'
<1>1. CASE UNCHANGED <<phase, warm, failed, received>>
  BY <1>1 DEF ProcessTyped
<1>2. ASSUME NEW r \in Responses, Push(r) PROVE ProcessTyped'
  <2>1. /\ Len(received) < MaxPushes /\ received' = Append(received, r) /\ UNCHANGED <<phase, warm, failed>>
    BY <1>2 DEF Push, scrape
  <2>2. Len(received') = Len(received) + 1 /\ Len(received) \in Nat
    BY <2>1
  <2>3. Len(received') <= MaxPushes
    BY <2>1, <2>2, CollectionAssumption
  <2> QED  BY <2>1, <2>3 DEF ProcessTyped
<1>3. ASSUME NEW n \in DOMAIN responses, ClearMetrics(n) PROVE ProcessTyped'
  BY <1>1, <1>3 DEF ClearMetrics, scrape
<1>4. ASSUME NEW c \in Clusters, ClusterChanges(c) PROVE ProcessTyped'
  BY <1>1, <1>4 DEF ClusterChanges, scrape
<1>5. CASE WarmUp
  BY <1>5 DEF WarmUp, ProcessTyped
<1>6. ASSUME NEW bad \in SUBSET MayFail, NEW late \in SUBSET MayLag, NEW next \in Clusters,
             listCapacityObjects(bad, late, next)
      PROVE  ProcessTyped'
  <2>1. failed' = bad /\ UNCHANGED <<received, warm>> /\ phase' \in {"idle", "collecting"}
    BY <1>6, Zenon DEF listCapacityObjects
  <2> QED  BY <2>1 DEF ProcessTyped
<1>7. CASE collectContainers
  <2>1. UNCHANGED <<phase, warm, failed, received>>
    BY <1>7, Zenon DEF collectContainers
  <2> QED  BY <1>1, <2>1
<1>8. CASE collectQuota \/ collectNodes \/ collectPVs \/ collectPVCs \/ collectNamespaces \/ collectClusterScoped
  <2>1. Undisturbed
    BY <1>8, Zenon DEF collectQuota, collectNodes, collectPVs, collectPVCs, collectNamespaces, collectClusterScoped
  <2> QED  BY <1>1, <2>1 DEF Undisturbed
<1>9. CASE collectCGroups
  <2>1. UNCHANGED <<warm, failed, received>> /\ phase' \in {phase, "crashed"}
    BY <1>9, Zenon DEF collectCGroups
  <2> QED  BY <2>1 DEF ProcessTyped
<1>10. CASE FinishScrape
  BY <1>10 DEF FinishScrape, ProcessTyped
<1>11. CASE Restart
  BY <1>11 DEF Restart, ProcessTyped
<1>12. CASE UNCHANGED vars
  BY <1>1, <1>12 DEF vars
<1> QED
  BY <1>2, <1>3, <1>4, <1>5, <1>6, <1>7, <1>8, <1>9, <1>10, <1>11, <1>12, Zenon DEF Next

\* What a function returns has its type, and is not changed later.
LEMMA NextMetrics == ASSUME CInv, FitInv, SamplesTyped, MetricsTyped, [Next]_vars PROVE MetricsTyped'
<1>1. CASE done' = {}
  BY <1>1 DEF MetricsTyped
<1>2. CASE UNCHANGED <<o, metrics, done>>
  BY <1>2 DEF MetricsTyped
<1>3. ASSUME NEW f, NEW m, Returns(f, m), Result(f, m) PROVE MetricsTyped'
  <2>1. done' = done \cup {f} /\ metrics' = Put(metrics, f, m) /\ f \notin done
    BY <1>3 DEF Returns, Turn
  <2>2. metrics'[f] = m /\ \A g \in done : metrics'[g] = metrics[g]
    BY <2>1 DEF Put, FitInv
  <2>3. MetricTyped(m) /\ f \in CollectorFuncs
    BY <1>3, ResultTyped
  <2>4. \A g \in done : MetricTyped(metrics[g])
    BY DEF MetricsTyped
  <2>5. \A g \in done' : MetricTyped(metrics'[g])
    BY <2>1, <2>2, <2>3, <2>4
  <2> QED  BY <2>1, <2>3, <2>5 DEF MetricsTyped
<1>4. ASSUME NEW bad, NEW late, NEW next \in Clusters, listCapacityObjects(bad, late, next) PROVE done' = {}
  BY <1>4 DEF listCapacityObjects
<1>5. Restart => done' = {}
  BY DEF Restart
<1> QED  BY <1>1, <1>2, <1>3, <1>4, <1>5, ResultKinds

\* The containers of a scrape and their samples.
LEMMA ContainersFound ==
    ASSUME CInv, FitInv, SamplesTyped, collectContainers
    PROVE  SamplesTyped' /\ FoundInv'
<1>1. PICK order \in SetToSeqs(DOMAIN o.Utilization) :
         /\ usageOf' = Found(GetContainerUsageSummary(order))
         /\ heap' = [h \in DOMAIN heap |-> [heap[h] EXCEPT !.Containers =
                        [i \in DOMAIN @ |-> After(Found(GetContainerUsageSummary(order)), <<h, i>>)]]]
  BY Zenon DEF collectContainers
<1>2. UNCHANGED <<received, o>>
  BY DEF collectContainers
<1> DEFINE found == Found(GetContainerUsageSummary(order))
<1>3. DOMAIN found = Containers
  BY DEF Found
<1>4. PointsInto(found)
  BY FoundPoints
<1> HIDE DEF found
<1>5. usageOf' = found
  BY <1>1 DEF found
<1>6. FoundInv'
  BY <1>2, <1>3, <1>4, <1>5 DEF FoundInv, PointsInto
<1>7. /\ DOMAIN heap = DOMAIN received
      /\ \A h \in DOMAIN received : Kept(heap[h], received[h])
  BY DEF CInv, HeapInv
<1>8. ASSUME NEW h \in DOMAIN received, NEW i \in DOMAIN received[h].Containers
      PROVE  SampleTyped(heap'[h].Containers[i])
  <2>1. "Containers" \in DOMAIN heap[h] /\ i \in DOMAIN heap[h].Containers
    BY <1>7 DEF Kept
  <2>2. heap'[h] = [heap[h] EXCEPT !.Containers = [j \in DOMAIN @ |-> After(found, <<h, j>>)]]
    BY <1>1, <1>7 DEF found
  <2>3. heap'[h].Containers = [j \in DOMAIN heap[h].Containers |-> After(found, <<h, j>>)]
    BY <2>1, <2>2
  <2>4. heap'[h].Containers[i] = After(found, <<h, i>>)
    BY <2>1, <2>3
  <2>5. <<h, i>>[1] = h /\ <<h, i>>[2] = i
    OBVIOUS
  <2>6. SampleTyped(After(found, <<h, i>>))
    <3> DEFINE e == <<h, i>>
    <3> HIDE DEF e
    <3>1. e[1] = h /\ e[2] = i
      BY <2>5 DEF e
    <3>2. SampleTyped(After(found, e))
      BY <3>1, AfterTyped
    <3> QED  BY <3>2 DEF e
  <2> QED  BY <2>4, <2>6
<1>9. SamplesTyped'
  BY <1>2, <1>8 DEF SamplesTyped
<1> QED  BY <1>6, <1>9

\* A response pushed has samples.
LEMMA PushTyped == ASSUME CInv, SamplesTyped, NEW r \in Responses, Push(r) PROVE SamplesTyped'
<1> DEFINE n == Len(received)
<1>1. /\ received \in Seq(Responses) /\ heap \in Seq(ToSet(heap)) /\ Len(heap) = n /\ n \in Nat
      /\ DOMAIN received = 1 .. n /\ DOMAIN heap = 1 .. n
  BY DEF CInv, HeapInv
<1>2. received' = Append(received, r) /\ heap' = Append(heap, r)
  BY DEF Push
<1>3. /\ DOMAIN received' = 1 .. n + 1 /\ received'[n + 1] = r /\ \A h \in 1 .. n : received'[h] = received[h]
  BY <1>1, <1>2
<1>4. heap'[n + 1] = r /\ \A h \in 1 .. n : heap'[h] = heap[h]
  <2> DEFINE T == ToSet(heap) \cup {r}
  <2>1. heap \in Seq(T) /\ r \in T
    BY <1>1
  <2> HIDE DEF T
  <2> QED  BY <1>1, <1>2, <2>1
<1>5. \A i \in DOMAIN r.Containers : SampleTyped(r.Containers[i])
  <2>1. \A s \in ToSet(r.Containers) : SampleTyped(s)
    BY ResponseTypes DEF SampleTyped, ListTyped
  <2> QED  BY <2>1 DEF ToSet
<1>6. \A h \in 1 .. n + 1 : h \in 1 .. n \/ h = n + 1
  BY <1>1
<1>7. ASSUME NEW h \in DOMAIN received', NEW i \in DOMAIN received'[h].Containers
      PROVE  SampleTyped(heap'[h].Containers[i])
  <2>1. CASE h = n + 1
    BY <1>3, <1>4, <1>5, <1>7, <2>1
  <2>2. CASE h \in 1 .. n
    <3>1. h \in DOMAIN received /\ received'[h] = received[h] /\ heap'[h] = heap[h]
      BY <1>1, <1>3, <1>4, <2>2
    <3> QED  BY <1>7, <3>1 DEF SamplesTyped
  <2> QED  BY <1>3, <1>6, <1>7, <2>1, <2>2
<1> QED  BY <1>7 DEF SamplesTyped

\* The steps that leave the samples found alone.
LEMMA UsageKinds ==
    ASSUME [Next]_vars
    PROVE  \/ collectContainers
           \/ usageOf' = Empty /\ UNCHANGED <<received, heap>>
           \/ UNCHANGED <<o, usageOf>> /\ (UNCHANGED <<received, heap>> \/ \E r \in Responses : Push(r))
<1>1. CASE UNCHANGED vars
  BY <1>1 DEF vars
<1>2. ASSUME NEW r \in Responses, Push(r) PROVE UNCHANGED <<o, usageOf>>
  BY <1>2 DEF Push, scrape
<1>3. ASSUME NEW n \in DOMAIN responses, ClearMetrics(n) PROVE UNCHANGED <<o, usageOf, received, heap>>
  BY <1>3 DEF ClearMetrics, scrape
<1>4. ASSUME NEW c \in Clusters, ClusterChanges(c) PROVE UNCHANGED <<o, usageOf, received, heap>>
  BY <1>4 DEF ClusterChanges, scrape
<1>5. CASE WarmUp \/ FinishScrape
  BY <1>5 DEF WarmUp, FinishScrape
<1>6. ASSUME NEW bad \in SUBSET MayFail, NEW late \in SUBSET MayLag, NEW next \in Clusters,
             listCapacityObjects(bad, late, next)
      PROVE  usageOf' = Empty /\ UNCHANGED <<received, heap>>
  BY <1>6, Zenon DEF listCapacityObjects
<1>7. CASE Restart
  BY <1>7 DEF Restart
<1>8. CASE collectQuota \/ collectNodes \/ collectPVs \/ collectPVCs \/ collectNamespaces \/ collectClusterScoped
  <2>1. Undisturbed
    BY <1>8, Zenon DEF collectQuota, collectNodes, collectPVs, collectPVCs, collectNamespaces, collectClusterScoped
  <2> QED  BY <2>1 DEF Undisturbed
<1>9. CASE collectCGroups
  <2>1. UNCHANGED <<o, usageOf, received, heap>>
    BY <1>9, Zenon DEF collectCGroups
  <2> QED  BY <2>1
<1> QED  BY <1>1, <1>2, <1>3, <1>4, <1>5, <1>6, <1>7, <1>8, <1>9 DEF Next

\* Samples found stay in the responses of the scrape while samplers push others.
LEMMA NextFound == ASSUME CInv, FitInv, SamplesTyped, FoundInv, [Next]_vars PROVE SamplesTyped' /\ FoundInv'
<1>1. CASE collectContainers
  BY <1>1, ContainersFound
<1>2. ASSUME UNCHANGED <<received, heap>> PROVE SamplesTyped'
  BY <1>2 DEF SamplesTyped
<1>3. ASSUME usageOf' = Empty PROVE FoundInv'
  BY <1>3, EmptyTyped DEF FoundInv
<1>4. ASSUME UNCHANGED <<o, usageOf>>, NEW c \in DOMAIN usageOf, usageOf[c] # Nil
      PROVE  /\ usageOf[c][1] \in Range(o.Utilization)
             /\ usageOf[c][2] \in DOMAIN received'[usageOf[c][1]].Containers
  <2>1. usageOf[c][1] \in Range(o.Utilization) /\ usageOf[c][2] \in DOMAIN received[usageOf[c][1]].Containers
    BY <1>4 DEF FoundInv
  <2>2. usageOf[c][1] \in DOMAIN received
    BY <2>1, KeysKept DEF CInv
  <2>3. received \in Seq(Responses)
    BY DEF CInv, HeapInv
  <2>4. received'[usageOf[c][1]] = received[usageOf[c][1]]
    BY <2>2, <2>3, ReceivedGrows
  <2> QED  BY <2>1, <2>4
<1>5. ASSUME UNCHANGED <<o, usageOf>> PROVE FoundInv'
  BY <1>4, <1>5 DEF FoundInv
<1>6. ASSUME NEW r \in Responses, Push(r) PROVE SamplesTyped'
  BY <1>6, PushTyped
<1>7. CASE usageOf' = Empty /\ UNCHANGED <<received, heap>>
  <2>1. SamplesTyped'
    BY <1>2, <1>7
  <2>2. FoundInv'
    BY <1>3, <1>7
  <2> QED  BY <2>1, <2>2
<1>8. CASE UNCHANGED <<o, usageOf>> /\ (UNCHANGED <<received, heap>> \/ \E r \in Responses : Push(r))
  <2>1. SamplesTyped'
    BY <1>2, <1>6, <1>8
  <2>2. FoundInv'
    BY <1>5, <1>8
  <2> QED  BY <2>1, <2>2
<1> QED  BY <1>1, <1>7, <1>8, UsageKinds

\* Each step keeps the invariant.
LEMMA NextTypes == ASSUME NilIsNoTuple, TInv, [Next]_vars PROVE TInv'
<1>1. CInv /\ FitInv /\ SamplesTyped /\ ProcessTyped /\ FoundInv /\ MetricsTyped /\ received \in Seq(Responses)
  BY DEF TInv, CInv, HeapInv
<1>2. CInv' /\ FitInv'
  BY <1>1, NextCInv, NextFit
<1>3. SamplesTyped' /\ FoundInv'
  BY <1>1, NextFound
<1>4. ProcessTyped' /\ MetricsTyped'
  BY <1>1, NextProcess, NextMetrics
<1> QED  BY <1>2, <1>3, <1>4 DEF TInv

\* The invariant is stronger than TypeOK.
LEMMA TInvImplies == ASSUME TInv PROVE TypeOK
<1>1. CInv /\ FitInv /\ ProcessTyped /\ FoundInv /\ MetricsTyped
  BY DEF TInv
<1>2. \A f \in {responses, o.Utilization} : \A n \in DOMAIN f : f[n] \in DOMAIN received /\ received[f[n]].Node = n
  BY <1>1 DEF CInv, Cached
<1>3. Len(heap) = Len(received)
  BY <1>1 DEF CInv, HeapInv
<1>4. ASSUME NEW c \in DOMAIN usageOf, usageOf[c] # Nil
      PROVE  usageOf[c][1] \in Range(o.Utilization) /\ usageOf[c][2] \in DOMAIN heap[usageOf[c][1]].Containers
  <2>1. usageOf[c][1] \in Range(o.Utilization) /\ usageOf[c][2] \in DOMAIN received[usageOf[c][1]].Containers
    BY <1>1, <1>4 DEF FoundInv
  <2> QED  BY <1>1, <2>1, KeysKept DEF CInv
<1>5. DOMAIN metrics = done
  BY <1>1 DEF FitInv
<1>6. done \subseteq CollectorFuncs
  BY <1>1 DEF MetricsTyped
<1>7. \A f \in done : \A n \in DOMAIN metrics[f] : \A l \in DOMAIN metrics[f][n] :
         l \in LabelsValues /\ metrics[f][n][l] \in Seq(Int)
  BY <1>1, Zenon DEF MetricsTyped, MetricTyped
<1> QED  BY <1>1, <1>2, <1>3, <1>4, <1>5, <1>6, <1>7, Zenon DEF TypeOK, ProcessTyped

\* TypeOK, for every cluster, response and configuration of Go's types: the
\* responses of a scrape and of the server are received ones of their node;
\* samples found by a container are in a response the scrape took, although
\* responses are replaced while it runs; what each collector function yields
\* has text for each label, whatever objects are missing, and numbers for
\* values.  The last needs that among objects rendered to the same labels
\* there is always one that came last (LatestExists).
THEOREM TypeCorrect ==
    ASSUME NilIsNoTuple
    PROVE  Spec => []TypeOK
<1>1. Init => TInv
  BY InitTypes
<1>2. TInv /\ [Next]_vars => TInv'
  BY NextTypes
<1>3. TInv => TypeOK
  BY TInvImplies
<1> QED  BY <1>1, <1>2, <1>3, PTL DEF Spec
=============================================================================
