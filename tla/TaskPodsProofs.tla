--------------------------- MODULE TaskPodsProofs ----------------------------
(***************************************************************************)
(* The invariants of TaskPods, for any specs, plugins, task options and    *)
(* bounds.  The proof goes from the inside out: the folds of the model     *)
(* (the containers and volumes of a pod, the loop over the plugins), what  *)
(* a generated pod is, what the call that runs a stage does, and last the  *)
(* steps.                                                                  *)
(***************************************************************************)
EXTENDS TaskPods, TasksProofs, SequenceTheorems, FiniteSetTheorems

(***************************************************************************)
(* Folds.  FoldLeft goes over the prefixes of its sequence: it is the last *)
(* value of a function that starts at the base and applies the operator    *)
(* once at each place.  That there is such a function needs the values to  *)
(* lie in a set, closed under the operator.                                *)
(***************************************************************************)
LEMMA PrefixInduction ==
  ASSUME NEW n \in Nat, NEW good, 0 \in good,
         \A k \in 0..n - 1 : k \in good => k + 1 \in good
  PROVE  0..n \subseteq good
<1> DEFINE bad == {k \in 0..n : k \notin good}
<1>1. ASSUME bad # {} PROVE FALSE
  <2>1. bad \subseteq Nat
    OBVIOUS
  <2>2. \E k \in bad : \A m \in bad : ~(<<m, k>> \in OpToRel(<, Nat))
    BY <1>1, <2>1, NatLessThanWellFounded, WFMin
  <2>3. PICK k \in bad : \A m \in bad : ~(m < k)
    BY <2>1, <2>2 DEF OpToRel
  <2>4. k # 0 /\ k - 1 \in 0..n - 1 /\ k - 1 \notin bad
    BY <2>3
  <2>5. k - 1 \in good
    BY <2>4
  <2> QED
    BY <2>3, <2>4, <2>5
<1> QED
  BY <1>1

(* The maximum of a set of numbers is one of them.                         *)
LEMMA MaxOfNumbers ==
  ASSUME NEW n \in Nat, NEW s \in SUBSET (1..n), s # {}
  PROVE  Max(s) \in s /\ \A m \in s : m <= Max(s)
<1> DEFINE gaps == {n - m : m \in s}
<1>1. gaps # {} /\ gaps \subseteq Nat
  <2>1. \A m \in s : n - m \in Nat
    OBVIOUS
  <2> QED
    BY <2>1
<1>2. \E k \in gaps : \A m \in gaps : ~(<<m, k>> \in OpToRel(<, Nat))
  BY <1>1, NatLessThanWellFounded, WFMin
<1>3. PICK k \in gaps : \A m \in gaps : ~(m < k)
  BY <1>1, <1>2 DEF OpToRel
<1>4. PICK x \in s : k = n - x
  BY <1>3
<1>5. \A y \in s : x >= y
  <2> TAKE y \in s
  <2>1. ~(n - y < k)
    BY <1>3
  <2> QED
    BY <1>4, <2>1
<1> HIDE DEF gaps
<1>6. \E z \in s : \A y \in s : z >= y
  BY <1>5
<1>7. Max(s) \in s /\ \A y \in s : Max(s) >= y
  BY <1>6 DEF Max
<1> QED
  BY <1>7

IsFold(n, base, F, g) ==
  /\ g[{}] = base
  /\ \A s \in SUBSET (1..n) : s # {} => g[s] = F[<<Max(s), g[s \ {Max(s)}]>>]

(* There is a function that folds over the prefixes.                       *)
LEMMA FoldRecursion ==
  ASSUME NEW n \in Nat, NEW V, NEW base \in V, NEW F \in [(1..n) \X V -> V]
  PROVE  \E g \in [SUBSET (1..n) -> V] : IsFold(n, base, F, g)
<1> DEFINE Folds(k, g) == IsFold(k, base, F, g)
           good == {k \in 0..n : \E g \in [SUBSET (1..k) -> V] : Folds(k, g)}
<1> USE DEF IsFold
<1>1. 0 \in good
  <2> DEFINE g == [s \in SUBSET (1..0) |-> base]
  <2>1. g \in [SUBSET (1..0) -> V] /\ g[{}] = base
    OBVIOUS
  <2>2. \A s \in SUBSET (1..0) : s = {}
    OBVIOUS
  <2>3. Folds(0, g)
    BY <2>1, <2>2
  <2> HIDE DEF g
  <2>4. \E f \in [SUBSET (1..0) -> V] : Folds(0, f)
    BY <2>1, <2>3
  <2>5. 0 \in 0..n
    OBVIOUS
  <2> HIDE DEF Folds, IsFold
  <2> QED
    BY <2>4, <2>5
<1>2. ASSUME NEW k \in 0..n - 1, k \in good PROVE k + 1 \in good
  <2>1. PICK g \in [SUBSET (1..k) -> V] : Folds(k, g)
    BY <1>2
  <2> DEFINE h == [s \in SUBSET (1..k + 1) |->
                     IF k + 1 \in s THEN F[<<k + 1, g[s \ {k + 1}]>>] ELSE g[s]]
  <2>2. ASSUME NEW s \in SUBSET (1..k + 1)
        PROVE  /\ k + 1 \in s => s \ {k + 1} \in SUBSET (1..k) /\ Max(s) = k + 1
               /\ k + 1 \notin s => s \in SUBSET (1..k)
    <3>1. k + 1 \in Nat /\ \A m \in 1..k + 1 : m # k + 1 => m \in 1..k
      OBVIOUS
    <3>2. ASSUME k + 1 \in s PROVE Max(s) = k + 1
      <4>1. Max(s) \in s /\ k + 1 <= Max(s)
        BY <3>1, <3>2, MaxOfNumbers
      <4>2. Max(s) \in 1..k + 1
        BY <4>1
      <4> QED
        BY <4>1, <4>2
    <3>3. s \ {k + 1} \in SUBSET (1..k)
      BY <3>1
    <3>4. k + 1 \notin s => s \in SUBSET (1..k)
      BY <3>1
    <3> QED
      BY <3>2, <3>3, <3>4
  <2>3. ASSUME NEW s \in SUBSET (1..k + 1) PROVE h[s] \in V
    <3>1. CASE k + 1 \in s
      <4>1. g[s \ {k + 1}] \in V /\ k + 1 \in 1..n
        BY <2>2, <3>1
      <4>2. h[s] = F[<<k + 1, g[s \ {k + 1}]>>]
        BY <3>1
      <4> QED
        BY <4>1, <4>2
    <3>2. CASE k + 1 \notin s
      BY <2>2, <3>2
    <3> QED
      BY <3>1, <3>2
  <2>4. h[{}] = base
    BY <2>1
  <2>5. ASSUME NEW s \in SUBSET (1..k + 1), s # {}
        PROVE  h[s] = F[<<Max(s), h[s \ {Max(s)}]>>]
    <3>1. CASE k + 1 \in s
      <4>1. Max(s) = k + 1 /\ s \ {k + 1} \in SUBSET (1..k)
        BY <2>2, <3>1
      <4>2. h[s \ {k + 1}] = g[s \ {k + 1}]
        BY <4>1
      <4> QED
        BY <3>1, <4>1, <4>2
    <3>2. CASE k + 1 \notin s
      <4>1. s \in SUBSET (1..k)
        BY <2>2, <3>2
      <4>2. h[s \ {Max(s)}] = g[s \ {Max(s)}] /\ h[s] = g[s]
        BY <3>2, <4>1
      <4> QED
        BY <2>1, <2>5, <4>1, <4>2
    <3> QED
      BY <3>1, <3>2
  <2>6. h \in [SUBSET (1..k + 1) -> V]
    BY <2>3
  <2> HIDE DEF h
  <2>7. Folds(k + 1, h)
    BY <2>4, <2>5
  <2>8. \E f \in [SUBSET (1..k + 1) -> V] : Folds(k + 1, f)
    BY <2>6, <2>7
  <2>9. k + 1 \in 0..n
    OBVIOUS
  <2> HIDE DEF Folds, IsFold
  <2> QED
    BY <2>8, <2>9
<1> HIDE DEF good, IsFold
<1>3. 0..n \subseteq good
  BY <1>1, <1>2, PrefixInduction
<1>4. n \in good
  BY <1>3
<1>5. PICK g \in [SUBSET (1..n) -> V] : Folds(n, g)
  BY <1>4 DEF good
<1> QED
  BY <1>5

(* The prefixes of a sequence of length n, as FoldLeft goes over them.     *)
LEMMA PrefixSteps ==
  ASSUME NEW n \in Nat, NEW k \in 0..n - 1
  PROVE  /\ 1..k + 1 \in SUBSET (1..n) /\ 1..k + 1 # {}
         /\ Max(1..k + 1) = k + 1 /\ (1..k + 1) \ {k + 1} = 1..k
<1>1. k + 1 \in Nat /\ k + 1 \in 1..k + 1 /\ k + 1 <= n
  OBVIOUS
<1>2. 1..k + 1 \in SUBSET (1..k + 1) /\ 1..k + 1 # {}
  BY <1>1
<1>3. Max(1..k + 1) \in 1..k + 1 /\ \A m \in 1..k + 1 : m <= Max(1..k + 1)
  BY <1>1, <1>2, MaxOfNumbers
<1>4. Max(1..k + 1) = k + 1
  BY <1>1, <1>3
<1>5. 1..k + 1 \in SUBSET (1..n)
  BY <1>1
<1>6. (1..k + 1) \ {k + 1} = 1..k
  <2>1. \A m : m \in (1..k + 1) \ {k + 1} <=> m \in 1..k
    OBVIOUS
  <2> QED
    BY <2>1
<1> QED
  BY <1>2, <1>4, <1>5, <1>6
(* The volumes of a pod, sidecar by sidecar.                               *)
LEMMA VolumesFold ==
  ASSUME NEW vols, NEW n \in Nat, NEW seq, DOMAIN seq = 1..n
  PROVE  \E h : /\ h[0] = vols
                /\ \A k \in 0..n - 1 : h[k + 1] = AddVolumes(h[k], seq[k + 1])
                /\ AllVolumes(vols, seq) = h[n]
<1> DEFINE V == SUBSET (vols \cup UNION {seq[i].volumes : i \in 1..n})
           F == [x \in (1..n) \X V |-> AddVolumes(x[2], seq[x[1]])]
<1>1. vols \in V
  OBVIOUS
<1>2. F \in [(1..n) \X V -> V]
  <2>1. ASSUME NEW i \in 1..n, NEW v \in V PROVE AddVolumes(v, seq[i]) \in V
    BY DEF AddVolumes
  <2> QED
    BY <2>1
<1>3. \A i \in 1..n, v \in V : F[<<i, v>>] = AddVolumes(v, seq[i])
  OBVIOUS
<1> HIDE DEF F, V
<1>4. PICK g \in [SUBSET (1..n) -> V] : IsFold(n, vols, F, g)
  BY <1>1, <1>2, FoldRecursion
<1>5. ASSUME NEW s \in SUBSET (1..n), s # {}
      PROVE  g[s] = AddVolumes(g[s \ {Max(s)}], seq[Max(s)])
  <2>1. Max(s) \in 1..n /\ s \ {Max(s)} \in SUBSET (1..n)
    BY <1>5, MaxOfNumbers
  <2> QED
    BY <1>3, <1>4, <1>5, <2>1 DEF IsFold
<1>6. g = [s \in SUBSET DOMAIN seq |->
             IF s = {} THEN vols ELSE AddVolumes(g[s \ {Max(s)}], seq[Max(s)])]
  BY <1>4, <1>5 DEF IsFold
<1>7. PICK it : /\ it = [s \in SUBSET DOMAIN seq |->
                           IF s = {} THEN vols
                           ELSE AddVolumes(it[s \ {Max(s)}], seq[Max(s)])]
                /\ AllVolumes(vols, seq) = it[DOMAIN seq]
  BY <1>6 DEF AllVolumes, FoldLeft, MapThenFoldSet
<1>8. it[{}] = vols
  BY <1>7
<1>9. ASSUME NEW k \in 0..n - 1
      PROVE  it[1..k + 1] = AddVolumes(it[1..k], seq[k + 1])
  <2>1. /\ 1..k + 1 \in SUBSET (1..n) /\ 1..k + 1 # {}
        /\ Max(1..k + 1) = k + 1 /\ (1..k + 1) \ {k + 1} = 1..k
    BY PrefixSteps
  <2> QED
    BY <1>7, <2>1
<1> DEFINE h == [k \in 0..n |-> it[1..k]]
<1>10. h[0] = vols
  <2>1. 1..0 = {} /\ 0 \in 0..n
    OBVIOUS
  <2> QED
    BY <1>8, <2>1
<1>11. ASSUME NEW k \in 0..n - 1 PROVE h[k + 1] = AddVolumes(h[k], seq[k + 1])
  <2>1. k \in 0..n /\ k + 1 \in 0..n
    OBVIOUS
  <2>2. h[k] = it[1..k] /\ h[k + 1] = it[1..k + 1]
    BY <2>1
  <2> HIDE DEF h
  <2> QED
    BY <1>9, <2>2
<1>12. h[n] = it[DOMAIN seq]
  OBVIOUS
<1> HIDE DEF h
<1> QED
  BY <1>7, <1>10, <1>11, <1>12

Joins(first, seq, n, h) ==
  /\ h[0] = first /\ AllContainers(first, seq) = h[n]
  /\ \A k \in 0..n - 1 : h[k + 1] = h[k] \o seq[k + 1].containers

(* The containers of a pod, sidecar by sidecar.                            *)
LEMMA ContainersFold ==
  ASSUME NEW C, NEW first \in Seq(C), NEW n \in Nat, NEW seq, DOMAIN seq = 1..n,
         \A i \in 1..n : seq[i].containers \in Seq(C)
  PROVE  \E h : Joins(first, seq, n, h)
<1> DEFINE V == Seq(C)
           F == [x \in (1..n) \X V |-> x[2] \o seq[x[1]].containers]
<1>1. first \in V
  OBVIOUS
<1>2. F \in [(1..n) \X V -> V]
  <2>1. ASSUME NEW i \in 1..n, NEW v \in V PROVE v \o seq[i].containers \in V
    OBVIOUS
  <2> QED
    BY <2>1
<1>3. \A i \in 1..n, v \in V : F[<<i, v>>] = v \o seq[i].containers
  OBVIOUS
<1> HIDE DEF F, V
<1>4. PICK g \in [SUBSET (1..n) -> V] : IsFold(n, first, F, g)
  BY <1>1, <1>2, FoldRecursion
<1>5. ASSUME NEW s \in SUBSET (1..n), s # {}
      PROVE  g[s] = g[s \ {Max(s)}] \o seq[Max(s)].containers
  <2>1. Max(s) \in 1..n /\ s \ {Max(s)} \in SUBSET (1..n)
    BY <1>5, MaxOfNumbers
  <2> QED
    BY <1>3, <1>4, <1>5, <2>1 DEF IsFold
<1>6. g = [s \in SUBSET DOMAIN seq |->
             IF s = {} THEN first ELSE g[s \ {Max(s)}] \o seq[Max(s)].containers]
  BY <1>4, <1>5 DEF IsFold
<1>7. PICK it : /\ it = [s \in SUBSET DOMAIN seq |->
                           IF s = {} THEN first
                           ELSE it[s \ {Max(s)}] \o seq[Max(s)].containers]
                /\ AllContainers(first, seq) = it[DOMAIN seq]
  BY <1>6 DEF AllContainers, FoldLeft, MapThenFoldSet
<1>8. it[{}] = first
  BY <1>7
<1>9. ASSUME NEW k \in 0..n - 1
      PROVE  it[1..k + 1] = it[1..k] \o seq[k + 1].containers
  <2>1. /\ 1..k + 1 \in SUBSET (1..n) /\ 1..k + 1 # {}
        /\ Max(1..k + 1) = k + 1 /\ (1..k + 1) \ {k + 1} = 1..k
    BY PrefixSteps
  <2> QED
    BY <1>7, <2>1
<1> DEFINE h == [k \in 0..n |-> it[1..k]]
<1>10. h[0] = first
  <2>1. 1..0 = {} /\ 0 \in 0..n
    OBVIOUS
  <2> QED
    BY <1>8, <2>1
<1>11. ASSUME NEW k \in 0..n - 1 PROVE h[k + 1] = h[k] \o seq[k + 1].containers
  <2>1. k \in 0..n /\ k + 1 \in 0..n
    OBVIOUS
  <2>2. h[k] = it[1..k] /\ h[k + 1] = it[1..k + 1]
    BY <2>1
  <2> HIDE DEF h
  <2> QED
    BY <1>9, <2>2
<1>12. h[n] = it[DOMAIN seq]
  OBVIOUS
<1> HIDE DEF h
<1> QED
  BY <1>7, <1>10, <1>11, <1>12 DEF Joins
(***************************************************************************)
(* The pods that generatePod makes.                                        *)
(***************************************************************************)
UniqueNames(volumes) == \A v, w \in volumes : v.name = w.name => v = w

(* The volumes of a pod, and those its sidecars bring.                     *)
LEMMA VolumesOfFold ==
  ASSUME NEW vols, UniqueNames(vols), NEW n \in Nat, NEW seq, DOMAIN seq = 1..n,
         \A i \in 1..n : UniqueNames(seq[i].volumes),
         NEW all, all = AllVolumes(vols, seq)
  PROVE  /\ UniqueNames(all) /\ Names(vols) \subseteq Names(all)
         /\ \A i \in 1..n : Names(seq[i].volumes) \subseteq Names(all)
<1>1. PICK h : /\ h[0] = vols
               /\ \A k \in 0..n - 1 : h[k + 1] = AddVolumes(h[k], seq[k + 1])
               /\ AllVolumes(vols, seq) = h[n]
  BY VolumesFold
<1> DEFINE Good(k) == /\ UniqueNames(h[k]) /\ Names(vols) \subseteq Names(h[k])
                      /\ \A i \in 1..k : Names(seq[i].volumes) \subseteq Names(h[k])
           good == {k \in 0..n : Good(k)}
<1>2. 0 \in good
  <2>1. Good(0)
    BY <1>1
  <2> QED
    BY <2>1
<1>3. ASSUME NEW k \in 0..n - 1, k \in good PROVE k + 1 \in good
  <2>1. k + 1 \in 1..n /\ \A i \in 1..k + 1 : i = k + 1 \/ i \in 1..k
    OBVIOUS
  <2> DEFINE u == h[k]
             new == seq[k + 1].volumes
             w == h[k + 1]
  <2>2. w = AddVolumes(u, seq[k + 1])
    BY <1>1
  <2>3. Good(k) /\ UniqueNames(new)
    BY <1>3, <2>1
  <2>4. Names(u) \subseteq Names(w) /\ Names(new) \subseteq Names(w)
    BY <2>2 DEF AddVolumes, Names
  <2>5. UniqueNames(w)
    BY <2>2, <2>3 DEF AddVolumes, Names, UniqueNames
  <2>6. Good(k + 1)
    BY <2>1, <2>3, <2>4, <2>5
  <2> HIDE DEF Good
  <2> QED
    BY <2>1, <2>6
<1> HIDE DEF good
<1>4. 0..n \subseteq good
  BY <1>2, <1>3, PrefixInduction
<1>5. n \in good
  BY <1>4
<1>6. Good(n)
  BY <1>5 DEF good
<1> QED
  BY <1>1, <1>6

(* Sidecars of one container each stand in their order after the first.    *)
LEMMA ContainersOfFold ==
  ASSUME NEW C, NEW c \in C, NEW n \in Nat, NEW seq, DOMAIN seq = 1..n,
         NEW one \in [1..n -> C], \A i \in 1..n : seq[i].containers = <<one[i]>>,
         NEW all, all = AllContainers(<<c>>, seq)
  PROVE  /\ all \in Seq(C) /\ Len(all) = n + 1 /\ all[1] = c
         /\ \A i \in 1..n : all[i + 1] = one[i]
<1>1. PICK h : Joins(<<c>>, seq, n, h)
  <2>1. \A x \in C : <<x>> \in Seq(C)
    OBVIOUS
  <2> DEFINE own == <<c>>
  <2>2. own \in Seq(C) /\ \A i \in 1..n : seq[i].containers \in Seq(C)
    BY <2>1
  <2> HIDE DEF own
  <2>3. \E h : Joins(own, seq, n, h)
    BY <2>2, ContainersFold
  <2> QED
    BY <2>3 DEF own
<1>0. /\ h[0] = <<c>> /\ AllContainers(<<c>>, seq) = h[n]
      /\ \A k \in 0..n - 1 : h[k + 1] = h[k] \o seq[k + 1].containers
  BY <1>1 DEF Joins
<1> DEFINE Good(k) == /\ h[k] \in Seq(C) /\ Len(h[k]) = k + 1 /\ h[k][1] = c
                      /\ \A i \in 1..k : h[k][i + 1] = one[i]
           good == {k \in 0..n : Good(k)}
<1>2. 0 \in good
  <2>1. Good(0)
    <3>1. <<c>> \in Seq(C) /\ Len(<<c>>) = 1 /\ <<c>>[1] = c
      OBVIOUS
    <3> QED
      BY <1>0, <3>1
  <2> QED
    BY <2>1
<1>3. ASSUME NEW k \in 0..n - 1, k \in good PROVE k + 1 \in good
  <2>1. k + 1 \in 1..n /\ \A i \in 1..k + 1 : i = k + 1 \/ i \in 1..k
    OBVIOUS
  <2> DEFINE u == h[k]
             x == one[k + 1]
             w == h[k + 1]
             v == <<x>>
  <2>2. w = u \o v /\ x \in C
    BY <1>0, <2>1
  <2>7. v \in Seq(C) /\ Len(v) = 1 /\ v[1] = x
    BY <2>2
  <2>3. u \in Seq(C) /\ Len(u) = k + 1 /\ u[1] = c /\ \A i \in 1..k : u[i + 1] = one[i]
    BY <1>3
  <2> HIDE DEF u, v, w, x
  <2>8. /\ u \o v \in Seq(C) /\ Len(u \o v) = Len(u) + Len(v)
        /\ \A i \in 1..Len(u) + Len(v) :
             (u \o v)[i] = IF i <= Len(u) THEN u[i] ELSE v[i - Len(u)]
    BY <2>3, <2>7, ConcatProperties
  <2>4. w \in Seq(C) /\ Len(w) = k + 2 /\ w[1] = c /\ w[k + 2] = x
    BY <2>2, <2>3, <2>7, <2>8
  <2>5. ASSUME NEW i \in 1..k PROVE w[i + 1] = one[i]
    <3>1. i + 1 \in 1..Len(u)
      BY <2>3
    <3>2. w[i + 1] = u[i + 1]
      BY <2>2, <2>3, <2>7, <2>8, <3>1
    <3> QED
      BY <2>3, <3>2
  <2>6. Good(k + 1)
    BY <2>1, <2>4, <2>5 DEF w, x
  <2> HIDE DEF Good
  <2> QED
    BY <2>1, <2>6
<1> HIDE DEF good
<1>4. 0..n \subseteq good
  BY <1>2, <1>3, PrefixInduction
<1>5. n \in good
  BY <1>4
<1>6. Good(n)
  BY <1>5 DEF good
<1> QED
  BY <1>0, <1>6

(* The volumes of a pod before its sidecars join.                          *)
OwnVolumes(opts) == SystemVolumes(opts) \cup opts.volumes

(* The volumes of the task's own container.                                *)
LEMMA OwnVolumesAreUnique ==
  ASSUME NEW opts, ValidateVolume(opts), UniqueNames(opts.volumes)
  PROVE  /\ UniqueNames(OwnVolumes(opts))
         /\ Names(OwnVolumes(opts)) = Container(opts).mounts
<1>1. Names(SystemVolumes(opts)) \subseteq Reserved /\ UniqueNames(SystemVolumes(opts))
  BY DEF SystemVolumes, Names, Reserved, UniqueNames
<1>2. Names(opts.volumes) \cap Reserved = {} /\ Names(opts.volumes) = opts.mounts
  BY DEF ValidateVolume
<1>3. Container(opts).mounts = Names(SystemVolumes(opts)) \cup opts.mounts
  BY DEF Container
<1> QED
  BY <1>1, <1>2, <1>3 DEF OwnVolumes, Names, UniqueNames

(* The label the controller lists by is its own, whatever the user sets.   *)
LEMMA GenerationLabel ==
  ASSUME NEW opts PROVE AllLabels(opts)["generation"] = opts.gen
<1> DEFINE own == ResourceLabels(opts.task, opts.gen)
<1>1. "generation" \in DOMAIN own /\ own["generation"] = opts.gen
  BY DEF ResourceLabels
<1> HIDE DEF own
<1>2. AllLabels(opts) = [key \in DOMAIN own \cup DOMAIN opts.labels |->
                           IF key \in DOMAIN own THEN own[key] ELSE opts.labels[key]]
  BY DEF AllLabels, own
<1> QED
  BY <1>1, <1>2

(* Sidecars of one container each, and where those stand in the pod.       *)
OneEach(sidecars, n, one) ==
  DOMAIN sidecars = 1..n /\ \A i \in 1..n : sidecars[i].containers = <<one[i]>>

StandInOrder(containers, c, n, one) ==
  /\ DOMAIN containers = 1..n + 1 /\ containers[1] = c
  /\ \A i \in 1..n : containers[i + 1] = one[i]

(* The task, labels and containers of a generated pod.                     *)
LEMMA GeneratedPod ==
  ASSUME NEW opts, NEW n \in Nat, NEW C, Container(opts) \in C,
         NEW one \in [1..n -> C], NEW sidecars, OneEach(sidecars, n, one),
         NEW new, new = GeneratePod(opts, sidecars), new # NoPod
  PROVE  /\ new.task = opts.task /\ new.gen = opts.gen
         /\ new.labels["generation"] = opts.gen
         /\ new.containers \in Seq(C)
         /\ StandInOrder(new.containers, Container(opts), n, one)
<1>1. ValidateVolume(opts)
  BY DEF GeneratePod
<1>2. /\ new.task = opts.task /\ new.gen = opts.gen
      /\ new.labels = AllLabels(opts)
      /\ new.containers = AllContainers(<<Container(opts)>>, sidecars)
  BY <1>1 DEF GeneratePod
<1> DEFINE containers == new.containers
           c == Container(opts)
<1>3. containers = AllContainers(<<c>>, sidecars) /\ c \in C
  BY <1>2
<1> HIDE DEF containers, c
<1>4. /\ containers \in Seq(C) /\ Len(containers) = n + 1 /\ containers[1] = c
      /\ \A i \in 1..n : containers[i + 1] = one[i]
  BY <1>3, ContainersOfFold DEF OneEach
<1>5. DOMAIN containers = 1..n + 1
  BY <1>4, LenProperties
<1>6. StandInOrder(containers, c, n, one)
  BY <1>4, <1>5 DEF StandInOrder
<1> QED
  BY <1>2, <1>4, <1>6, GenerationLabel DEF containers, c

(* Its volumes, when the users give no two volumes one name.               *)
LEMMA GeneratedVolumes ==
  ASSUME NEW opts, UniqueNames(opts.volumes),
         NEW n \in Nat, NEW sidecars, DOMAIN sidecars = 1..n,
         \A i \in 1..n : UniqueNames(sidecars[i].volumes),
         NEW new, new = GeneratePod(opts, sidecars), new # NoPod
  PROVE  /\ UniqueNames(new.volumes)
         /\ Container(opts).mounts \subseteq Names(new.volumes)
         /\ \A i \in 1..n : Names(sidecars[i].volumes) \subseteq Names(new.volumes)
<1>1. ValidateVolume(opts)
  BY DEF GeneratePod
<1>2. new.volumes = AllVolumes(OwnVolumes(opts), sidecars)
  BY <1>1 DEF GeneratePod, OwnVolumes
<1>3. UniqueNames(OwnVolumes(opts)) /\ Names(OwnVolumes(opts)) = Container(opts).mounts
  BY <1>1, OwnVolumesAreUnique
<1> DEFINE volumes == new.volumes
           vols == OwnVolumes(opts)
<1>4. volumes = AllVolumes(vols, sidecars) /\ UniqueNames(vols)
  BY <1>2, <1>3
<1> HIDE DEF volumes, vols
<1>5. /\ UniqueNames(volumes) /\ Names(vols) \subseteq Names(volumes)
      /\ \A i \in 1..n : Names(sidecars[i].volumes) \subseteq Names(volumes)
  BY <1>4, VolumesOfFold
<1> QED
  BY <1>3, <1>5 DEF volumes, vols

(* A sidecar has the one container of its plugin.                          *)
SidecarContainer(s, p, gen) == Container(PluginOptions(s, p, gen))

(* A plugin's options but for the image are those of a task.               *)
LEMMA PluginOptionsFacts ==
  ASSUME NEW s, NEW p, NEW gen, NEW opts, opts = PluginOptions(s, p, gen)
  PROVE  /\ opts.volumes = UserVolumes(s, p) /\ opts.task = p
         /\ opts.file = NewTaskOptions(s, p, gen).file
  BY DEF PluginOptions, NewTaskOptions

(* A sidecar has the one container of its plugin.                          *)
LEMMA SidecarPod ==
  ASSUME NEW s, NEW p, NEW gen,
         NEW new, new = GetPluginSidecarPod(s, p, gen), new # NoPod,
         NEW c, c = SidecarContainer(s, p, gen)
  PROVE  /\ new.containers = <<c>>
         /\ c.name = ContainerName(p)
         /\ c.file = NewTaskOptions(s, p, gen).file
         /\ ContainerNames(new) = {ContainerName(p)}
<1> DEFINE opts == PluginOptions(s, p, gen)
<1>1. /\ opts.task = p /\ opts.file = NewTaskOptions(s, p, gen).file
      /\ c = Container(opts)
  BY PluginOptionsFacts DEF SidecarContainer
<1>2. c.name = ContainerName(p) /\ c.file = NewTaskOptions(s, p, gen).file
  BY <1>1 DEF Container
<1>3. new = GeneratePod(opts, <<>>)
  BY DEF GetPluginSidecarPod
<1> HIDE DEF opts
<1>0. PICK n \in Nat : n = 0
  OBVIOUS
<1> DEFINE C == {c}
           one == [i \in 1..n |-> c]
           none == <<>>
<1>4. one \in [1..n -> C] /\ OneEach(none, n, one)
  BY <1>0 DEF OneEach
<1>5. Container(opts) \in C /\ new = GeneratePod(opts, none)
  BY <1>1, <1>3
<1> HIDE DEF C, one, none
<1>6. new.containers \in Seq(C) /\ StandInOrder(new.containers, Container(opts), n, one)
  BY <1>4, <1>5, GeneratedPod
<1>7. new.containers = <<c>>
  BY <1>0, <1>1, <1>6, LenProperties DEF C, StandInOrder
<1>8. ContainerNames(new) = {c.name}
  BY <1>7 DEF ContainerNames
<1> QED
  BY <1>2, <1>7, <1>8

(* The mounts of a sidecar's container have volumes.                       *)
LEMMA SidecarVolumes ==
  ASSUME NEW s, NEW p, NEW gen, UniqueNames(UserVolumes(s, p)),
         NEW new, new = GetPluginSidecarPod(s, p, gen), new # NoPod,
         NEW c, c = SidecarContainer(s, p, gen)
  PROVE  c.mounts \subseteq Names(new.volumes) /\ UniqueNames(new.volumes)
<1> DEFINE opts == PluginOptions(s, p, gen)
<1>1. opts.volumes = UserVolumes(s, p) /\ c = Container(opts)
  BY PluginOptionsFacts DEF SidecarContainer
<1>2. new = GeneratePod(opts, <<>>)
  BY DEF GetPluginSidecarPod
<1> HIDE DEF opts
<1>3. PICK n \in Nat : n = 0
  OBVIOUS
<1> DEFINE none == <<>>
<1>4. DOMAIN none = 1..n /\ \A i \in 1..n : UniqueNames(none[i].volumes)
  BY <1>3
<1>5. UniqueNames(opts.volumes) /\ new = GeneratePod(opts, none)
  BY <1>1, <1>2
<1> HIDE DEF none
<1>6. UniqueNames(new.volumes) /\ Container(opts).mounts \subseteq Names(new.volumes)
  BY <1>4, <1>5, GeneratedVolumes
<1> QED
  BY <1>1, <1>6

(* The name of a plugin's container is the plugin's.                       *)
LEMMA ContainerNameFacts ==
  /\ \A p \in PluginNames \cup {Approver} : ContainerName(p) = p /\ p # MainContainer
  /\ \A t \in TaskName : ContainerName(t) = MainContainer
<1>1. Approver \notin TaskName /\ Approver # RunNil /\ Approver # MainContainer
  BY DEF Approver, MainContainer, RunNil, TaskName, CreateTasks, DeleteTasks,
         TasksInOrder, DeleteTasksInOrder
<1>2. ASSUME NEW p \in PluginNames \cup {Approver}
      PROVE  ContainerName(p) = p /\ p # MainContainer
  BY <1>1, PluginNamesAssumption DEF ContainerName, ID
<1>3. ASSUME NEW t \in TaskName PROVE ContainerName(t) = MainContainer
  BY TaskIDs DEF ContainerName
<1> QED
  BY <1>2, <1>3

(***************************************************************************)
(* The loop over the plugins, in any order.                                *)
(***************************************************************************)
(* The sidecars that can be generated for the plugins of a set.            *)
Sidecars(s, P) ==
  {new \in {GetPluginSidecarPod(s, p, resource.gen) : p \in P \cup {Approver}} : new # NoPod}

Found(s, P) == [sidecars: Seq(Sidecars(s, P)), due: Seq(P), failed: BOOLEAN]

(* No two sidecars share the name of a container.                          *)
NamesApart(sidecars) ==
  \A i, j \in DOMAIN sidecars :
    i # j => ContainerNames(sidecars[i]) \cap ContainerNames(sidecars[j]) = {}

AllDue(s, task, due) == \A i \in DOMAIN due : IsDue(s, due[i], task)

In(x, seq) == \E i \in DOMAIN seq : seq[i] = x

Keeps(old, new) == \A y : In(y, old) => In(y, new)

Grown(old, x, new) ==
  /\ \A i \in DOMAIN new : \/ i \in DOMAIN old /\ new[i] = old[i]
                           \/ i \notin DOMAIN old /\ new[i] = x
  /\ \A i, j \in DOMAIN new : i # j => i \in DOMAIN old \/ j \in DOMAIN old

(* Nothing is lost of a sequence that stays.                               *)
LEMMA KeepsItself == ASSUME NEW seq PROVE Keeps(seq, seq)
  BY DEF Keeps

(* What an append keeps and adds.                                          *)
LEMMA AppendIn ==
  ASSUME NEW S, NEW seq \in Seq(S), NEW x \in S, NEW new, new = Append(seq, x)
  PROVE  /\ new \in Seq(S) /\ In(x, new)
         /\ Keeps(seq, new) /\ Grown(seq, x, new)
<1>1. /\ new \in Seq(S) /\ Len(new) = Len(seq) + 1 /\ Len(seq) \in Nat
      /\ DOMAIN new = 1..Len(new) /\ DOMAIN seq = 1..Len(seq)
      /\ \A i \in 1..Len(seq) : new[i] = seq[i]
      /\ new[Len(seq) + 1] = x
  BY AppendProperties, LenProperties
<1>2. In(x, new)
  BY <1>1 DEF In
<1>3. ASSUME NEW y, In(y, seq) PROVE In(y, new)
  BY <1>1, <1>3 DEF In
<1>8. Keeps(seq, new)
  BY <1>3 DEF Keeps
<1>4. ASSUME NEW i \in DOMAIN new PROVE i \in DOMAIN seq \/ i = Len(seq) + 1
  BY <1>1
<1>5. Len(seq) + 1 \notin DOMAIN seq
  BY <1>1
<1>6. \A i \in DOMAIN new : \/ i \in DOMAIN seq /\ new[i] = seq[i]
                            \/ i \notin DOMAIN seq /\ new[i] = x
  BY <1>1, <1>4, <1>5
<1>7. \A i, j \in DOMAIN new : i # j => i \in DOMAIN seq \/ j \in DOMAIN seq
  BY <1>4
<1>9. Grown(seq, x, new)
  BY <1>6, <1>7 DEF Grown
<1> QED
  BY <1>1, <1>2, <1>8, <1>9

(* A sidecar joins unless its container's name is taken.                   *)
LEMMA AddedSidecar ==
  ASSUME NEW S, NEW sidecars \in Seq(S), NEW new \in S, NamesApart(sidecars),
         NEW all, all = AddSidecar(sidecars, new)
  PROVE  /\ all \in Seq(S) /\ NamesApart(all)
         /\ NamesOf(sidecars) \subseteq NamesOf(all)
         /\ all = sidecars => ContainerNames(new) \cap NamesOf(sidecars) # {}
         /\ all # sidecars => ContainerNames(new) \subseteq NamesOf(all)
<1>1. CASE ContainerNames(new) \cap NamesOf(sidecars) # {}
  BY <1>1 DEF AddSidecar
<1>2. CASE ContainerNames(new) \cap NamesOf(sidecars) = {}
  <2>1. all = Append(sidecars, new)
    BY <1>2 DEF AddSidecar
  <2>2. /\ all \in Seq(S) /\ In(new, all)
        /\ Keeps(sidecars, all) /\ Grown(sidecars, new, all)
    BY <2>1, AppendIn
  <2>3. \A i \in DOMAIN sidecars : ContainerNames(sidecars[i]) \cap ContainerNames(new) = {}
    BY <1>2 DEF NamesOf
  <2>4. NamesApart(all)
    <3> SUFFICES ASSUME NEW i \in DOMAIN all, NEW j \in DOMAIN all, i # j
                 PROVE  ContainerNames(all[i]) \cap ContainerNames(all[j]) = {}
      BY DEF NamesApart
    <3>1. /\ i \in DOMAIN sidecars => all[i] = sidecars[i]
          /\ i \notin DOMAIN sidecars => all[i] = new
          /\ j \in DOMAIN sidecars => all[j] = sidecars[j]
          /\ j \notin DOMAIN sidecars => all[j] = new
          /\ i \in DOMAIN sidecars \/ j \in DOMAIN sidecars
      BY <2>2 DEF Grown
    <3> QED
      BY <2>3, <3>1 DEF NamesApart
  <2>5. NamesOf(sidecars) \subseteq NamesOf(all)
    <3> SUFFICES ASSUME NEW i \in DOMAIN sidecars
                 PROVE  ContainerNames(sidecars[i]) \subseteq NamesOf(all)
      BY DEF NamesOf
    <3>1. In(sidecars[i], sidecars)
      BY DEF In
    <3>2. PICK j \in DOMAIN all : all[j] = sidecars[i]
      BY <2>2, <3>1 DEF Keeps, In
    <3> QED
      BY <3>2 DEF NamesOf
  <2>6. ContainerNames(new) \subseteq NamesOf(all)
    BY <2>2 DEF NamesOf, In, Keeps
  <2>7. all # sidecars
    <3>1. Len(all) = Len(sidecars) + 1 /\ Len(sidecars) \in Nat
      BY <2>1, AppendProperties, LenProperties
    <3> QED
      BY <3>1
  <2> QED
    BY <2>2, <2>4, <2>5, <2>6, <2>7
<1> QED
  BY <1>1, <1>2

(* A plugin that is due joins those deferred.                              *)
LEMMA AddedDue ==
  ASSUME NEW s, NEW P, NEW p \in P, NEW task, NEW due \in Seq(P), IsDue(s, p, task),
         NEW new, new = Append(due, p)
  PROVE  /\ new \in Seq(P) /\ In(p, new)
         /\ AllDue(s, task, due) => AllDue(s, task, new)
         /\ Keeps(due, new)
<1>1. /\ new \in Seq(P) /\ In(p, new)
      /\ Keeps(due, new) /\ Grown(due, p, new)
  BY AppendIn
<1> QED
  BY <1>1 DEF AllDue, Grown

(* One turn of the loop over the plugins.                                  *)
LEMMA AddedPlugin ==
  ASSUME NEW s \in Specs, NEW P \in SUBSET (DOMAIN s.plugins), NEW p \in P, NEW task,
         NEW a \in Found(s, P), NEW b, b = AddPlugin(s, task, a, p)
  PROVE  /\ b \in Found(s, P)
         /\ NamesApart(a.sidecars) => NamesApart(b.sidecars)
         /\ AllDue(s, task, a.due) => AllDue(s, task, b.due)
         /\ Keeps(a.due, b.due)
         /\ a.failed => b.failed
         /\ ~b.failed /\ IsDue(s, p, task) => In(p, b.due)
<1> DEFINE new == GetPluginSidecarPod(s, p, resource.gen)
           SP == Sidecars(s, P)
<1>0. /\ a.sidecars \in Seq(SP) /\ a.due \in Seq(P) /\ a.failed \in BOOLEAN
      /\ s.plugins[p].must \in BOOLEAN
  BY SpecsAssumption DEF Found, Plugin
<1>1. CASE a.failed
  BY <1>1, KeepsItself DEF AddPlugin
<1>2. CASE ~a.failed /\ IsDue(s, p, task)
  <2>1. b = [a EXCEPT !.due = Append(@, p)]
    BY <1>2 DEF AddPlugin
  <2> DEFINE due == Append(a.due, p)
  <2>2. b.sidecars = a.sidecars /\ b.due = due /\ b.failed = a.failed
    BY <2>1 DEF Found
  <2>6. due = Append(a.due, p)
    OBVIOUS
  <2> HIDE DEF due
  <2>3. /\ due \in Seq(P) /\ In(p, due)
        /\ AllDue(s, task, a.due) => AllDue(s, task, due)
        /\ Keeps(a.due, due)
    BY <1>0, <1>2, <2>6, AddedDue
  <2>4. b \in Found(s, P)
    BY <1>0, <2>1, <2>2, <2>3 DEF Found
  <2>5. AllDue(s, task, a.due) => AllDue(s, task, b.due)
    BY <2>2, <2>3
  <2> QED
    BY <2>2, <2>3, <2>4, <2>5
<1>3. CASE ~a.failed /\ ~IsDue(s, p, task) /\ ~IsSidecar(s, p, task)
  BY <1>3, KeepsItself DEF AddPlugin
<1>4. CASE ~a.failed /\ ~IsDue(s, p, task) /\ IsSidecar(s, p, task) /\ new # NoPod
  <2>1. b = [a EXCEPT !.sidecars = AddSidecar(@, new)]
    BY <1>4 DEF AddPlugin
  <2> DEFINE all == AddSidecar(a.sidecars, new)
  <2>2. b.sidecars = all /\ b.due = a.due /\ b.failed = a.failed
    BY <2>1 DEF Found
  <2>3. new \in SP
    BY <1>4 DEF Sidecars
  <2> HIDE DEF all, new
  <2>4. all \in Seq(SP)
    BY <1>0, <2>3, AppendProperties DEF all, AddSidecar
  <2>5. NamesApart(a.sidecars) => NamesApart(all)
    BY <1>0, <2>3, AddedSidecar DEF all
  <2>6. b \in Found(s, P)
    BY <1>0, <2>1, <2>2, <2>4 DEF Found
  <2> QED
    BY <1>4, <2>2, <2>5, <2>6, KeepsItself
<1>5. CASE ~a.failed /\ ~IsDue(s, p, task) /\ IsSidecar(s, p, task) /\ new = NoPod
  <2>1. b = [a EXCEPT !.failed = s.plugins[p].must]
    BY <1>5 DEF AddPlugin
  <2>2. b.sidecars = a.sidecars /\ b.due = a.due
    BY <2>1 DEF Found
  <2>3. b \in Found(s, P)
    BY <1>0, <2>1 DEF Found
  <2> QED
    BY <1>5, <2>2, <2>3, KeepsItself
<1> QED
  BY <1>0, <1>1, <1>2, <1>3, <1>4, <1>5

(* Every order of a finite set has each element once.                      *)
LEMMA OrdersOfSet ==
  ASSUME NEW S, IsFiniteSet(S), NEW order \in SetToSeqs(S)
  PROVE  /\ \E n \in Nat : order \in [1..n -> S]
         /\ \A x \in S : In(x, order)
<1> DEFINE n == Cardinality(S)
<1>1. n \in Nat /\ order \in [1..n -> S] /\ \A i, j \in 1..n : i # j => order[i] # order[j]
  BY FS_CardinalityType DEF SetToSeqs
<1>2. order \in Injection(1..n, S)
  BY <1>1 DEF Injection, IsInjective
<1>3. Cardinality(1..n) = n
  BY <1>1, FS_Interval
<1>4. order \in Surjection(1..n, S)
  BY <1>2, <1>3, FS_Injection
<1>5. \A x \in S : \E i \in 1..n : order[i] = x
  BY <1>4 DEF Surjection
<1> QED
  BY <1>1, <1>5 DEF In

(* The loop over the plugins, one plugin at a time.                        *)
Steps(s, task, n, order, h) ==
  /\ h[0] = NoPlugins /\ AddPlugins(s, task, order) = h[n]
  /\ \A k \in 0..n - 1 : h[k + 1] = AddPlugin(s, task, h[k], order[k + 1])

(* The loop starts with nothing.                                           *)
LEMMA NoPluginsFound ==
  ASSUME NEW s, NEW P PROVE NoPlugins \in Found(s, P)
  BY DEF NoPlugins, Found

(* The loop, plugin by plugin.                                             *)
LEMMA PluginsFold ==
  ASSUME NEW s \in Specs, NEW P \in SUBSET (DOMAIN s.plugins), NEW task,
         NEW n \in Nat, NEW order \in [1..n -> P]
  PROVE  \E h : Steps(s, task, n, order, h)
<1> DEFINE V == Found(s, P)
           F == [x \in (1..n) \X V |-> AddPlugin(s, task, x[2], order[x[1]])]
<1>1. NoPlugins \in V
  BY NoPluginsFound
<1>2. F \in [(1..n) \X V -> V]
  <2>1. ASSUME NEW i \in 1..n, NEW a \in V PROVE AddPlugin(s, task, a, order[i]) \in V
    <3>1. order[i] \in P
      OBVIOUS
    <3> QED
      BY <3>1, AddedPlugin
  <2> QED
    BY <2>1
<1>3. \A i \in 1..n, a \in V : F[<<i, a>>] = AddPlugin(s, task, a, order[i])
  OBVIOUS
<1> HIDE DEF F, V
<1>4. PICK g \in [SUBSET (1..n) -> V] : IsFold(n, NoPlugins, F, g)
  BY <1>1, <1>2, FoldRecursion
<1>5. ASSUME NEW t \in SUBSET (1..n), t # {}
      PROVE  g[t] = AddPlugin(s, task, g[t \ {Max(t)}], order[Max(t)])
  <2>1. Max(t) \in 1..n /\ t \ {Max(t)} \in SUBSET (1..n)
    BY <1>5, MaxOfNumbers
  <2> QED
    BY <1>3, <1>4, <1>5, <2>1 DEF IsFold
<1>6. g = [t \in SUBSET DOMAIN order |->
             IF t = {} THEN NoPlugins
             ELSE AddPlugin(s, task, g[t \ {Max(t)}], order[Max(t)])]
  BY <1>4, <1>5 DEF IsFold
<1>7. PICK it : /\ it = [t \in SUBSET DOMAIN order |->
                           IF t = {} THEN NoPlugins
                           ELSE AddPlugin(s, task, it[t \ {Max(t)}], order[Max(t)])]
                /\ AddPlugins(s, task, order) = it[DOMAIN order]
  BY <1>6 DEF AddPlugins, FoldLeft, MapThenFoldSet
<1>8. it[{}] = NoPlugins
  BY <1>7
<1>0. DOMAIN order = 1..n
  OBVIOUS
<1>9. ASSUME NEW k \in 0..n - 1
      PROVE  it[1..k + 1] = AddPlugin(s, task, it[1..k], order[k + 1])
  <2>1. /\ 1..k + 1 \in SUBSET (1..n) /\ 1..k + 1 # {}
        /\ Max(1..k + 1) = k + 1 /\ (1..k + 1) \ {k + 1} = 1..k
    BY PrefixSteps
  <2> QED
    BY <1>0, <1>7, <2>1
<1> DEFINE h == [k \in 0..n |-> it[1..k]]
<1>10. h[0] = NoPlugins
  <2>1. 1..0 = {} /\ 0 \in 0..n
    OBVIOUS
  <2> QED
    BY <1>8, <2>1
<1>11. ASSUME NEW k \in 0..n - 1 PROVE h[k + 1] = AddPlugin(s, task, h[k], order[k + 1])
  <2>1. k \in 0..n /\ k + 1 \in 0..n
    OBVIOUS
  <2>2. h[k] = it[1..k] /\ h[k + 1] = it[1..k + 1]
    BY <2>1
  <2> HIDE DEF h
  <2> QED
    BY <1>9, <2>2
<1>12. h[n] = it[DOMAIN order]
  BY <1>0
<1> HIDE DEF h
<1>13. Steps(s, task, n, order, h)
  BY <1>7, <1>10, <1>11, <1>12 DEF Steps
<1> QED
  BY <1>13

(* What the loop has found: sidecars that may stand together, plugins that *)
(* are due, and all of those when it did not fail.                         *)
LEMMA PluginsFound ==
  ASSUME NEW s \in Specs, NEW P \in SUBSET (DOMAIN s.plugins), NEW task,
         NEW n \in Nat, NEW order \in [1..n -> P],
         NEW a, a = AddPlugins(s, task, order)
  PROVE  /\ a \in Found(s, P) /\ NamesApart(a.sidecars) /\ AllDue(s, task, a.due)
         /\ ~a.failed => \A i \in 1..n : IsDue(s, order[i], task) => In(order[i], a.due)
<1>1. PICK h : Steps(s, task, n, order, h)
  BY PluginsFold
<1>2. /\ h[0] = NoPlugins /\ a = h[n]
      /\ \A k \in 0..n - 1 : h[k + 1] = AddPlugin(s, task, h[k], order[k + 1])
  BY <1>1 DEF Steps
<1> DEFINE Sound(b) == b \in Found(s, P) /\ NamesApart(b.sidecars) /\ AllDue(s, task, b.due)
           Covers(b, k) == ~b.failed =>
                             \A i \in 1..k : IsDue(s, order[i], task) => In(order[i], b.due)
           good == {k \in 0..n : Sound(h[k]) /\ Covers(h[k], k)}
<1>3. 0 \in good
  <2>1. NoPlugins.sidecars = <<>> /\ NoPlugins.due = <<>> /\ DOMAIN <<>> = {}
    BY DEF NoPlugins
  <2>2. NamesApart(NoPlugins.sidecars) /\ AllDue(s, task, NoPlugins.due)
    BY <2>1 DEF NamesApart, AllDue
  <2>3. Sound(h[0])
    BY <1>2, <2>2, NoPluginsFound
  <2>4. Covers(h[0], 0) /\ 0 \in 0..n
    OBVIOUS
  <2> HIDE DEF Sound, Covers
  <2> QED
    BY <2>3, <2>4
<1>4. ASSUME NEW k \in 0..n - 1, k \in good PROVE k + 1 \in good
  <2>1. k + 1 \in 1..n /\ \A i \in 1..k + 1 : i = k + 1 \/ i \in 1..k
    OBVIOUS
  <2> DEFINE b == h[k]
             c == h[k + 1]
             p == order[k + 1]
  <2>2. c = AddPlugin(s, task, b, p) /\ p \in P
    BY <1>2, <2>1
  <2>3. Sound(b) /\ Covers(b, k)
    BY <1>4
  <2>7. p = order[k + 1]
    OBVIOUS
  <2> HIDE DEF b, c, p
  <2>4. /\ c \in Found(s, P)
        /\ NamesApart(b.sidecars) => NamesApart(c.sidecars)
        /\ AllDue(s, task, b.due) => AllDue(s, task, c.due)
        /\ Keeps(b.due, c.due)
        /\ b.failed => c.failed
        /\ ~c.failed /\ IsDue(s, p, task) => In(p, c.due)
    BY <2>2, <2>3, AddedPlugin
  <2>5. Sound(c)
    BY <2>3, <2>4
  <2>6. Covers(c, k + 1)
    <3> SUFFICES ASSUME ~c.failed, NEW i \in 1..k + 1, IsDue(s, order[i], task)
                 PROVE  In(order[i], c.due)
      OBVIOUS
    <3>1. CASE i = k + 1
      BY <2>4, <2>7, <3>1
    <3>2. CASE i \in 1..k
      <4>1. In(order[i], b.due)
        BY <2>3, <2>4, <3>2
      <4> QED
        BY <2>4, <4>1 DEF Keeps
    <3> QED
      BY <2>1, <3>1, <3>2
  <2>8. k + 1 \in 0..n
    OBVIOUS
  <2> HIDE DEF Sound, Covers
  <2> QED
    BY <2>5, <2>6, <2>8 DEF c
<1> HIDE DEF good
<1>5. 0..n \subseteq good
  BY <1>3, <1>4, PrefixInduction
<1>6. n \in good
  BY <1>5
<1>7. Sound(h[n]) /\ Covers(h[n], n)
  BY <1>6 DEF good
<1> QED
  BY <1>2, <1>7

(* The spec's own assumptions, one by one.                                 *)
LEMMA SpecFacts ==
  ASSUME NEW s \in Specs
  PROVE  /\ s.taskOptions \in Seq(TaskOption)
         /\ s.plugins \in [DOMAIN s.plugins -> Plugin] /\ DOMAIN s.plugins \subseteq PluginNames
         /\ IsFiniteSet(DOMAIN s.plugins) /\ s.requireApproval \in BOOLEAN
<1>1. IsFiniteSet(DOMAIN s.plugins)
  BY SpecsAssumption, PluginNamesAssumption, FS_Subset
<1> QED
  BY <1>1, SpecsAssumption

(* What the call that runs a stage takes from the plugins.                 *)
LEMMA PluginsResult ==
  ASSUME NEW s \in Specs, NEW P \in SUBSET (DOMAIN s.plugins), NEW task,
         NEW order \in SetToSeqs(P), NEW b, b = Plugins(s, task, order)
  PROVE  /\ b \in Found(s, P) /\ NamesApart(b.sidecars) /\ AllDue(s, task, b.due)
         /\ ~b.failed => \A p \in P : IsDue(s, p, task) => In(p, b.due)
         /\ ~b.failed /\ s.requireApproval /\ task \in {"plan", "plan-delete"}
              => Approver \in NamesOf(b.sidecars)
<1> DEFINE a == AddPlugins(s, task, order)
           new == ApproverPod(s, resource.gen)
           held == s.requireApproval /\ task \in {"plan", "plan-delete"}
<1>1. IsFiniteSet(P)
  BY SpecFacts, FS_Subset
<1>2. PICK n \in Nat : order \in [1..n -> P]
  BY <1>1, OrdersOfSet
<1>3. \A p \in P : \E i \in 1..n : order[i] = p
  BY <1>1, <1>2, OrdersOfSet DEF In
<1>4. /\ a \in Found(s, P) /\ NamesApart(a.sidecars) /\ AllDue(s, task, a.due)
      /\ ~a.failed => \A i \in 1..n : IsDue(s, order[i], task) => In(order[i], a.due)
  BY <1>2, PluginsFound
<1>5. ~a.failed => \A p \in P : IsDue(s, p, task) => In(p, a.due)
  BY <1>3, <1>4
<1>6. b = AddApprover(s, task, a)
  BY DEF Plugins
<1> HIDE DEF a
<1>7. CASE a.failed \/ ~held
  <2>1. b = a
    BY <1>6, <1>7 DEF AddApprover
  <2> QED
    BY <1>4, <1>5, <1>7, <2>1
<1>8. CASE ~a.failed /\ held /\ new = NoPod
  <2>1. b = [a EXCEPT !.failed = TRUE]
    BY <1>6, <1>8 DEF AddApprover
  <2>2. b.sidecars = a.sidecars /\ b.due = a.due /\ b.failed
    BY <1>4, <2>1 DEF Found
  <2>3. b \in Found(s, P)
    BY <1>4, <2>1 DEF Found
  <2> QED
    BY <1>4, <2>2, <2>3
<1>9. CASE ~a.failed /\ held /\ new # NoPod
  <2>1. b = [a EXCEPT !.sidecars = AddSidecar(@, new)]
    BY <1>6, <1>9 DEF AddApprover
  <2> DEFINE all == AddSidecar(a.sidecars, new)
  <2>2. b.sidecars = all /\ b.due = a.due /\ b.failed = a.failed
    BY <1>4, <2>1 DEF Found
  <2>3. new \in Sidecars(s, P) /\ a.sidecars \in Seq(Sidecars(s, P))
    BY <1>4, <1>9 DEF Sidecars, ApproverPod, Found
  <2>4. ContainerNames(new) = {Approver}
    BY <1>9, SidecarPod, ContainerNameFacts DEF ApproverPod
  <2> HIDE DEF all, new
  <2>5. /\ all \in Seq(Sidecars(s, P)) /\ NamesApart(all)
        /\ all = a.sidecars => ContainerNames(new) \cap NamesOf(a.sidecars) # {}
        /\ all # a.sidecars => ContainerNames(new) \subseteq NamesOf(all)
    BY <1>4, <2>3, AddedSidecar DEF all
  <2>6. Approver \in NamesOf(all)
    BY <2>4, <2>5
  <2>7. b \in Found(s, P)
    BY <1>4, <2>1, <2>5 DEF Found, all
  <2> QED
    BY <1>4, <1>5, <2>2, <2>5, <2>6, <2>7
<1> QED
  BY <1>7, <1>8, <1>9

(* The script file of a container is in the ConfigMap made of its spec.    *)
LEMMA FilesAreMade ==
  ASSUME NEW s \in Specs, NEW task \in TaskName \cup PluginNames \cup {Approver}, NEW gen,
         NEW file, file = NewTaskOptions(s, task, gen).file, file # NoFile
  PROVE  file \in DOMAIN ConfigMapData(s)
<1> DEFINE options == OptionsNaming(s, task)
           set == {i \in options : s.taskOptions[i]["inline"] # Unset}
<1>1. DOMAIN ConfigMapData(s) = DefaultFiles \cup {InlineFile(t) : t \in InlineTasks(s)}
  BY DEF ConfigMapData
<1>2. CASE InlineScript(s, task) # Unset
  <2>1. set # {}
    BY <1>2 DEF InlineScript, LastSet
  <2>2. PICK i \in DOMAIN s.taskOptions : task \in s.taskOptions[i].for
                                          /\ s.taskOptions[i].inline # Unset
    BY <2>1 DEF OptionsNaming
  <2>3. s.taskOptions[i] \in ToSet(s.taskOptions)
    BY DEF ToSet
  <2>4. task # "*"
    BY PluginNamesAssumption DEF Approver, TaskName, CreateTasks, DeleteTasks, TasksInOrder,
       DeleteTasksInOrder
  <2>5. task \in InlineTasks(s)
    BY <2>2, <2>3, <2>4 DEF InlineTasks
  <2>6. file = InlineFile(task)
    BY <1>2 DEF NewTaskOptions, ScriptFile
  <2> QED
    BY <1>1, <2>5, <2>6
<1>3. CASE InlineScript(s, task) = Unset
  <2>1. file = DefaultFile(task)
    BY <1>3 DEF NewTaskOptions, ScriptFile
  <2>2. ClassOf(task) # "plugin"
    BY <2>1 DEF DefaultFile
  <2>3. ClassOf(task) \in {"terraform", "setup", "noop"}
    BY <2>2 DEF ClassOf
  <2>4. file = <<"default", ClassOf(task)>>
    BY <2>1, <2>2 DEF DefaultFile
  <2>5. file \in DefaultFiles
    BY <2>3, <2>4 DEF DefaultFiles
  <2> QED
    BY <1>1, <2>5
<1> QED
  BY <1>2, <1>3

(***************************************************************************)
(* The pod of a task with the sidecars the loop has found.                 *)
(***************************************************************************)
FilesMade(s, new) ==
  \A c \in DOMAIN new.containers :
    new.containers[c].file # NoFile => new.containers[c].file \in DOMAIN ConfigMapData(s)

NamesUnique(new) ==
  \A c, d \in DOMAIN new.containers :
    new.containers[c].name = new.containers[d].name => c = d

MountsHaveVolumes(new) ==
  \A c \in DOMAIN new.containers : \A m \in new.containers[c].mounts :
    Cardinality({v \in new.volumes : v.name = m}) = 1

(* The plugin, or the approver, each sidecar is of.                        *)
SidecarsOf(s, P, gen, n, sidecars, who) ==
  /\ sidecars \in Seq(Sidecars(s, P)) /\ Len(sidecars) = n /\ gen = resource.gen
  /\ who \in [1..n -> P \cup {Approver}]
  /\ \A i \in 1..n : /\ sidecars[i] = GetPluginSidecarPod(s, who[i], gen)
                     /\ sidecars[i] # NoPod

(* Each sidecar the loop found was generated for a plugin.                 *)
LEMMA SidecarsHavePlugins ==
  ASSUME NEW s, NEW P, NEW sidecars \in Seq(Sidecars(s, P))
  PROVE  \E who : SidecarsOf(s, P, resource.gen, Len(sidecars), sidecars, who)
<1> DEFINE n == Len(sidecars)
           Is(i, p) == sidecars[i] = GetPluginSidecarPod(s, p, resource.gen)
           who == [i \in 1..n |-> CHOOSE p \in P \cup {Approver} : Is(i, p)]
<1>1. ASSUME NEW i \in 1..n
      PROVE  sidecars[i] # NoPod /\ \E p \in P \cup {Approver} : Is(i, p)
  <2>1. sidecars[i] \in Sidecars(s, P)
    BY ElementOfSeq
  <2> QED
    BY <2>1 DEF Sidecars
<1>2. \A i \in 1..n : who[i] \in P \cup {Approver} /\ Is(i, who[i])
  <2> TAKE i \in 1..n
  <2>1. \E p \in P \cup {Approver} : Is(i, p)
    BY <1>1
  <2>2. who[i] = CHOOSE p \in P \cup {Approver} : Is(i, p)
    OBVIOUS
  <2> HIDE DEF Is, who
  <2> QED
    BY <2>1, <2>2
<1>3. who \in [1..n -> P \cup {Approver}]
  BY <1>2
<1> HIDE DEF who
<1>4. SidecarsOf(s, P, resource.gen, n, sidecars, who)
  BY <1>1, <1>2, <1>3 DEF SidecarsOf
<1> QED
  BY <1>4

(* The names, scripts and labels of the pod of a stage.                    *)
LEMMA RunPod ==
  ASSUME NEW s \in Specs, NEW P \in SUBSET (DOMAIN s.plugins), NEW task \in TaskName,
         NEW sidecars \in Seq(Sidecars(s, P)), NamesApart(sidecars),
         NEW gen, gen = resource.gen,
         NEW new, new = GeneratePod(NewTaskOptions(s, task, gen), sidecars), new # NoPod
  PROVE  /\ new.task = task /\ new.gen = gen /\ new.labels["generation"] = gen
         /\ FilesMade(s, new) /\ NamesUnique(new)
         /\ NamesOf(sidecars) \subseteq ContainerNames(new)
<1> DEFINE opts == NewTaskOptions(s, task, gen)
           first == Container(opts)
           n == Len(sidecars)
<1>1. /\ opts.task = task /\ opts.gen = gen /\ first.name = MainContainer
      /\ first.file = NewTaskOptions(s, task, gen).file
  BY ContainerNameFacts DEF NewTaskOptions, Container
<1>2. n \in Nat /\ DOMAIN sidecars = 1..n
  BY LenProperties
<1>3. PICK who : SidecarsOf(s, P, gen, n, sidecars, who)
  BY SidecarsHavePlugins
<1>4. /\ who \in [1..n -> P \cup {Approver}]
      /\ \A i \in 1..n : sidecars[i] = GetPluginSidecarPod(s, who[i], gen) /\ sidecars[i] # NoPod
  BY <1>3 DEF SidecarsOf
<1> DEFINE one == [i \in 1..n |-> SidecarContainer(s, who[i], gen)]
           C == {first} \cup {one[i] : i \in 1..n}
<1>5. ASSUME NEW i \in 1..n
      PROVE  /\ sidecars[i].containers = <<one[i]>>
             /\ one[i].name = who[i] /\ who[i] # MainContainer
             /\ one[i].file = NewTaskOptions(s, who[i], gen).file
             /\ who[i] \in TaskName \cup PluginNames \cup {Approver}
             /\ ContainerNames(sidecars[i]) = {who[i]}
  <2>1. who[i] \in PluginNames \cup {Approver}
    BY <1>4, SpecFacts
  <2>2. ContainerName(who[i]) = who[i] /\ who[i] # MainContainer
    BY <2>1, ContainerNameFacts
  <2> DEFINE x == sidecars[i]
             c == one[i]
             w == who[i]
  <2>3. c = SidecarContainer(s, w, gen) /\ x = GetPluginSidecarPod(s, w, gen) /\ x # NoPod
    BY <1>4
  <2> HIDE DEF x, c, w
  <2>4. /\ x.containers = <<c>> /\ c.name = ContainerName(w)
        /\ c.file = NewTaskOptions(s, w, gen).file
        /\ ContainerNames(x) = {ContainerName(w)}
    BY <2>3, SidecarPod
  <2> QED
    BY <2>1, <2>2, <2>4 DEF x, c, w
<1>6. one \in [1..n -> C] /\ first \in C
  OBVIOUS
<1> HIDE DEF one, C, opts, n
<1>7. OneEach(sidecars, n, one)
  BY <1>2, <1>5 DEF OneEach
<1>8. /\ new.task = opts.task /\ new.gen = opts.gen /\ new.labels["generation"] = opts.gen
      /\ StandInOrder(new.containers, first, n, one)
  <2>1. /\ n \in Nat /\ Container(opts) \in C /\ one \in [1..n -> C]
        /\ OneEach(sidecars, n, one) /\ new = GeneratePod(opts, sidecars) /\ new # NoPod
    BY <1>2, <1>6, <1>7 DEF opts
  <2>2. /\ new.task = opts.task /\ new.gen = opts.gen /\ new.labels["generation"] = opts.gen
        /\ StandInOrder(new.containers, Container(opts), n, one)
    BY ONLY <2>1, GeneratedPod
  <2> QED
    BY <2>2
<1> DEFINE all == new.containers
<1>9. /\ DOMAIN all = 1..n + 1 /\ all[1] = first
      /\ \A i \in 1..n : all[i + 1] = one[i]
  BY <1>8 DEF StandInOrder
<1> HIDE DEF first, all
<1>10. \A k \in 1..n + 1 : k # 1 => k - 1 \in 1..n /\ k = (k - 1) + 1
  BY <1>2
<1>11. FilesMade(s, new)
  <2> SUFFICES ASSUME NEW k \in DOMAIN all, all[k].file # NoFile
               PROVE  all[k].file \in DOMAIN ConfigMapData(s)
    BY DEF FilesMade, all
  <2>1. CASE k = 1
    <3>1. all[k].file = NewTaskOptions(s, task, gen).file
      BY <1>1, <1>9, <2>1 DEF first
    <3> QED
      BY <3>1, FilesAreMade
  <2>2. CASE k # 1
    <3> PICK i \in 1..n : k = i + 1
      BY <1>9, <1>10, <2>2
    <3>1. /\ all[k].file = NewTaskOptions(s, who[i], gen).file
          /\ who[i] \in TaskName \cup PluginNames \cup {Approver}
      BY <1>5, <1>9
    <3> QED
      BY <3>1, FilesAreMade
  <2> QED
    BY <2>1, <2>2
<1>12. NamesUnique(new)
  <2> SUFFICES ASSUME NEW k \in DOMAIN all, NEW l \in DOMAIN all, all[k].name = all[l].name
               PROVE  k = l
    BY DEF NamesUnique, all
  <2>1. all[1].name = MainContainer
    BY <1>1, <1>9 DEF first
  <2>2. \A i \in 1..n : all[i + 1].name = who[i] /\ who[i] # MainContainer
    BY <1>5, <1>9
  <2>3. \A i, j \in 1..n : i # j => who[i] # who[j]
    <3> SUFFICES ASSUME NEW i \in 1..n, NEW j \in 1..n, i # j PROVE who[i] # who[j]
      OBVIOUS
    <3>1. ContainerNames(sidecars[i]) \cap ContainerNames(sidecars[j]) = {}
      BY <1>2 DEF NamesApart
    <3> QED
      BY <1>5, <3>1
  <2>4. k \in 1..n + 1 /\ l \in 1..n + 1
    BY <1>9
  <2>5. CASE k = 1
    <3>1. CASE l # 1
      <4> PICK j \in 1..n : l = j + 1
        BY <1>10, <2>4, <3>1
      <4> QED
        BY <2>1, <2>2, <2>5
    <3> QED
      BY <2>5, <3>1
  <2>6. CASE k # 1
    <3> PICK i \in 1..n : k = i + 1
      BY <1>10, <2>4, <2>6
    <3>1. CASE l = 1
      BY <2>1, <2>2, <3>1
    <3>2. CASE l # 1
      <4> PICK j \in 1..n : l = j + 1
        BY <1>10, <2>4, <3>2
      <4>1. who[i] = who[j]
        BY <1>9, <1>10, <2>2
      <4> QED
        BY <2>3, <4>1
    <3> QED
      BY <3>1, <3>2
  <2> QED
    BY <2>5, <2>6
<1>13. NamesOf(sidecars) \subseteq ContainerNames(new)
  <2> SUFFICES ASSUME NEW i \in 1..n PROVE ContainerNames(sidecars[i]) \subseteq ContainerNames(new)
    BY <1>2 DEF NamesOf
  <2>1. ContainerNames(sidecars[i]) = {who[i]} /\ one[i].name = who[i]
    BY <1>5
  <2>2. i + 1 \in DOMAIN all /\ all[i + 1] = one[i]
    BY <1>2, <1>9
  <2> QED
    BY <2>1, <2>2 DEF ContainerNames, all
<1> QED
  BY <1>1, <1>8, <1>11, <1>12, <1>13

(* The users give no two volumes of a pod one name, not one volume twice   *)
(* either: the controller does not look.                                   *)
VolumesApart ==
  \A s \in Specs : \A task \in TaskName \cup PluginNames \cup {Approver} :
    UniqueNames(UserVolumes(s, task))

(* Each mount of the pod of a stage has one volume.                        *)
LEMMA RunVolumes ==
  ASSUME VolumesApart,
         NEW s \in Specs, NEW P \in SUBSET (DOMAIN s.plugins), NEW task \in TaskName,
         NEW sidecars \in Seq(Sidecars(s, P)), NEW gen, gen = resource.gen,
         NEW new, new = GeneratePod(NewTaskOptions(s, task, gen), sidecars), new # NoPod
  PROVE  MountsHaveVolumes(new)
<1> DEFINE opts == NewTaskOptions(s, task, gen)
           first == Container(opts)
           n == Len(sidecars)
<1>2. n \in Nat /\ DOMAIN sidecars = 1..n
  BY LenProperties
<1>3. PICK who : SidecarsOf(s, P, gen, n, sidecars, who)
  BY SidecarsHavePlugins
<1>4. /\ who \in [1..n -> P \cup {Approver}]
      /\ \A i \in 1..n : sidecars[i] = GetPluginSidecarPod(s, who[i], gen) /\ sidecars[i] # NoPod
  BY <1>3 DEF SidecarsOf
<1> DEFINE one == [i \in 1..n |-> SidecarContainer(s, who[i], gen)]
           C == {first} \cup {one[i] : i \in 1..n}
<1>5. ASSUME NEW i \in 1..n
      PROVE  /\ sidecars[i].containers = <<one[i]>>
             /\ one[i].mounts \subseteq Names(sidecars[i].volumes)
             /\ UniqueNames(sidecars[i].volumes)
  <2>1. who[i] \in PluginNames \cup {Approver}
    BY <1>4, SpecFacts
  <2>2. UniqueNames(UserVolumes(s, who[i]))
    BY <2>1 DEF VolumesApart
  <2> DEFINE x == sidecars[i]
             c == one[i]
             w == who[i]
  <2>3. /\ c = SidecarContainer(s, w, gen) /\ x = GetPluginSidecarPod(s, w, gen) /\ x # NoPod
        /\ UniqueNames(UserVolumes(s, w))
    BY <1>4, <2>2
  <2> HIDE DEF x, c, w
  <2>4. x.containers = <<c>>
    BY <2>3, SidecarPod
  <2>5. c.mounts \subseteq Names(x.volumes) /\ UniqueNames(x.volumes)
    BY <2>3, SidecarVolumes
  <2> QED
    BY <2>4, <2>5 DEF x, c, w
<1>6. one \in [1..n -> C] /\ first \in C
  OBVIOUS
<1>1. UniqueNames(opts.volumes)
  BY DEF VolumesApart, NewTaskOptions
<1> HIDE DEF one, C, opts, n
<1>7. OneEach(sidecars, n, one)
  BY <1>2, <1>5 DEF OneEach
<1>8. StandInOrder(new.containers, first, n, one)
  <2>1. /\ n \in Nat /\ Container(opts) \in C /\ one \in [1..n -> C]
        /\ OneEach(sidecars, n, one) /\ new = GeneratePod(opts, sidecars) /\ new # NoPod
    BY <1>2, <1>6, <1>7 DEF opts
  <2>2. StandInOrder(new.containers, Container(opts), n, one)
    BY ONLY <2>1, GeneratedPod
  <2> QED
    BY <2>2
<1>9. /\ UniqueNames(new.volumes) /\ Container(opts).mounts \subseteq Names(new.volumes)
      /\ \A i \in 1..n : Names(sidecars[i].volumes) \subseteq Names(new.volumes)
  <2>1. /\ DOMAIN sidecars = 1..n /\ \A i \in 1..n : UniqueNames(sidecars[i].volumes)
        /\ new = GeneratePod(opts, sidecars)
    BY <1>2, <1>5 DEF opts
  <2> QED
    BY <1>1, <1>2, <2>1, GeneratedVolumes
<1> DEFINE all == new.containers
<1>10. /\ DOMAIN all = 1..n + 1 /\ all[1] = first
       /\ \A i \in 1..n : all[i + 1] = one[i]
  BY <1>8 DEF StandInOrder
<1>11. first.mounts \subseteq Names(new.volumes)
  BY <1>9
<1> HIDE DEF first, all
<1>12. ASSUME NEW k \in DOMAIN all PROVE all[k].mounts \subseteq Names(new.volumes)
  <2>1. CASE k = 1
    BY <1>10, <1>11, <2>1
  <2>2. CASE k # 1
    <3> PICK i \in 1..n : k = i + 1
      <4>1. k - 1 \in 1..n /\ k = (k - 1) + 1
        BY <1>2, <1>10, <2>2
      <4> QED
        BY <4>1
    <3> QED
      BY <1>5, <1>9, <1>10
  <2> QED
    BY <2>1, <2>2
<1>13. ASSUME NEW m \in Names(new.volumes)
       PROVE  Cardinality({v \in new.volumes : v.name = m}) = 1
  <2>1. PICK v \in new.volumes : v.name = m
    BY <1>13 DEF Names
  <2>2. {w \in new.volumes : w.name = m} = {v}
    BY <1>9, <2>1 DEF UniqueNames
  <2> QED
    BY <2>2, FS_Singleton
<1> QED
  BY <1>12, <1>13 DEF MountsHaveVolumes, all
(***************************************************************************)
(* The inductive invariant.  There is one incarnation: users create a      *)
(* resource with uid 1, and a run that was started never goes away, so no  *)
(* second one is created.                                                  *)
(***************************************************************************)
CallTypes ==
  /\ call \in [spec: Specs \cup {EmptySpec}, gen: Nat, due: Seq(PluginNames),
               spawned: BOOLEAN]
  /\ \A k \in DOMAIN call.due : call.due[k] \in DOMAIN call.spec.plugins

(* The resource and its stage; a call that runs keeps the stage.           *)
ResourceTypes ==
  /\ resource.uid \in {0, 1}
  /\ resource.uid = 0 => resource = NoResource /\ stage = NoStage
  /\ resource.uid = 1 => spec \in Specs /\ resource.gen \in Gens
  /\ stage.gen <= resource.gen
  /\ stage.task # RunNil => stage.gen \in Gens
  /\ InCall => resource.uid = 1 /\ stage.task \in TaskName /\ call.gen = stage.gen

PodTypes == TypeOK /\ CallTypes /\ ResourceTypes

(* Runs are of the stage's generation or of older ones.                    *)
RunsAreOld ==
  \A i \in 1..Len(runs) :
    /\ runs[i].uid = 1 /\ runs[i].gen \in Gens
    /\ resource.uid = 1 => runs[i].gen <= stage.gen

(* The stage's predecessors have succeeded.                                *)
Succeeded(gen, task) == InState(1, gen, task, "succeeded")

StageReady ==
  /\ \A t \in ConfiguredTasks \cap WorkflowOf(stage.task) :
       Before(t, stage.task) => Succeeded(stage.gen, t)
  /\ completed => stage.task = RunNil /\
       \A t \in ConfiguredTasks \cap CreateTasks : Succeeded(stage.gen, t)

(* What a call has deferred is due at the stage.                           *)
DueAtStage ==
  InCall => AllDue(call.spec, stage.task, call.due)

JobsAreAfter ==
  \A j \in jobs \cup creators :
    j.after \in WorkflowOf(j.at) \cap ConfiguredTasks => Succeeded(j.gen, j.after)

(* A run's plugins have been started, or the call that started it has them *)
(* deferred.                                                               *)
DueByRuns ==
  crashes = 0 /\ resource.uid = 1 /\ WorkedOn =>
    \A i \in 1..Len(runs) : runs[i].gen = stage.gen =>
      \A p \in DOMAIN spec.plugins :
        IsDue(spec, p, runs[i].task) => p \in started \/ In(p, call.due)

(* A generation that runs has its ConfigMap, made of its spec.             *)
ConfigMapsAreMade ==
  \A i \in 1..Len(runs) :
    /\ runs[i].gen \in DOMAIN configMaps
    /\ resource.uid = 1 /\ runs[i].gen = resource.gen =>
         configMaps[runs[i].gen] = ConfigMapData(spec)

(* The pod is that of the last run.                                        *)
PodIsOfRun == pod # NoPod => runs # <<>> /\ pod.gen = Last(runs).gen

(* A generation that runs has a reaper that is still to delete, or no jobs *)
(* of older generations but the late ones.                                 *)
ReapersAreDue ==
  crashes = 0 /\ resource.uid = 1 /\ (\E i \in 1..Len(runs) : runs[i].gen = stage.gen) =>
    \/ \E i \in 1..MaxReapers : reapers[i] = 0 \/ reapers[i] >= stage.gen
    \/ \A j \in jobs : j.gen >= stage.gen \/ j.late

PlansHeld ==
  pod # NoPod /\ resource.uid = 1 /\ pod.gen = resource.gen /\ spec.requireApproval
    => pod.task \notin {"plan", "plan-delete"} \/ Approver \in ContainerNames(pod)

(* The names and labels of its containers.                                 *)
PodIsNamed == pod # NoPod => NamesUnique(pod) /\ pod.labels["generation"] = pod.gen

RunsSound == RunsAreOld /\ StageReady
PluginsSound == DueAtStage /\ JobsAreAfter /\ DueByRuns /\ ReapersAreDue
PodSound == ConfigMapsAreMade /\ PodIsOfRun /\ PodIsNamed /\ PlansHeld /\ ScriptsAreMounted
PodsInv == PodTypes /\ RunsSound /\ PluginsSound /\ PodSound

-----------------------------------------------------------------------------
(***************************************************************************)
(* The steps, by what they leave alone.                                    *)
(***************************************************************************)
JobCreated == \E c \in creators : CreateJob(c)
ReaperStarts == \E i \in 1..MaxReapers : ReaperReads(i)
ReaperEnds == \E i \in 1..MaxReapers : ReaperDeletes(i)
ReaperLost == \E i \in 1..MaxReapers : ReaperFails(i)
RunEnds == \E i \in 1..Len(runs) : \E result \in Results : End(i, result)
PodEnds == RunEnds /\ UNCHANGED podVars
PodLost == RunEnds /\ crashes' = crashes + 1 /\ crashes' \in 0..MaxCrashes
           /\ UNCHANGED <<spec, started, configMaps, pod, call, creators, jobs, reapers>>

StepIs ==
  \/ CreateResource \/ EditSpec \/ DeleteResource
  \/ NewStage \/ NextStage \/ EndWorkflow \/ ResourceGone
  \/ RunStage \/ Spawn \/ RecordStarted
  \/ JobCreated \/ Stop \/ ReaperStarts \/ ReaperEnds \/ ReaperLost
  \/ PodEnds \/ PodLost \/ UNCHANGED vars

(* A step is one of these.                                                 *)
LEMMA StepCases == ASSUME TypeOK, [PodsNext]_vars PROVE StepIs
<1>1. ASSUME NEW c \in creators, CreateJob(c) \/ Panic(c) PROVE StepIs
  BY <1>1 DEF StepIs, JobCreated, Panic
<1>2. ASSUME NEW i \in 1..MaxReapers, ReaperReads(i) \/ ReaperDeletes(i) \/ ReaperFails(i)
      PROVE  StepIs
  BY <1>2 DEF StepIs, ReaperStarts, ReaperEnds, ReaperLost
<1>3. ASSUME NEW i \in 1..Len(runs), EndRun(i) PROVE StepIs
  <2>1. "succeeded" \in Results
    BY DEF Results
  <2> QED
    BY <1>3, <2>1 DEF StepIs, EndRun, PodEnds, RunEnds
<1>4. ASSUME NEW i \in 1..Len(runs), LosePod(i) PROVE StepIs
  <2>1. "lost" \in Results
    BY DEF Results
  <2>2. crashes' = crashes + 1 /\ crashes' \in 0..MaxCrashes
    BY <1>4, BoundsAssumption DEF LosePod, TypeOK
  <2> QED
    BY <1>4, <2>1, <2>2 DEF StepIs, LosePod, PodLost, RunEnds
<1> QED
  BY <1>1, <1>2, <1>3, <1>4 DEF PodsNext, StepIs, Crash

(* What the users leave alone.                                             *)
LEMMA FramesOfUsers ==
  /\ CreateResource => UNCHANGED <<stage, completed, runs, started, configMaps, pod, call,
                                   creators, jobs, reapers, crashes>>
  /\ EditSpec => UNCHANGED <<stage, completed, runs, started, configMaps, pod, call,
                             creators, jobs, reapers, crashes>>
  /\ DeleteResource => UNCHANGED <<stage, completed, runs, spec, started, configMaps, pod,
                                   call, creators, jobs, reapers, crashes>>
BY DEF CreateResource, EditSpec, DeleteResource, Create, Edit, Delete, podVars

(* What the calls that change the stage leave alone.                       *)
LEMMA FramesOfStages ==
  /\ NewStage => UNCHANGED <<resource, runs, spec, configMaps, pod, call, creators, jobs,
                             reapers, crashes>>
  /\ NextStage => UNCHANGED <<resource, runs, completed, spec, started, configMaps, pod, call,
                              creators, jobs, reapers, crashes>>
  /\ EndWorkflow => UNCHANGED <<resource, stage, runs, spec, started, configMaps, pod, call,
                                creators, jobs, reapers, crashes>>
  /\ ResourceGone => UNCHANGED <<runs, spec, started, configMaps, pod, call, creators,
                                 reapers, crashes>>
BY DEF NewStage, NextStage, EndWorkflow, ResourceGone, NewGeneration, Advance, Enter, Complete,
       Gone, podVars

(* What the call that runs a stage leaves alone.                           *)
LEMMA FramesOfCalls ==
  /\ RunStage => UNCHANGED <<resource, stage, completed, spec, started, creators, jobs, crashes>>
  /\ Spawn => UNCHANGED <<resource, stage, completed, runs, spec, started, configMaps, pod, jobs,
                          reapers, crashes>>
  /\ RecordStarted => UNCHANGED <<resource, stage, completed, runs, spec, configMaps, pod,
                                  creators, jobs, reapers, crashes>>
BY DEF RunStage, Spawn, RecordStarted, CreatePod, Start, workflowVars

(* What goroutines and crashes leave alone.                                *)
LEMMA FramesOfGoroutines ==
  /\ JobCreated => UNCHANGED <<resource, stage, completed, runs, spec, started, configMaps, pod,
                               call, reapers, crashes>>
  /\ Stop => UNCHANGED <<resource, stage, completed, runs, spec, started, configMaps, pod, jobs>>
  /\ ReaperStarts => UNCHANGED <<resource, stage, completed, runs, spec, started, configMaps,
                                 pod, call, creators, jobs, crashes>>
  /\ ReaperEnds => UNCHANGED <<resource, stage, completed, runs, spec, started, configMaps, pod,
                               call, creators, crashes>>
  /\ ReaperLost => UNCHANGED <<resource, stage, completed, runs, spec, started, configMaps, pod,
                               call, creators, jobs>>
BY DEF JobCreated, CreateJob, Stop, ReaperStarts, ReaperReads, ReaperEnds, ReaperDeletes,
       ReaperLost, ReaperFails, workflowVars

(* What the end of a pod leaves alone.                                     *)
LEMMA FramesOfPods ==
  /\ PodEnds => UNCHANGED <<resource, stage, completed, spec, started, configMaps, pod, call,
                            creators, jobs, reapers, crashes>>
  /\ PodLost => UNCHANGED <<resource, stage, completed, spec, started, configMaps, pod, call,
                            creators, jobs, reapers>>
  /\ UNCHANGED vars => UNCHANGED <<resource, stage, completed, runs, spec, started, configMaps,
                                   pod, call, creators, jobs, reapers, crashes>>
BY DEF PodEnds, PodLost, RunEnds, End, podVars, vars, workflowVars

-----------------------------------------------------------------------------
(***************************************************************************)
(* What happens to the runs.                                               *)
(***************************************************************************)
SameRun(r, q) == r.uid = q.uid /\ r.gen = q.gen /\ r.task = q.task

(* A run that ends, or is lost, remains a run of its stage.                *)
LEMMA EndedRun ==
  ASSUME TypeInv, RunEnds
  PROVE  /\ runs' \in Seq(Run) /\ Len(runs') = Len(runs)
         /\ \A k \in 1..Len(runs) : SameRun(runs'[k], runs[k])
         /\ \A k \in 1..Len(runs) : runs[k].result # "running" => runs'[k] = runs[k]
<1>1. PICK i \in 1..Len(runs) : \E result \in Results : End(i, result)
  BY DEF RunEnds
<1>2. PICK result \in Results : End(i, result)
  BY <1>1
<1>3. runs \in Seq(Run) /\ runs' = [runs EXCEPT ![i].result = result] /\ runs[i].result = "running"
  BY <1>2 DEF End, TypeInv
<1> DEFINE run == [runs[i] EXCEPT !.result = result]
<1>4. runs[i] \in Run
  BY <1>3, ElementOfSeq
<1>5. run \in Run /\ SameRun(run, runs[i])
  BY <1>4 DEF Run, SameRun
<1>6. runs' = [runs EXCEPT ![i] = run]
  BY <1>3
<1> HIDE DEF run
<1>7. /\ runs' \in Seq(Run) /\ Len(runs') = Len(runs) /\ runs'[i] = run
      /\ \A k \in 1..Len(runs) : k # i => runs'[k] = runs[k]
  BY <1>3, <1>5, <1>6, ExceptSeq, LenProperties
<1>8. \A k \in 1..Len(runs) : SameRun(runs[k], runs[k])
  BY DEF SameRun
<1> QED
  BY <1>3, <1>5, <1>7, <1>8

(* A run that starts is the last one and of the stage.                     *)
LEMMA StartedRun ==
  ASSUME TypeInv, Start
  PROVE  /\ runs' \in Seq(Run) /\ Len(runs') = Len(runs) + 1
         /\ \A k \in 1..Len(runs) : runs'[k] = runs[k]
         /\ runs'[Len(runs) + 1].uid = resource.uid /\ runs'[Len(runs) + 1].gen = stage.gen
         /\ runs'[Len(runs) + 1].task = stage.task
         /\ runs' # <<>> /\ Last(runs').gen = stage.gen
<1> DEFINE run == [uid |-> resource.uid, gen |-> stage.gen, task |-> stage.task,
                   result |-> "running"]
<1>1. runs \in Seq(Run) /\ run \in Run /\ runs' = Append(runs, run)
  BY DEF TypeInv, Start, Resource, StageOf, Run, Results
<1>2. run.uid = resource.uid /\ run.gen = stage.gen /\ run.task = stage.task
  OBVIOUS
<1> HIDE DEF run
<1>3. /\ runs' \in Seq(Run) /\ Len(runs') = Len(runs) + 1 /\ Len(runs) \in Nat
      /\ \A k \in 1..Len(runs) : runs'[k] = runs[k]
      /\ runs'[Len(runs) + 1] = run
  BY <1>1, AppendProperties, LenProperties
<1>4. runs' # <<>> /\ Last(runs') = run
  BY <1>3 DEF Last
<1> QED
  BY <1>2, <1>3, <1>4

-----------------------------------------------------------------------------
(***************************************************************************)
(* The call that runs a stage.                                             *)
(***************************************************************************)
RunFound(plugins) ==
  /\ plugins \in Found(spec, DOMAIN spec.plugins \ started)
  /\ NamesApart(plugins.sidecars) /\ AllDue(spec, stage.task, plugins.due)
  /\ ~plugins.failed => \A p \in DOMAIN spec.plugins \ started :
                          IsDue(spec, p, stage.task) => In(p, plugins.due)
  /\ ~plugins.failed /\ spec.requireApproval /\ stage.task \in {"plan", "plan-delete"}
       => Approver \in NamesOf(plugins.sidecars)

RunDoes(plugins) ==
  /\ call' = IF plugins.due = <<>> THEN Idle
             ELSE [spec |-> spec, gen |-> resource.gen, due |-> plugins.due, spawned |-> FALSE]
  /\ \/ UNCHANGED <<runs, pod, configMaps, reapers>>
     \/ /\ ~plugins.failed /\ StartReaper /\ CreateConfigMap
        /\ CreatePod(GeneratePod(NewTaskOptions(spec, stage.task, resource.gen),
                                 plugins.sidecars))

(* When a stage is run.                                                    *)
LEMMA RunReady ==
  ASSUME PodTypes, RunStage
  PROVE  /\ ~InCall /\ WorkedOn /\ resource.uid = 1 /\ stage.task \in TaskName
         /\ spec \in Specs /\ resource.gen \in Gens /\ stage.gen = resource.gen
         /\ resource.gen \in Nat
<1>1. /\ ~InCall /\ WorkedOn /\ resource.uid # 0 /\ stage.task # RunNil
  BY DEF RunStage
<1>2. stage.task \in TaskName
  BY <1>1 DEF PodTypes, TypeOK, TypeInv, StageOf
<1>3. resource.uid = 1
  BY <1>1 DEF PodTypes, ResourceTypes
<1> QED
  BY <1>1, <1>2, <1>3, BoundsAssumption DEF PodTypes, ResourceTypes, WorkedOn, Gens

(* The call goes by what the loop over the plugins found.                  *)
LEMMA RunStageFacts ==
  ASSUME PodTypes, RunStage
  PROVE  \E plugins : RunFound(plugins) /\ RunDoes(plugins)
<1>1. spec \in Specs
  BY RunReady
<1> DEFINE P == DOMAIN spec.plugins \ started
           Does(order, plugins) ==
             /\ plugins = Plugins(spec, stage.task, order)
             /\ RunDoes(plugins)
<1>2. PICK order \in SetToSeqs(P) : \E plugins : Does(order, plugins)
  <2>1. PICK order \in SetToSeqs(P) :
          LET plugins == Plugins(spec, stage.task, order)
          IN  /\ IF plugins.failed THEN UNCHANGED <<workflowVars, pod, configMaps, reapers>>
                 ELSE /\ CreatePod(GeneratePod(NewTaskOptions(spec, stage.task, resource.gen),
                                               plugins.sidecars))
                      /\ StartReaper /\ CreateConfigMap
              /\ call' = IF plugins.due = <<>> THEN Idle
                         ELSE [spec |-> spec, gen |-> resource.gen, due |-> plugins.due,
                               spawned |-> FALSE]
    BY DEF RunStage
  <2> DEFINE found == Plugins(spec, stage.task, order)
  <2>2. RunDoes(found)
    BY <2>1 DEF RunDoes, workflowVars
  <2> QED
    BY <2>2
<1>3. PICK plugins : Does(order, plugins)
  BY <1>2
<1>4. P \in SUBSET (DOMAIN spec.plugins)
  OBVIOUS
<1>5. plugins = Plugins(spec, stage.task, order)
  BY <1>3
<1> HIDE DEF P
<1>6. /\ plugins \in Found(spec, P) /\ NamesApart(plugins.sidecars)
      /\ AllDue(spec, stage.task, plugins.due)
      /\ ~plugins.failed => \A p \in P : IsDue(spec, p, stage.task) => In(p, plugins.due)
      /\ ~plugins.failed /\ spec.requireApproval /\ stage.task \in {"plan", "plan-delete"}
           => Approver \in NamesOf(plugins.sidecars)
  <2> DEFINE s == spec
             task == stage.task
  <2>1. s \in Specs /\ P \in SUBSET (DOMAIN s.plugins) /\ plugins = Plugins(s, task, order)
    BY <1>1, <1>4, <1>5
  <2> HIDE DEF s, task
  <2>2. /\ plugins \in Found(s, P) /\ NamesApart(plugins.sidecars)
        /\ AllDue(s, task, plugins.due)
        /\ ~plugins.failed => \A p \in P : IsDue(s, p, task) => In(p, plugins.due)
        /\ ~plugins.failed /\ s.requireApproval /\ task \in {"plan", "plan-delete"}
             => Approver \in NamesOf(plugins.sidecars)
    BY <2>1, PluginsResult
  <2> QED
    BY <2>2 DEF s, task
<1>7. RunFound(plugins)
  BY <1>6 DEF RunFound, P
<1> QED
  BY <1>3, <1>7

-----------------------------------------------------------------------------
(***************************************************************************)
(* Types.                                                                  *)
(***************************************************************************)
LEMMA RunsTyped ==
  ASSUME PodTypes, StepIs
  PROVE  /\ runs' \in Seq(Run)
         /\ \/ runs' = runs \/ RunEnds
            \/ RunStage /\ Start
<1>1. CASE RunStage
  <2>1. PICK plugins : RunDoes(plugins)
    BY <1>1, RunStageFacts
  <2>2. runs' = runs \/ Start
    BY <2>1 DEF RunDoes, CreatePod, workflowVars
  <2> QED
    BY <1>1, <2>2, StartedRun DEF PodTypes, TypeOK, TypeInv
<1>2. CASE PodEnds \/ PodLost
  BY <1>2, EndedRun DEF PodEnds, PodLost, PodTypes, TypeOK
<1>3. CASE ~RunStage /\ ~PodEnds /\ ~PodLost
  <2>1. runs' = runs
    BY <1>3, FramesOfUsers, FramesOfStages, FramesOfCalls, FramesOfGoroutines, FramesOfPods
       DEF StepIs
  <2> QED
    BY <2>1 DEF PodTypes, TypeOK, TypeInv
<1> QED
  BY <1>1, <1>2, <1>3

(* The type of the resource.                                               *)
LEMMA ResourceTyped ==
  ASSUME PodTypes, StepIs PROVE resource' \in Resource
<1>1. resource \in Resource
  BY DEF PodTypes, TypeOK, TypeInv
<1>2. CASE CreateResource
  BY <1>2 DEF CreateResource, Resource
<1>3. CASE EditSpec
  BY <1>1, <1>3 DEF EditSpec, Edit, Resource
<1>4. CASE DeleteResource
  <2> DEFINE gen == resource.gen + 1
             first == [resource EXCEPT !.gen = gen]
  <2>1. gen \in Nat
    BY <1>1 DEF Resource
  <2>2. resource' = [first EXCEPT !.deleting = TRUE]
    BY <1>4 DEF DeleteResource, Delete
  <2> HIDE DEF gen
  <2>3. first \in Resource
    BY <1>1, <2>1 DEF Resource
  <2> HIDE DEF first
  <2> QED
    BY <2>2, <2>3 DEF Resource
<1>5. CASE ResourceGone
  BY <1>5 DEF ResourceGone, Gone, NoResource, Resource
<1>6. CASE ~CreateResource /\ ~EditSpec /\ ~DeleteResource /\ ~ResourceGone
  <2>1. resource' = resource
    BY <1>6, FramesOfStages, FramesOfCalls, FramesOfGoroutines, FramesOfPods DEF StepIs
  <2> QED
    BY <1>1, <2>1
<1> QED
  BY <1>2, <1>3, <1>4, <1>5, <1>6

(* The stages of the calls.                                                *)
LEMMA StageSteps ==
  ASSUME PodTypes
  PROVE  /\ NewStage => /\ resource.uid = 1 /\ stage.gen < resource.gen
                        /\ stage' = [gen |-> resource.gen,
                                     task |-> IF resource.deleting THEN "setup-delete" ELSE "setup"]
                        /\ completed' = FALSE
         /\ NextStage => /\ resource.uid = 1 /\ completed' = completed /\ stage.task # RunNil
                         /\ StageIs("succeeded") /\ WorkedOn
                         /\ stage' = [gen |-> stage.gen,
                                      task |-> NextTask(stage.task, ConfiguredTasks)]
         /\ ResourceGone => stage' = NoStage /\ completed' = FALSE /\ resource' = NoResource
<1>1. /\ resource \in Resource /\ stage \in StageOf /\ resource.uid \in {0, 1}
  BY DEF PodTypes, TypeOK, TypeInv, ResourceTypes
<1>2. ASSUME NewStage
      PROVE  /\ resource.uid = 1 /\ stage.gen < resource.gen /\ completed' = FALSE
             /\ stage' = [gen |-> resource.gen,
                          task |-> IF resource.deleting THEN "setup-delete" ELSE "setup"]
  <2>1. PICK gen \in stage.gen + 1..resource.gen :
          \/ ~(resource.deleting /\ gen = resource.gen) /\ Enter(gen, "setup")
          \/ resource.deleting /\ Enter(gen, "setup-delete")
    BY <1>2 DEF NewStage, NewGeneration
  <2>2. resource.uid # 0
    BY <2>1 DEF Enter
  <2>3. stage.gen < resource.gen
    BY <1>1, <2>1 DEF Resource, StageOf
  <2> QED
    BY <1>1, <1>2, <2>2, <2>3 DEF NewStage, NewGeneration
<1>3. ASSUME NextStage
      PROVE  /\ resource.uid = 1 /\ completed' = completed /\ stage.task # RunNil
             /\ StageIs("succeeded") /\ WorkedOn
             /\ stage' = [gen |-> stage.gen, task |-> NextTask(stage.task, ConfiguredTasks)]
  BY <1>1, <1>3 DEF NextStage, Advance, Enter
<1>4. ASSUME ResourceGone
      PROVE  stage' = NoStage /\ completed' = FALSE /\ resource' = NoResource
  BY <1>4 DEF ResourceGone, Gone
<1> QED
  BY <1>2, <1>3, <1>4

(* The type of the stage.                                                  *)
LEMMA StageTyped ==
  ASSUME PodTypes, StepIs PROVE stage' \in StageOf /\ completed' \in BOOLEAN
<1>1. stage \in StageOf /\ completed \in BOOLEAN /\ resource \in Resource
  BY DEF PodTypes, TypeOK, TypeInv
<1>2. CASE NewStage
  <2>1. {"setup", "setup-delete"} \subseteq TaskName
    BY CreateTaskIDs, DeleteTaskIDs DEF TaskName
  <2> QED
    BY <1>1, <1>2, <2>1, StageSteps DEF StageOf, Resource
<1>3. CASE NextStage
  BY <1>1, <1>3, StageSteps, NextTaskType DEF StageOf
<1>4. CASE ResourceGone
  BY <1>4, StageSteps DEF NoStage, StageOf
<1>5. CASE EndWorkflow
  <2>1. completed' = TRUE /\ stage' = stage
    BY <1>5 DEF EndWorkflow, Complete
  <2> QED
    BY <1>1, <2>1
<1>6. CASE ~NewStage /\ ~NextStage /\ ~ResourceGone /\ ~EndWorkflow
  <2>1. stage' = stage /\ completed' = completed
    BY <1>6, FramesOfUsers, FramesOfCalls, FramesOfGoroutines, FramesOfPods DEF StepIs
  <2> QED
    BY <1>1, <2>1
<1> QED
  BY <1>2, <1>3, <1>4, <1>5, <1>6

(* The types of the spec, the status and the ConfigMaps.                   *)
LEMMA PodsTyped ==
  ASSUME PodTypes, StepIs
  PROVE  /\ spec' \in Specs \cup {EmptySpec} /\ started' \subseteq PluginNames
         /\ DOMAIN configMaps' \subseteq Gens /\ crashes' \in 0..MaxCrashes
<1>1. /\ spec \in Specs \cup {EmptySpec} /\ started \subseteq PluginNames
      /\ DOMAIN configMaps \subseteq Gens /\ crashes \in 0..MaxCrashes
  BY DEF PodTypes, TypeOK
<1>2. CASE CreateResource \/ EditSpec
  <2>1. spec' \in Specs /\ UNCHANGED <<started, configMaps, crashes>>
    BY <1>2, FramesOfUsers DEF CreateResource, EditSpec
  <2> QED
    BY <1>1, <2>1
<1>3. CASE NewStage
  <2>1. started' \in {started, {}} /\ UNCHANGED <<spec, configMaps, crashes>>
    BY <1>3 DEF NewStage
  <2> QED
    BY <1>1, <2>1
<1>4. CASE RunStage
  <2>1. resource.gen \in Gens /\ UNCHANGED <<spec, started, crashes>>
    BY <1>4, RunReady, FramesOfCalls
  <2>2. configMaps' = configMaps \/ CreateConfigMap
    BY <1>4, RunStageFacts DEF RunDoes
  <2>3. DOMAIN configMaps' \subseteq DOMAIN configMaps \cup {resource.gen}
    BY <2>2 DEF CreateConfigMap
  <2> QED
    BY <1>1, <2>1, <2>3
<1>5. CASE RecordStarted
  <2>1. /\ InCall /\ started' = started \cup {Last(call.due)}
        /\ UNCHANGED <<spec, configMaps, crashes>>
    BY <1>5 DEF RecordStarted
  <2>2. Last(call.due) \in PluginNames
    <3>1. call.due \in Seq(PluginNames) /\ call.due # <<>>
      BY <2>1 DEF InCall, PodTypes, CallTypes
    <3>2. Len(call.due) \in 1..Len(call.due)
      BY <3>1, LenProperties, EmptySeq
    <3> QED
      BY <3>1, <3>2, ElementOfSeq DEF Last
  <2> QED
    BY <1>1, <2>1, <2>2
<1>6. CASE Stop \/ ReaperLost \/ PodLost
  <2>1. /\ crashes' \in 0..MaxCrashes /\ UNCHANGED <<spec, started, configMaps>>
    BY <1>1, <1>6, BoundsAssumption DEF Stop, ReaperLost, ReaperFails, PodLost
  <2> QED
    BY <1>1, <2>1
<1>7. CASE /\ ~CreateResource /\ ~EditSpec /\ ~NewStage /\ ~RunStage /\ ~RecordStarted
           /\ ~Stop /\ ~ReaperLost /\ ~PodLost
  <2>1. UNCHANGED <<spec, started, configMaps, crashes>>
    BY <1>7, FramesOfUsers, FramesOfStages, FramesOfCalls, FramesOfGoroutines, FramesOfPods
       DEF StepIs
  <2> QED
    BY <1>1, <2>1
<1> QED
  BY <1>2, <1>3, <1>4, <1>5, <1>6, <1>7

(* The last of the deferred plugins, which the call spec's owner wrote.    *)
LEMMA LastDue ==
  ASSUME PodTypes, InCall
  PROVE  /\ call.spec \in Specs /\ Last(call.due) \in DOMAIN call.spec.plugins
         /\ Last(call.due) \in PluginNames /\ Len(call.due) \in DOMAIN call.due
         /\ Last(call.due) = call.due[Len(call.due)]
         /\ call.spec.plugins[Last(call.due)] \in Plugin
<1>1. call.due \in Seq(PluginNames) /\ call.due # <<>>
  BY DEF InCall, PodTypes, CallTypes
<1>2. Len(call.due) \in 1..Len(call.due) /\ DOMAIN call.due = 1..Len(call.due)
  BY <1>1, LenProperties, EmptySeq
<1>3. Last(call.due) = call.due[Len(call.due)]
  BY DEF Last
<1>4. Last(call.due) \in PluginNames /\ Last(call.due) \in DOMAIN call.spec.plugins
  BY <1>1, <1>2, <1>3, ElementOfSeq DEF PodTypes, CallTypes
<1>5. call.spec # EmptySpec
  <2>1. DOMAIN EmptySpec.plugins = {}
    BY DEF EmptySpec
  <2> QED
    BY <1>4, <2>1
<1>6. call.spec \in Specs
  BY <1>5 DEF PodTypes, CallTypes
<1>7. call.spec.plugins[Last(call.due)] \in Plugin
  <2>1. call.spec.plugins \in [DOMAIN call.spec.plugins -> Plugin]
    BY <1>6, SpecFacts
  <2> QED
    BY <1>4, <2>1
<1> QED
  BY <1>2, <1>3, <1>4, <1>6, <1>7

(* The type of the jobs and of those to be created.                        *)
LEMMA JobsTyped ==
  ASSUME PodTypes, StepIs
  PROVE  \A j \in jobs' \cup creators' : j \in Job
<1>1. \A j \in jobs \cup creators : j \in Job
  BY DEF PodTypes, TypeOK
<1>2. CASE Spawn
  <2>1. InCall
    BY <1>2 DEF Spawn
  <2> DEFINE p == Last(call.due)
             plugin == call.spec.plugins[p]
             job == [plugin |-> p, gen |-> call.gen, at |-> stage.task, late |-> FALSE,
                     after |-> IF plugin.when = "After" THEN plugin.task ELSE RunNil,
                     valid |-> GetPluginSidecarPod(call.spec, p, call.gen) # NoPod]
  <2>2. creators' = creators \cup {job} /\ jobs' = jobs
    BY <1>2 DEF Spawn
  <2>3. p \in PluginNames /\ plugin.task \in TaskName
    BY <2>1, LastDue DEF Plugin
  <2>4. call.gen \in Nat /\ stage.task \in TaskName
    BY <2>1 DEF PodTypes, CallTypes, ResourceTypes
  <2>5. job \in Job
    BY <2>3, <2>4 DEF Job
  <2> HIDE DEF job
  <2> QED
    BY <1>1, <2>2, <2>5
<1>3. CASE JobCreated
  <2>1. PICK c \in creators : CreateJob(c)
    BY <1>3 DEF JobCreated
  <2> DEFINE late == stage.gen # c.gen
             job == [c EXCEPT !.late = late]
  <2>2. creators' = creators \ {c} /\ jobs' = jobs \cup {job}
    BY <2>1 DEF CreateJob
  <2>3. late \in BOOLEAN /\ c \in Job
    BY <1>1
  <2> HIDE DEF late
  <2>4. job \in Job
    BY <2>3 DEF Job
  <2> HIDE DEF job
  <2> QED
    BY <1>1, <2>2, <2>4
<1>4. CASE ResourceGone
  <2>1. jobs' = {} /\ creators' = creators
    BY <1>4 DEF ResourceGone
  <2> QED
    BY <1>1, <2>1
<1>5. CASE Stop
  <2>1. creators' = {} /\ jobs' = jobs
    BY <1>5 DEF Stop
  <2> QED
    BY <1>1, <2>1
<1>6. CASE ReaperEnds
  <2>1. jobs' \subseteq jobs /\ creators' = creators
    BY <1>6 DEF ReaperEnds, ReaperDeletes
  <2> QED
    BY <1>1, <2>1
<1>7. CASE ~Spawn /\ ~JobCreated /\ ~ResourceGone /\ ~Stop /\ ~ReaperEnds
  <2>1. UNCHANGED <<jobs, creators>>
    BY <1>7, FramesOfUsers, FramesOfStages, FramesOfCalls, FramesOfGoroutines, FramesOfPods
       DEF StepIs
  <2> QED
    BY <1>1, <2>1
<1> QED
  BY <1>2, <1>3, <1>4, <1>5, <1>6, <1>7

(* The type of the reapers.                                                *)
LEMMA ReapersTyped ==
  ASSUME PodTypes, StepIs
  PROVE  reapers' \in [1..MaxReapers -> {-1, 0} \cup Gens]
<1>1. reapers \in [1..MaxReapers -> {-1, 0} \cup Gens]
  BY DEF PodTypes, TypeOK
<1>2. CASE RunStage
  <2>1. reapers' = reapers \/ StartReaper
    BY <1>2, RunStageFacts DEF RunDoes
  <2> QED
    BY <1>1, <2>1 DEF StartReaper
<1>3. CASE Stop
  BY <1>1, <1>3 DEF Stop
<1>4. CASE ReaperStarts
  <2>1. PICK i \in 1..MaxReapers : ReaperReads(i)
    BY <1>4 DEF ReaperStarts
  <2>2. resource.uid # 0 => resource.gen \in Gens
    BY DEF PodTypes, ResourceTypes
  <2> DEFINE read == IF resource.uid = 0 THEN -1 ELSE resource.gen
  <2>3. read \in {-1, 0} \cup Gens /\ reapers' = [reapers EXCEPT ![i] = read]
    BY <2>1, <2>2 DEF ReaperReads
  <2> HIDE DEF read
  <2> QED
    BY <1>1, <2>3
<1>5. CASE ReaperEnds \/ ReaperLost
  <2>1. PICK i \in 1..MaxReapers : reapers' = [reapers EXCEPT ![i] = -1]
    BY <1>5 DEF ReaperEnds, ReaperLost, ReaperDeletes, ReaperFails
  <2> QED
    BY <1>1, <2>1
<1>6. CASE ~RunStage /\ ~Stop /\ ~ReaperStarts /\ ~ReaperEnds /\ ~ReaperLost
  <2>1. reapers' = reapers
    BY <1>6, FramesOfUsers, FramesOfStages, FramesOfCalls, FramesOfGoroutines, FramesOfPods
       DEF StepIs
  <2> QED
    BY <1>1, <2>1
<1> QED
  BY <1>2, <1>3, <1>4, <1>5, <1>6

(* The type invariant is kept.                                             *)
LEMMA PodTypeOKStep ==
  ASSUME PodTypes, StepIs PROVE TypeOK'
BY RunsTyped, ResourceTyped, StageTyped, PodsTyped, JobsTyped, ReapersTyped DEF TypeOK, TypeInv

(* What is left of the deferred calls after the last.                      *)
LEMMA FrontOfSeq ==
  ASSUME NEW S, NEW seq \in Seq(S), seq # <<>>, NEW front, front = Front(seq)
  PROVE  /\ front \in Seq(S)
         /\ \A k \in DOMAIN front : k \in DOMAIN seq /\ front[k] = seq[k]
         /\ \A k \in DOMAIN seq : k = Len(seq) \/ k \in DOMAIN front
<1>1. Len(seq) \in Nat /\ DOMAIN seq = 1..Len(seq) /\ Len(seq) # 0
  BY LenProperties, EmptySeq
<1>2. \A k \in 1..Len(seq) - 1 : seq[k] \in S
  BY <1>1, ElementOfSeq
<1>3. front = SubSeq(seq, 1, Len(seq) - 1)
  BY DEF Front
<1>4. /\ front \in Seq(S) /\ Len(front) = Len(seq) - 1
      /\ \A k \in 1..Len(seq) - 1 : front[k] = seq[k]
  <2> DEFINE n == Len(seq) - 1
  <2>1. n \in Int /\ 1 \in Int /\ \A k \in 1..n : seq[k] \in S
    BY <1>1, <1>2
  <2>2. n >= 0
    BY <1>1
  <2> HIDE DEF n
  <2>3. /\ SubSeq(seq, 1, n) \in Seq(S)
        /\ Len(SubSeq(seq, 1, n)) = IF 1 <= n THEN n - 1 + 1 ELSE 0
        /\ \A k \in 1..n - 1 + 1 : SubSeq(seq, 1, n)[k] = seq[1 + k - 1]
    BY <2>1, SubSeqProperties
  <2>8. n \in Int /\ n >= 0 => n = IF 1 <= n THEN n - 1 + 1 ELSE 0
    OBVIOUS
  <2>9. Len(SubSeq(seq, 1, n)) = n
    BY <2>1, <2>2, <2>3, <2>8
  <2>4. front \in Seq(S) /\ Len(front) = n
    BY <1>3, <2>3, <2>9 DEF n
  <2>5. \A k \in 1..n : k \in 1..n - 1 + 1 /\ 1 + k - 1 = k
    BY <2>1
  <2>6. front = SubSeq(seq, 1, n)
    BY <1>3 DEF n
  <2>7. \A k \in 1..n : front[k] = seq[k]
    BY <2>3, <2>5, <2>6
  <2> QED
    BY <2>4, <2>7 DEF n
<1>5. DOMAIN front = 1..Len(seq) - 1
  BY <1>4, LenProperties
<1> QED
  BY <1>1, <1>4, <1>5

(* A recorded call goes on with the rest, or is over.                      *)
LEMMA RecordedCall ==
  ASSUME PodTypes, RecordStarted
  PROVE  /\ InCall /\ started' = started \cup {Last(call.due)}
         /\ \/ call' = Idle /\ Len(call.due) = 1
            \/ call' = [spec |-> call.spec, gen |-> call.gen, due |-> Front(call.due),
                        spawned |-> FALSE]
<1>1. InCall /\ started' = started \cup {Last(call.due)}
  BY DEF RecordStarted
<1>2. \/ call' = Idle /\ Len(call.due) = 1
      \/ call' = [call EXCEPT !.due = Front(@), !.spawned = FALSE]
  BY DEF RecordStarted
<1>3. ASSUME call' = [call EXCEPT !.due = Front(@), !.spawned = FALSE]
      PROVE  call' = [spec |-> call.spec, gen |-> call.gen, due |-> Front(call.due),
                      spawned |-> FALSE]
  <2> DEFINE front == Front(call.due)
             first == [call EXCEPT !.due = front]
  <2>1. call' = [first EXCEPT !.spawned = FALSE]
    BY <1>3
  <2>2. call = [spec |-> call.spec, gen |-> call.gen, due |-> call.due, spawned |-> call.spawned]
    BY DEF PodTypes, CallTypes
  <2> HIDE DEF front
  <2>3. first = [spec |-> call.spec, gen |-> call.gen, due |-> front, spawned |-> call.spawned]
    BY <2>2
  <2> HIDE DEF first
  <2>4. call' = [spec |-> call.spec, gen |-> call.gen, due |-> front, spawned |-> FALSE]
    BY <2>1, <2>3
  <2> QED
    BY <2>4 DEF front
<1> QED
  BY <1>1, <1>2, <1>3

(* The type of the running call.                                           *)
LEMMA CallTyped ==
  ASSUME PodTypes, StepIs PROVE CallTypes'
<1> DEFINE Calls == [spec: Specs \cup {EmptySpec}, gen: Nat, due: Seq(PluginNames),
                     spawned: BOOLEAN]
<1>0. call \in Calls /\ \A k \in DOMAIN call.due : call.due[k] \in DOMAIN call.spec.plugins
  BY DEF PodTypes, CallTypes
<1>1. Idle \in Calls /\ Idle.due = <<>>
  BY DEF Idle
<1>2. ASSUME call' \in Calls, \A k \in DOMAIN call'.due : call'.due[k] \in DOMAIN call'.spec.plugins
      PROVE  CallTypes'
  BY <1>2 DEF CallTypes
<1>3. ASSUME call' = Idle PROVE CallTypes'
  <2>1. call' \in Calls /\ DOMAIN call'.due = {}
    BY <1>1, <1>3
  <2> QED
    BY <1>2, <2>1
<1>4. CASE RunStage
  <2>1. PICK plugins : RunFound(plugins) /\ RunDoes(plugins)
    BY <1>4, RunStageFacts
  <2>2. CASE plugins.due = <<>>
    BY <1>3, <2>1, <2>2 DEF RunDoes
  <2>3. CASE plugins.due # <<>>
    <3>1. call' = [spec |-> spec, gen |-> resource.gen, due |-> plugins.due, spawned |-> FALSE]
      BY <2>1, <2>3 DEF RunDoes
    <3> DEFINE P == DOMAIN spec.plugins \ started
    <3>2. plugins.due \in Seq(P) /\ spec \in Specs /\ resource.gen \in Nat
      BY <1>4, <2>1, RunReady DEF RunFound, Found
    <3>3. P \subseteq DOMAIN spec.plugins /\ DOMAIN spec.plugins \subseteq PluginNames
      BY <3>2, SpecFacts
    <3> DEFINE due == plugins.due
    <3>4. due \in Seq(P) /\ P \subseteq PluginNames
      BY <3>2, <3>3
    <3> HIDE DEF P, due
    <3>5. due \in Seq(PluginNames)
      BY <3>4, SeqMonotonic
    <3>6. \A k \in DOMAIN due : due[k] \in P
      BY <3>4, LenProperties, ElementOfSeq
    <3>7. call' \in Calls
      BY <3>1, <3>2, <3>5 DEF due
    <3>8. \A k \in DOMAIN call'.due : call'.due[k] \in DOMAIN call'.spec.plugins
      BY <3>1, <3>3, <3>6 DEF due
    <3> QED
      BY <1>2, <3>7, <3>8
  <2> QED
    BY <2>2, <2>3
<1>5. CASE Spawn
  <2>1. call' = [call EXCEPT !.spawned = TRUE]
    BY <1>5 DEF Spawn
  <2>2. call' \in Calls /\ call'.due = call.due /\ call'.spec = call.spec
    BY <1>0, <2>1
  <2>3. \A k \in DOMAIN call'.due : call'.due[k] \in DOMAIN call'.spec.plugins
    BY <1>0, <2>2
  <2> QED
    BY <1>2, <2>2, <2>3
<1>6. CASE RecordStarted
  <2>1. /\ InCall
        /\ \/ call' = Idle
           \/ call' = [spec |-> call.spec, gen |-> call.gen, due |-> Front(call.due),
                       spawned |-> FALSE]
    BY <1>6, RecordedCall
  <2>2. CASE call' = [spec |-> call.spec, gen |-> call.gen, due |-> Front(call.due),
                      spawned |-> FALSE]
    <3> DEFINE front == Front(call.due)
               due == call.due
    <3>1. due \in Seq(PluginNames) /\ due # <<>> /\ front = Front(due)
      BY <1>0, <2>1 DEF InCall
    <3>2. call'.due = front /\ call'.spec = call.spec
      BY <2>2
    <3>3. front \in Seq(PluginNames) => call' \in Calls
      BY <1>0, <2>2
    <3>4. \A k \in DOMAIN due : due[k] \in DOMAIN call.spec.plugins
      BY <1>0
    <3> HIDE DEF front, due
    <3>5. /\ front \in Seq(PluginNames)
          /\ \A k \in DOMAIN front : k \in DOMAIN due /\ front[k] = due[k]
      BY <3>1, FrontOfSeq
    <3> QED
      BY <1>2, <3>2, <3>3, <3>4, <3>5
  <2> QED
    BY <1>3, <2>1, <2>2
<1>7. CASE Stop
  BY <1>3, <1>7 DEF Stop
<1>8. CASE ~RunStage /\ ~Spawn /\ ~RecordStarted /\ ~Stop
  <2>1. call' = call
    BY <1>8, FramesOfUsers, FramesOfStages, FramesOfGoroutines, FramesOfPods DEF StepIs
  <2> QED
    BY <1>0, <1>2, <2>1
<1> QED
  BY <1>4, <1>5, <1>6, <1>7, <1>8

(* Calls keep the stage they are in.                                       *)
LEMMA InCallSteps ==
  ASSUME PodTypes, StepIs, InCall'
  PROVE  \/ RunStage /\ call'.gen = resource.gen
         \/ InCall /\ call'.gen = call.gen /\ stage' = stage /\ resource'.uid = resource.uid
<1>1. CASE RunStage
  <2>1. PICK plugins : RunDoes(plugins)
    BY <1>1, RunStageFacts
  <2>2. plugins.due # <<>>
    BY <2>1 DEF RunDoes, InCall, Idle
  <2> QED
    BY <1>1, <2>1, <2>2 DEF RunDoes
<1>2. CASE Spawn
  <2>1. call' = [call EXCEPT !.spawned = TRUE] /\ InCall
    BY <1>2 DEF Spawn
  <2>2. call'.gen = call.gen
    BY <2>1 DEF PodTypes, CallTypes
  <2> QED
    BY <1>2, <2>1, <2>2, FramesOfCalls
<1>3. CASE RecordStarted
  <2>1. InCall /\ (call' = Idle \/ call'.gen = call.gen)
    BY <1>3, RecordedCall
  <2> QED
    BY <1>3, <2>1, FramesOfCalls DEF InCall, Idle
<1>4. CASE Stop
  BY <1>4 DEF Stop, InCall, Idle
<1>5. CASE NewStage \/ NextStage \/ EndWorkflow \/ ResourceGone
  <2>1. ~InCall /\ call' = call
    BY <1>5, FramesOfStages DEF NewStage, NextStage, EndWorkflow, ResourceGone
  <2> QED
    BY <2>1 DEF InCall
<1>6. CASE CreateResource \/ EditSpec \/ DeleteResource
  <2>1. call' = call /\ stage' = stage
    BY <1>6, FramesOfUsers
  <2>2. InCall /\ resource.uid = 1 /\ resource \in Resource
    BY <2>1 DEF InCall, PodTypes, ResourceTypes, TypeOK, TypeInv
  <2>3. ~CreateResource
    BY <2>2 DEF CreateResource, Create
  <2>4. resource'.uid = resource.uid
    BY <1>6, <2>2, <2>3 DEF EditSpec, DeleteResource, Edit, Delete, Resource
  <2> QED
    BY <2>1, <2>2, <2>4
<1>7. CASE /\ ~RunStage /\ ~Spawn /\ ~RecordStarted /\ ~Stop
           /\ ~(NewStage \/ NextStage \/ EndWorkflow \/ ResourceGone)
           /\ ~(CreateResource \/ EditSpec \/ DeleteResource)
  <2>1. call' = call /\ stage' = stage /\ resource' = resource
    BY <1>7, FramesOfGoroutines, FramesOfPods DEF StepIs
  <2> QED
    BY <2>1 DEF InCall
<1> QED
  BY <1>1, <1>2, <1>3, <1>4, <1>5, <1>6, <1>7

(* What users and calls do to the resource.                                *)
LEMMA UserSteps ==
  ASSUME PodTypes
  PROVE  /\ CreateResource => /\ resource.uid = 0 /\ resource'.uid = 1 /\ resource'.gen = 1
                              /\ stage = NoStage /\ spec' \in Specs
                              /\ \A i \in 1..Len(runs) : runs[i].uid # 1
         /\ EditSpec \/ DeleteResource => /\ resource.uid = 1 /\ resource'.uid = 1
                                          /\ resource'.gen = resource.gen + 1
                                          /\ resource.gen < MaxGen /\ spec' \in Specs
<1>1. resource \in Resource /\ resource.uid \in {0, 1}
  BY DEF PodTypes, TypeOK, TypeInv, ResourceTypes
<1>2. ASSUME CreateResource
      PROVE  /\ resource.uid = 0 /\ resource'.uid = 1 /\ resource'.gen = 1
             /\ stage = NoStage /\ spec' \in Specs
             /\ \A i \in 1..Len(runs) : runs[i].uid # 1
  <2>1. resource.uid = 0 /\ resource' = [uid |-> 1, gen |-> 1, deleting |-> FALSE]
    BY <1>2 DEF CreateResource, Create
  <2>2. \A i \in 1..Len(runs) : runs[i].uid # resource'.uid
    BY <1>2 DEF CreateResource, Create
  <2>3. stage = NoStage
    BY <2>1 DEF PodTypes, ResourceTypes
  <2> QED
    BY <1>2, <2>1, <2>2, <2>3 DEF CreateResource
<1>3. ASSUME EditSpec \/ DeleteResource
      PROVE  /\ resource.uid = 1 /\ resource'.uid = 1
             /\ resource'.gen = resource.gen + 1
             /\ resource.gen < MaxGen /\ spec' \in Specs
  <2>1. /\ resource.uid = 1 /\ resource.gen < MaxGen
        /\ resource'.uid = resource.uid /\ resource'.gen = resource.gen + 1
    BY <1>1, <1>3 DEF EditSpec, DeleteResource, Edit, Delete, Resource
  <2>2. spec' \in Specs
    BY <1>3, <2>1, FramesOfUsers DEF EditSpec, PodTypes, ResourceTypes
  <2> QED
    BY <2>1, <2>2
<1> QED
  BY <1>2, <1>3

(* The steps, by what they do to the resource.                             *)
LEMMA ResourceSteps ==
  ASSUME PodTypes, StepIs
  PROVE  \/ /\ CreateResource /\ resource.uid = 0 /\ resource'.uid = 1 /\ resource'.gen = 1
            /\ stage = NoStage /\ spec' \in Specs /\ runs' = runs /\ stage' = stage
            /\ \A i \in 1..Len(runs) : runs[i].uid # 1
         \/ /\ EditSpec \/ DeleteResource
            /\ resource.uid = 1 /\ resource'.uid = 1 /\ resource'.gen = resource.gen + 1
            /\ resource.gen < MaxGen /\ runs' = runs /\ stage' = stage
            /\ spec' \in Specs
         \/ ResourceGone /\ resource' = NoResource /\ stage' = NoStage /\ runs' = runs
         \/ UNCHANGED <<resource, spec>>
<1>2. CASE CreateResource \/ EditSpec \/ DeleteResource
  BY <1>2, UserSteps, FramesOfUsers
<1>4. CASE ResourceGone
  BY <1>4, StageSteps, FramesOfStages
<1>5. CASE ~CreateResource /\ ~EditSpec /\ ~DeleteResource /\ ~ResourceGone
  BY <1>5, FramesOfStages, FramesOfCalls, FramesOfGoroutines, FramesOfPods DEF StepIs
<1> QED
  BY <1>2, <1>4, <1>5

(* ... and to the stage.                                                   *)
LEMMA StageMoves ==
  ASSUME PodTypes, StepIs
  PROVE  \/ NewStage /\ UNCHANGED <<resource, spec, runs>>
         \/ NextStage /\ UNCHANGED <<resource, spec, runs>>
         \/ ResourceGone /\ stage' = NoStage /\ resource' = NoResource
         \/ stage' = stage
<1>1. CASE NewStage \/ NextStage
  BY <1>1, FramesOfStages
<1>2. CASE ResourceGone
  BY <1>2, StageSteps
<1>3. CASE ~NewStage /\ ~NextStage /\ ~ResourceGone
  BY <1>3, FramesOfUsers, FramesOfStages, FramesOfCalls, FramesOfGoroutines, FramesOfPods
     DEF StepIs
<1> QED
  BY <1>1, <1>2, <1>3

(* The resource and the stage keep in step.                                *)
LEMMA ResourceTypesStep ==
  ASSUME PodTypes, StepIs PROVE ResourceTypes'
<1>1. /\ resource \in Resource /\ stage \in StageOf /\ resource.uid \in {0, 1}
      /\ resource.uid = 0 => resource = NoResource /\ stage = NoStage
      /\ resource.uid = 1 => spec \in Specs /\ resource.gen \in Gens
      /\ stage.gen <= resource.gen
      /\ stage.task # RunNil => stage.gen \in Gens
      /\ InCall => resource.uid = 1 /\ stage.task \in TaskName /\ call.gen = stage.gen
  BY DEF PodTypes, TypeOK, TypeInv, ResourceTypes
<1>2. /\ resource.gen \in Nat /\ stage.gen \in Nat /\ MaxGen \in Nat /\ 1 \in Gens
      /\ Gens = 1..MaxGen
  BY <1>1, BoundsAssumption DEF Resource, StageOf, Gens
<1>3. /\ resource'.uid \in {0, 1}
      /\ resource'.uid = 0 => resource' = NoResource /\ stage' = NoStage
      /\ resource'.uid = 1 => spec' \in Specs /\ resource'.gen \in Gens
  <2>1. CASE UNCHANGED <<resource, spec>>
    <3>1. resource.uid = 0 => ~NewStage /\ ~NextStage
      BY StageSteps
    <3>2. resource.uid = 0 => stage' = NoStage
      BY <1>1, <2>1, <3>1, StageMoves
    <3> QED
      BY <1>1, <2>1, <3>2
  <2>2. CASE resource' = NoResource /\ stage' = NoStage
    BY <2>2 DEF NoResource
  <2>3. CASE resource'.uid = 1 /\ resource'.gen = 1 /\ spec' \in Specs
    BY <1>2, <2>3
  <2>4. CASE /\ resource.uid = 1 /\ resource'.uid = 1 /\ resource'.gen = resource.gen + 1
             /\ resource.gen < MaxGen /\ spec' \in Specs
    BY <1>1, <1>2, <2>4
  <2> QED
    BY <2>1, <2>2, <2>3, <2>4, ResourceSteps
<1>4. /\ stage'.gen <= resource'.gen
      /\ stage'.task # RunNil => stage'.gen \in Gens
  <2>1. CASE NewStage /\ resource' = resource
    BY <1>1, <1>2, <2>1, StageSteps
  <2>2. CASE NextStage /\ resource' = resource
    BY <1>1, <1>2, <2>2, StageSteps
  <2>3. CASE stage' = NoStage /\ resource' = NoResource
    BY <2>3 DEF NoStage, NoResource
  <2>4. CASE stage' = stage
    <3>1. \/ resource'.gen \in {resource.gen, resource.gen + 1}
          \/ stage = NoStage /\ resource'.gen = 1
          \/ resource' = NoResource /\ stage' = NoStage
      BY ResourceSteps
    <3>2. stage'.gen <= resource'.gen
      BY <1>1, <1>2, <2>3, <2>4, <3>1 DEF NoStage
    <3> QED
      BY <1>1, <2>4, <3>2
  <2> QED
    BY <2>1, <2>2, <2>3, <2>4, StageMoves
<1>5. ASSUME InCall' PROVE resource'.uid = 1 /\ stage'.task \in TaskName /\ call'.gen = stage'.gen
  <2>1. CASE RunStage /\ call'.gen = resource.gen
    BY <2>1, RunReady, FramesOfCalls
  <2>2. CASE InCall /\ call'.gen = call.gen /\ stage' = stage /\ resource'.uid = resource.uid
    BY <1>1, <2>2
  <2> QED
    BY <1>5, <2>1, <2>2, InCallSteps
<1> QED
  BY <1>3, <1>4, <1>5 DEF ResourceTypes

(* All of the types are kept.                                              *)
LEMMA PodTypesStep ==
  ASSUME PodTypes, StepIs PROVE PodTypes'
BY PodTypeOKStep, CallTyped, ResourceTypesStep DEF PodTypes

-----------------------------------------------------------------------------
(***************************************************************************)
(* The runs and their stage.                                               *)
(***************************************************************************)
(* A step keeps the runs, ends one or starts one for the stage.            *)
LEMMA RunSteps ==
  ASSUME PodTypes, StepIs
  PROVE  /\ Len(runs) \in Nat /\ runs' \in Seq(Run) /\ Len(runs') \in Nat
         /\ \A k \in 1..Len(runs) : k \in 1..Len(runs') /\ SameRun(runs'[k], runs[k])
         /\ \A k \in 1..Len(runs) : runs[k].result = "succeeded" => runs'[k].result = "succeeded"
         /\ \/ Len(runs') = Len(runs)
            \/ /\ RunStage /\ Start /\ Len(runs') = Len(runs) + 1
               /\ SameRun(runs'[Len(runs')], [uid |-> 1, gen |-> stage.gen, task |-> stage.task])
<1>1. runs \in Seq(Run) /\ TypeInv /\ Len(runs) \in Nat
  BY LenProperties DEF PodTypes, TypeOK, TypeInv
<1>2. runs' \in Seq(Run) /\ Len(runs') \in Nat
  BY RunsTyped, LenProperties
<1>3. CASE runs' = runs
  BY <1>1, <1>3 DEF SameRun
<1>4. CASE RunEnds
  <2>1. /\ Len(runs') = Len(runs)
        /\ \A k \in 1..Len(runs) : SameRun(runs'[k], runs[k])
        /\ \A k \in 1..Len(runs) : runs[k].result # "running" => runs'[k] = runs[k]
    BY <1>1, <1>4, EndedRun
  <2> QED
    BY <1>1, <1>2, <2>1
<1>5. CASE RunStage /\ Start
  <2>1. /\ Len(runs') = Len(runs) + 1
        /\ \A k \in 1..Len(runs) : runs'[k] = runs[k]
        /\ runs'[Len(runs) + 1].uid = resource.uid /\ runs'[Len(runs) + 1].gen = stage.gen
        /\ runs'[Len(runs) + 1].task = stage.task
    BY <1>1, <1>5, StartedRun
  <2>2. resource.uid = 1
    BY <1>5, RunReady
  <2>3. SameRun(runs'[Len(runs')], [uid |-> 1, gen |-> stage.gen, task |-> stage.task])
    BY <2>1, <2>2 DEF SameRun
  <2>4. \A k \in 1..Len(runs) : k \in 1..Len(runs') /\ SameRun(runs'[k], runs[k])
    BY <1>1, <2>1 DEF SameRun
  <2> QED
    BY <1>1, <1>2, <1>5, <2>1, <2>3, <2>4
<1> QED
  BY <1>3, <1>4, <1>5, RunsTyped

(* What has succeeded stays so.                                            *)
LEMMA SucceededStays ==
  ASSUME PodTypes, StepIs, NEW gen, NEW task, Succeeded(gen, task)
  PROVE  Succeeded(gen, task)'
<1>1. PICK k \in 1..Len(runs) : IsRunOf(runs[k], 1, gen, task) /\ runs[k].result = "succeeded"
  BY DEF Succeeded, InState
<1>2. k \in 1..Len(runs') /\ SameRun(runs'[k], runs[k]) /\ runs'[k].result = "succeeded"
  BY <1>1, RunSteps
<1>3. IsRunOf(runs'[k], 1, gen, task)
  BY <1>1, <1>2 DEF IsRunOf, SameRun
<1> QED
  BY <1>2, <1>3 DEF Succeeded, InState

(* The generations of the runs do not change, but for one of the stage.    *)
LEMMA GenerationsOfRuns ==
  ASSUME PodTypes, StepIs, NEW k \in 1..Len(runs')
  PROVE  \/ k \in 1..Len(runs) /\ SameRun(runs'[k], runs[k])
         \/ /\ RunStage /\ Start /\ stage' = stage /\ k = Len(runs')
            /\ runs'[k].uid = 1 /\ runs'[k].gen = stage.gen /\ runs'[k].task = stage.task
<1>1. CASE k \in 1..Len(runs)
  BY <1>1, RunSteps
<1>2. CASE k \notin 1..Len(runs)
  <2>1. /\ RunStage /\ Start /\ Len(runs') = Len(runs) + 1 /\ Len(runs) \in Nat
        /\ SameRun(runs'[Len(runs')], [uid |-> 1, gen |-> stage.gen, task |-> stage.task])
    BY <1>2, RunSteps
  <2>2. k = Len(runs')
    BY <1>2, <2>1
  <2>3. runs'[k].uid = 1 /\ runs'[k].gen = stage.gen /\ runs'[k].task = stage.task
    BY <2>1, <2>2 DEF SameRun
  <2> QED
    BY <2>1, <2>2, <2>3, FramesOfCalls
<1> QED
  BY <1>1, <1>2

(* No run is ahead of the stage.                                           *)
LEMMA RunsAreOldStep ==
  ASSUME PodTypes, RunsAreOld, StepIs PROVE RunsAreOld'
<1> SUFFICES ASSUME NEW k \in 1..Len(runs')
             PROVE  /\ runs'[k].uid = 1 /\ runs'[k].gen \in Gens
                    /\ resource'.uid = 1 => runs'[k].gen <= stage'.gen
  BY DEF RunsAreOld, Gens
<1>1. /\ stage.gen \in Nat /\ resource.gen \in Nat /\ resource.uid \in {0, 1}
      /\ stage \in StageOf /\ Gens \subseteq Nat
  BY BoundsAssumption DEF PodTypes, TypeOK, TypeInv, StageOf, Resource, ResourceTypes, Gens
<1>2. CASE /\ RunStage /\ stage' = stage /\ runs'[k].uid = 1 /\ runs'[k].gen = stage.gen
  <2>1. stage.gen \in Gens
    BY <1>2, RunReady
  <2> QED
    BY <1>1, <1>2, <2>1
<1>3. CASE k \in 1..Len(runs) /\ SameRun(runs'[k], runs[k])
  <2>1. runs[k].uid = 1 /\ runs[k].gen \in Gens /\ (resource.uid = 1 => runs[k].gen <= stage.gen)
    BY <1>3 DEF RunsAreOld
  <2>2. runs'[k].uid = 1 /\ runs'[k].gen = runs[k].gen
    BY <1>3, <2>1 DEF SameRun
  <2>3. ASSUME resource'.uid = 1 PROVE runs[k].gen <= stage'.gen
    <3>1. resource.uid = 1
      <4>1. ~(\A i \in 1..Len(runs) : runs[i].uid # 1)
        BY <1>3, <2>1
      <4> QED
        BY <2>3, <4>1, ResourceSteps DEF NoResource
    <3>2. stage'.gen = stage.gen \/ (NewStage /\ stage'.gen = resource.gen)
      <4>1. ~ResourceGone
        <5>1. NoResource.uid = 0
          BY DEF NoResource
        <5>2. ResourceGone => resource' = NoResource
          BY StageSteps
        <5> QED
          BY <2>3, <5>1, <5>2
      <4>2. NewStage => stage'.gen = resource.gen
        BY StageSteps
      <4>3. NextStage => stage'.gen = stage.gen
        BY StageSteps
      <4> QED
        BY <4>1, <4>2, <4>3, StageMoves
    <3>3. NewStage => stage.gen < resource.gen
      BY StageSteps
    <3>4. runs[k].gen \in Nat /\ runs[k].gen <= stage.gen
      BY <1>1, <2>1, <3>1
    <3>5. CASE stage'.gen = stage.gen
      BY <3>4, <3>5
    <3>6. CASE NewStage /\ stage'.gen = resource.gen
      <4>1. runs[k].gen <= resource.gen
        BY <1>1, <3>3, <3>4, <3>6
      <4> QED
        BY <3>6, <4>1
    <3> QED
      BY <3>2, <3>5, <3>6
  <2> QED
    BY <2>1, <2>2, <2>3
<1> QED
  BY <1>2, <1>3, GenerationsOfRuns

(* No stage is entered before its predecessors have succeeded.             *)
LEMMA StageReadyStep ==
  ASSUME PodTypes, RunsAreOld, StageReady, StepIs PROVE StageReady'
<1> DEFINE Ready(g, u) == \A t \in ConfiguredTasks \cap WorkflowOf(u) :
                            Before(t, u) => Succeeded(g, t)'
           Done(g) == \A t \in ConfiguredTasks \cap CreateTasks : Succeeded(g, t)'
<1> PICK gen, task : gen = stage.gen /\ task = stage.task
  OBVIOUS
<1> PICK newGen, newTask : newGen = stage'.gen /\ newTask = stage'.task
  OBVIOUS
<1>0. /\ \A t \in ConfiguredTasks \cap WorkflowOf(task) : Before(t, task) => Succeeded(gen, t)
      /\ completed => task = RunNil
           /\ \A t \in ConfiguredTasks \cap CreateTasks : Succeeded(gen, t)
  BY DEF StageReady, Succeeded
<1>1. Ready(gen, task) /\ (completed => Done(gen))
  BY <1>0, SucceededStays
<1>2. ASSUME Ready(newGen, newTask), completed' => newTask = RunNil /\ Done(newGen)
      PROVE  StageReady'
  BY <1>2 DEF StageReady, ConfiguredTasks, Succeeded, InState, IsRunOf
<1>3. CASE NewStage
  <2>1. completed' = FALSE /\ newTask \in {"setup", "setup-delete"}
    BY <1>3, StageSteps
  <2>2. Ready(newGen, newTask)
    BY <2>1, SetupIsFirst
  <2> HIDE DEF Ready, Done
  <2> QED
    BY <1>2, <2>1, <2>2
<1>4. CASE NextStage
  <2>1. /\ resource.uid = 1 /\ completed' = completed /\ stage.task # RunNil
        /\ StageIs("succeeded")
        /\ stage' = [gen |-> stage.gen, task |-> NextTask(stage.task, ConfiguredTasks)]
    BY <1>4, StageSteps
  <2>2. Succeeded(stage.gen, stage.task)
    BY <2>1 DEF StageIs, Succeeded, InState
  <2>3. Succeeded(gen, task)
    BY <2>2 DEF Succeeded
  <2>4. Succeeded(gen, task)'
    BY <2>3, SucceededStays
  <2>5. task \in TaskName
    BY <2>1 DEF PodTypes, TypeOK, TypeInv, StageOf
  <2>6. ConfiguredTasks \in SUBSET TaskName
    BY AffectedTasks, ConfiguredAreTasks DEF ConfiguredTasks
  <2> DEFINE next == NextTask(task, ConfiguredTasks)
  <2>7. newGen = gen /\ newTask = next
    BY <2>1
  <2>8. ASSUME NEW t \in ConfiguredTasks \cap WorkflowOf(next), Before(t, next)
        PROVE  Succeeded(gen, t)'
    <3>1. next # RunNil /\ WorkflowOf(next) = WorkflowOf(task)
      <4>1. next # RunNil
        BY <2>8, NilIsNoTask DEF WorkflowOf
      <4> QED
        BY <4>1, NextTaskResult, WorkflowOfLater
    <3>2. t = task \/ Before(t, task)
      BY <2>5, <2>6, <2>8, <3>1, NothingIsSkipped
    <3>3. CASE t = task
      BY <2>4, <3>3
    <3>4. CASE Before(t, task)
      <4>1. t \in ConfiguredTasks \cap WorkflowOf(task)
        BY <2>8, <3>1
      <4> QED
        BY <1>1, <3>4, <4>1
    <3> QED
      BY <3>2, <3>3, <3>4
  <2>9. Ready(newGen, newTask)
    BY <2>7, <2>8
  <2>10. completed' = FALSE
    BY <1>0, <2>1 DEF PodTypes, TypeOK, TypeInv
  <2> HIDE DEF Ready, Done
  <2> QED
    BY <1>2, <2>9, <2>10
<1>5. CASE EndWorkflow
  <2>1. /\ stage' = stage /\ stage.task = RunNil
        /\ \A t \in ConfiguredTasks \cap CreateTasks :
             InState(resource.uid, stage.gen, t, "succeeded")
    BY <1>5, FramesOfStages DEF EndWorkflow, Complete
  <2>2. ASSUME NEW t \in ConfiguredTasks \cap CreateTasks PROVE Succeeded(gen, t)
    <3>1. InState(resource.uid, stage.gen, t, "succeeded")
      BY <2>1
    <3> QED
      BY <3>1 DEF Succeeded, InState, IsRunOf, RunsAreOld
  <2>3. Done(gen)
    BY <2>2, SucceededStays
  <2> HIDE DEF Ready, Done
  <2>4. Ready(newGen, newTask) /\ Done(newGen) /\ newTask = RunNil
    BY <1>1, <2>1, <2>3
  <2> QED
    BY <1>2, <2>4
<1>6. CASE ResourceGone
  <2>1. stage' = NoStage /\ completed' = FALSE
    BY <1>6, StageSteps
  <2>2. Ready(newGen, newTask)
    BY <2>1, NilIsNoTask DEF NoStage, WorkflowOf
  <2> HIDE DEF Ready, Done
  <2> QED
    BY <1>2, <2>1, <2>2
<1>7. CASE ~NewStage /\ ~NextStage /\ ~EndWorkflow /\ ~ResourceGone
  <2>1. stage' = stage /\ completed' = completed
    BY <1>7, FramesOfUsers, FramesOfCalls, FramesOfGoroutines, FramesOfPods DEF StepIs
  <2> HIDE DEF Ready, Done
  <2>2. Ready(newGen, newTask) /\ (completed' => newTask = RunNil /\ Done(newGen))
    BY <1>0, <1>1, <2>1
  <2> QED
    BY <1>2, <2>2
<1> QED
  BY <1>3, <1>4, <1>5, <1>6, <1>7

-----------------------------------------------------------------------------
(***************************************************************************)
(* The plugins.                                                            *)
(***************************************************************************)
LEMMA SpawnedCall ==
  ASSUME PodTypes, Spawn
  PROVE  InCall /\ call'.due = call.due /\ call'.spec = call.spec /\ InCall'
<1>1. InCall /\ call' = [call EXCEPT !.spawned = TRUE]
  BY DEF Spawn
<1>2. call'.due = call.due /\ call'.spec = call.spec
  BY <1>1 DEF PodTypes, CallTypes
<1> QED
  BY <1>1, <1>2 DEF InCall

(* What is deferred is due at the stage of the call.                       *)
LEMMA DueAtStageStep ==
  ASSUME PodTypes, DueAtStage, StepIs PROVE DueAtStage'
<1> SUFFICES ASSUME InCall' PROVE AllDue(call'.spec, stage'.task, call'.due)
  BY DEF DueAtStage
<1>1. CASE RunStage
  <2>1. PICK plugins : RunFound(plugins) /\ RunDoes(plugins)
    BY <1>1, RunStageFacts
  <2>2. plugins.due # <<>>
    BY <2>1 DEF RunDoes, InCall, Idle
  <2>3. call'.spec = spec /\ call'.due = plugins.due /\ stage' = stage
    BY <1>1, <2>1, <2>2, FramesOfCalls DEF RunDoes
  <2> QED
    BY <2>1, <2>3 DEF RunFound
<1>2. CASE Spawn
  <2>1. InCall /\ call'.due = call.due /\ call'.spec = call.spec /\ stage' = stage
    BY <1>2, SpawnedCall, FramesOfCalls
  <2> QED
    BY <2>1 DEF DueAtStage
<1>3. CASE RecordStarted
  <2>1. /\ InCall /\ stage' = stage
        /\ call' = [spec |-> call.spec, gen |-> call.gen, due |-> Front(call.due),
                    spawned |-> FALSE]
    BY <1>3, RecordedCall, FramesOfCalls DEF InCall, Idle
  <2> DEFINE front == Front(call.due)
             due == call.due
  <2>2. due \in Seq(PluginNames) /\ due # <<>> /\ front = Front(due) /\ call'.due = front
    BY <2>1 DEF InCall, PodTypes, CallTypes
  <2>3. AllDue(call.spec, stage.task, due)
    BY <2>1 DEF DueAtStage
  <2> HIDE DEF front, due
  <2>4. \A k \in DOMAIN front : k \in DOMAIN due /\ front[k] = due[k]
    BY <2>2, FrontOfSeq
  <2>5. AllDue(call.spec, stage.task, front)
    BY <2>3, <2>4 DEF AllDue
  <2> QED
    BY <2>1, <2>2, <2>5
<1>4. CASE ~RunStage /\ ~Spawn /\ ~RecordStarted
  <2>1. ~Stop
    BY DEF Stop, InCall, Idle
  <2>2. call' = call
    BY <1>4, <2>1, FramesOfUsers, FramesOfStages, FramesOfGoroutines, FramesOfPods DEF StepIs
  <2>3. InCall /\ stage' = stage
    BY <1>4, InCallSteps
  <2> QED
    BY <2>2, <2>3 DEF DueAtStage
<1> QED
  BY <1>1, <1>2, <1>3, <1>4

(* A job is created after the task it waits for.                           *)
LEMMA JobsAreAfterStep ==
  ASSUME PodTypes, StageReady, DueAtStage, JobsAreAfter, StepIs PROVE JobsAreAfter'
<1> DEFINE Sound(j) == j.after \in WorkflowOf(j.at) \cap ConfiguredTasks
                         => Succeeded(j.gen, j.after)'
<1>1. ASSUME NEW j \in jobs \cup creators PROVE Sound(j)
  BY SucceededStays DEF JobsAreAfter
<1>2. ASSUME \A j \in jobs' \cup creators' : Sound(j) PROVE JobsAreAfter'
  BY <1>2 DEF JobsAreAfter, ConfiguredTasks
<1>3. CASE Spawn
  <2>1. InCall
    BY <1>3 DEF Spawn
  <2> PICK p, plugin, gen, task, valid :
           /\ p = Last(call.due) /\ plugin = call.spec.plugins[p]
           /\ gen = call.gen /\ task = stage.task
           /\ valid = (GetPluginSidecarPod(call.spec, p, call.gen) # NoPod)
    OBVIOUS
  <2> DEFINE job == [plugin |-> p, gen |-> gen, at |-> task, late |-> FALSE,
                     after |-> IF plugin.when = "After" THEN plugin.task ELSE RunNil,
                     valid |-> valid]
  <2>2. creators' = creators \cup {job} /\ jobs' = jobs
    BY <1>3 DEF Spawn
  <2>3. /\ IsDue(call.spec, p, task) /\ task \in TaskName /\ gen = stage.gen
        /\ plugin \in Plugin
    BY <2>1, LastDue DEF DueAtStage, AllDue, PodTypes, ResourceTypes
  <2>4. ASSUME job.after \in WorkflowOf(job.at) \cap ConfiguredTasks
        PROVE  Succeeded(job.gen, job.after)'
    <3>1. job.after # RunNil
      BY <2>4, NilIsNoTask DEF WorkflowOf
    <3>2. plugin.when = "After" /\ job.after = plugin.task /\ job.gen = gen /\ job.at = task
      BY <3>1
    <3>3. Before(plugin.task, task)
      BY <2>3, <3>2 DEF IsDue, Before
    <3> PICK after : after = plugin.task
      OBVIOUS
    <3>4. Succeeded(gen, after)
      <4>1. after \in ConfiguredTasks \cap WorkflowOf(stage.task)
        BY <2>4, <3>2
      <4>2. Succeeded(stage.gen, after)
        BY <3>3, <4>1 DEF StageReady
      <4> QED
        BY <2>3, <4>2
    <3>5. Succeeded(gen, after)'
      BY <3>4, SucceededStays
    <3> QED
      BY <3>2, <3>5
  <2> HIDE DEF job
  <2> QED
    BY <1>1, <1>2, <2>2, <2>4
<1>4. CASE JobCreated
  <2>1. PICK c \in creators : CreateJob(c)
    BY <1>4 DEF JobCreated
  <2> DEFINE late == stage.gen # c.gen
  <2>2. PICK job : job = [c EXCEPT !.late = late]
    OBVIOUS
  <2>3. creators' = creators \ {c} /\ jobs' = jobs \cup {job}
    BY <2>1, <2>2 DEF CreateJob
  <2>4. c \in Job
    BY DEF PodTypes, TypeOK
  <2> HIDE DEF late
  <2>5. job.after = c.after /\ job.at = c.at /\ job.gen = c.gen
    BY <2>2, <2>4 DEF Job
  <2>6. Sound(job)
    BY <1>1, <2>5
  <2> HIDE DEF Sound
  <2> QED
    BY <1>1, <1>2, <2>3, <2>6
<1>5. CASE ~Spawn /\ ~JobCreated
  <2>1. jobs' \subseteq jobs /\ creators' \subseteq creators
    <3>1. ReaperEnds => jobs' \subseteq jobs
      BY DEF ReaperEnds, ReaperDeletes
    <3>2. (ResourceGone => jobs' = {}) /\ (Stop => creators' = {})
      BY DEF ResourceGone, Stop
    <3>3. CASE ReaperEnds \/ ResourceGone \/ Stop
      BY <3>1, <3>2, <3>3, FramesOfStages, FramesOfGoroutines
    <3>4. CASE ~ReaperEnds /\ ~ResourceGone /\ ~Stop
      <4>1. jobs' = jobs /\ creators' = creators
        BY <1>5, <3>4, FramesOfUsers, FramesOfStages, FramesOfCalls, FramesOfGoroutines,
           FramesOfPods DEF StepIs
      <4> QED
        BY <4>1
    <3> QED
      BY <3>3, <3>4
  <2> HIDE DEF Sound
  <2> QED
    BY <1>1, <1>2, <2>1
<1> QED
  BY <1>3, <1>4, <1>5

(* What a run of the stage puts in front of the others.                    *)
LEMMA NotTheFirst ==
  ASSUME PodTypes, StageReady, stage.task \in TaskName, ~IsChanged
  PROVE  \E i \in 1..Len(runs) : runs[i].gen = stage.gen
<1> DEFINE first == IF stage.task \in CreateTasks THEN "setup" ELSE "setup-delete"
<1>1. {"setup", "setup-delete"} \subseteq ConfiguredTasks
  BY DEF ConfiguredTasks, GetConfiguredTasks, AlwaysConfigured
<1>2. first \in WorkflowOf(stage.task) /\ stage.task \in WorkflowOf(first) /\ first \in TaskName
  BY CreateTaskIDs, DeleteTaskIDs, WorkflowsOfTasks DEF TaskName
<1>3. stage.task # first
  BY DEF IsChanged, SetupTasks
<1>4. Before(first, stage.task)
  BY <1>2, <1>3, BeforeIsTotal, SetupIsFirst
<1>5. Succeeded(stage.gen, first)
  BY <1>1, <1>2, <1>4 DEF StageReady
<1> QED
  BY <1>5 DEF Succeeded, InState, IsRunOf

(* The plugins of each run are started or deferred.                        *)
LEMMA DueByRunsStep ==
  ASSUME PodTypes, RunsAreOld, DueByRuns, StepIs PROVE DueByRuns'
<1> SUFFICES ASSUME crashes' = 0, resource'.uid = 1, WorkedOn',
                    NEW k \in 1..Len(runs'), runs'[k].gen = stage'.gen,
                    NEW p \in DOMAIN spec'.plugins, IsDue(spec', p, runs'[k].task)
             PROVE  p \in started' \/ In(p, call'.due)
  BY DEF DueByRuns, In
<1>0. /\ resource.gen \in Nat /\ stage.gen \in Nat /\ stage.gen <= resource.gen
      /\ crashes \in Nat /\ NoStage.gen = 0 /\ NoResource.uid = 0 /\ MaxCrashes \in Nat
      /\ stage'.gen = resource'.gen
  BY BoundsAssumption DEF PodTypes, TypeOK, TypeInv, Resource, StageOf, ResourceTypes, NoStage,
     NoResource, WorkedOn
<1>1. /\ resource' = resource /\ spec' = spec /\ ~CreateResource /\ ~EditSpec
      /\ ~DeleteResource /\ ~ResourceGone
  <2>1. CASE CreateResource \/ EditSpec \/ DeleteResource
    <3>1. stage' = stage
      BY <2>1, FramesOfUsers
    <3>2. CASE CreateResource
      <4>1. resource'.gen = 1 /\ stage = NoStage
        BY <3>2, UserSteps
      <4> QED
        BY <1>0, <3>1, <4>1
    <3>3. CASE EditSpec \/ DeleteResource
      <4>1. resource'.gen = resource.gen + 1
        BY <3>3, UserSteps
      <4>2. resource'.gen = stage.gen
        BY <1>0, <3>1
      <4> QED
        BY <1>0, <4>1, <4>2
    <3> QED
      BY <2>1, <3>2, <3>3
  <2>2. ~ResourceGone
    <3>1. ResourceGone => resource' = NoResource
      BY StageSteps
    <3> QED
      BY <1>0, <3>1
  <2>3. CASE UNCHANGED <<resource, spec>> /\ ~(CreateResource \/ EditSpec \/ DeleteResource)
    BY <2>2, <2>3
  <2> QED
    BY <2>1, <2>2, <2>3, ResourceSteps
<1>2. crashes = 0 /\ ~Stop /\ ~ReaperLost /\ ~PodLost
  <2>1. ~Stop /\ ~ReaperLost /\ ~PodLost
    BY <1>0 DEF Stop, ReaperLost, ReaperFails, PodLost
  <2> QED
    BY <1>1, <2>1, FramesOfStages, FramesOfCalls, FramesOfGoroutines, FramesOfPods DEF StepIs
<1>3. ~NewStage
  <2>1. ASSUME NewStage PROVE FALSE
    <3>1. stage'.gen = resource.gen /\ stage.gen < resource.gen /\ resource.uid = 1
      BY <2>1, StageSteps
    <3>2. runs' = runs
      BY <2>1, FramesOfStages
    <3>3. runs[k].gen <= stage.gen
      BY <3>1, <3>2 DEF RunsAreOld
    <3> QED
      BY <1>0, <3>1, <3>2, <3>3
  <2> QED
    BY <2>1
<1>4. stage'.gen = stage.gen /\ WorkedOn /\ resource.uid = 1
  <2>1. stage'.gen = stage.gen
    BY <1>1, <1>3, StageMoves, StageSteps
  <2> QED
    BY <1>0, <1>1, <2>1 DEF WorkedOn
<1>5. ASSUME k \in 1..Len(runs), SameRun(runs'[k], runs[k])
      PROVE  p \in started \/ In(p, call.due)
  <2>1. runs[k].gen = stage.gen /\ IsDue(spec, p, runs[k].task)
    BY <1>1, <1>4, <1>5 DEF SameRun
  <2> QED
    BY <1>1, <1>2, <1>4, <1>5, <2>1 DEF DueByRuns
<1>6. CASE RunStage
  <2>1. PICK plugins : RunFound(plugins) /\ RunDoes(plugins)
    BY <1>6, RunStageFacts
  <2>2. started' = started /\ call.due = <<>>
    BY <1>6, FramesOfCalls, RunReady DEF InCall
  <2>3. CASE k \in 1..Len(runs) /\ SameRun(runs'[k], runs[k])
    <3>1. ~In(p, call.due)
      BY <2>2 DEF In
    <3> QED
      BY <1>5, <2>2, <2>3, <3>1
  <2>4. CASE Start /\ runs'[k].task = stage.task
    <3>1. runs' # runs
      BY <2>4, StartedRun, RunSteps DEF PodTypes, TypeOK
    <3>2. ~plugins.failed
      BY <2>1, <3>1 DEF RunDoes
    <3>3. IsDue(spec, p, stage.task)
      BY <1>1, <2>4
    <3>4. p \in started \/ In(p, plugins.due)
      BY <1>1, <2>1, <3>2, <3>3 DEF RunFound
    <3>5. ASSUME In(p, plugins.due) PROVE call'.due = plugins.due
      <4>1. plugins.due # <<>>
        BY <3>5 DEF In
      <4> QED
        BY <2>1, <4>1 DEF RunDoes
    <3> QED
      BY <2>2, <3>4, <3>5
  <2> QED
    BY <2>3, <2>4, GenerationsOfRuns
<1>7. CASE RecordStarted
  <2>1. runs' = runs
    BY <1>7, FramesOfCalls
  <2>2. /\ InCall /\ started' = started \cup {Last(call.due)}
        /\ \/ call' = Idle /\ Len(call.due) = 1
           \/ call'.due = Front(call.due)
    BY <1>7, RecordedCall
  <2>3. p \in started \/ In(p, call.due)
    BY <1>5, <2>1 DEF SameRun
  <2>4. ASSUME NEW i \in DOMAIN call.due, call.due[i] = p PROVE p \in started' \/ In(p, call'.due)
    <3> DEFINE front == Front(call.due)
               due == call.due
    <3>1. due \in Seq(PluginNames) /\ due # <<>> /\ front = Front(due)
      BY <2>2 DEF InCall, PodTypes, CallTypes
    <3>2. Len(due) = 1 => i = Len(due)
      BY <2>4, <3>1, LenProperties
    <3>3. due[Len(due)] \in started'
      BY <2>2 DEF Last
    <3>4. i = Len(due) \/ call'.due = front
      BY <2>2, <3>2
    <3>5. due[i] = p /\ i \in DOMAIN due
      BY <2>4
    <3> HIDE DEF front, due
    <3>6. i = Len(due) \/ (i \in DOMAIN front /\ front[i] = due[i])
      BY <3>1, <3>5, FrontOfSeq
    <3> QED
      BY <3>3, <3>4, <3>5, <3>6 DEF In
  <2> QED
    BY <2>2, <2>3, <2>4 DEF In
<1>8. CASE Spawn
  <2>1. call'.due = call.due /\ started' = started /\ runs' = runs
    BY <1>8, SpawnedCall, FramesOfCalls
  <2>2. p \in started \/ In(p, call.due)
    BY <1>5, <2>1 DEF SameRun
  <2> QED
    BY <2>1, <2>2
<1>9. CASE ~RunStage /\ ~RecordStarted /\ ~Spawn
  <2>1. started' = started /\ call' = call
    BY <1>1, <1>2, <1>3, <1>9, FramesOfStages, FramesOfGoroutines, FramesOfPods DEF StepIs
  <2>2. k \in 1..Len(runs) /\ SameRun(runs'[k], runs[k])
    BY <1>9, GenerationsOfRuns
  <2> QED
    BY <1>5, <2>1, <2>2
<1> QED
  BY <1>6, <1>7, <1>8, <1>9

(* A reaper is on its way, or has done its work.                           *)
LEMMA ReapersAreDueStep ==
  ASSUME PodTypes, RunsAreOld, StageReady, ReapersAreDue, StepIs PROVE ReapersAreDue'
<1> DEFINE Waits(i) == reapers[i] = 0 \/ reapers[i] >= stage.gen
<1> SUFFICES ASSUME crashes' = 0, resource'.uid = 1,
                    NEW k \in 1..Len(runs'), runs'[k].gen = stage'.gen
             PROVE  \/ \E i \in 1..MaxReapers : reapers'[i] = 0 \/ reapers'[i] >= stage'.gen
                    \/ \A j \in jobs' : j.gen >= stage'.gen \/ j.late
  BY DEF ReapersAreDue
<1>0. /\ resource.gen \in Nat /\ stage.gen \in Nat /\ stage.gen <= resource.gen
      /\ crashes \in Nat /\ NoStage.gen = 0 /\ NoResource.uid = 0 /\ MaxCrashes \in Nat
      /\ \A i \in 1..Len(runs) : runs[i].gen \in Nat /\ runs[i].gen > 0
      /\ reapers \in [1..MaxReapers -> {-1, 0} \cup Gens] /\ Gens \subseteq Nat
  BY BoundsAssumption DEF PodTypes, TypeOK, TypeInv, Resource, StageOf, ResourceTypes, NoStage,
     NoResource, RunsAreOld, Gens
<1>1. ~ResourceGone
  <2>1. ResourceGone => resource' = NoResource
    BY StageSteps
  <2> QED
    BY <1>0, <2>1
<1>2. ~CreateResource
  <2>1. ASSUME CreateResource PROVE FALSE
    <3>1. stage = NoStage /\ stage' = stage /\ runs' = runs
      BY <2>1, UserSteps, FramesOfUsers
    <3> QED
      BY <1>0, <3>1
  <2> QED
    BY <2>1
<1>3. ~Stop /\ ~ReaperLost /\ ~PodLost
  BY <1>0 DEF Stop, ReaperLost, ReaperFails, PodLost
<1>4. crashes = 0 /\ resource.uid = 1
  <2>1. crashes = 0
    BY <1>3, FramesOfUsers, FramesOfStages, FramesOfCalls, FramesOfGoroutines, FramesOfPods
       DEF StepIs
  <2>2. resource.uid = 1
    BY <1>1, <1>2, ResourceSteps
  <2> QED
    BY <2>1, <2>2
<1>5. ~NewStage
  <2>1. ASSUME NewStage PROVE FALSE
    <3>1. stage'.gen = resource.gen /\ stage.gen < resource.gen /\ resource.uid = 1
      BY <2>1, StageSteps
    <3>2. runs' = runs
      BY <2>1, FramesOfStages
    <3>3. runs[k].gen <= stage.gen
      BY <3>1, <3>2 DEF RunsAreOld
    <3> QED
      BY <1>0, <3>1, <3>2, <3>3
  <2> QED
    BY <2>1
<1>6. stage'.gen = stage.gen
  BY <1>1, <1>5, StageMoves, StageSteps
<1>7. \/ \E i \in 1..Len(runs) : runs[i].gen = stage.gen
      \/ RunStage /\ Start /\ IsChanged
  <2>1. CASE k \in 1..Len(runs) /\ SameRun(runs'[k], runs[k])
    BY <1>6, <2>1 DEF SameRun
  <2>2. CASE RunStage /\ Start
    BY <2>2, NotTheFirst, RunReady
  <2> QED
    BY <2>1, <2>2, GenerationsOfRuns
<1>8. ASSUME \E i \in 1..Len(runs) : runs[i].gen = stage.gen
      PROVE  \/ \E i \in 1..MaxReapers : Waits(i)
             \/ \A j \in jobs : j.gen >= stage.gen \/ j.late
  BY <1>4, <1>8 DEF ReapersAreDue
<1>9. CASE RunStage
  <2>1. PICK plugins : RunDoes(plugins)
    BY <1>9, RunStageFacts
  <2>2. jobs' = jobs
    BY <1>9, FramesOfCalls
  <2>3. CASE reapers' = reapers
    <3>1. CASE \E i \in 1..Len(runs) : runs[i].gen = stage.gen
      BY <1>6, <1>8, <2>2, <2>3, <3>1
    <3>2. CASE Start /\ IsChanged
      <4>1. runs' # runs
        BY <3>2, StartedRun, RunSteps DEF PodTypes, TypeOK
      <4>2. StartReaper
        BY <2>1, <4>1 DEF RunDoes
      <4>3. PICK i \in 1..MaxReapers : reapers' = [reapers EXCEPT ![i] = 0]
        BY <3>2, <4>2 DEF StartReaper
      <4>4. reapers'[i] = 0
        BY <1>0, <4>3
      <4> QED
        BY <4>4
    <3> QED
      BY <1>7, <3>1, <3>2
  <2>4. CASE reapers' # reapers
    <3>1. StartReaper /\ IsChanged
      BY <2>1, <2>4 DEF RunDoes, StartReaper
    <3>2. PICK i \in 1..MaxReapers : reapers' = [reapers EXCEPT ![i] = 0]
      BY <3>1 DEF StartReaper
    <3>3. reapers'[i] = 0
      BY <1>0, <3>2
    <3> QED
      BY <3>3
  <2> QED
    BY <2>3, <2>4
<1>10. CASE ReaperStarts
  <2>1. PICK i \in 1..MaxReapers : ReaperReads(i)
    BY <1>10 DEF ReaperStarts
  <2>2. reapers' = [reapers EXCEPT ![i] = resource.gen]
    BY <1>4, <2>1 DEF ReaperReads
  <2>3. reapers'[i] >= stage'.gen
    BY <1>0, <1>6, <2>2
  <2> QED
    BY <2>3
<1>11. CASE ReaperEnds
  <2>1. PICK i \in 1..MaxReapers : ReaperDeletes(i)
    BY <1>11 DEF ReaperEnds
  <2>2. /\ jobs' = {j \in jobs : j.gen = reapers[i]} /\ reapers[i] > 0
        /\ \A l \in 1..MaxReapers : l # i => reapers'[l] = reapers[l]
    BY <1>0, <2>1 DEF ReaperDeletes, Outdated
  <2>3. CASE reapers[i] >= stage.gen
    BY <1>6, <2>2, <2>3
  <2>4. CASE ~(reapers[i] >= stage.gen)
    <3>1. \A j \in jobs' : j \in jobs
      BY <2>2
    <3>2. ~Waits(i)
      BY <1>0, <2>2, <2>4
    <3> HIDE DEF Waits
    <3>3. \/ \E l \in 1..MaxReapers : Waits(l) /\ l # i
          \/ \A j \in jobs : j.gen >= stage.gen \/ j.late
      BY <1>7, <1>8, <1>11, <3>2, FramesOfCalls, FramesOfGoroutines DEF Start
    <3> QED
      BY <1>6, <2>2, <3>1, <3>3 DEF Waits
  <2> QED
    BY <2>3, <2>4
<1>12. CASE JobCreated
  <2>1. PICK c \in creators : CreateJob(c)
    BY <1>12 DEF JobCreated
  <2> PICK late : late = (stage.gen # c.gen)
    OBVIOUS
  <2>2. PICK job : job = [c EXCEPT !.late = late]
    OBVIOUS
  <2>3. jobs' = jobs \cup {job} /\ reapers' = reapers
    BY <2>1, <2>2 DEF CreateJob
  <2>4. c \in Job
    BY DEF PodTypes, TypeOK
  <2>5. job.gen = c.gen /\ job.late = late
    BY <2>2, <2>4 DEF Job
  <2>6. job.gen >= stage.gen \/ job.late
    <3>1. CASE stage.gen = c.gen
      BY <1>0, <2>5, <3>1
    <3>2. CASE stage.gen # c.gen
      <4>1. late
        BY <3>2, Zenon
      <4>2. job.late
        BY <2>5, <4>1, Zenon
      <4> QED
        BY <4>2, Zenon
    <3> QED
      BY <3>1, <3>2
  <2> QED
    BY <1>6, <1>7, <1>8, <1>12, <2>3, <2>6, FramesOfGoroutines DEF Start
<1>13. CASE ~RunStage /\ ~ReaperStarts /\ ~ReaperEnds /\ ~JobCreated
  <2>1. jobs' = jobs /\ reapers' = reapers
    BY <1>1, <1>3, <1>13, FramesOfUsers, FramesOfStages, FramesOfCalls, FramesOfGoroutines,
       FramesOfPods DEF StepIs
  <2> QED
    BY <1>6, <1>7, <1>8, <1>13, <2>1
<1> QED
  BY <1>9, <1>10, <1>11, <1>12, <1>13

-----------------------------------------------------------------------------
(***************************************************************************)
(* The pod, and the ConfigMap of its generation.                           *)
(***************************************************************************)
NewPod(new) ==
  /\ new # NoPod /\ new.task = stage.task /\ new.gen = resource.gen
  /\ new.labels["generation"] = new.gen /\ NamesUnique(new) /\ FilesMade(spec, new)
  /\ spec.requireApproval /\ stage.task \in {"plan", "plan-delete"}
       => Approver \in ContainerNames(new)
  /\ VolumesApart => MountsHaveVolumes(new)

(* The pod stays, or the stage's pod is created.                           *)
LEMMA PodSteps ==
  ASSUME PodTypes, StepIs
  PROVE  \/ pod' = pod /\ Len(runs') = Len(runs)
         \/ RunStage /\ Start /\ CreateConfigMap /\ NewPod(pod')
<1>1. CASE RunStage
  <2>1. PICK plugins : RunFound(plugins) /\ RunDoes(plugins)
    BY <1>1, RunStageFacts
  <2> DEFINE new == GeneratePod(NewTaskOptions(spec, stage.task, resource.gen), plugins.sidecars)
             P == DOMAIN spec.plugins \ started
             Volumes == VolumesApart => MountsHaveVolumes(new)
             Approved == spec.requireApproval /\ stage.task \in {"plan", "plan-delete"}
                           => Approver \in ContainerNames(new)
  <2>2. CASE UNCHANGED <<runs, pod, configMaps, reapers>>
    BY <2>2
  <2>3. CASE ~plugins.failed /\ StartReaper /\ CreateConfigMap /\ CreatePod(new)
    <3>1. CASE new = NoPod
      BY <2>3, <3>1 DEF CreatePod, workflowVars
    <3>2. CASE new # NoPod
      <4>1. Start /\ pod' = new
        BY <2>3, <3>2 DEF CreatePod
      <4>2. /\ spec \in Specs /\ P \in SUBSET (DOMAIN spec.plugins) /\ stage.task \in TaskName
            /\ plugins.sidecars \in Seq(Sidecars(spec, P)) /\ NamesApart(plugins.sidecars)
        BY <1>1, <2>1, RunReady DEF RunFound, Found
      <4> DEFINE s == spec
                 task == stage.task
                 sidecars == plugins.sidecars
                 gen == resource.gen
                 made == new
      <4>3. /\ s \in Specs /\ P \in SUBSET (DOMAIN s.plugins) /\ task \in TaskName
            /\ sidecars \in Seq(Sidecars(s, P)) /\ NamesApart(sidecars) /\ gen = resource.gen
            /\ made = GeneratePod(NewTaskOptions(s, task, gen), sidecars) /\ made # NoPod
        BY <3>2, <4>2
      <4> HIDE DEF P, s, task, sidecars, gen, made
      <4>4. /\ made.task = task /\ made.gen = gen /\ made.labels["generation"] = gen
            /\ FilesMade(s, made) /\ NamesUnique(made)
            /\ NamesOf(sidecars) \subseteq ContainerNames(made)
        BY <4>3, RunPod
      <4>5. VolumesApart => MountsHaveVolumes(made)
        BY <4>3, RunVolumes
      <4> USE DEF s, task, sidecars, gen
      <4>6. pod' = made
        BY <4>1 DEF made
      <4>7. spec.requireApproval /\ stage.task \in {"plan", "plan-delete"}
              => Approver \in ContainerNames(made)
        BY <2>1, <2>3, <4>4 DEF RunFound
      <4>8. NewPod(made)
        BY <4>3, <4>4, <4>5, <4>7 DEF NewPod
      <4> QED
        BY <1>1, <2>3, <4>1, <4>6, <4>8
    <3> QED
      BY <3>1, <3>2
  <2> QED
    BY <2>1, <2>2, <2>3 DEF RunDoes
<1>2. CASE ~RunStage
  <2>1. pod' = pod
    BY <1>2, FramesOfUsers, FramesOfStages, FramesOfCalls, FramesOfGoroutines, FramesOfPods
       DEF StepIs
  <2> QED
    BY <1>2, <2>1, RunSteps
<1> QED
  BY <1>1, <1>2

(* The resource a generation that runs is of.                              *)
LEMMA ResourceStays ==
  ASSUME PodTypes, RunsAreOld, StepIs, NEW k \in 1..Len(runs),
         resource'.uid = 1, runs[k].gen = resource'.gen
  PROVE  resource.uid = 1 /\ resource' = resource /\ spec' = spec
<1>1. /\ resource.gen \in Nat /\ stage.gen \in Nat /\ stage.gen <= resource.gen
      /\ NoResource.uid = 0
  BY DEF PodTypes, TypeOK, TypeInv, StageOf, Resource, ResourceTypes, NoResource
<1>2. runs[k].uid = 1 /\ runs[k].gen \in Nat /\ (resource.uid = 1 => runs[k].gen <= stage.gen)
  BY BoundsAssumption DEF RunsAreOld, Gens
<1>3. ~(\A i \in 1..Len(runs) : runs[i].uid # 1)
  BY <1>2
<1>4. ~ResourceGone
  <2>1. ResourceGone => resource' = NoResource
    BY StageSteps
  <2> QED
    BY <1>1, <2>1
<1>5. ~(resource.uid = 1 /\ resource'.gen = resource.gen + 1)
  BY <1>1, <1>2
<1> QED
  BY <1>1, <1>3, <1>4, <1>5, ResourceSteps

(* The ConfigMap of a generation that runs does not change.                *)
LEMMA MapsStay ==
  ASSUME PodTypes, ConfigMapsAreMade, StepIs, NEW k \in 1..Len(runs)
  PROVE  /\ runs[k].gen \in DOMAIN configMaps'
         /\ configMaps'[runs[k].gen] = configMaps[runs[k].gen]
<1> DEFINE gen == runs[k].gen
<1>1. gen \in DOMAIN configMaps
  BY DEF ConfigMapsAreMade
<1>2. CASE configMaps' = configMaps
  BY <1>1, <1>2
<1>3. CASE RunStage /\ CreateConfigMap /\ IsChanged
  <2>1. resource.uid = 1
    BY <1>3, RunReady
  <2>2. gen = resource.gen => configMaps[gen] = ConfigMapData(spec)
    BY <2>1 DEF ConfigMapsAreMade
  <2>3. configMaps' = [g \in DOMAIN configMaps \cup {resource.gen} |->
                         IF g = resource.gen THEN ConfigMapData(spec) ELSE configMaps[g]]
    BY <1>3 DEF CreateConfigMap
  <2> HIDE DEF gen
  <2>4. gen \in DOMAIN configMaps' /\ configMaps'[gen] = configMaps[gen]
    BY <1>1, <2>2, <2>3
  <2> QED
    BY <2>4 DEF gen
<1>4. \/ configMaps' = configMaps
      \/ RunStage /\ CreateConfigMap /\ IsChanged
  <2>1. CASE RunStage
    <3>1. PICK plugins : RunDoes(plugins)
      BY <2>1, RunStageFacts
    <3>2. configMaps' = configMaps \/ CreateConfigMap
      BY <3>1 DEF RunDoes
    <3> QED
      BY <2>1, <3>2 DEF CreateConfigMap
  <2>2. CASE ~RunStage
    BY <2>2, FramesOfUsers, FramesOfStages, FramesOfCalls, FramesOfGoroutines, FramesOfPods
       DEF StepIs
  <2> QED
    BY <2>1, <2>2
<1> QED
  BY <1>2, <1>3, <1>4

(* The first pod of a generation comes with its ConfigMap.                 *)
LEMMA ConfigMapsAreMadeStep ==
  ASSUME PodTypes, RunsAreOld, StageReady, ConfigMapsAreMade, StepIs PROVE ConfigMapsAreMade'
<1> SUFFICES ASSUME NEW k \in 1..Len(runs')
             PROVE  /\ runs'[k].gen \in DOMAIN configMaps'
                    /\ resource'.uid = 1 /\ runs'[k].gen = resource'.gen =>
                         configMaps'[runs'[k].gen] = ConfigMapData(spec')
  BY DEF ConfigMapsAreMade
<1>1. ASSUME NEW i \in 1..Len(runs), runs'[k].gen = runs[i].gen
      PROVE  /\ runs'[k].gen \in DOMAIN configMaps'
             /\ resource'.uid = 1 /\ runs'[k].gen = resource'.gen =>
                  configMaps'[runs'[k].gen] = ConfigMapData(spec')
  <2>1. runs[i].gen \in DOMAIN configMaps' /\ configMaps'[runs[i].gen] = configMaps[runs[i].gen]
    BY MapsStay
  <2>2. ASSUME resource'.uid = 1, runs'[k].gen = resource'.gen
        PROVE  configMaps'[runs'[k].gen] = ConfigMapData(spec')
    <3>1. resource.uid = 1 /\ resource' = resource /\ spec' = spec
      BY <1>1, <2>2, ResourceStays
    <3>2. configMaps[runs[i].gen] = ConfigMapData(spec)
      BY <1>1, <2>2, <3>1 DEF ConfigMapsAreMade
    <3> QED
      BY <1>1, <2>1, <3>1, <3>2
  <2> QED
    BY <1>1, <2>1, <2>2
<1>2. CASE k \in 1..Len(runs) /\ SameRun(runs'[k], runs[k])
  BY <1>1, <1>2 DEF SameRun
<1>3. CASE RunStage /\ Start /\ stage' = stage /\ runs'[k].gen = stage.gen
  <2>1. /\ stage.task \in TaskName /\ stage.gen = resource.gen
        /\ resource' = resource /\ spec' = spec
    BY <1>3, RunReady, FramesOfCalls
  <2>2. CASE ~IsChanged
    <3>1. PICK i \in 1..Len(runs) : runs[i].gen = stage.gen
      BY <2>1, <2>2, NotTheFirst
    <3> QED
      BY <1>1, <1>3, <3>1
  <2>3. CASE IsChanged
    <3>1. CreateConfigMap
      <4>1. Len(runs') # Len(runs)
        <5>1. Len(runs) \in Nat
          BY RunSteps
        <5>2. Len(runs') = Len(runs) + 1
          BY <1>3, StartedRun DEF PodTypes, TypeOK
        <5> QED
          BY <5>1, <5>2
      <4> QED
        BY <4>1, PodSteps
    <3>2. configMaps' = [g \in DOMAIN configMaps \cup {resource.gen} |->
                           IF g = resource.gen THEN ConfigMapData(spec) ELSE configMaps[g]]
      BY <2>3, <3>1 DEF CreateConfigMap
    <3>3. runs'[k].gen = resource.gen
      BY <1>3, <2>1
    <3> DEFINE gen == runs'[k].gen
    <3> HIDE DEF gen
    <3>4. gen = resource.gen
      BY <3>3 DEF gen
    <3>5. gen \in DOMAIN configMaps' /\ configMaps'[gen] = ConfigMapData(spec)
      BY <3>2, <3>4
    <3> QED
      BY <2>1, <3>5 DEF gen
  <2> QED
    BY <2>2, <2>3
<1> QED
  BY <1>2, <1>3, GenerationsOfRuns

(* The run the pod is of.                                                  *)
LEMMA RunOfPod ==
  ASSUME PodTypes, PodIsOfRun, pod # NoPod
  PROVE  Len(runs) \in 1..Len(runs) /\ pod.gen = runs[Len(runs)].gen
<1>1. runs \in Seq(Run) /\ runs # <<>> /\ pod.gen = Last(runs).gen
  BY DEF PodTypes, TypeOK, TypeInv, PodIsOfRun
<1>2. Len(runs) \in Nat /\ Len(runs) # 0
  BY <1>1, LenProperties, EmptySeq
<1> QED
  BY <1>1, <1>2 DEF Last

(* The pod remains that of the last run.                                   *)
LEMMA PodIsOfRunStep ==
  ASSUME PodTypes, PodIsOfRun, StepIs PROVE PodIsOfRun'
<1> SUFFICES ASSUME pod' # NoPod PROVE runs' # <<>> /\ pod'.gen = Last(runs').gen
  BY DEF PodIsOfRun
<1>1. CASE pod' = pod /\ Len(runs') = Len(runs)
  <2> DEFINE n == Len(runs)
  <2>1. n \in 1..n /\ pod.gen = runs[n].gen
    BY <1>1, RunOfPod
  <2>2. SameRun(runs'[n], runs[n])
    BY <2>1, RunSteps
  <2>3. Len(runs') = n /\ Last(runs') = runs'[n] /\ n # 0
    BY <1>1, <2>1 DEF Last
  <2>4. runs' # <<>>
    BY <2>3
  <2> QED
    BY <1>1, <2>1, <2>2, <2>3, <2>4 DEF SameRun
<1>2. CASE RunStage /\ Start /\ NewPod(pod')
  <2>1. runs' # <<>> /\ Last(runs').gen = stage.gen
    BY <1>2, StartedRun DEF PodTypes, TypeOK
  <2> QED
    BY <1>2, <2>1, RunReady DEF NewPod
<1> QED
  BY <1>1, <1>2, PodSteps

(* Names and labels are those generatePod gives.                           *)
LEMMA PodIsNamedStep ==
  ASSUME PodTypes, PodIsNamed, StepIs PROVE PodIsNamed'
<1> SUFFICES ASSUME pod' # NoPod
             PROVE  NamesUnique(pod') /\ pod'.labels["generation"] = pod'.gen
  BY DEF PodIsNamed, NamesUnique
<1>1. CASE pod' = pod
  BY <1>1 DEF PodIsNamed
<1>2. CASE NewPod(pod')
  BY <1>2 DEF NewPod
<1> QED
  BY <1>1, <1>2, PodSteps

(* The pod of a plan that is to be approved has its approver.              *)
LEMMA PlansHeldStep ==
  ASSUME PodTypes, RunsAreOld, PodIsOfRun, PlansHeld, StepIs PROVE PlansHeld'
<1> SUFFICES ASSUME pod' # NoPod, resource'.uid = 1, pod'.gen = resource'.gen,
                    spec'.requireApproval, pod'.task \in {"plan", "plan-delete"}
             PROVE  Approver \in ContainerNames(pod')
  BY DEF PlansHeld, ContainerNames
<1>1. CASE pod' = pod
  <2> DEFINE n == Len(runs)
  <2>1. n \in 1..n /\ pod.gen = runs[n].gen
    BY <1>1, RunOfPod
  <2>2. resource.uid = 1 /\ resource' = resource /\ spec' = spec
    BY <1>1, <2>1, ResourceStays
  <2> QED
    BY <1>1, <2>2 DEF PlansHeld
<1>2. CASE RunStage /\ NewPod(pod')
  BY <1>2, FramesOfCalls DEF NewPod
<1> QED
  BY <1>1, <1>2, PodSteps

(* The scripts of a pod remain in its ConfigMap.                           *)
LEMMA ScriptsAreMountedStep ==
  ASSUME PodTypes, RunsAreOld, StageReady, ConfigMapsAreMade, PodIsOfRun, ScriptsAreMounted,
         StepIs
  PROVE  ScriptsAreMounted'
<1> SUFFICES ASSUME NEW c \in DOMAIN pod'.containers, pod'.containers[c].file # NoFile
             PROVE  pod'.containers[c].file \in DOMAIN configMaps'[pod'.gen]
  BY DEF ScriptsAreMounted
<1>1. CASE pod' = pod
  <2>1. pod # NoPod
    BY <1>1 DEF NoPod
  <2> DEFINE n == Len(runs)
  <2>2. n \in 1..n /\ pod.gen = runs[n].gen
    BY <2>1, RunOfPod
  <2>3. configMaps'[pod.gen] = configMaps[pod.gen]
    BY <2>2, MapsStay
  <2> QED
    BY <1>1, <2>3 DEF ScriptsAreMounted
<1>2. CASE RunStage /\ Start /\ NewPod(pod')
  <2>1. pod'.containers[c].file \in DOMAIN ConfigMapData(spec)
    BY <1>2 DEF NewPod, FilesMade
  <2>2. /\ resource.uid = 1 /\ resource' = resource /\ spec' = spec /\ stage.gen = resource.gen
        /\ pod'.gen = resource.gen
    BY <1>2, RunReady, FramesOfCalls DEF NewPod
  <2>3. Len(runs') \in 1..Len(runs') /\ runs'[Len(runs')].gen = stage.gen
    <3>1. /\ Len(runs) \in Nat /\ Len(runs') = Len(runs) + 1
          /\ runs'[Len(runs) + 1].gen = stage.gen
      BY <1>2, RunSteps, StartedRun DEF PodTypes, TypeOK
    <3> QED
      BY <3>1
  <2>4. ConfigMapsAreMade'
    BY ConfigMapsAreMadeStep
  <2>5. configMaps'[pod'.gen] = ConfigMapData(spec)
    BY <2>2, <2>3, <2>4 DEF ConfigMapsAreMade
  <2> QED
    BY <2>1, <2>5
<1> QED
  BY <1>1, <1>2, PodSteps

-----------------------------------------------------------------------------
(***************************************************************************)
(* The invariant holds at first and is kept.                               *)
(***************************************************************************)
LEMMA PodsInitInv == PodsInit => PodsInv
<1> SUFFICES ASSUME PodsInit PROVE PodsInv
  OBVIOUS
<1>1. /\ resource = NoResource /\ stage = NoStage /\ completed = FALSE /\ runs = <<>>
      /\ spec = EmptySpec /\ started = {} /\ configMaps = <<>> /\ pod = NoPod
      /\ call = Idle /\ creators = {} /\ jobs = {} /\ crashes = 0
      /\ reapers = [i \in 1..MaxReapers |-> -1]
  BY DEF PodsInit, Init
<1>2. /\ NoResource \in Resource /\ NoStage \in StageOf /\ NoResource.uid = 0
      /\ NoResource.gen = 0 /\ NoStage.gen = 0 /\ NoStage.task = RunNil
  BY DEF NoResource, Resource, NoStage, StageOf
<1>3. runs \in Seq(Run) /\ Len(runs) = 0
  BY <1>1
<1>4. PodTypes
  <2>1. TypeInv
    BY <1>1, <1>2, <1>3 DEF TypeInv
  <2>2. DOMAIN configMaps \subseteq Gens
    BY <1>1
  <2>3. reapers \in [1..MaxReapers -> {-1, 0} \cup Gens] /\ crashes \in 0..MaxCrashes
    BY <1>1, BoundsAssumption
  <2>4. TypeOK
    BY <1>1, <2>1, <2>2, <2>3 DEF TypeOK
  <2>5. CallTypes /\ ~InCall
    BY <1>1 DEF CallTypes, InCall, Idle
  <2>6. ResourceTypes
    BY <1>1, <1>2, <2>5 DEF ResourceTypes
  <2> QED
    BY <2>4, <2>5, <2>6 DEF PodTypes
<1>5. RunsSound
  BY <1>1, <1>2, <1>3, NilIsNoTask DEF RunsSound, RunsAreOld, StageReady, WorkflowOf
<1>6. PluginsSound
  BY <1>1, <1>2 DEF PluginsSound, DueAtStage, InCall, Idle, JobsAreAfter, DueByRuns, ReapersAreDue
<1>7. PodSound
  <2>1. DOMAIN pod.containers = {}
    BY <1>1 DEF NoPod
  <2> QED
    BY <1>1, <1>3, <2>1 DEF PodSound, ConfigMapsAreMade, PodIsOfRun, PodIsNamed, PlansHeld,
       ScriptsAreMounted
<1> QED
  BY <1>4, <1>5, <1>6, <1>7 DEF PodsInv

(* Every step keeps the invariant.                                         *)
LEMMA PodsInvStep == PodsInv /\ [PodsNext]_vars => PodsInv'
<1> SUFFICES ASSUME PodsInv, [PodsNext]_vars PROVE PodsInv'
  OBVIOUS
<1>1. /\ PodTypes /\ RunsAreOld /\ StageReady
      /\ DueAtStage /\ JobsAreAfter /\ DueByRuns /\ ReapersAreDue
      /\ ConfigMapsAreMade /\ PodIsOfRun /\ PodIsNamed /\ PlansHeld /\ ScriptsAreMounted
  BY DEF PodsInv, RunsSound, PluginsSound, PodSound
<1>2. StepIs
  BY <1>1, StepCases DEF PodTypes
<1>3. PodTypes'
  BY <1>1, <1>2, PodTypesStep
<1>4. RunsSound'
  BY <1>1, <1>2, RunsAreOldStep, StageReadyStep DEF RunsSound
<1>5. PluginsSound'
  BY <1>1, <1>2, DueAtStageStep, JobsAreAfterStep, DueByRunsStep, ReapersAreDueStep
     DEF PluginsSound
<1>6. PodSound'
  BY <1>1, <1>2, ConfigMapsAreMadeStep, PodIsOfRunStep, PodIsNamedStep, PlansHeldStep,
     ScriptsAreMountedStep DEF PodSound
<1> QED
  BY <1>3, <1>4, <1>5, <1>6 DEF PodsInv

(* The inductive invariant, for any specs, plugins and bounds.             *)
THEOREM PodsInvariant == PodsSpec => []PodsInv
BY PodsInitInv, PodsInvStep, PTL DEF PodsSpec

(* The types of TaskPods, for any specs, plugins and bounds.               *)
THEOREM PodsTypeCorrect == PodsSpec => []TypeOK
<1>1. PodsInv => TypeOK
  BY DEF PodsInv, PodTypes
<1> QED
  BY <1>1, PodsInvariant, PTL

(* The file a container is told to execute is in the ConfigMap of its      *)
(* generation: what newTaskOptions sets as the entrypoint's script is what *)
(* setupAndRun has put into the ConfigMap, for any task options, in the    *)
(* pod of the task and in the sidecars that joined it.                     *)
THEOREM ScriptsAreInConfigMaps == PodsSpec => []ScriptsAreMounted
<1>1. PodsInv => ScriptsAreMounted
  BY DEF PodsInv, PodSound
<1> QED
  BY <1>1, PodsInvariant, PTL

(* No plan of a resource that requires approval runs without the approver  *)
(* at its side, whatever plugins the Go map yields first (Reconcile).      *)
THEOREM PlansHaveApprovers == PodsSpec => []PlansAreHeld
<1>1. PodsInv => PlansAreHeld
  <2> SUFFICES ASSUME PodsInv, pod # NoPod, spec.requireApproval, pod.gen = resource.gen,
                      pod.task \in {"plan", "plan-delete"}
               PROVE  Approver \in ContainerNames(pod)
    BY DEF PlansAreHeld
  <2>1. /\ PodTypes /\ RunsAreOld /\ PodIsOfRun /\ PlansHeld /\ NoResource.gen = 0
        /\ resource.uid \in {0, 1} /\ (resource.uid = 0 => resource = NoResource)
    BY DEF PodsInv, RunsSound, PodSound, PodTypes, ResourceTypes, NoResource
  <2>2. pod.gen \in Gens
    BY <2>1, RunOfPod DEF RunsAreOld
  <2>3. resource.uid = 1
    BY <2>1, <2>2, BoundsAssumption DEF Gens
  <2> QED
    BY <2>1, <2>3 DEF PlansHeld
<1> QED
  BY <1>1, PodsInvariant, PTL

(* Once the reapers of a generation are done and none was lost or failed,  *)
(* a job of an older generation was created late (reapPlugins), for any    *)
(* number of reapers and generations.                                      *)
THEOREM JobsAreReaped == PodsSpec => []OldJobsWereLate
<1>1. PodsInv => OldJobsWereLate
  <2> SUFFICES ASSUME PodsInv, \A i \in DOMAIN reapers : reapers[i] = -1,
                      NEW k \in DOMAIN runs, runs[k].gen = stage.gen, crashes = 0
               PROVE  \A j \in jobs : j.gen >= stage.gen \/ j.late
    BY DEF OldJobsWereLate
  <2>1. /\ PodTypes /\ RunsAreOld /\ ReapersAreDue /\ NoStage.gen = 0
        /\ resource.uid \in {0, 1} /\ (resource.uid = 0 => stage = NoStage)
        /\ runs \in Seq(Run) /\ stage.gen \in Nat /\ DOMAIN reapers = 1..MaxReapers
    BY DEF PodsInv, RunsSound, PluginsSound, PodTypes, ResourceTypes, NoStage, TypeOK, TypeInv,
       StageOf
  <2>2. k \in 1..Len(runs) /\ runs[k].gen \in Gens
    BY <2>1 DEF RunsAreOld
  <2>3. resource.uid = 1
    BY <2>1, <2>2, BoundsAssumption DEF Gens
  <2>4. ~\E i \in 1..MaxReapers : reapers[i] = 0 \/ reapers[i] >= stage.gen
    BY <2>1
  <2> QED
    BY <2>1, <2>2, <2>3, <2>4 DEF ReapersAreDue
<1> QED
  BY <1>1, PodsInvariant, PTL

(* An After plugin that is due in its task's workflow is only started once *)
(* the task has succeeded (Reconcile, createPluginJob), whatever the       *)
(* goroutines and crashes do.                                              *)
THEOREM AfterPluginsComeAfter == PodsSpec => []AfterItsTask
<1>1. PodsInv => AfterItsTask
  <2> SUFFICES ASSUME PodsInv, resource.uid # 0, NEW j \in jobs \cup creators,
                      j.after \in WorkflowOf(j.at) \cap ConfiguredTasks
               PROVE  InState(resource.uid, j.gen, j.after, "succeeded")
    BY DEF AfterItsTask
  <2>1. JobsAreAfter /\ resource.uid = 1
    BY DEF PodsInv, PluginsSound, PodTypes, ResourceTypes
  <2> QED
    BY <2>1 DEF JobsAreAfter, Succeeded
<1> QED
  BY <1>1, PodsInvariant, PTL

(* A workflow that completes, and was not disturbed by a crash, has        *)
(* started every plugin its tasks made due: the calls that started the     *)
(* pods have deferred them, and none ends before its deferred calls have.  *)
THEOREM DuePluginsWereStarted == PodsSpec => []DuePluginsStarted
<1>1. PodsInv => DuePluginsStarted
  <2> SUFFICES ASSUME PodsInv, completed, WorkedOn, crashes = 0,
                      NEW p \in DOMAIN spec.plugins,
                      NEW t \in ConfiguredTasks \cap CreateTasks, IsDue(spec, p, t)
               PROVE  p \in started
    BY DEF DuePluginsStarted
  <2>1. /\ PodTypes /\ RunsAreOld /\ StageReady /\ DueByRuns
        /\ resource.uid \in {0, 1} /\ (resource.uid = 0 => stage = NoStage)
        /\ (InCall => stage.task \in TaskName) /\ NoStage.gen = 0
    BY DEF PodsInv, RunsSound, PluginsSound, PodTypes, ResourceTypes, NoStage
  <2>2. stage.task = RunNil /\ Succeeded(stage.gen, t)
    BY <2>1 DEF StageReady
  <2>3. PICK k \in 1..Len(runs) : runs[k].gen = stage.gen /\ runs[k].task = t
    BY <2>2 DEF Succeeded, InState, IsRunOf
  <2>4. resource.uid = 1
    <3>1. runs[k].gen \in Gens
      BY <2>1 DEF RunsAreOld
    <3> QED
      BY <2>1, <2>3, <3>1, BoundsAssumption DEF Gens
  <2>5. call.due = <<>>
    BY <2>1, <2>2, NilIsNoTask DEF InCall
  <2>6. p \in started \/ In(p, call.due)
    BY <2>1, <2>3, <2>4 DEF DueByRuns
  <2>7. ~In(p, call.due)
    BY <2>5 DEF In
  <2> QED
    BY <2>6, <2>7
<1> QED
  BY <1>1, PodsInvariant, PTL

(* What generatePod makes can start, as long as no two volumes a user      *)
(* gives to one pod share a name.                                          *)
MountsSound == pod # NoPod => MountsHaveVolumes(pod)

(* The mounts of a new pod have their volumes.                             *)
LEMMA MountsSoundStep ==
  ASSUME VolumesApart, PodTypes, MountsSound, StepIs PROVE MountsSound'
<1> SUFFICES ASSUME pod' # NoPod PROVE MountsHaveVolumes(pod')
  BY DEF MountsSound, MountsHaveVolumes
<1>1. CASE pod' = pod
  BY <1>1 DEF MountsSound
<1>2. CASE NewPod(pod')
  BY <1>2 DEF NewPod
<1> QED
  BY <1>1, <1>2, PodSteps

(* The pod is one that can start and be found (generatePod,                *)
(* validateVolume, getPluginSidecarPod): for any specs whose options do    *)
(* not name two volumes of one pod alike, and any plugins.                 *)
THEOREM GeneratedPodsAreValid == ASSUME VolumesApart PROVE PodsSpec => []PodsAreValid
<1>1. PodsInit => MountsSound
  BY DEF PodsInit, MountsSound
<1>2. PodsInv /\ MountsSound /\ [PodsNext]_vars => MountsSound'
  <2> SUFFICES ASSUME PodsInv, MountsSound, [PodsNext]_vars PROVE MountsSound'
    OBVIOUS
  <2>1. PodTypes
    BY DEF PodsInv
  <2>2. StepIs
    BY <2>1, StepCases DEF PodTypes
  <2> QED
    BY <2>1, <2>2, MountsSoundStep
<1>3. PodsInv /\ MountsSound => PodsAreValid
  <2> SUFFICES ASSUME PodsInv, MountsSound, pod # NoPod
               PROVE  /\ MountsHaveVolumes(pod) /\ NamesUnique(pod)
                      /\ pod.labels["generation"] = Last(runs).gen
    BY DEF PodsAreValid, MountsHaveVolumes, NamesUnique
  <2> QED
    BY DEF PodsInv, PodSound, PodIsNamed, PodIsOfRun, MountsSound
<1> QED
  BY <1>1, <1>2, <1>3, PodsInvariant, PTL DEF PodsSpec

=============================================================================
