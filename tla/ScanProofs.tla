----------------------------- MODULE ScanProofs -----------------------------
(***************************************************************************)
(* Proofs about the enumerations of Windows and of WSL.                    *)
(*                                                                         *)
(* Each part has an invariant that says how far it has come: WslInv,       *)
(* TaskInv (with the set of the folders that were entered), ShellInv,      *)
(* ServiceInv and RegInv.  For each there is a lemma that it holds at      *)
(* first (Start), that every step of the part keeps it (Kept) and that the *)
(* properties of the part follow (Sound).  The theorems are at the end.    *)
(***************************************************************************)
EXTENDS WindowsScans, FiniteSetTheorems, WellFoundedInduction, TLAPS

-----------------------------------------------------------------------------
(* Induction in the form the provers can use: a set of numbers that is not *)
(* empty has a least member.                                               *)
LEMMA LeastMember ==
    ASSUME NEW T \in SUBSET Nat, T # {}
    PROVE  \E n \in T : \A m \in T : n <= m
  <1> DEFINE Less == OpToRel(<, Nat)
  <1>1. PICK n \in T : \A m \in T : ~(<<m, n>> \in Less)
    BY NatLessThanWellFounded, WFMin, Zenon
  <1>2. \A m \in T : ~(m < n)
    BY <1>1 DEF OpToRel
  <1> QED
    BY <1>2

(* The members of s at the positions in S, in their order, as the parts    *)
(* define it.                                                              *)
Chosen(s, S) ==
    [n \in 1..Cardinality(S) |-> s[CHOOSE i \in S : Cardinality({j \in S : j <= i}) = n]]

LEMMA SetOfPositions ==
    ASSUME NEW n \in Nat, NEW S \in SUBSET (1..n)
    PROVE  IsFiniteSet(S) /\ Cardinality(S) \in Nat
  <1>1. IsFiniteSet(1..n)
    BY FS_Interval
  <1>2. IsFiniteSet(S)
    BY <1>1, FS_Subset
  <1> QED
    BY <1>2, FS_CardinalityType

(* Every position in S has a place, and different ones different places.   *)
LEMMA ChosenPlaces ==
    ASSUME NEW m \in Nat, NEW S \in SUBSET (1..m)
    PROVE  \E place \in [1..Cardinality(S) -> S] :
              /\ \A n \in 1..Cardinality(S) : place[n] = CHOOSE i \in S : Cardinality({j \in S : j <= i}) = n
              /\ \A i \in S : \E n \in 1..Cardinality(S) : place[n] = i
              /\ \A a, b \in 1..Cardinality(S) : place[a] = place[b] => a = b
  <1> DEFINE N == Cardinality(S)
             UpTo(i) == {j \in S : j <= i}
             rank == [i \in S |-> Cardinality(UpTo(i))]
  <1>1. IsFiniteSet(S) /\ N \in Nat
    BY SetOfPositions
  <1>2. ASSUME NEW i \in S
        PROVE  IsFiniteSet(UpTo(i)) /\ Cardinality(UpTo(i)) \in 1..N
    <2>1. UpTo(i) \subseteq S /\ i \in UpTo(i)
      OBVIOUS
    <2>2. IsFiniteSet(UpTo(i)) /\ Cardinality(UpTo(i)) <= N /\ Cardinality(UpTo(i)) \in Nat
      BY <1>1, <2>1, FS_Subset, FS_CardinalityType
    <2>3. Cardinality(UpTo(i)) # 0
      BY <2>1, <2>2, FS_EmptySet
    <2> QED
      BY <2>2, <2>3, <1>1
  <1>3. ASSUME NEW i \in S, NEW k \in S, i < k
        PROVE  Cardinality(UpTo(i)) < Cardinality(UpTo(k))
    <2>1. UpTo(i) \subseteq UpTo(k) /\ k \in UpTo(k) /\ ~(k \in UpTo(i))
      <3>1. i \in Int /\ k \in Int
        OBVIOUS
      <3>2. ~(k <= i) /\ k <= k
        BY <3>1, <1>3
      <3>3. ASSUME NEW j \in S, j <= i PROVE j <= k
        <4>1. j \in Int
          OBVIOUS
        <4> QED
          BY <4>1, <3>1, <3>3, <1>3
      <3> QED
        BY <3>2, <3>3
    <2>2. UpTo(i) # UpTo(k)
      BY <2>1
    <2>3. Cardinality(UpTo(i)) <= Cardinality(UpTo(k))
          /\ (Cardinality(UpTo(i)) = Cardinality(UpTo(k)) => UpTo(i) = UpTo(k))
      BY <2>1, <1>2, FS_Subset
    <2> QED
      BY <2>2, <2>3, <1>2
  <1>4. rank \in [S -> 1..N]
    BY <1>2
  <1>5. \A i, k \in S : rank[i] = rank[k] => i = k
    <2> SUFFICES ASSUME NEW i \in S, NEW k \in S, i # k
                 PROVE  rank[i] # rank[k]
      OBVIOUS
    <2>1. i < k \/ k < i
      OBVIOUS
    <2> QED
      BY <2>1, <1>3, <1>2
  <1>6. rank \in Injection(S, 1..N)
    BY <1>4, <1>5 DEF Injection, IsInjective
  <1>7. IsFiniteSet(1..N) /\ Cardinality(1..N) = N
    BY <1>1, FS_Interval
  <1>8. \A n \in 1..N : \E i \in S : rank[i] = n
    <2> DEFINE img == {rank[i] : i \in S}
    <2>1. rank \in Bijection(S, img)
      BY <1>4, <1>5 DEF Bijection, Injection, Surjection, IsInjective
    <2>2. IsFiniteSet(img) /\ Cardinality(img) = N
      <3>1. ExistsBijection(S, img)
        BY <2>1 DEF ExistsBijection
      <3> HIDE DEF img, rank
      <3> QED
        BY <3>1, <1>1, FS_Bijection
    <2>3. img \subseteq 1..N
      BY <1>4
    <2>4. img = 1..N
      BY <2>2, <2>3, <1>7, FS_Subset
    <2> QED
      BY <2>4
  <1> DEFINE place == [n \in 1..N |-> CHOOSE i \in S : Cardinality({j \in S : j <= i}) = n]
  <1>9. ASSUME NEW n \in 1..N
        PROVE  place[n] \in S /\ rank[place[n]] = n
    <2>1. \E i \in S : Cardinality({j \in S : j <= i}) = n
      BY <1>8
    <2>2. place[n] \in S /\ Cardinality({j \in S : j <= place[n]}) = n
      BY <2>1
    <2> QED
      BY <2>2
  <1>10. place \in [1..N -> S]
    BY <1>9
  <1>11. \A i \in S : place[rank[i]] = i
    BY <1>9, <1>5, <1>4
  <1>12. \A n \in 1..N : place[n] = CHOOSE i \in S : Cardinality({j \in S : j <= i}) = n
    OBVIOUS
  <1> HIDE DEF place, rank
  <1> QED
    BY <1>10, <1>11, <1>12, <1>9, <1>4

(* Every position is at one place of the sequence c.                       *)
IsPlaced(c, s, S, N) ==
    /\ N \in Nat /\ Len(c) = N /\ DOMAIN c = 1..N
    /\ \E place \in [1..N -> S] :
          /\ \A n \in 1..N : c[n] = s[place[n]]
          /\ \A i \in S : \E n \in 1..N : place[n] = i
          /\ \A a, b \in 1..N : place[a] = place[b] => a = b
IsChosen(c, s, S) == IsPlaced(c, s, S, Cardinality(S))

LEMMA ChosenMembers ==
    ASSUME NEW A, NEW s \in Seq(A), NEW S \in SUBSET DOMAIN s
    PROVE  Chosen(s, S) \in Seq(A) /\ IsChosen(Chosen(s, S), s, S)
  <1>1. Len(s) \in Nat /\ S \in SUBSET (1..Len(s)) /\ DOMAIN s = 1..Len(s)
    OBVIOUS
  <1>2. Cardinality(S) \in Nat
    BY <1>1, SetOfPositions
  <1>3. PICK place \in [1..Cardinality(S) -> S] :
              /\ \A n \in 1..Cardinality(S) : place[n] = CHOOSE i \in S : Cardinality({j \in S : j <= i}) = n
              /\ \A i \in S : \E n \in 1..Cardinality(S) : place[n] = i
              /\ \A a, b \in 1..Cardinality(S) : place[a] = place[b] => a = b
    BY <1>1, ChosenPlaces
  <1>4. \A n \in 1..Cardinality(S) : Chosen(s, S)[n] = s[place[n]]
    BY <1>3 DEF Chosen
  <1>5. \A n \in 1..Cardinality(S) : s[place[n]] \in A
    BY <1>3, <1>1
  <1>6. DOMAIN Chosen(s, S) = 1..Cardinality(S)
    BY DEF Chosen
  <1>7. Chosen(s, S) \in [1..Cardinality(S) -> A]
    BY <1>4, <1>5 DEF Chosen
  <1>8. Chosen(s, S) \in Seq(A) /\ Len(Chosen(s, S)) = Cardinality(S)
    BY <1>7, <1>2
  <1> QED
    BY <1>2, <1>3, <1>4, <1>6, <1>8, Zenon DEF IsChosen, IsPlaced


-----------------------------------------------------------------------------
(* Sequences put together.                                                 *)
Both(e, s, t) ==
    /\ Len(e) = Len(s) + Len(t)
    /\ \A i \in 1..Len(s) : e[i] = s[i]
    /\ \A i \in 1..Len(t) : e[Len(s) + i] = t[i]

LEMMA Joined ==
    ASSUME NEW U, NEW s \in Seq(U), NEW t \in Seq(U)
    PROVE  s \o t \in Seq(U) /\ Both(s \o t, s, t)
  <1>1. s \o t \in Seq(U)
    OBVIOUS
  <1>2. Len(s \o t) = Len(s) + Len(t)
    OBVIOUS
  <1>3. \A i \in 1..Len(s) : (s \o t)[i] = s[i]
    OBVIOUS
  <1>4. \A i \in 1..Len(t) : (s \o t)[Len(s) + i] = t[i]
    OBVIOUS
  <1> QED
    BY <1>1, <1>2, <1>3, <1>4, Zenon DEF Both

Longer(t, s, x) ==
    /\ Len(s) \in Nat /\ Len(t) = Len(s) + 1 /\ t[Len(s) + 1] = x
    /\ DOMAIN s = 1..Len(s) /\ DOMAIN t = 1..(Len(s) + 1)
    /\ \A i \in DOMAIN s : t[i] = s[i]

LEMMA Appended ==
    ASSUME NEW U, NEW s \in Seq(U), NEW x
    PROVE  Append(s, x) \in Seq(U \cup {x}) /\ Longer(Append(s, x), s, x)
  <1>1. s \in Seq(U \cup {x}) /\ x \in U \cup {x} /\ Len(s) \in Nat
    OBVIOUS
  <1>2. PICK V : V = U \cup {x}
    OBVIOUS
  <1>3. s \in Seq(V) /\ x \in V
    BY <1>1, <1>2
  <1>4. /\ Append(s, x) \in Seq(V) /\ Len(Append(s, x)) = Len(s) + 1
        /\ Append(s, x)[Len(s) + 1] = x
        /\ \A i \in 1..Len(s) : Append(s, x)[i] = s[i]
    BY <1>3
  <1>5. PICK t : t = Append(s, x)
    OBVIOUS
  <1>6. t \in Seq(V) /\ Len(t) = Len(s) + 1 /\ t[Len(s) + 1] = x /\ \A i \in 1..Len(s) : t[i] = s[i]
    BY <1>4, <1>5, Zenon
  <1>7. DOMAIN s = 1..Len(s) /\ DOMAIN t = 1..Len(t)
    BY <1>6
  <1>8. Longer(t, s, x)
    BY <1>1, <1>6, <1>7, Zenon DEF Longer
  <1> QED
    BY <1>2, <1>5, <1>6, <1>8, Zenon

-----------------------------------------------------------------------------
LEMMA WslCards ==
    ASSUME NEW S
    PROVE  Wsl!Cardinality(S) = Cardinality(S) /\ (Wsl!IsFiniteSet(S) <=> IsFiniteSet(S))
  BY DEF Wsl!Cardinality, Cardinality, Wsl!IsFiniteSet, IsFiniteSet

(* Every member of a finite set has its place in SetToSeq.                 *)
LEMMA WslListing ==
    ASSUME NEW S, IsFiniteSet(S)
    PROVE  /\ Cardinality(S) \in Nat /\ Wsl!SetToSeq(S) \in [1..Cardinality(S) -> S]
           /\ \A c \in S : \E i \in 1..Cardinality(S) : Wsl!SetToSeq(S)[i] = c
  <1>1. PICK N : N = Cardinality(S)
    OBVIOUS
  <1>2. N \in Nat /\ ExistsBijection(1..N, S)
    BY <1>1, FS_CardinalityType
  <1>3. PICK b \in [1..N -> S] : \A i, j \in 1..N : b[i] = b[j] => i = j
    BY <1>2 DEF ExistsBijection, Bijection, Injection, IsInjective
  <1>4. Wsl!IsInjective(b)
    BY <1>3 DEF Wsl!IsInjective
  <1>5. PICK f : f = Wsl!SetToSeq(S)
    OBVIOUS
  <1>6. f = CHOOSE g \in [1..N -> S] : Wsl!IsInjective(g)
    <2>1. Wsl!Cardinality(S) = N
      BY <1>1, WslCards
    <2> QED
      BY <2>1, <1>5 DEF Wsl!SetToSeq
  <1>7. f \in [1..N -> S] /\ Wsl!IsInjective(f)
    BY <1>3, <1>4, <1>6
  <1>8. f \in Injection(1..N, S)
    BY <1>7 DEF Injection, IsInjective, Wsl!IsInjective
  <1>9. Cardinality(1..N) = N
    <2>1. 1 \in Int /\ N \in Int /\ (IF 1 > N THEN 0 ELSE N - 1 + 1) = N
      BY <1>2
    <2>2. Cardinality(1..N) = IF 1 > N THEN 0 ELSE N - 1 + 1
      BY <2>1, FS_Interval, Zenon
    <2> QED
      BY <2>1, <2>2
  <1>10. f \in Surjection(1..N, S)
    BY <1>1, <1>8, <1>9, FS_Injection
  <1>11. \A c \in S : \E i \in 1..N : f[i] = c
    BY <1>10 DEF Surjection
  <1> QED
    BY <1>1, <1>2, <1>5, <1>7, <1>11

(* One operation for every member of S.                                    *)
IsEach(e, S, before) ==
    /\ e \in Seq({Wsl!Operation(c, before[c]) : c \in S})
    /\ \A c \in S : \E i \in 1..Len(e) : e[i] = Wsl!Operation(c, before[c])

LEMMA WslEach ==
    ASSUME NEW S, IsFiniteSet(S), NEW before
    PROVE  IsEach(Wsl!Each(S, before), S, before)
  <1>1. PICK f, N : f = Wsl!SetToSeq(S) /\ N = Cardinality(S)
    OBVIOUS
  <1>2. N \in Nat /\ f \in [1..N -> S] /\ \A c \in S : \E i \in 1..N : f[i] = c
    BY <1>1, WslListing
  <1>3. PICK e : e = [i \in 1..N |-> Wsl!Operation(f[i], before[f[i]])]
    OBVIOUS
  <1>4. e = Wsl!Each(S, before)
    <2>1. Wsl!Cardinality(S) = N
      BY <1>1, WslCards
    <2> QED
      BY <1>1, <1>3, <2>1 DEF Wsl!Each
  <1>5. PICK U : U = {Wsl!Operation(c, before[c]) : c \in S}
    OBVIOUS
  <1>6. \A i \in 1..N : e[i] = Wsl!Operation(f[i], before[f[i]])
    BY <1>3
  <1>7. \A c \in S : Wsl!Operation(c, before[c]) \in U
    BY <1>5
  <1>8. \A i \in 1..N : e[i] \in U
    BY <1>2, <1>6, <1>7
  <1>9. e \in [1..N -> U]
    BY <1>3, <1>8
  <1>10. e \in Seq(U) /\ Len(e) = N
    BY <1>2, <1>9
  <1>11. \A c \in S : \E i \in 1..N : e[i] = Wsl!Operation(c, before[c])
    BY <1>2, <1>6
  <1>12. IsEach(e, S, before)
    BY <1>5, <1>10, <1>11, Zenon DEF IsEach
  <1> QED
    BY <1>4, <1>12, Zenon


(* A discovery as build_discovery makes it: what became of every           *)
(* distribution that ran, and what its components are.                     *)
DistributionOK(r, c) ==
    /\ r.components[c].kind = "distribution" /\ "subsystem" \in r.components[c].after
    /\ r.listing[c].version = 2 => "vm" \in r.components[c].after
    /\ r.components[c].artifact = "verified" =>
          r.exports[c].artifact = "verified" /\ r.exports[c].result # "failed"
FoundOK(r) ==
    /\ IsFiniteSet(DOMAIN r.listing)
    /\ DOMAIN r.listing \cap {"subsystem", "vm", "wslconfig"} = {}
    /\ DOMAIN r.listing \cup {"subsystem", "vm"} \subseteq DOMAIN r.components
    /\ DOMAIN r.components \subseteq DOMAIN r.listing \cup {"subsystem", "vm", "wslconfig"}
    /\ \A c \in DOMAIN r.listing : DistributionOK(r, c)
    /\ \A c \in {"subsystem", "vm"} : r.components[c].kind = "feature" /\ r.components[c].artifact = "none"
    /\ "wslconfig" \in DOMAIN r.components =>
          r.components["wslconfig"].kind = "config" /\ r.components["wslconfig"].artifact = "none"
    /\ r.ran => \A d \in DOMAIN r.listing :
                   r.listing[d].state = "running" => d \in r.configs \cup r.warnings

(* A plan of the discovery r.                                              *)
OrderedOK(p, r) ==
    \A i \in DOMAIN p.operations :
        /\ \A c \in p.operations[i].prerequisites : Wsl!Position(p.operations, c) < i
        /\ p.operations[i].component \in DOMAIN r.listing => "subsystem" \in p.operations[i].prerequisites
        /\ p.operations[i].component \in DOMAIN r.listing /\ r.listing[p.operations[i].component].version = 2
              => "vm" \in p.operations[i].prerequisites
VerifiedOK(p, r) ==
    p.latest =>
        \A i \in DOMAIN p.operations : p.operations[i].kind = "import" =>
            /\ r.exports[p.operations[i].component].artifact = "verified"
            /\ r.exports[p.operations[i].component].result # "failed"

WslWorld ==
    /\ IsFiniteSet(DOMAIN world) /\ DOMAIN world \cap {"subsystem", "vm", "wslconfig"} = {}
    /\ DOMAIN listing \subseteq DOMAIN world
WslQueries ==
    /\ pc \in {"idle", "probe", "query", "build"}
    /\ pc = "probe" => toQuery = {d \in DOMAIN listing : listing[d].state = "running"}
    /\ pc = "query" => \A d \in DOMAIN listing :
                          listing[d].state = "running" => d \in toQuery \cup configs \cup warnings
WslFound ==
    /\ \E U : discoveries \in Seq(U)
    /\ \A r \in DOMAIN discoveries : FoundOK(discoveries[r])
    /\ discoveries # <<>> =>
          \A c \in DOMAIN discoveries[Len(discoveries)].components :
              metadata[c] = discoveries[Len(discoveries)].components[c]
WslPlans ==
    \A p \in plans : /\ p.of \in DOMAIN discoveries
                     /\ OrderedOK(p, discoveries[p.of]) /\ VerifiedOK(p, discoveries[p.of])
WslInv == WslWorld /\ WslQueries /\ WslFound /\ WslPlans

LEMMA WslStart == ASSUME Wsl!WdInit PROVE WslInv
  <1>1. DOMAIN listing = {} /\ DOMAIN discoveries = {} /\ discoveries = <<>>
    BY DEF Wsl!WdInit
  <1>2. IsFiniteSet(DOMAIN world) /\ DOMAIN world \cap {"subsystem", "vm", "wslconfig"} = {}
    BY WslAssumption, WslCards DEF Wsl!WslAssumption, Wsl!WdInit, Wsl!Features, Wsl!Config
  <1>3. WslWorld
    BY <1>1, <1>2 DEF WslWorld
  <1>4. WslQueries
    BY DEF WslQueries, Wsl!WdInit
  <1>5. discoveries \in Seq({})
    BY <1>1
  <1>6. WslFound
    BY <1>1, <1>5 DEF WslFound
  <1>7. WslPlans
    BY DEF WslPlans, Wsl!WdInit
  <1> QED
    BY <1>3, <1>4, <1>6, <1>7 DEF WslInv

LEMMA WslKeepFound ==
    ASSUME WslInv, UNCHANGED <<discoveries, metadata, plans>>
    PROVE  WslFound' /\ WslPlans'
  <1>1. WslFound /\ WslPlans
    BY DEF WslInv
  <1>2. WslFound'
    BY <1>1 DEF WslFound, FoundOK, DistributionOK
  <1>3. WslPlans'
    BY <1>1, Zenon DEF WslPlans, OrderedOK, VerifiedOK, Wsl!Position
  <1> QED
    BY <1>2, <1>3

LEMMA WslList == ASSUME WslInv, Wsl!List PROVE WslInv'
  <1>1. UNCHANGED <<world, discoveries, metadata, plans>>
    BY DEF Wsl!List
  <1>2. CASE UNCHANGED <<pc, configs, warnings, listing, toQuery>>
    BY <1>1, <1>2, WslKeepFound DEF WslInv, WslWorld, WslQueries
  <1>3. CASE /\ pc' = "probe" /\ listing' = Wsl!Registered
             /\ toQuery' = {d \in DOMAIN listing' : listing'[d].state = "running"}
    <2>1. DOMAIN listing' \subseteq DOMAIN world
      BY <1>3 DEF Wsl!Registered
    <2>2. WslWorld' /\ WslQueries'
      BY <1>1, <1>3, <2>1 DEF WslInv, WslWorld, WslQueries
    <2> QED
      BY <1>1, <2>2, WslKeepFound DEF WslInv
  <1> QED
    BY <1>2, <1>3 DEF Wsl!List

LEMMA WslProbe == ASSUME WslInv, Wsl!Probe PROVE WslInv'
  <1>1. UNCHANGED <<world, listing, toQuery, discoveries, metadata, plans>> /\ pc = "probe" /\ pc' \in {"query", "idle"}
        /\ warnings \subseteq warnings' /\ configs' = configs
    BY DEF Wsl!Probe, Wsl!Abandon
  <1>2. WslWorld' /\ WslQueries'
    BY <1>1 DEF WslInv, WslWorld, WslQueries
  <1> QED
    BY <1>1, <1>2, WslKeepFound DEF WslInv

LEMMA WslQuery == ASSUME WslInv, NEW d \in DOMAIN world, Wsl!Query(d) PROVE WslInv'
  <1>1. UNCHANGED <<listing, discoveries, metadata, plans>> /\ DOMAIN world' = DOMAIN world
    BY DEF Wsl!Query, Wsl!Abandon
  <1>2. WslWorld'
    BY <1>1 DEF WslInv, WslWorld
  <1>3. WslQueries'
    <2>1. CASE pc' = "idle"
      BY <2>1 DEF WslQueries
    <2>2. CASE pc' # "idle"
      <3>1. /\ pc = "query" /\ pc' = "query" /\ toQuery' = toQuery \ {d} /\ configs \subseteq configs'
            /\ warnings \subseteq warnings' /\ d \in configs' \cup warnings'
        BY <2>2 DEF Wsl!Query, Wsl!Abandon
      <3> QED
        BY <1>1, <3>1 DEF WslInv, WslQueries
    <2> QED
      BY <2>1, <2>2
  <1> QED
    BY <1>1, <1>2, <1>3, WslKeepFound DEF WslInv

LEMMA WslCapture == ASSUME WslInv, Wsl!Capture PROVE WslInv'
  <1>1. UNCHANGED <<world, discoveries, metadata, plans>> /\ pc' = "build" /\ listing' = Wsl!Registered
    BY DEF Wsl!Capture
  <1>2. DOMAIN listing' \subseteq DOMAIN world
    BY <1>1 DEF Wsl!Registered
  <1>3. WslWorld' /\ WslQueries'
    BY <1>1, <1>2 DEF WslInv, WslWorld, WslQueries
  <1> QED
    BY <1>1, <1>3, WslKeepFound DEF WslInv

LEMMA WslUser == ASSUME WslInv, NEW d \in DOMAIN world, Wsl!UserChange(d) PROVE WslInv'
  <1>1. /\ UNCHANGED <<pc, listing, toQuery, configs, warnings, discoveries, metadata, plans>>
        /\ DOMAIN world' = DOMAIN world
    BY DEF Wsl!UserChange
  <1>2. WslWorld' /\ WslQueries'
    BY <1>1 DEF WslInv, WslWorld, WslQueries
  <1> QED
    BY <1>1, <1>2, WslKeepFound DEF WslInv


(* The discovery that build_discovery adds.                                *)
LEMMA WslBuilt ==
    ASSUME WslInv, pc = "build" \/ (pc = "query" /\ toQuery = {}), NEW b \in BOOLEAN, NEW r,
           r = [components |-> Wsl!Resources(b), listing |-> listing, configs |-> configs,
                eligible |-> [d \in Wsl!Listed |-> Wsl!Eligibility(d)], warnings |-> warnings,
                ran |-> pc = "query", exports |-> exports]
    PROVE  FoundOK(r)
  <1>1. /\ r.components = Wsl!Resources(b) /\ r.listing = listing /\ r.configs = configs
        /\ r.warnings = warnings /\ r.exports = exports
    OBVIOUS
  <1>2. r.ran <=> pc = "query"
    OBVIOUS
  <1>3. PICK R : R = Wsl!Resources(b)
    OBVIOUS
  <1>4. DOMAIN R = DOMAIN listing \cup {"subsystem", "vm"} \cup (IF b THEN {"wslconfig"} ELSE {})
    BY <1>3 DEF Wsl!Resources, Wsl!Listed, Wsl!Features, Wsl!Config
  <1>5. \A c \in DOMAIN listing :
            R[c] = [kind |-> "distribution", artifact |-> Wsl!ArtifactOf(c), after |-> Wsl!RequiredFeatures]
    BY <1>3 DEF Wsl!Resources, Wsl!Listed
  <1>6. DOMAIN listing \cap {"subsystem", "vm", "wslconfig"} = {}
    BY DEF WslInv, WslWorld
  <1>7. \A c \in {"subsystem", "vm"} : R[c] = [kind |-> "feature", artifact |-> "none", after |-> {}]
    BY <1>3, <1>6 DEF Wsl!Resources, Wsl!Listed, Wsl!Features, Wsl!Config
  <1>8. b => R["wslconfig"] = [kind |-> "config", artifact |-> "none", after |-> {}]
    BY <1>3, <1>6 DEF Wsl!Resources, Wsl!Listed, Wsl!Features, Wsl!Config
  <1>9. IsFiniteSet(DOMAIN listing)
    BY FS_Subset DEF WslInv, WslWorld
  <1>10. ASSUME NEW c \in DOMAIN listing PROVE DistributionOK(r, c)
    <2>1. R[c].kind = "distribution" /\ R[c].artifact = Wsl!ArtifactOf(c) /\ R[c].after = Wsl!RequiredFeatures
      <3>1. PICK A, F : A = Wsl!ArtifactOf(c) /\ F = Wsl!RequiredFeatures
        OBVIOUS
      <3>2. R[c] = [kind |-> "distribution", artifact |-> A, after |-> F]
        BY <1>5, <3>1
      <3> QED
        BY <3>1, <3>2
    <2>2. "subsystem" \in Wsl!RequiredFeatures /\ (listing[c].version = 2 => "vm" \in Wsl!RequiredFeatures)
      BY DEF Wsl!RequiredFeatures, Wsl!Listed
    <2>3. Wsl!ArtifactOf(c) = "verified" => exports[c].artifact = "verified" /\ exports[c].result # "failed"
      BY DEF Wsl!ArtifactOf
    <2> QED
      BY <1>1, <1>3, <2>1, <2>2, <2>3 DEF DistributionOK
  <1>11. pc = "query" => \A d \in DOMAIN listing :
                   listing[d].state = "running" => d \in configs \cup warnings
    BY DEF WslInv, WslQueries
  <1>12. /\ \A c \in {"subsystem", "vm"} : R[c].kind = "feature" /\ R[c].artifact = "none"
         /\ b => R["wslconfig"].kind = "config" /\ R["wslconfig"].artifact = "none"
    BY <1>7, <1>8
  <1>13. "wslconfig" \in DOMAIN R => b
    BY <1>4, <1>6
  <1>14. /\ DOMAIN listing \cup {"subsystem", "vm"} \subseteq DOMAIN R
         /\ DOMAIN R \subseteq DOMAIN listing \cup {"subsystem", "vm", "wslconfig"}
    BY <1>4
  <1> QED
    BY <1>1, <1>2, <1>3, <1>6, <1>9, <1>10, <1>11, <1>12, <1>13, <1>14 DEF FoundOK

LEMMA WslBuild == ASSUME WslInv, Wsl!Build PROVE WslInv'
  <1>1. UNCHANGED <<world, listing, plans>> /\ pc' = "idle"
    BY DEF Wsl!Build, Wsl!Abandon
  <1>2. WslWorld' /\ WslQueries'
    BY <1>1 DEF WslInv, WslWorld, WslQueries
  <1>3. CASE UNCHANGED <<discoveries, metadata>>
    BY <1>1, <1>2, <1>3, WslKeepFound DEF WslInv
  <1>4. CASE ~UNCHANGED <<discoveries, metadata>>
    <2>1. PICK b \in BOOLEAN :
              /\ Wsl!Remember(Wsl!Resources(b))
              /\ discoveries' = Append(discoveries,
                    [components |-> Wsl!Resources(b), listing |-> listing, configs |-> configs,
                     eligible |-> [d \in Wsl!Listed |-> Wsl!Eligibility(d)], warnings |-> warnings,
                     ran |-> pc = "query", exports |-> exports])
      BY <1>4 DEF Wsl!Build, Wsl!Abandon
    <2>2. PICK r : r = [components |-> Wsl!Resources(b), listing |-> listing, configs |-> configs,
                        eligible |-> [d \in Wsl!Listed |-> Wsl!Eligibility(d)], warnings |-> warnings,
                        ran |-> pc = "query", exports |-> exports]
      OBVIOUS
    <2>3. FoundOK(r)
      BY <2>2, WslBuilt DEF Wsl!Build
    <2>4. r.components = Wsl!Resources(b)
      BY <2>2
    <2>5. \A c \in DOMAIN Wsl!Resources(b) : metadata'[c] = Wsl!Resources(b)[c]
      BY <2>1 DEF Wsl!Remember
    <2>6. PICK U : discoveries \in Seq(U)
      BY DEF WslInv, WslFound
    <2>15. PICK t : t = Append(discoveries, r)
      OBVIOUS
    <2>16. t \in Seq(U \cup {r}) /\ Longer(t, discoveries, r)
      BY <2>6, <2>15, Appended, Zenon
    <2>7. /\ t \in Seq(U \cup {r}) /\ Len(t) = Len(discoveries) + 1 /\ t[Len(t)] = r
          /\ DOMAIN discoveries = 1..Len(discoveries) /\ DOMAIN t = 1..(Len(discoveries) + 1)
          /\ \A i \in DOMAIN discoveries : t[i] = discoveries[i]
      BY <2>16, Zenon DEF Longer
    <2>8. discoveries' = t
      BY <2>1, <2>2, <2>15
    <2>9. \A i \in DOMAIN t : i \in DOMAIN discoveries \/ t[i] = r
      BY <2>6, <2>7
    <2>10. DOMAIN discoveries \subseteq DOMAIN t
      BY <2>6, <2>7
    <2>11. \A i \in DOMAIN t : FoundOK(t[i])
      BY <2>3, <2>7, <2>9 DEF WslInv, WslFound
    <2>12. \A c \in DOMAIN t[Len(t)].components : metadata'[c] = t[Len(t)].components[c]
      BY <2>4, <2>5, <2>7
    <2>13. WslFound'
      <3>1. \A x : FoundOK(x)' <=> FoundOK(x)
        BY DEF FoundOK, DistributionOK
      <3>2. \E V : t \in Seq(V)
        BY <2>7
      <3> QED
        BY <2>8, <2>11, <2>12, <3>1, <3>2 DEF WslFound
    <2>14. WslPlans'
      <3>1. \A p \in plans : /\ p.of \in DOMAIN t
                             /\ OrderedOK(p, t[p.of]) /\ VerifiedOK(p, t[p.of])
        BY <2>7, <2>10 DEF WslInv, WslPlans
      <3>2. \A p, x : (OrderedOK(p, x)' <=> OrderedOK(p, x)) /\ (VerifiedOK(p, x)' <=> VerifiedOK(p, x))
        BY DEF OrderedOK, VerifiedOK, Wsl!Position
      <3> QED
        BY <1>1, <2>8, <3>1, <3>2 DEF WslPlans
    <2> QED
      BY <1>2, <2>13, <2>14 DEF WslInv
  <1> QED
    BY <1>3, <1>4


IsThree(e, a, b, c, l, m, n) ==
    /\ l \in Nat /\ m \in Nat /\ n \in Nat /\ DOMAIN e = 1..(l + m + n)
    /\ \A i \in 1..l : e[i] = a[i]
    /\ \A i \in 1..m : e[l + i] = b[i]
    /\ \A i \in 1..n : e[l + m + i] = c[i]

LEMMA ThreeParts ==
    ASSUME NEW U, NEW a \in Seq(U), NEW b \in Seq(U), NEW c \in Seq(U)
    PROVE  IsThree(a \o b \o c, a, b, c, Len(a), Len(b), Len(c))
  <1>14. PICK l, m, n, e : l = Len(a) /\ m = Len(b) /\ n = Len(c) /\ e = a \o b \o c
    OBVIOUS
  <1>1. l \in Nat /\ m \in Nat /\ n \in Nat
    BY <1>14
  <1>2. PICK d : d = a \o b
    OBVIOUS
  <1>12. d \in Seq(U) /\ Both(d, a, b)
    BY <1>2, Joined, Zenon
  <1>3. Len(d) = l + m /\ (\A i \in 1..l : d[i] = a[i]) /\ \A i \in 1..m : d[l + i] = b[i]
    BY <1>12, <1>14, Zenon DEF Both
  <1>4. PICK f : f = d \o c
    OBVIOUS
  <1>13. f \in Seq(U) /\ Both(f, d, c)
    BY <1>4, <1>12, Joined, Zenon
  <1>5. /\ Len(f) = l + m + n /\ \A i \in 1..(l + m) : f[i] = d[i]
        /\ \A i \in 1..n : f[l + m + i] = c[i]
    BY <1>3, <1>13, <1>14, Zenon DEF Both
  <1>6. e = f
    BY <1>2, <1>4, <1>14, Zenon
  <1>7. DOMAIN f = 1..(l + m + n)
    <2>1. DOMAIN f = 1..Len(f)
      BY <1>13
    <2> QED
      BY <2>1, <1>5, Zenon
  <1>8. \A i \in 1..l : i \in 1..(l + m)
    BY <1>1
  <1>9. \A i \in 1..m : l + i \in 1..(l + m)
    BY <1>1
  <1>10. \A i \in 1..l : f[i] = a[i]
    BY <1>3, <1>5, <1>8, Zenon
  <1>11. \A i \in 1..m : f[l + i] = b[i]
    BY <1>3, <1>5, <1>9, Zenon
  <1>15. IsThree(e, a, b, c, l, m, n)
    BY <1>1, <1>5, <1>6, <1>7, <1>10, <1>11, Zenon DEF IsThree
  <1> QED
    BY <1>14, <1>15, Zenon

(* A plan in three parts, of which none waits for a later one.             *)
InParts(ops, l, m, n, R, I, C) ==
    /\ l \in Nat /\ m \in Nat /\ n \in Nat /\ DOMAIN ops = 1..(l + m + n)
    /\ R \cap I = {} /\ R \cap C = {} /\ I \cap C = {}
    /\ \A i \in 1..l : ops[i].component \in R /\ ops[i].prerequisites = {}
    /\ \A i \in 1..m : ops[l + i].component \in I /\ ops[l + i].prerequisites \subseteq R
    /\ \A i \in 1..n : ops[l + m + i].component \in C /\ ops[l + m + i].prerequisites \subseteq R \cup I
    /\ \A c \in R : \E i \in 1..l : ops[i].component = c
    /\ \A c \in I : \E i \in 1..m : ops[l + i].component = c

LEMMA WslPartsOrdered ==
    ASSUME NEW ops, NEW l, NEW m, NEW n, NEW R, NEW I, NEW C, InParts(ops, l, m, n, R, I, C)
    PROVE  \A i \in DOMAIN ops : \A c \in ops[i].prerequisites : Wsl!Position(ops, c) < i
  <1> USE DEF InParts
  <1>1. ASSUME NEW i \in DOMAIN ops
        PROVE  \/ i \in 1..l
               \/ i - l \in 1..m /\ l + (i - l) = i
               \/ i - (l + m) \in 1..n /\ l + m + (i - (l + m)) = i
    OBVIOUS
  <1>2. ASSUME NEW c \in R \cup I
        PROVE  Wsl!Position(ops, c) \in DOMAIN ops /\ ops[Wsl!Position(ops, c)].component = c
    <2>1. \E i \in DOMAIN ops : ops[i].component = c
      <3>1. CASE c \in R
        <4>1. PICK i \in 1..l : ops[i].component = c
          BY <3>1
        <4>2. i \in DOMAIN ops
          OBVIOUS
        <4> QED
          BY <4>1, <4>2
      <3>2. CASE c \in I
        <4>1. PICK i \in 1..m : ops[l + i].component = c
          BY <3>2
        <4>2. l + i \in DOMAIN ops
          OBVIOUS
        <4> QED
          BY <4>1, <4>2
      <3> QED
        BY <3>1, <3>2
    <2> QED
      BY <2>1 DEF Wsl!Position
  <1>3. ASSUME NEW i \in DOMAIN ops
        PROVE  /\ ops[i].component \in R => i <= l
               /\ ops[i].component \in I => i <= l + m
    <2>1. CASE i \in 1..l
      BY <2>1
    <2>2. CASE i - l \in 1..m /\ l + (i - l) = i
      <3>1. ops[i].component \in I /\ i <= l + m
        BY <2>2
      <3> QED
        BY <3>1
    <2>3. CASE i - (l + m) \in 1..n /\ l + m + (i - (l + m)) = i
      <3>1. ops[i].component \in C
        BY <2>3
      <3> QED
        BY <3>1
    <2> QED
      BY <1>1, <2>1, <2>2, <2>3
  <1> SUFFICES ASSUME NEW i \in DOMAIN ops, NEW c \in ops[i].prerequisites
               PROVE  Wsl!Position(ops, c) < i
    OBVIOUS
  <1>4. PICK q : q = Wsl!Position(ops, c)
    OBVIOUS
  <1>5. i \in Int /\ ~(i \in 1..l)
    <2>1. i \in Int
      OBVIOUS
    <2>2. ASSUME i \in 1..l PROVE FALSE
      <3>1. ops[i].prerequisites = {}
        BY <2>2
      <3> QED
        BY <3>1
    <2> QED
      BY <2>1, <2>2
  <1>6. CASE i - l \in 1..m /\ l + (i - l) = i
    <2>1. c \in R
      BY <1>6
    <2>2. q \in DOMAIN ops /\ ops[q].component = c
      BY <1>2, <1>4, <2>1
    <2>3. q <= l
      BY <1>3, <2>1, <2>2
    <2>4. q \in Int /\ i > l
      BY <1>6, <2>2
    <2> QED
      BY <1>4, <1>5, <2>3, <2>4
  <1>7. CASE i - (l + m) \in 1..n /\ l + m + (i - (l + m)) = i
    <2>1. c \in R \cup I
      BY <1>7
    <2>2. q \in DOMAIN ops /\ ops[q].component = c
      BY <1>2, <1>4, <2>1
    <2>3. q <= l \/ q <= l + m
      BY <1>3, <2>1, <2>2
    <2>4. q \in Int /\ i > l + m
      BY <1>7, <2>2
    <2> QED
      BY <1>4, <1>5, <2>3, <2>4
  <1> QED
    BY <1>1, <1>5, <1>6, <1>7


LEMMA WslRow ==
    ASSUME NEW c, NEW pre, NEW o, o = Wsl!Operation(c, pre)
    PROVE  /\ o.component = c /\ o.prerequisites = pre
           /\ o.kind = "import" => metadata[c].artifact = "verified"
  BY DEF Wsl!Operation

LEMMA WslKinds ==
    ASSUME NEW r, FoundOK(r)
    PROVE  /\ Wsl!Of(r.components, "feature") = {"subsystem", "vm"}
           /\ Wsl!Of(r.components, "distribution") = DOMAIN r.listing
           /\ Wsl!Of(r.components, "config") \subseteq {"wslconfig"}
  <1>1. PICK cs : cs = r.components
    OBVIOUS
  <1>2. /\ DOMAIN cs \subseteq DOMAIN r.listing \cup {"subsystem", "vm", "wslconfig"}
        /\ DOMAIN r.listing \cup {"subsystem", "vm"} \subseteq DOMAIN cs
        /\ \A c \in DOMAIN r.listing : cs[c].kind = "distribution"
        /\ cs["subsystem"].kind = "feature" /\ cs["vm"].kind = "feature"
        /\ "wslconfig" \in DOMAIN cs => cs["wslconfig"].kind = "config"
    BY <1>1 DEF FoundOK, DistributionOK
  <1>3. \A k : Wsl!Of(cs, k) = {c \in DOMAIN cs : cs[c].kind = k}
    BY DEF Wsl!Of
  <1>4. {c \in DOMAIN cs : cs[c].kind = "feature"} = {"subsystem", "vm"}
    BY <1>2
  <1>5. {c \in DOMAIN cs : cs[c].kind = "distribution"} = DOMAIN r.listing
    BY <1>2
  <1>6. {c \in DOMAIN cs : cs[c].kind = "config"} \subseteq {"wslconfig"}
    BY <1>2
  <1> QED
    BY <1>1, <1>3, <1>4, <1>5, <1>6

(* The plan of a discovery.                                                *)
LEMMA WslOperations ==
    ASSUME NEW r, FoundOK(r), NEW p, p.operations = Wsl!Operations(r.components)
    PROVE  /\ OrderedOK(p, r)
           /\ (\A c \in DOMAIN r.components : metadata[c] = r.components[c]) => VerifiedOK(p, r)
  <1>1. PICK cs, ops : cs = r.components /\ ops = Wsl!Operations(cs)
    OBVIOUS
  <1>2. PICK R, I, C : /\ R = Wsl!Of(cs, "feature") /\ I = Wsl!Of(cs, "distribution")
                       /\ C = Wsl!Of(cs, "config")
    OBVIOUS
  <1>3. R = {"subsystem", "vm"} /\ I = DOMAIN r.listing /\ C \subseteq {"wslconfig"}
    BY <1>1, <1>2, WslKinds
  <1>4. R \cap I = {} /\ R \cap C = {} /\ I \cap C = {}
    BY <1>3 DEF FoundOK
  <1>5. IsFiniteSet(R) /\ IsFiniteSet(I) /\ IsFiniteSet(C)
    <2>1. IsFiniteSet({"subsystem"}) /\ IsFiniteSet({"wslconfig"})
      BY FS_Singleton
    <2>2. IsFiniteSet({"subsystem"} \cup {"vm"})
      BY <2>1, FS_AddElement
    <2>3. IsFiniteSet(C)
      BY <1>3, <2>1, FS_Subset
    <2>4. IsFiniteSet(I)
      BY <1>3 DEF FoundOK
    <2>5. R = {"subsystem"} \cup {"vm"}
      BY <1>3
    <2> QED
      BY <2>2, <2>3, <2>4, <2>5
  <1>6. PICK f, g, h : /\ f = [x \in R |-> {}] /\ g = [d \in I |-> cs[d].after \cap R]
                       /\ h = [x \in C |-> R \cup I]
    OBVIOUS
  <1>7. PICK a, b, e : a = Wsl!Each(R, f) /\ b = Wsl!Each(I, g) /\ e = Wsl!Each(C, h)
    OBVIOUS
  <1>8. IsEach(a, R, f) /\ IsEach(b, I, g) /\ IsEach(e, C, h)
    BY <1>5, <1>7, WslEach, Zenon
  <1>10. ops = a \o b \o e
    BY <1>1, <1>2, <1>6, <1>7 DEF Wsl!Operations
  <1>11. PICK A, B, E : /\ A = {Wsl!Operation(c, f[c]) : c \in R} /\ B = {Wsl!Operation(c, g[c]) : c \in I}
                        /\ E = {Wsl!Operation(c, h[c]) : c \in C}
    OBVIOUS
  <1>12. PICK U : U = A \cup B \cup E
    OBVIOUS
  <1>13. a \in Seq(A) /\ b \in Seq(B) /\ e \in Seq(E)
    BY <1>8, <1>11, Zenon DEF IsEach
  <1>14. a \in Seq(U) /\ b \in Seq(U) /\ e \in Seq(U)
    <2>1. A \subseteq U /\ B \subseteq U /\ E \subseteq U
      BY <1>12
    <2> QED
      BY <1>13, <2>1
  <1>15. PICK l, m, n : l = Len(a) /\ m = Len(b) /\ n = Len(e)
    OBVIOUS
  <1>16. /\ l \in Nat /\ m \in Nat /\ n \in Nat /\ DOMAIN ops = 1..(l + m + n)
         /\ \A i \in 1..l : ops[i] = a[i]
         /\ \A i \in 1..m : ops[l + i] = b[i]
         /\ \A i \in 1..n : ops[l + m + i] = e[i]
    <2>1. IsThree(ops, a, b, e, l, m, n)
      BY <1>10, <1>14, <1>15, ThreeParts, Zenon
    <2> QED
      BY <2>1, Zenon DEF IsThree
  <1>17. /\ \A i \in 1..l : a[i] \in A
         /\ \A i \in 1..m : b[i] \in B
         /\ \A i \in 1..n : e[i] \in E
    BY <1>13, <1>15
  <1>18. ASSUME NEW o \in A
         PROVE  /\ o.component \in R /\ o.prerequisites = {}
                /\ o.kind = "import" => metadata[o.component].artifact = "verified"
    <2>1. PICK c \in R : o = Wsl!Operation(c, f[c])
      BY <1>11
    <2>2. PICK pre : pre = f[c]
      OBVIOUS
    <2>3. o.component = c /\ o.prerequisites = pre /\ (o.kind = "import" => metadata[c].artifact = "verified")
      BY <2>1, <2>2 DEF Wsl!Operation
    <2>4. pre = {}
      BY <1>6, <2>2
    <2> QED
      BY <2>3, <2>4
  <1>19. ASSUME NEW o \in B
         PROVE  /\ o.component \in I /\ o.prerequisites = cs[o.component].after \cap R
                /\ o.kind = "import" => metadata[o.component].artifact = "verified"
    <2>1. PICK c \in I : o = Wsl!Operation(c, g[c])
      BY <1>11
    <2>2. PICK pre : pre = g[c]
      OBVIOUS
    <2>3. o.component = c /\ o.prerequisites = pre /\ (o.kind = "import" => metadata[c].artifact = "verified")
      BY <2>1, <2>2 DEF Wsl!Operation
    <2>4. pre = cs[c].after \cap R
      BY <1>6, <2>2
    <2> QED
      BY <2>3, <2>4
  <1>20. ASSUME NEW o \in E
         PROVE  /\ o.component \in C /\ o.prerequisites = R \cup I
                /\ o.kind = "import" => metadata[o.component].artifact = "verified"
    <2>1. PICK c \in C : o = Wsl!Operation(c, h[c])
      BY <1>11
    <2>2. PICK pre : pre = h[c]
      OBVIOUS
    <2>3. o.component = c /\ o.prerequisites = pre /\ (o.kind = "import" => metadata[c].artifact = "verified")
      BY <2>1, <2>2 DEF Wsl!Operation
    <2>4. pre = R \cup I
      BY <1>6, <2>2
    <2> QED
      BY <2>3, <2>4
  <1>21. ASSUME NEW c \in R PROVE \E i \in 1..l : ops[i].component = c
    <2>1. PICK i \in 1..l : a[i] = Wsl!Operation(c, f[c])
      BY <1>8, <1>15, Zenon DEF IsEach
    <2>2. ops[i] = a[i]
      BY <1>16
    <2>3. ops[i].component = c
      BY <2>1, <2>2 DEF Wsl!Operation
    <2> QED
      BY <2>3
  <1>22. ASSUME NEW c \in I PROVE \E i \in 1..m : ops[l + i].component = c
    <2>1. PICK i \in 1..m : b[i] = Wsl!Operation(c, g[c])
      BY <1>8, <1>15, Zenon DEF IsEach
    <2>2. ops[l + i] = b[i]
      BY <1>16
    <2>3. ops[l + i].component = c
      BY <2>1, <2>2 DEF Wsl!Operation
    <2> QED
      BY <2>3
  <1>23. \A i \in DOMAIN ops : \A c \in ops[i].prerequisites : Wsl!Position(ops, c) < i
    <2>1. \A i \in 1..l : ops[i].component \in R /\ ops[i].prerequisites = {}
      BY <1>16, <1>17, <1>18
    <2>2. \A i \in 1..m : ops[l + i].component \in I /\ ops[l + i].prerequisites \subseteq R
      BY <1>16, <1>17, <1>19
    <2>3. \A i \in 1..n : ops[l + m + i].component \in C /\ ops[l + m + i].prerequisites \subseteq R \cup I
      BY <1>16, <1>17, <1>20
    <2>4. InParts(ops, l, m, n, R, I, C)
      BY <1>4, <1>16, <1>21, <1>22, <2>1, <2>2, <2>3, Zenon DEF InParts
    <2> QED
      BY <2>4, WslPartsOrdered, Zenon
  <1>24. \A i \in DOMAIN ops : ops[i] \in A \cup B \cup E
    <2> SUFFICES ASSUME NEW i \in 1..(l + m + n) PROVE ops[i] \in A \cup B \cup E
      BY <1>16
    <2>1. i \in 1..l \/ (i - l \in 1..m /\ l + (i - l) = i) \/ (i - (l + m) \in 1..n /\ l + m + (i - (l + m)) = i)
      BY <1>16
    <2>2. CASE i \in 1..l
      BY <1>16, <1>17, <2>2
    <2>3. CASE i - l \in 1..m /\ l + (i - l) = i
      BY <1>16, <1>17, <2>3
    <2>4. CASE i - (l + m) \in 1..n /\ l + m + (i - (l + m)) = i
      BY <1>16, <1>17, <2>4
    <2> QED
      BY <2>1, <2>2, <2>3, <2>4
  <1>25. \A d \in I : /\ "subsystem" \in cs[d].after \cap R
                      /\ r.listing[d].version = 2 => "vm" \in cs[d].after \cap R
    BY <1>1, <1>3 DEF FoundOK, DistributionOK
  <1>26. ASSUME NEW i \in DOMAIN ops
         PROVE  /\ ops[i].component \in I => "subsystem" \in ops[i].prerequisites
                /\ ops[i].component \in I /\ r.listing[ops[i].component].version = 2
                      => "vm" \in ops[i].prerequisites
    <2>1. PICK o : o = ops[i]
      OBVIOUS
    <2>2. o \in A \cup B \cup E
      BY <1>24, <2>1
    <2>3. o.component \in I => o \in B
      BY <1>4, <1>18, <1>20, <2>2
    <2> QED
      BY <1>19, <1>25, <2>1, <2>3
  <1>27. OrderedOK(p, r)
    <2>1. p.operations = ops
      BY <1>1
    <2> QED
      BY <1>3, <1>23, <1>26, <2>1 DEF OrderedOK
  <1>28. ASSUME \A c \in DOMAIN cs : metadata[c] = cs[c], NEW i \in DOMAIN ops, ops[i].kind = "import"
         PROVE  r.exports[ops[i].component].artifact = "verified" /\ r.exports[ops[i].component].result # "failed"
    <2>1. PICK o : o = ops[i]
      OBVIOUS
    <2>2. o \in A \cup B \cup E /\ o.kind = "import"
      BY <1>24, <1>28, <2>1
    <2>3. o.component \in R \cup I \cup C /\ metadata[o.component].artifact = "verified"
      BY <1>18, <1>19, <1>20, <2>2
    <2>4. R \cup I \cup C \subseteq DOMAIN cs
      BY <1>2 DEF Wsl!Of
    <2>5. cs[o.component].artifact = "verified"
      BY <1>28, <2>3, <2>4
    <2>6. \A c \in R \cup C : cs[c].artifact # "verified"
      BY <1>1, <1>3, <2>4 DEF FoundOK
    <2>7. o.component \in I
      BY <2>3, <2>5, <2>6
    <2> QED
      BY <1>1, <1>3, <2>1, <2>5, <2>7 DEF FoundOK, DistributionOK
  <1>29. (\A c \in DOMAIN cs : metadata[c] = cs[c]) => VerifiedOK(p, r)
    <2>1. p.operations = ops
      BY <1>1
    <2> QED
      BY <1>28, <2>1 DEF VerifiedOK
  <1> QED
    BY <1>1, <1>27, <1>29


LEMMA WslPlanRestore == ASSUME WslInv, NEW r \in DOMAIN discoveries, Wsl!PlanRestore(r) PROVE WslInv'
  <1>1. UNCHANGED <<world, pc, listing, toQuery, configs, warnings, discoveries, metadata>>
    BY DEF Wsl!PlanRestore
  <1>2. WslWorld' /\ WslQueries'
    BY <1>1 DEF WslInv, WslWorld, WslQueries
  <1>3. WslFound'
    BY <1>1 DEF WslInv, WslFound, FoundOK, DistributionOK
  <1>4. PICK q, d : /\ q = [of |-> r, latest |-> r = Len(discoveries),
                            operations |-> Wsl!Operations(discoveries[r].components)]
                    /\ d = discoveries[r]
    OBVIOUS
  <1>5. plans' = plans \cup {q}
    BY <1>4 DEF Wsl!PlanRestore
  <1>6. q.of = r /\ q.operations = Wsl!Operations(d.components) /\ (q.latest => r = Len(discoveries))
    BY <1>4
  <1>7. FoundOK(d)
    BY <1>4 DEF WslInv, WslFound
  <1>8. /\ OrderedOK(q, d)
        /\ (\A c \in DOMAIN d.components : metadata[c] = d.components[c]) => VerifiedOK(q, d)
    BY <1>6, <1>7, WslOperations
  <1>9. q.latest => \A c \in DOMAIN d.components : metadata[c] = d.components[c]
    <2>1. discoveries # <<>>
      OBVIOUS
    <2> QED
      BY <2>1, <1>4, <1>6 DEF WslInv, WslFound
  <1>10. VerifiedOK(q, d)
    BY <1>8, <1>9 DEF VerifiedOK
  <1>11. \A p \in plans \cup {q} : /\ p.of \in DOMAIN discoveries
                                   /\ OrderedOK(p, discoveries[p.of]) /\ VerifiedOK(p, discoveries[p.of])
    BY <1>4, <1>6, <1>8, <1>10 DEF WslInv, WslPlans
  <1>12. WslPlans'
    BY <1>1, <1>5, <1>11 DEF WslPlans, OrderedOK, VerifiedOK, Wsl!Position
  <1> QED
    BY <1>2, <1>3, <1>12 DEF WslInv

LEMMA WslKept == ASSUME WslInv, Wsl!WdNext PROVE WslInv'
  <1>1. ASSUME NEW d \in DOMAIN world, Wsl!Query(d) \/ Wsl!UserChange(d) PROVE WslInv'
    BY <1>1, WslQuery, WslUser
  <1>2. ASSUME NEW r \in DOMAIN discoveries, Wsl!PlanRestore(r) PROVE WslInv'
    BY <1>2, WslPlanRestore
  <1> QED
    BY <1>1, <1>2, WslList, WslProbe, WslCapture, WslBuild, Zenon DEF Wsl!WdNext

LEMMA WslSound ==
    ASSUME WslInv
    PROVE  Wsl!ImportIsVerified /\ Wsl!PlanIsOrdered /\ Wsl!QueryIsAccountedFor
  <1>1. Wsl!QueryIsAccountedFor
    BY DEF WslInv, WslFound, FoundOK, Wsl!QueryIsAccountedFor
  <1>2. Wsl!PlanIsOrdered
    BY DEF WslInv, WslPlans, OrderedOK, Wsl!PlanIsOrdered
  <1>3. Wsl!ImportIsVerified
    BY DEF WslInv, WslPlans, VerifiedOK, Wsl!ImportIsVerified
  <1> QED
    BY <1>1, <1>2, <1>3


-----------------------------------------------------------------------------
(* The scheduled tasks (TaskScan).                                         *)
LEMMA TaskCards ==
    ASSUME NEW S
    PROVE  Task!Cardinality(S) = Cardinality(S)
  BY DEF Task!Cardinality, Cardinality, Task!IsFiniteSet, IsFiniteSet

(* An error stands for the folder; its tasks are read; what a call of      *)
(* enumerate_folder has done of its folder so far, where V are the folders *)
(* that have been entered.                                                 *)
TaskFailed(f) == \E e \in errors : e.path = "none" \/ e.path \in Task!Above(folders, f)
TaskRead(f) == \A j \in DOMAIN folders[f].tasks : folders[f].tasks[j] \in observations
TaskFrame(s, V) ==
    /\ s.stage = "enter" => s.index = 1
    /\ s.stage = "tasks" => \A j \in DOMAIN folders[s.folder].tasks :
                               j < s.index => folders[s.folder].tasks[j] \in observations
    /\ s.stage \in {"open", "folders"} => TaskRead(s.folder)
    /\ s.stage = "folders" => \A j \in DOMAIN folders[s.folder].folders :
                                 j < s.index => folders[s.folder].folders[j] \in V
TaskWalked(f, V) == TaskRead(f) /\ \A j \in DOMAIN folders[f].folders : folders[f].folders[j] \in V
TaskOpen(f, V) == \E k \in DOMAIN stack : stack[k].folder = f /\ TaskFrame(stack[k], V)

(* A folder that has been entered is done, is on the stack or has failed.  *)
TaskWalk(V) ==
    /\ V \subseteq DOMAIN folders /\ RootFolder \in V
    /\ \A f \in V : TaskFailed(f) \/ TaskWalked(f, V) \/ TaskOpen(f, V)

TaskFrames == [folder : DOMAIN folders, stage : {"enter", "tasks", "open", "folders"}, index : Nat \ {0}]
TaskInv ==
    /\ folders \in Hierarchies /\ pc \in {"setup", "walk", "done"} /\ stack \in Seq(TaskFrames)
    /\ IsFiniteSet(observations) /\ Cardinality(observations) <= MaxTasks
    /\ pc = "setup" => stack = <<>>
    /\ pc = "walk" => \E V : TaskWalk(V)
    /\ pc = "done" => \A f \in DOMAIN folders : TaskFailed(f) \/ TaskRead(f)

(* A folder lies in itself and in the folders that its folder lies in.     *)
LEMMA TaskAbove ==
    ASSUME NEW h, NEW f \in DOMAIN h
    PROVE  /\ f \in Task!Above(h, f) /\ Task!Above(h, f) \subseteq DOMAIN h
           /\ \A c \in Task!Above(h, f) : Task!Parents(h, c) \subseteq Task!Above(h, f)
           /\ \A c \in Task!Above(h, f) : Task!Above(h, c) \subseteq Task!Above(h, f)
  <1>1. f \in Task!Above(h, f) /\ Task!Above(h, f) \subseteq DOMAIN h
    BY DEF Task!Above
  <1>2. ASSUME NEW c \in Task!Above(h, f), NEW p \in Task!Parents(h, c)
        PROVE  p \in Task!Above(h, f)
    BY DEF Task!Above, Task!Parents
  <1>3. ASSUME NEW c \in Task!Above(h, f), NEW p \in Task!Above(h, c)
        PROVE  p \in Task!Above(h, f)
    <2>1. Task!Above(h, f) \in SUBSET DOMAIN h /\ c \in Task!Above(h, f)
      BY <1>1
    <2> QED
      BY <2>1, <1>2 DEF Task!Above
  <1> QED
    BY <1>1, <1>2, <1>3

(* Once the stack is empty, everything is accounted for.                   *)
LEMMA TaskAll ==
    ASSUME NEW V, TaskWalk(V), folders \in Hierarchies, stack = <<>>, NEW f \in DOMAIN folders
    PROVE  TaskFailed(f) \/ TaskRead(f)
  <1> SUFFICES ASSUME ~TaskFailed(f), ~TaskRead(f) PROVE FALSE
    OBVIOUS
  <1>1. \A g \in V : TaskFailed(g) \/ TaskWalked(g, V)
    BY DEF TaskWalk, TaskOpen
  <1> DEFINE S == {g \in Task!Above(folders, f) : g \notin V}
  <1>2. f \in S
    BY <1>1, TaskAbove DEF TaskWalked
  <1>3. ASSUME NEW c \in S, NEW p \in Task!Parents(folders, c)
        PROVE  p \in S
    <2>1. p \in Task!Above(folders, f) /\ p \in DOMAIN folders /\ c \in Task!Range(folders[p].folders)
      BY TaskAbove DEF Task!Parents
    <2>2. ~TaskFailed(p)
      <3>1. Task!Above(folders, p) \subseteq Task!Above(folders, f)
        BY <2>1, TaskAbove
      <3> QED
        BY <3>1 DEF TaskFailed
    <2>3. p \notin V
      <3>1. ASSUME p \in V PROVE FALSE
        <4>1. \A j \in DOMAIN folders[p].folders : folders[p].folders[j] \in V
          BY <1>1, <2>2, <3>1 DEF TaskWalked
        <4>2. c \in V
          BY <2>1, <4>1 DEF Task!Range
        <4> QED
          BY <4>2
      <3> QED
        BY <3>1
    <2> QED
      BY <2>1, <2>3
  <1>4. S \in SUBSET DOMAIN folders
    BY TaskAbove
  <1>5. RootFolder \in Task!Above(folders, f)
    BY TaskAssumption DEF Task!TaskAssumption
  <1>6. RootFolder \in S
    <2> HIDE DEF S
    <2> QED
      BY <1>2, <1>3, <1>4, <1>5 DEF Task!Above
  <1> QED
    BY <1>6 DEF TaskWalk


(* What is said of a folder remains true while errors and observations     *)
(* are added and folders are entered.                                      *)
LEMMA TaskStays ==
    ASSUME folders' = folders, errors \subseteq errors', observations \subseteq observations',
           NEW V, NEW W, V \subseteq W, NEW f, NEW s
    PROVE  /\ TaskFailed(f) => TaskFailed(f)'
           /\ TaskRead(f) => TaskRead(f)'
           /\ TaskWalked(f, V) => TaskWalked(f, W)'
           /\ TaskFrame(s, V) => TaskFrame(s, W)'
  <1>1. TaskFailed(f) => TaskFailed(f)'
    BY DEF TaskFailed
  <1>2. \A g : TaskRead(g) => TaskRead(g)'
    BY DEF TaskRead
  <1>3. TaskWalked(f, V) => TaskWalked(f, W)'
    BY <1>2 DEF TaskWalked
  <1>4. TaskFrame(s, V) => TaskFrame(s, W)'
    BY <1>2 DEF TaskFrame
  <1> QED
    BY <1>1, <1>2, <1>3, <1>4

(* A step of the call on top: the calls below remain, and its own folder   *)
(* goes on being accounted for.                                            *)
LEMMA TaskTop ==
    ASSUME TaskInv, stack # <<>>, folders' = folders, errors \subseteq errors', observations \subseteq observations',
           NEW V, NEW W, TaskWalk(V), V \subseteq W, W \subseteq DOMAIN folders,
           \A k \in DOMAIN stack \ {Len(stack)} : k \in DOMAIN stack' /\ stack'[k] = stack[k],
           NEW t, t = stack[Len(stack)], NEW g, g = t.folder,
           TaskFrame(t, V) => TaskFailed(g)' \/ TaskWalked(g, W)' \/ TaskOpen(g, W)',
           \A f \in W \ V : TaskOpen(f, W)'
    PROVE  TaskWalk(W)'
  <1>1. ASSUME NEW f \in V
        PROVE  TaskFailed(f)' \/ TaskWalked(f, W)' \/ TaskOpen(f, W)'
    <2>1. CASE TaskFailed(f)
      BY <2>1, TaskStays
    <2>2. CASE TaskWalked(f, V)
      BY <2>2, TaskStays
    <2>3. CASE TaskOpen(f, V)
      <3>1. PICK k \in DOMAIN stack : stack[k].folder = f /\ TaskFrame(stack[k], V)
        BY <2>3 DEF TaskOpen
      <3>2. CASE k = Len(stack)
        BY <3>1, <3>2
      <3>3. CASE k # Len(stack)
        <4>1. k \in DOMAIN stack' /\ stack'[k] = stack[k]
          BY <3>3
        <4>2. TaskFrame(stack[k], W)'
          <5>1. PICK s : s = stack[k]
            OBVIOUS
          <5>2. TaskFrame(s, W)'
            BY <3>1, <5>1, TaskStays
          <5>3. s = stack'[k]
            BY <4>1, <5>1
          <5> QED
            BY <5>2, <5>3, <4>1 DEF TaskFrame
        <4> QED
          BY <3>1, <4>1, <4>2 DEF TaskOpen
      <3> QED
        BY <3>2, <3>3
    <2> QED
      BY <2>1, <2>2, <2>3 DEF TaskWalk
  <1>2. \A f \in W : TaskFailed(f)' \/ TaskWalked(f, W)' \/ TaskOpen(f, W)'
    BY <1>1
  <1>3. W \subseteq DOMAIN folders' /\ RootFolder \in W
    BY DEF TaskWalk
  <1> QED
    BY <1>2, <1>3 DEF TaskWalk


TaskSteady ==
    /\ pc = "walk" /\ pc' = "walk" /\ stack # <<>> /\ folders' = folders
    /\ errors \subseteq errors' /\ observations \subseteq observations'
    /\ IsFiniteSet(observations') /\ Cardinality(observations') <= MaxTasks

(* The call returns.                                                       *)
LEMMA TaskLeave ==
    ASSUME TaskInv, TaskSteady, Task!Return, NEW t, t = stack[Len(stack)], NEW g, g = t.folder,
           \A V : TaskFrame(t, V) => TaskFailed(g)' \/ TaskWalked(g, V)'
    PROVE  TaskInv'
  <1>1. PICK n : n = Len(stack)
    OBVIOUS
  <1>2. n \in Nat /\ n >= 1 /\ DOMAIN stack = 1..n
    BY <1>1 DEF TaskInv, TaskSteady
  <1>3. stack' = SubSeq(stack, 1, n - 1)
    BY <1>1 DEF Task!Return, Task!Front
  <1>4. stack' \in Seq(TaskFrames) /\ DOMAIN stack' = 1..(n - 1) /\ \A k \in 1..(n - 1) : stack'[k] = stack[k]
    BY <1>1, <1>2, <1>3 DEF TaskInv
  <1>5. TaskFrames' = TaskFrames
    BY DEF TaskSteady, TaskFrames
  <1>6. PICK V : TaskWalk(V)
    BY DEF TaskInv, TaskSteady
  <1>7. TaskWalk(V)'
    <2>1. \A k \in DOMAIN stack \ {Len(stack)} : k \in DOMAIN stack' /\ stack'[k] = stack[k]
      BY <1>1, <1>2, <1>4
    <2>2. V \subseteq DOMAIN folders /\ V \subseteq V /\ V \ V = {}
      BY <1>6 DEF TaskWalk
    <2> QED
      BY <1>6, <2>1, <2>2, TaskTop DEF TaskSteady
  <1> QED
    BY <1>4, <1>5, <1>7 DEF TaskInv, TaskSteady

(* The call goes on as u.                                                  *)
LEMMA TaskGoOn ==
    ASSUME TaskInv, TaskSteady, NEW t, t = stack[Len(stack)], NEW g, g = t.folder,
           NEW u \in TaskFrames, u.folder = g, stack' = [stack EXCEPT ![Len(stack)] = u],
           \A V : TaskFrame(t, V) => TaskFailed(g)' \/ TaskFrame(u, V)'
    PROVE  TaskInv'
  <1>1. PICK n : n = Len(stack)
    OBVIOUS
  <1>2. n \in Nat /\ n >= 1 /\ DOMAIN stack = 1..n
    BY <1>1 DEF TaskInv, TaskSteady
  <1>4. /\ stack' \in Seq(TaskFrames) /\ DOMAIN stack' = 1..n /\ stack'[n] = u
        /\ \A k \in 1..n \ {n} : stack'[k] = stack[k]
    BY <1>1, <1>2 DEF TaskInv
  <1>5. TaskFrames' = TaskFrames
    BY DEF TaskSteady, TaskFrames
  <1>6. PICK V : TaskWalk(V)
    BY DEF TaskInv, TaskSteady
  <1>7. TaskWalk(V)'
    <2>1. \A k \in DOMAIN stack \ {Len(stack)} : k \in DOMAIN stack' /\ stack'[k] = stack[k]
      BY <1>1, <1>2, <1>4
    <2>2. V \subseteq DOMAIN folders /\ V \subseteq V /\ V \ V = {}
      BY <1>6 DEF TaskWalk
    <2>3. TaskFrame(u, V)' => TaskOpen(g, V)'
      BY <1>2, <1>4 DEF TaskOpen
    <2> QED
      BY <1>6, <2>1, <2>2, <2>3, TaskTop DEF TaskSteady
  <1> QED
    BY <1>4, <1>5, <1>7 DEF TaskInv, TaskSteady


(* The call on top, and its folder.                                        *)
LEMMA TaskHere ==
    ASSUME TaskInv, stack # <<>>, NEW t, t = stack[Len(stack)]
    PROVE  /\ t \in TaskFrames /\ t = Task!Top /\ Task!Here = folders[t.folder]
           /\ folders[t.folder].tasks \in Seq(STRING) /\ folders[t.folder].folders \in Seq(DOMAIN folders)
           /\ t.folder \in Task!Above(folders, t.folder)
  <1>1. t \in TaskFrames
    BY DEF TaskInv
  <1>2. t.folder \in DOMAIN folders
    BY <1>1 DEF TaskFrames
  <1>3. /\ folders[t.folder].tasks \in Seq(STRING) /\ folders[t.folder].folders \in Seq(DOMAIN folders)
        /\ t.folder \in Task!Above(folders, t.folder)
    BY <1>2, TaskAbove, TaskAssumption DEF Task!TaskAssumption, TaskInv
  <1> QED
    BY <1>1, <1>3 DEF Task!Top, Task!Here

(* An error with the path of the folder, or without one, stands for it.    *)
LEMMA TaskError ==
    ASSUME TaskInv, stack # <<>>, folders' = folders, NEW t, t = stack[Len(stack)], NEW g, g = t.folder,
           NEW path \in {"none", g}, NEW operation, Task!Error(path, operation)
    PROVE  TaskFailed(g)' /\ errors \subseteq errors'
  <1>1. g \in Task!Above(folders, g)
    BY TaskHere
  <1>2. errors' = errors \cup {[path |-> path, operation |-> operation]}
    BY DEF Task!Error
  <1>3. [path |-> path, operation |-> operation] \in errors'
        /\ [path |-> path, operation |-> operation].path = path
    BY <1>2
  <1> QED
    BY <1>1, <1>2, <1>3 DEF TaskFailed

LEMMA TaskEnter == ASSUME TaskInv, Task!EnterFolder PROVE TaskInv'
  <1>1. PICK t, g : t = stack[Len(stack)] /\ g = t.folder
    OBVIOUS
  <1>2. /\ pc = "walk" /\ pc' = "walk" /\ stack # <<>> /\ folders' = folders /\ observations' = observations
        /\ IsFiniteSet(observations) /\ Cardinality(observations) <= MaxTasks
    BY DEF Task!EnterFolder, TaskInv
  <1>3. t \in TaskFrames /\ t = Task!Top /\ g \in DOMAIN folders /\ t.stage = "enter"
    BY <1>1, <1>2, TaskHere DEF TaskFrames, Task!EnterFolder
  <1>4. CASE (Task!Error("none", "folders") \/ Task!Error(g, "tasks")) /\ Task!Return
    <2>1. TaskFailed(g)' /\ errors \subseteq errors'
      BY <1>1, <1>2, <1>4, TaskError
    <2>2. TaskSteady
      BY <1>2, <2>1 DEF TaskSteady
    <2> QED
      BY <1>1, <1>4, <2>1, <2>2, TaskLeave
  <1>5. CASE Task!Error(g, "tasks") /\ Task!SetTop([t EXCEPT !.stage = "open"])
    <2>1. TaskFailed(g)' /\ errors \subseteq errors'
      BY <1>1, <1>2, <1>5, TaskError
    <2>2. TaskSteady
      BY <1>2, <2>1 DEF TaskSteady
    <2>3. PICK u : u = [t EXCEPT !.stage = "open"]
      OBVIOUS
    <2>4. u \in TaskFrames /\ u.folder = g
      BY <1>1, <1>3, <2>3 DEF TaskFrames
    <2>5. stack' = [stack EXCEPT ![Len(stack)] = u]
      BY <1>5, <2>3 DEF Task!SetTop
    <2> QED
      BY <1>1, <2>1, <2>2, <2>4, <2>5, TaskGoOn
  <1>6. CASE UNCHANGED errors /\ Task!SetTop([t EXCEPT !.stage = "tasks"])
    <2>2. TaskSteady
      BY <1>2, <1>6 DEF TaskSteady
    <2>3. PICK u : u = [t EXCEPT !.stage = "tasks"]
      OBVIOUS
    <2>4. u \in TaskFrames /\ u.folder = g /\ u.stage = "tasks"
      BY <1>1, <1>3, <2>3 DEF TaskFrames
    <2>5. stack' = [stack EXCEPT ![Len(stack)] = u]
      BY <1>6, <2>3 DEF Task!SetTop
    <2>6. \A V : TaskFrame(t, V) => TaskFrame(u, V)'
      <3> SUFFICES ASSUME NEW V, TaskFrame(t, V) PROVE TaskFrame(u, V)'
        OBVIOUS
      <3>1. u.index = 1
        BY <1>3, <2>3 DEF TaskFrame, TaskFrames
      <3>2. DOMAIN folders[g].tasks \subseteq Nat \ {0}
        BY <1>1, <1>2, TaskHere
      <3> QED
        BY <1>1, <1>2, <2>4, <3>1, <3>2 DEF TaskFrame
    <2> QED
      BY <1>1, <2>2, <2>4, <2>5, <2>6, TaskGoOn
  <1>7. t.folder = g /\ Task!Top = t
    BY <1>1, <1>3
  <1> QED
    BY <1>4, <1>5, <1>6, <1>7, Zenon DEF Task!EnterFolder


LEMMA TaskNext == ASSUME TaskInv, Task!NextTask PROVE TaskInv'
  <1>1. PICK t, g : t = stack[Len(stack)] /\ g = t.folder
    OBVIOUS
  <1>2. pc = "walk" /\ pc' = "walk" /\ stack # <<>> /\ folders' = folders
    BY DEF Task!NextTask, TaskInv
  <1>3. /\ t \in TaskFrames /\ t = Task!Top /\ g \in DOMAIN folders /\ t.stage = "tasks"
        /\ Task!Here = folders[g] /\ folders[g].tasks \in Seq(STRING) /\ t.index \in Nat \ {0}
    BY <1>1, <1>2, TaskHere DEF TaskFrames, Task!NextTask
  <1>4. PICK tasks, n : tasks = folders[g].tasks /\ n = t.index
    OBVIOUS
  <1>5. n \in Nat \ {0} /\ tasks \in Seq(STRING) /\ DOMAIN tasks = 1..Len(tasks) /\ Len(tasks) \in Nat
    BY <1>3, <1>4
  <1>6. IsFiniteSet(observations) /\ Cardinality(observations) <= MaxTasks /\ Cardinality(observations) \in Nat
    BY FS_CardinalityType DEF TaskInv
  <1>7. \A V : TaskFrame(t, V) => \A j \in DOMAIN tasks : j < n => tasks[j] \in observations
    BY <1>1, <1>3, <1>4 DEF TaskFrame
  <1>8. PICK u, w : u = [t EXCEPT !.stage = "open"] /\ w = [t EXCEPT !.index = @ + 1]
    OBVIOUS
  <1>9. /\ u \in TaskFrames /\ u.folder = g /\ u.stage = "open"
        /\ w \in TaskFrames /\ w.folder = g /\ w.stage = "tasks" /\ w.index = n + 1
    BY <1>1, <1>3, <1>4, <1>8 DEF TaskFrames
  <1>10. CASE n > Len(tasks) /\ stack' = [stack EXCEPT ![Len(stack)] = u] /\ UNCHANGED <<observations, errors>>
    <2>1. TaskSteady
      BY <1>2, <1>6, <1>10 DEF TaskSteady
    <2>2. \A V : TaskFrame(t, V) => TaskFrame(u, V)'
      <3> SUFFICES ASSUME NEW V, TaskFrame(t, V) PROVE TaskFrame(u, V)'
        OBVIOUS
      <3>1. \A j \in DOMAIN tasks : tasks[j] \in observations
        BY <1>5, <1>7, <1>10
      <3> QED
        BY <1>2, <1>4, <1>9, <1>10, <3>1 DEF TaskFrame, TaskRead
    <2> QED
      BY <1>1, <1>9, <1>10, <2>1, <2>2, TaskGoOn
  <1>11. CASE Task!Error(g, "tasks") /\ stack' = [stack EXCEPT ![Len(stack)] = u] /\ UNCHANGED observations
    <2>1. TaskFailed(g)' /\ errors \subseteq errors'
      BY <1>1, <1>2, <1>11, TaskError
    <2>2. TaskSteady
      BY <1>2, <1>6, <1>11, <2>1 DEF TaskSteady
    <2> QED
      BY <1>1, <1>9, <1>11, <2>1, <2>2, TaskGoOn
  <1>12. CASE Task!Error(g, "read task") /\ stack' = [stack EXCEPT ![Len(stack)] = w] /\ UNCHANGED observations
    <2>1. TaskFailed(g)' /\ errors \subseteq errors'
      BY <1>1, <1>2, <1>12, TaskError
    <2>2. TaskSteady
      BY <1>2, <1>6, <1>12, <2>1 DEF TaskSteady
    <2> QED
      BY <1>1, <1>9, <1>12, <2>1, <2>2, TaskGoOn
  <1>13. CASE /\ n <= Len(tasks) /\ ~(Cardinality(observations) >= MaxTasks)
              /\ observations' = observations \cup {tasks[n]} /\ errors \subseteq errors'
              /\ stack' = [stack EXCEPT ![Len(stack)] = w]
    <2>1. IsFiniteSet(observations') /\ Cardinality(observations') <= Cardinality(observations) + 1
          /\ Cardinality(observations') \in Nat
      <3>1. PICK x : x = tasks[n]
        OBVIOUS
      <3>2. /\ IsFiniteSet(observations \cup {x})
            /\ Cardinality(observations \cup {x}) = IF x \in observations THEN Cardinality(observations)
                                                    ELSE Cardinality(observations) + 1
        BY <1>6, FS_AddElement
      <3> QED
        BY <1>6, <1>13, <3>1, <3>2
    <2>2. MaxTasks \in Nat
      BY TaskAssumption DEF Task!TaskAssumption
    <2>3. Cardinality(observations') <= MaxTasks
      BY <1>6, <1>13, <2>1, <2>2
    <2>4. TaskSteady
      BY <1>2, <1>13, <2>1, <2>3 DEF TaskSteady
    <2>5. \A V : TaskFrame(t, V) => TaskFrame(w, V)'
      <3> SUFFICES ASSUME NEW V, TaskFrame(t, V) PROVE TaskFrame(w, V)'
        OBVIOUS
      <3>1. ASSUME NEW j \in DOMAIN tasks, j < n + 1 PROVE tasks[j] \in observations'
        <4>1. j < n \/ j = n
          BY <1>5, <3>1
        <4> QED
          BY <1>7, <1>13, <4>1
      <3> QED
        BY <1>2, <1>4, <1>9, <3>1 DEF TaskFrame
    <2> QED
      BY <1>1, <1>9, <1>13, <2>4, <2>5, TaskGoOn
  <1>14. \/ n > Len(tasks) /\ stack' = [stack EXCEPT ![Len(stack)] = u] /\ UNCHANGED <<observations, errors>>
         \/ Task!Error(g, "tasks") /\ stack' = [stack EXCEPT ![Len(stack)] = u] /\ UNCHANGED observations
         \/ /\ ~(n > Len(tasks)) /\ ~(Cardinality(observations) >= MaxTasks)
            /\ stack' = [stack EXCEPT ![Len(stack)] = w] /\ Task!ReadTask(tasks[n])
    <2>1. Task!Top = t /\ Task!Here.tasks = tasks /\ t.index = n /\ t.folder = g
      BY <1>1, <1>3, <1>4
    <2>2. Task!Cardinality(observations) = Cardinality(observations)
      BY TaskCards
    <2> QED
      BY <1>8, <2>1, <2>2, Zenon DEF Task!NextTask, Task!SetTop
  <1>15. CASE /\ ~(n > Len(tasks)) /\ ~(Cardinality(observations) >= MaxTasks)
              /\ stack' = [stack EXCEPT ![Len(stack)] = w] /\ Task!ReadTask(tasks[n])
    <2>1. n <= Len(tasks) /\ Task!Top.folder = g
      BY <1>1, <1>3, <1>5, <1>15
    <2>2. \/ Task!Error(g, "read task") /\ UNCHANGED observations
          \/ observations' = observations \cup {tasks[n]} /\ errors \subseteq errors'
      BY <1>15, <2>1 DEF Task!ReadTask, Task!Error
    <2> QED
      BY <1>12, <1>13, <1>15, <2>1, <2>2
  <1> QED
    BY <1>10, <1>11, <1>14, <1>15

LEMMA TaskOpenFolders == ASSUME TaskInv, Task!OpenFolders PROVE TaskInv'
  <1>1. PICK t, g : t = stack[Len(stack)] /\ g = t.folder
    OBVIOUS
  <1>2. /\ pc = "walk" /\ pc' = "walk" /\ stack # <<>> /\ folders' = folders /\ observations' = observations
        /\ IsFiniteSet(observations) /\ Cardinality(observations) <= MaxTasks
    BY DEF Task!OpenFolders, TaskInv
  <1>3. t \in TaskFrames /\ t = Task!Top /\ g \in DOMAIN folders /\ t.stage = "open"
    BY <1>1, <1>2, TaskHere DEF TaskFrames, Task!OpenFolders
  <1>4. CASE Task!Error(g, "folders") /\ Task!Return
    <2>1. TaskFailed(g)' /\ errors \subseteq errors'
      BY <1>1, <1>2, <1>4, TaskError
    <2>2. TaskSteady
      BY <1>2, <2>1 DEF TaskSteady
    <2> QED
      BY <1>1, <1>4, <2>1, <2>2, TaskLeave
  <1>5. CASE UNCHANGED errors /\ Task!SetTop([t EXCEPT !.stage = "folders", !.index = 1])
    <2>2. TaskSteady
      BY <1>2, <1>5 DEF TaskSteady
    <2>3. PICK u : u = [t EXCEPT !.stage = "folders", !.index = 1]
      OBVIOUS
    <2>4. u \in TaskFrames /\ u.folder = g /\ u.stage = "folders" /\ u.index = 1
      <3>1. PICK x : x = [t EXCEPT !.stage = "folders"]
        OBVIOUS
      <3>2. x \in TaskFrames /\ x.folder = g /\ x.stage = "folders"
        BY <1>1, <1>3, <3>1 DEF TaskFrames
      <3>3. u = [x EXCEPT !.index = 1]
        BY <2>3, <3>1
      <3> QED
        BY <3>2, <3>3 DEF TaskFrames
    <2>5. stack' = [stack EXCEPT ![Len(stack)] = u]
      BY <1>5, <2>3 DEF Task!SetTop
    <2>6. \A V : TaskFrame(t, V) => TaskFrame(u, V)'
      <3> SUFFICES ASSUME NEW V, TaskFrame(t, V) PROVE TaskFrame(u, V)'
        OBVIOUS
      <3>1. TaskRead(g)
        BY <1>1, <1>3 DEF TaskFrame
      <3>2. DOMAIN folders[g].folders \subseteq Nat \ {0}
        BY <1>1, <1>2, TaskHere
      <3>3. TaskRead(g)'
        BY <1>2, <3>1 DEF TaskRead
      <3> QED
        BY <1>2, <2>4, <3>2, <3>3 DEF TaskFrame
    <2> QED
      BY <1>1, <2>2, <2>4, <2>5, <2>6, TaskGoOn
  <1>7. t.folder = g /\ Task!Top = t
    BY <1>1, <1>3
  <1> QED
    BY <1>4, <1>5, <1>7, Zenon DEF Task!OpenFolders


LEMMA TaskNextFolder == ASSUME TaskInv, Task!NextFolder PROVE TaskInv'
  <1>1. PICK t, g : t = stack[Len(stack)] /\ g = t.folder
    OBVIOUS
  <1>2. /\ pc = "walk" /\ pc' = "walk" /\ stack # <<>> /\ folders' = folders /\ observations' = observations
        /\ IsFiniteSet(observations) /\ Cardinality(observations) <= MaxTasks
    BY DEF Task!NextFolder, TaskInv
  <1>3. /\ t \in TaskFrames /\ t = Task!Top /\ g \in DOMAIN folders /\ t.stage = "folders"
        /\ Task!Here = folders[g] /\ folders[g].folders \in Seq(DOMAIN folders) /\ t.index \in Nat \ {0}
    BY <1>1, <1>2, TaskHere DEF TaskFrames, Task!NextFolder
  <1>4. PICK subs, i, n : subs = folders[g].folders /\ i = t.index /\ n = Len(stack)
    OBVIOUS
  <1>5. /\ i \in Nat \ {0} /\ subs \in Seq(DOMAIN folders) /\ DOMAIN subs = 1..Len(subs) /\ Len(subs) \in Nat
        /\ n \in Nat /\ n >= 1 /\ DOMAIN stack = 1..n
    BY <1>2, <1>3, <1>4 DEF TaskInv
  <1>6. PICK w : w = [t EXCEPT !.index = @ + 1]
    OBVIOUS
  <1>7. w \in TaskFrames /\ w.folder = g /\ w.stage = "folders" /\ w.index = i + 1
    BY <1>1, <1>3, <1>4, <1>6 DEF TaskFrames
  <1>8. \A V : TaskFrame(t, V) => TaskRead(g) /\ \A j \in DOMAIN subs : j < i => subs[j] \in V
    BY <1>1, <1>3, <1>4 DEF TaskFrame
  <1>9. CASE i > Len(subs) /\ Task!Return /\ UNCHANGED errors
    <2>1. TaskSteady
      BY <1>2, <1>9 DEF TaskSteady
    <2>2. \A V : TaskFrame(t, V) => TaskWalked(g, V)'
      <3> SUFFICES ASSUME NEW V, TaskFrame(t, V) PROVE TaskWalked(g, V)'
        OBVIOUS
      <3>1. TaskRead(g) /\ \A j \in DOMAIN subs : subs[j] \in V
        BY <1>5, <1>8, <1>9
      <3> QED
        BY <1>2, <1>4, <3>1 DEF TaskWalked, TaskRead
    <2> QED
      BY <1>1, <1>9, <2>1, <2>2, TaskLeave
  <1>10. CASE Task!Error(g, "folders") /\ stack' = [stack EXCEPT ![Len(stack)] = w]
    <2>1. TaskFailed(g)' /\ errors \subseteq errors'
      BY <1>1, <1>2, <1>10, TaskError
    <2>2. TaskSteady
      BY <1>2, <2>1 DEF TaskSteady
    <2> QED
      BY <1>1, <1>7, <1>10, <2>1, <2>2, TaskGoOn
  <1>11. CASE /\ ~(i > Len(subs)) /\ UNCHANGED errors
              /\ stack' = Append([stack EXCEPT ![Len(stack)].index = @ + 1], Task!Frame(subs[i]))
    <2>1. PICK c, m, x : c = subs[i] /\ m = [stack EXCEPT ![Len(stack)] = w] /\ x = Task!Frame(c)
      OBVIOUS
    <2>2. i \in DOMAIN subs /\ c \in DOMAIN folders
      BY <1>5, <1>11, <2>1
    <2>3. x \in TaskFrames /\ x.folder = c /\ x.stage = "enter" /\ x.index = 1
      BY <2>1, <2>2 DEF TaskFrames, Task!Frame
    <2>4. /\ m \in Seq(TaskFrames) /\ Len(m) = n /\ m[n] = w
          /\ \A k \in 1..n \ {n} : m[k] = stack[k]
      BY <1>4, <1>5, <1>7, <2>1 DEF TaskInv
    <2>5. stack' = Append(m, x)
      BY <1>1, <1>6, <1>11, <2>1
    <2>6. /\ stack' \in Seq(TaskFrames) /\ DOMAIN stack' = 1..(n + 1) /\ stack'[n + 1] = x
          /\ \A k \in 1..n : stack'[k] = m[k]
      <3>1. stack' \in Seq(TaskFrames \cup {x}) /\ Longer(stack', m, x)
        BY <2>4, <2>5, Appended, Zenon
      <3>2. TaskFrames \cup {x} = TaskFrames
        BY <2>3
      <3>3. /\ DOMAIN stack' = 1..(n + 1) /\ stack'[n + 1] = x
            /\ \A k \in 1..n : stack'[k] = m[k]
        BY <2>4, <3>1, Zenon DEF Longer
      <3> QED
        BY <3>1, <3>2, <3>3
    <2>7. TaskSteady
      BY <1>2, <1>11 DEF TaskSteady
    <2>8. PICK V : TaskWalk(V)
      BY <1>2 DEF TaskInv
    <2>9. PICK W : W = V \cup {c}
      OBVIOUS
    <2>10. V \subseteq DOMAIN folders /\ V \subseteq W /\ W \subseteq DOMAIN folders
      BY <2>2, <2>8, <2>9 DEF TaskWalk
    <2>11. \A k \in DOMAIN stack \ {Len(stack)} : k \in DOMAIN stack' /\ stack'[k] = stack[k]
      BY <1>4, <1>5, <2>4, <2>6
    <2>12. TaskFrame(t, V) => TaskOpen(g, W)'
      <3> SUFFICES ASSUME TaskFrame(t, V) PROVE TaskOpen(g, W)'
        OBVIOUS
      <3>1. ASSUME NEW j \in DOMAIN subs, j < i + 1 PROVE subs[j] \in W
        <4>1. j < i \/ j = i
          BY <1>5, <3>1
        <4> QED
          BY <1>8, <2>1, <2>9, <4>1
      <3>2. TaskRead(g)'
        BY <1>2, <1>8 DEF TaskRead
      <3>3. TaskFrame(w, W)'
        BY <1>2, <1>4, <1>7, <3>1, <3>2 DEF TaskFrame
      <3>4. n \in DOMAIN stack' /\ stack'[n] = w
        BY <1>5, <2>4, <2>6
      <3> QED
        BY <1>7, <3>3, <3>4 DEF TaskOpen
    <2>13. TaskOpen(c, W)'
      <3>1. TaskFrame(x, W)'
        BY <2>3 DEF TaskFrame
      <3>2. n + 1 \in DOMAIN stack' /\ stack'[n + 1] = x
        BY <1>5, <2>6
      <3> QED
        BY <2>3, <3>1, <3>2 DEF TaskOpen
    <2>14. \A f \in W \ V : TaskOpen(f, W)'
      BY <2>9, <2>13
    <2>15. TaskWalk(W)'
      BY <1>1, <2>7, <2>8, <2>10, <2>11, <2>12, <2>14, TaskTop DEF TaskSteady
    <2>16. TaskFrames' = TaskFrames
      BY <1>2 DEF TaskFrames
    <2> QED
      BY <2>6, <2>7, <2>15, <2>16 DEF TaskInv, TaskSteady
  <1>12. t.folder = g /\ Task!Top = t /\ Task!Here.folders = subs /\ t.index = i
    BY <1>1, <1>3, <1>4
  <1> QED
    BY <1>6, <1>9, <1>10, <1>11, <1>12, Zenon DEF Task!NextFolder, Task!SetTop

LEMMA TaskConnect == ASSUME TaskInv, Task!Connect PROVE TaskInv'
  <1>1. /\ pc = "setup" /\ stack = <<>> /\ folders' = folders /\ observations' = observations
        /\ folders \in Hierarchies /\ IsFiniteSet(observations) /\ Cardinality(observations) <= MaxTasks
    BY DEF Task!Connect, TaskInv
  <1>2. TaskFrames' = TaskFrames
    BY <1>1 DEF TaskFrames
  <1>3. CASE pc' = "done" /\ UNCHANGED stack /\ \E o : Task!Error("none", o) \/ Task!Error(RootFolder, o)
    <2>1. PICK path, o : path \in {"none", RootFolder} /\ Task!Error(path, o)
      BY <1>3
    <2>2. [path |-> path, operation |-> o] \in errors' /\ [path |-> path, operation |-> o].path = path
      BY <2>1 DEF Task!Error
    <2>3. \A f \in DOMAIN folders : RootFolder \in Task!Above(folders, f)
      BY <1>1, TaskAssumption DEF Task!TaskAssumption
    <2>4. \A f \in DOMAIN folders' : TaskFailed(f)'
      BY <1>1, <2>1, <2>2, <2>3 DEF TaskFailed
    <2> QED
      BY <1>1, <1>2, <1>3, <2>4 DEF TaskInv
  <1>4. CASE pc' = "walk" /\ stack' = <<Task!Frame(RootFolder)>> /\ UNCHANGED errors
    <2>1. RootFolder \in DOMAIN folders
      BY <1>1, TaskAssumption DEF Task!TaskAssumption
    <2>2. Task!Frame(RootFolder) \in TaskFrames /\ Task!Frame(RootFolder).folder = RootFolder
          /\ Task!Frame(RootFolder).stage = "enter" /\ Task!Frame(RootFolder).index = 1
      BY <2>1 DEF Task!Frame, TaskFrames
    <2>3. stack' \in Seq(TaskFrames) /\ 1 \in DOMAIN stack' /\ stack'[1] = Task!Frame(RootFolder)
      BY <1>4, <2>2
    <2>4. PICK x : x = Task!Frame(RootFolder)
      OBVIOUS
    <2>5. TaskFrame(x, {RootFolder})'
      BY <2>2, <2>4 DEF TaskFrame
    <2>6. TaskOpen(RootFolder, {RootFolder})'
      BY <2>2, <2>3, <2>4, <2>5 DEF TaskOpen
    <2>7. TaskWalk({RootFolder})'
      BY <1>1, <2>1, <2>6 DEF TaskWalk
    <2> QED
      BY <1>1, <1>2, <1>4, <2>3, <2>7 DEF TaskInv
  <1> QED
    BY <1>3, <1>4, Zenon DEF Task!Connect

LEMMA TaskFinish == ASSUME TaskInv, Task!Finish PROVE TaskInv'
  <1>1. /\ pc = "walk" /\ pc' = "done" /\ stack = <<>> /\ UNCHANGED <<folders, stack, observations, errors>>
        /\ folders \in Hierarchies
    BY DEF Task!Finish, TaskInv
  <1>2. PICK V : TaskWalk(V)
    BY <1>1 DEF TaskInv
  <1>3. \A f \in DOMAIN folders : TaskFailed(f) \/ TaskRead(f)
    BY <1>1, <1>2, TaskAll
  <1>4. \A f \in DOMAIN folders' : TaskFailed(f)' \/ TaskRead(f)'
    BY <1>1, <1>3 DEF TaskFailed, TaskRead
  <1> QED
    BY <1>1, <1>4 DEF TaskInv, TaskFrames

LEMMA TaskStart == ASSUME Task!TsInit PROVE TaskInv
  <1>1. IsFiniteSet({}) /\ Cardinality({}) = 0
    BY FS_EmptySet
  <1>2. MaxTasks \in Nat
    BY TaskAssumption DEF Task!TaskAssumption
  <1>3. stack \in Seq(TaskFrames)
    BY DEF Task!TsInit
  <1> QED
    BY <1>1, <1>2, <1>3 DEF Task!TsInit, TaskInv

LEMMA TaskKept == ASSUME TaskInv, Task!TsNext PROVE TaskInv'
  BY TaskConnect, TaskEnter, TaskNext, TaskOpenFolders, TaskNextFolder, TaskFinish, Zenon DEF Task!TsNext

LEMMA TaskSound == ASSUME TaskInv PROVE Task!TaskIsAccountedFor /\ Task!TasksAreBounded
  <1>1. Task!TasksAreBounded
    BY TaskCards DEF TaskInv, Task!TasksAreBounded
  <1>2. ASSUME pc = "done", NEW f \in DOMAIN folders, NEW t \in Task!Range(folders[f].tasks)
        PROVE  t \in observations \/ Task!Failed \cap (Task!Above(folders, f) \cup {"none"}) # {}
    <2>1. TaskFailed(f) \/ TaskRead(f)
      BY <1>2 DEF TaskInv
    <2>2. TaskFailed(f) => Task!Failed \cap (Task!Above(folders, f) \cup {"none"}) # {}
      BY DEF TaskFailed, Task!Failed
    <2>3. TaskRead(f) => t \in observations
      BY DEF TaskRead, Task!Range
    <2> QED
      BY <2>1, <2>2, <2>3
  <1> QED
    BY <1>1, <1>2 DEF Task!TaskIsAccountedFor


-----------------------------------------------------------------------------
(* Packages, Startup entries, shortcuts and associations (ShellInventory). *)
LEMMA ShellCards ==
    ASSUME NEW S
    PROVE  Shell!Cardinality(S) = Cardinality(S)
  BY DEF Shell!Cardinality, Cardinality, Shell!IsFiniteSet, IsFiniteSet

ShellItem(k, i) == <<roots[k].name, i>>
ShellListed(x) == \E n \in DOMAIN candidates : candidates[n] = x
ShellOver(k, x) ==
    x \in observed \cup errors \/ <<roots[k].name, 0>> \in errors \/ <<"all", 0>> \in errors
ShellWanted(k) == {i \in DOMAIN roots[k].items : Shell!IsCandidate(roots[k], ShellItem(k, i))}

(* Every item of the root is still to be inspected, or accounted for.      *)
ShellReached(k) == \A i \in ShellWanted(k) : ShellListed(ShellItem(k, i)) \/ ShellOver(k, ShellItem(k, i))
ShellClosed(k) == \A i \in ShellWanted(k) : ShellOver(k, ShellItem(k, i))

ShellInv ==
    /\ source \in DOMAIN Contents /\ roots \in Contents[source] /\ pc \in {"walk", "items", "done"}
    /\ at \in Nat \ {0} /\ candidates \in Seq(STRING \X Nat)
    /\ pc = "walk" /\ source \in {"appx", "associations"} => at = 1
    /\ pc = "walk" => \A k \in DOMAIN roots : k < at => ShellReached(k)
    /\ pc = "items" => \A k \in DOMAIN roots : ShellReached(k)
    /\ pc = "done" => \A k \in DOMAIN roots : ShellClosed(k)

LEMMA ShellRoots ==
    ASSUME ShellInv
    PROVE  /\ roots \in Seq([name : STRING, items : Seq(STRING)])
           /\ source \in {"appx", "associations"} => Len(roots) = 1
           /\ MaxItems \in Nat /\ source \in {"appx", "startup", "links", "associations"}
  BY ShellAssumption DEF Shell!ShellAssumption, ShellInv

LEMMA ShellStart == ASSUME Shell!SiInit PROVE ShellInv
  BY DEF Shell!SiInit, ShellInv

(* Observations and errors are only added.                                 *)
LEMMA ShellStays ==
    ASSUME source' = source, roots' = roots, observed \subseteq observed', errors \subseteq errors'
    PROVE  /\ \A k, x : ShellOver(k, x) => ShellOver(k, x)'
           /\ \A k : ShellWanted(k)' = ShellWanted(k)
           /\ \A k, i : ShellItem(k, i)' = ShellItem(k, i)
  <1>1. \A k, x : ShellOver(k, x) => ShellOver(k, x)'
    BY DEF ShellOver
  <1>2. \A k, i : ShellItem(k, i)' = ShellItem(k, i)
    BY DEF ShellItem
  <1>3. ASSUME NEW k PROVE ShellWanted(k)' = ShellWanted(k)
    BY <1>2 DEF ShellWanted, Shell!IsCandidate, Shell!KindOf
  <1> QED
    BY <1>1, <1>2, <1>3

(* The items of a root that Take looks at are in the list.                 *)
LEMMA ShellTake ==
    ASSUME NEW items \in Seq(STRING \X Nat), candidates \in Seq(STRING \X Nat), Shell!Take(items)
    PROVE  /\ candidates' \in Seq(STRING \X Nat)
           /\ \A x : ShellListed(x) => ShellListed(x)'
           /\ \A i \in DOMAIN items : Shell!IsCandidate(Shell!Root, items[i]) =>
                 \E n \in DOMAIN candidates' : candidates'[n] = items[i]
  <1>1. PICK S, N : S = {i \in DOMAIN items : Shell!IsCandidate(Shell!Root, items[i])} /\ N = Cardinality(S)
    OBVIOUS
  <1>2. PICK A : A = STRING \X Nat
    OBVIOUS
  <1>3. items \in Seq(A) /\ S \in SUBSET DOMAIN items /\ candidates \in Seq(A)
    BY <1>1, <1>2
  <1>4. PICK c : c = Chosen(items, S)
    OBVIOUS
  <1>15. c \in Seq(A) /\ IsChosen(c, items, S)
    BY <1>3, <1>4, ChosenMembers, Zenon
  <1>16. IsPlaced(c, items, S, N)
    BY <1>1, <1>15, Zenon DEF IsChosen
  <1>5. c \in Seq(A) /\ Len(c) = N /\ N \in Nat
    BY <1>15, <1>16 DEF IsPlaced
  <1>17. PICK place \in [1..N -> S] : /\ \A n \in 1..N : c[n] = items[place[n]]
                                     /\ \A i \in S : \E n \in 1..N : place[n] = i
    BY <1>16 DEF IsPlaced
  <1>6. ASSUME NEW i \in S PROVE \E n \in 1..N : c[n] = items[i]
    <2>1. PICK n \in 1..N : place[n] = i
      BY <1>17
    <2>2. c[n] = items[i]
      BY <1>17, <2>1
    <2> QED
      BY <2>2
  <1>7. candidates' = candidates \o c
    <2>1. Shell!Chosen(items, S) = Chosen(items, S)
      BY Zenon DEF Shell!Chosen, Chosen, Shell!Cardinality, Cardinality, Shell!IsFiniteSet, IsFiniteSet
    <2>2. Shell!Chosen(items, S) = c
      BY <1>4, <2>1
    <2> QED
      BY <1>1, <2>2 DEF Shell!Take
  <1>8. candidates' \in Seq(A) /\ Both(candidates', candidates, c)
    BY <1>3, <1>5, <1>7, Joined, Zenon
  <1>9. PICK m : m = Len(candidates)
    OBVIOUS
  <1>10. /\ m \in Nat /\ DOMAIN candidates = 1..m /\ DOMAIN candidates' = 1..Len(candidates')
    BY <1>3, <1>8, <1>9
  <1>11. /\ Len(candidates') = m + N /\ \A i \in 1..m : candidates'[i] = candidates[i]
         /\ \A i \in 1..N : candidates'[m + i] = c[i]
    BY <1>5, <1>8, <1>9, Zenon DEF Both
  <1>12. (\A i \in 1..m : i \in DOMAIN candidates') /\ \A i \in 1..N : m + i \in DOMAIN candidates'
    BY <1>5, <1>10, <1>11
  <1>13. \A x : ShellListed(x) => ShellListed(x)'
    BY <1>10, <1>11, <1>12 DEF ShellListed
  <1>14. ASSUME NEW i \in S PROVE \E n \in DOMAIN candidates' : candidates'[n] = items[i]
    <2>1. PICK n \in 1..N : c[n] = items[i]
      BY <1>6
    <2> QED
      BY <1>11, <1>12, <2>1
  <1> QED
    BY <1>1, <1>2, <1>8, <1>13, <1>14


LEMMA ShellNumbered ==
    ASSUME ShellInv, NEW k \in DOMAIN roots
    PROVE  /\ Shell!Numbered(roots[k]) \in Seq(STRING \X Nat)
           /\ DOMAIN Shell!Numbered(roots[k]) = DOMAIN roots[k].items
           /\ \A i \in DOMAIN roots[k].items : Shell!Numbered(roots[k])[i] = ShellItem(k, i)
  <1>1. PICK r : r = roots[k]
    OBVIOUS
  <1>2. r \in [name : STRING, items : Seq(STRING)]
    <2>1. PICK A : A = [name : STRING, items : Seq(STRING)]
      OBVIOUS
    <2>2. roots \in Seq(A)
      BY <2>1, ShellRoots, Zenon
    <2>3. r \in A
      BY <1>1, <2>2
    <2> QED
      BY <2>1, <2>3
  <1>3. r.name \in STRING /\ r.items \in Seq(STRING)
    BY <1>2
  <1>4. PICK n : n = Len(r.items)
    OBVIOUS
  <1>5. n \in Nat /\ DOMAIN r.items = 1..n
    BY <1>3, <1>4
  <1>6. [i \in 1..n |-> <<r.name, i>>] \in Seq(STRING \X Nat)
    BY <1>3, <1>5
  <1> QED
    BY <1>1, <1>5, <1>6 DEF Shell!Numbered, ShellItem

(* What a root's items are is kept while the list only loses what is       *)
(* accounted for.                                                          *)
LEMMA ShellKeeps ==
    ASSUME source' = source, roots' = roots, observed \subseteq observed', errors \subseteq errors',
           \A x : ShellListed(x) => ShellListed(x)' \/ x \in observed' \cup errors',
           NEW k, ShellReached(k)
    PROVE  ShellReached(k)'
  <1> SUFFICES ASSUME NEW i \in ShellWanted(k)
               PROVE  (ShellListed(ShellItem(k, i)) \/ ShellOver(k, ShellItem(k, i)))'
    BY ShellStays DEF ShellReached
  <1>1. PICK x : x = ShellItem(k, i)
    OBVIOUS
  <1>2. ShellItem(k, i)' = x
    BY <1>1, ShellStays
  <1>3. ShellListed(x) \/ ShellOver(k, x)
    BY <1>1 DEF ShellReached
  <1>4. ShellListed(x)' \/ ShellOver(k, x)'
    BY <1>3, ShellStays DEF ShellOver
  <1> QED
    BY <1>2, <1>4 DEF ShellListed, ShellOver

(* The next root is walked.                                                *)
LEMMA ShellWalk ==
    ASSUME ShellInv, UNCHANGED <<source, roots, pc, observed>>, pc = "walk", source \in {"links", "startup"},
           at' = at + 1, errors \subseteq errors', candidates' \in Seq(STRING \X Nat),
           \A x : ShellListed(x) => ShellListed(x)',
           NEW n, n = at, ShellReached(n)'
    PROVE  ShellInv'
  <1>1. ASSUME NEW k \in DOMAIN roots, k < at' PROVE ShellReached(k)'
    <2>1. DOMAIN roots \subseteq Int /\ at \in Int
      BY ShellRoots DEF ShellInv
    <2>2. k < at \/ k = at
      BY <1>1, <2>1
    <2>3. CASE k < at
      <3>1. ShellReached(k)
        BY <2>3 DEF ShellInv
      <3> QED
        BY <3>1, ShellKeeps
    <2> QED
      BY <2>2, <2>3
  <1> QED
    BY <1>1 DEF ShellInv

LEMMA ShellRootFails ==
    ASSUME ShellInv, UNCHANGED <<source, roots, observed>>, Shell!RootFails, NEW n, n = at
    PROVE  ShellReached(n)' /\ errors \subseteq errors'
  <1>1. errors' = errors \cup {<<roots[n].name, 0>>}
    BY DEF Shell!RootFails, Shell!Root
  <1> QED
    BY <1>1 DEF ShellReached, ShellOver

LEMMA ShellTaken ==
    ASSUME ShellInv, UNCHANGED <<source, roots, observed>>, errors \subseteq errors', NEW n, n = at, n \in DOMAIN roots,
           Shell!Take(Shell!Numbered(Shell!Root))
    PROVE  /\ ShellReached(n)' /\ candidates' \in Seq(STRING \X Nat)
           /\ \A x : ShellListed(x) => ShellListed(x)'
  <1>1. Shell!Root = roots[n]
    BY DEF Shell!Root
  <1>2. PICK items : items = Shell!Numbered(roots[n])
    OBVIOUS
  <1>3. /\ items \in Seq(STRING \X Nat) /\ DOMAIN items = DOMAIN roots[n].items
        /\ \A i \in DOMAIN roots[n].items : items[i] = ShellItem(n, i)
    BY <1>2, ShellNumbered
  <1>4. /\ candidates' \in Seq(STRING \X Nat)
        /\ \A x : ShellListed(x) => ShellListed(x)'
        /\ \A i \in DOMAIN items : Shell!IsCandidate(Shell!Root, items[i]) =>
              \E m \in DOMAIN candidates' : candidates'[m] = items[i]
    <2>1. Shell!Take(items) /\ candidates \in Seq(STRING \X Nat)
      BY <1>1, <1>2 DEF ShellInv
    <2> QED
      BY <1>3, <2>1, ShellTake
  <1>5. ASSUME NEW i \in ShellWanted(n) PROVE \E m \in DOMAIN candidates' : candidates'[m] = ShellItem(n, i)
    BY <1>1, <1>3, <1>4 DEF ShellWanted
  <1>6. ShellWanted(n)' = ShellWanted(n) /\ \A i : ShellItem(n, i)' = ShellItem(n, i)
    BY ShellStays
  <1>7. ShellReached(n)'
    BY <1>5, <1>6 DEF ShellReached, ShellListed
  <1> QED
    BY <1>4, <1>7


LEMMA ShellWalkShortcuts == ASSUME ShellInv, Shell!WalkShortcuts PROVE ShellInv'
  <1>1. /\ UNCHANGED <<source, roots, pc, observed>> /\ pc = "walk" /\ source \in {"links", "startup"}
        /\ at' = at + 1 /\ at <= Len(roots)
    BY DEF Shell!WalkShortcuts
  <1>2. PICK n : n = at
    OBVIOUS
  <1>3. n \in DOMAIN roots
    BY <1>1, <1>2, ShellRoots DEF ShellInv
  <1>4. CASE Shell!RootFails /\ UNCHANGED candidates
    <2>1. ShellReached(n)' /\ errors \subseteq errors'
      BY <1>1, <1>2, <1>4, ShellRootFails
    <2>2. candidates' \in Seq(STRING \X Nat) /\ \A x : ShellListed(x) => ShellListed(x)'
      BY <1>4 DEF ShellInv, ShellListed
    <2> QED
      BY <1>1, <1>2, <2>1, <2>2, ShellWalk
  <1>5. CASE Shell!Take(Shell!Numbered(Shell!Root)) /\ UNCHANGED errors
    <2>1. /\ ShellReached(n)' /\ candidates' \in Seq(STRING \X Nat)
          /\ \A x : ShellListed(x) => ShellListed(x)'
      BY <1>1, <1>2, <1>3, <1>5, ShellTaken
    <2> QED
      BY <1>1, <1>2, <1>5, <2>1, ShellWalk
  <1> QED
    BY <1>4, <1>5 DEF Shell!WalkShortcuts

LEMMA ShellWalkStartup == ASSUME ShellInv, Shell!WalkStartup PROVE ShellInv'
  <1>1. /\ UNCHANGED <<source, roots, pc, observed>> /\ pc = "walk" /\ source \in {"links", "startup"}
        /\ at' = at + 1 /\ at <= Len(roots)
    BY DEF Shell!WalkStartup
  <1>2. PICK n : n = at
    OBVIOUS
  <1>3. n \in DOMAIN roots /\ Shell!Root = roots[n]
    BY <1>1, <1>2, ShellRoots DEF ShellInv, Shell!Root
  <1>4. CASE Shell!RootFails /\ UNCHANGED candidates
    <2>1. ShellReached(n)' /\ errors \subseteq errors'
      BY <1>1, <1>2, <1>4, ShellRootFails
    <2>2. candidates' \in Seq(STRING \X Nat) /\ \A x : ShellListed(x) => ShellListed(x)'
      BY <1>4 DEF ShellInv, ShellListed
    <2> QED
      BY <1>1, <1>2, <2>1, <2>2, ShellWalk
  <1>5. PICK all, some : all = Shell!Numbered(roots[n]) /\ some = Shell!AtMost(MaxItems, all)
    OBVIOUS
  <1>6. all \in Seq(STRING \X Nat) /\ DOMAIN all = DOMAIN roots[n].items
    BY <1>3, <1>5, ShellNumbered
  <1>7. MaxItems \in Nat
    BY ShellRoots
  <1>8. some \in Seq(STRING \X Nat) /\ (Len(all) <= MaxItems => some = all)
    <2>1. PICK A, m : A = STRING \X Nat /\ m = IF Len(all) < MaxItems THEN Len(all) ELSE MaxItems
      OBVIOUS
    <2>2. all \in Seq(A) /\ some = SubSeq(all, 1, m)
      BY <1>5, <1>6, <2>1 DEF Shell!AtMost
    <2>3. m \in Nat /\ m <= Len(all) /\ (Len(all) <= MaxItems => m = Len(all))
      BY <1>6, <1>7, <2>1
    <2>4. some \in Seq(A)
      BY <2>2, <2>3
    <2>5. m = Len(all) => some = all
      BY <2>2, <2>3
    <2> QED
      BY <2>1, <2>3, <2>4, <2>5
  <1>9. Len(all) = Len(roots[n].items)
    <2>1. roots[n].items \in Seq(STRING)
      <3>1. PICK A : A = [name : STRING, items : Seq(STRING)]
        OBVIOUS
      <3>2. roots \in Seq(A)
        BY <3>1, ShellRoots, Zenon
      <3>3. roots[n] \in A
        BY <1>3, <3>2
      <3> QED
        BY <3>1, <3>3
    <2>2. DOMAIN all = 1..Len(all) /\ DOMAIN roots[n].items = 1..Len(roots[n].items)
          /\ Len(all) \in Nat /\ Len(roots[n].items) \in Nat
      BY <1>6, <2>1
    <2>3. \A i, j \in Nat : 1..i = 1..j => i = j
      <3> SUFFICES ASSUME NEW i \in Nat, NEW j \in Nat, 1..i = 1..j PROVE i = j
        OBVIOUS
      <3>1. (i >= 1 => i \in 1..j) /\ (j >= 1 => j \in 1..i)
        OBVIOUS
      <3> QED
        BY <3>1
    <2> QED
      BY <1>6, <2>2, <2>3, Zenon
  <1>10. CASE Shell!Take(some) /\ (IF Len(roots[n].items) > MaxItems THEN Shell!RootFails ELSE UNCHANGED errors)
    <2>1. candidates \in Seq(STRING \X Nat)
      BY DEF ShellInv
    <2>2. candidates' \in Seq(STRING \X Nat) /\ \A x : ShellListed(x) => ShellListed(x)'
      BY <1>8, <1>10, <2>1, ShellTake
    <2>3. CASE Len(roots[n].items) > MaxItems
      <3>1. ShellReached(n)' /\ errors \subseteq errors'
        BY <1>1, <1>2, <1>10, <2>3, ShellRootFails
      <3> QED
        BY <1>1, <1>2, <2>2, <3>1, ShellWalk
    <2>4. CASE ~(Len(roots[n].items) > MaxItems)
      <3>1. some = all /\ UNCHANGED errors
        BY <1>6, <1>7, <1>8, <1>9, <1>10, <2>4
      <3>2. Shell!Take(Shell!Numbered(Shell!Root))
        BY <1>3, <1>5, <1>10, <3>1
      <3>3. ShellReached(n)'
        BY <1>1, <1>2, <1>3, <3>1, <3>2, ShellTaken
      <3> QED
        BY <1>1, <1>2, <2>2, <3>1, <3>3, ShellWalk
    <2> QED
      BY <2>3, <2>4
  <1>11. Shell!AtMost(MaxItems, Shell!Numbered(Shell!Root)) = some /\ Shell!Root.items = roots[n].items
    BY <1>3, <1>5
  <1> QED
    BY <1>4, <1>10, <1>11, Zenon DEF Shell!WalkStartup


(* The items follow, all of them known.                                    *)
LEMMA ShellAllWalked ==
    ASSUME ShellInv, pc = "walk", at > Len(roots)
    PROVE  \A k \in DOMAIN roots : ShellReached(k)
  <1>1. roots \in Seq([name : STRING, items : Seq(STRING)]) /\ at \in Nat
    BY ShellRoots DEF ShellInv
  <1>2. PICK A : A = [name : STRING, items : Seq(STRING)]
    OBVIOUS
  <1>3. roots \in Seq(A)
    BY <1>1, <1>2, Zenon
  <1>4. \A k \in DOMAIN roots : k < at
    BY <1>1, <1>3
  <1> QED
    BY <1>4 DEF ShellInv

(* The enumeration ends: what was left has an error.                       *)
LEMMA ShellEnds ==
    ASSUME ShellInv, UNCHANGED <<source, roots, at, observed>>, pc' = "done", candidates' \in Seq(STRING \X Nat),
           errors \subseteq errors', \A k \in DOMAIN roots : ShellClosed(k)'
    PROVE  ShellInv'
  BY DEF ShellInv

LEMMA ShellCloses ==
    ASSUME UNCHANGED <<source, roots, observed>>, errors \subseteq errors', NEW k, ShellReached(k),
           \A x : ShellListed(x) => x \in errors'
    PROVE  ShellClosed(k)'
  <1> SUFFICES ASSUME NEW i \in ShellWanted(k)
               PROVE  ShellOver(k, ShellItem(k, i))'
    BY ShellStays DEF ShellClosed
  <1>1. PICK x : x = ShellItem(k, i)
    OBVIOUS
  <1>2. ShellItem(k, i)' = x
    BY <1>1, ShellStays
  <1>3. ShellListed(x) \/ ShellOver(k, x)
    BY <1>1 DEF ShellReached
  <1>4. ShellOver(k, x)'
    BY <1>3, ShellStays DEF ShellOver
  <1> QED
    BY <1>2, <1>4 DEF ShellOver

LEMMA ShellConnectShortcuts == ASSUME ShellInv, Shell!ConnectShortcuts PROVE ShellInv'
  <1>1. /\ UNCHANGED <<source, roots, at, candidates, observed>> /\ pc = "walk" /\ at > Len(roots)
        /\ candidates \in Seq(STRING \X Nat)
    BY DEF Shell!ConnectShortcuts, ShellInv
  <1>2. \A k \in DOMAIN roots : ShellReached(k)
    BY <1>1, ShellAllWalked
  <1>3. CASE pc' = "items" /\ UNCHANGED errors
    <2>1. \A k \in DOMAIN roots : ShellReached(k)'
      BY <1>1, <1>2, <1>3, ShellKeeps DEF ShellListed
    <2> QED
      BY <1>1, <1>3, <2>1 DEF ShellInv
  <1>4. CASE Shell!GiveUp(Shell!Range(candidates))
    <2>1. pc' = "done" /\ errors \subseteq errors' /\ \A x : ShellListed(x) => x \in errors'
      BY <1>4 DEF Shell!GiveUp, Shell!Range, ShellListed
    <2>2. \A k \in DOMAIN roots : ShellClosed(k)'
      BY <1>1, <1>2, <2>1, ShellCloses
    <2> QED
      BY <1>1, <2>1, <2>2, ShellEnds
  <1> QED
    BY <1>3, <1>4 DEF Shell!ConnectShortcuts

(* The one list of the packages or the defaults.                           *)
LEMMA ShellOneRoot ==
    ASSUME ShellInv, pc = "walk", source \in {"appx", "associations"}
    PROVE  at = 1 /\ DOMAIN roots = {1} /\ 1 \in DOMAIN roots /\ Shell!Root = roots[1]
  <1>1. at = 1 /\ Len(roots) = 1
    BY ShellRoots DEF ShellInv
  <1>2. PICK A : A = [name : STRING, items : Seq(STRING)]
    OBVIOUS
  <1>3. roots \in Seq(A)
    BY <1>2, ShellRoots, Zenon
  <1>4. DOMAIN roots = 1..1
    BY <1>1, <1>3
  <1> QED
    BY <1>1, <1>4 DEF Shell!Root

LEMMA ShellTakesAll ==
    ASSUME ShellInv, pc = "walk", source \in {"appx", "associations"}, pc' = "items",
           UNCHANGED <<source, roots, at, observed, errors>>, Shell!Take(Shell!Numbered(Shell!Root))
    PROVE  ShellInv'
  <1>1. at = 1 /\ DOMAIN roots = {1} /\ 1 \in DOMAIN roots
    BY ShellOneRoot
  <1>2. ShellReached(1)' /\ candidates' \in Seq(STRING \X Nat)
    BY <1>1, ShellTaken
  <1> QED
    BY <1>1, <1>2 DEF ShellInv

LEMMA ShellAssociations == ASSUME ShellInv, Shell!ConnectAssociations PROVE ShellInv'
  <1>1. UNCHANGED <<source, roots, at, observed>> /\ pc = "walk" /\ source \in {"appx", "associations"}
    BY DEF Shell!ConnectAssociations
  <1>2. at = 1 /\ DOMAIN roots = {1} /\ 1 \in DOMAIN roots /\ Shell!Root = roots[1]
    BY <1>1, ShellOneRoot
  <1>3. CASE Shell!Take(Shell!Numbered(Shell!Root)) /\ pc' = "items" /\ UNCHANGED errors
    BY <1>1, <1>3, ShellTakesAll
  <1>4. CASE Shell!GiveUp(Shell!Range(Shell!Numbered(Shell!Root))) /\ UNCHANGED candidates
    <2>1. PICK items : items = Shell!Numbered(roots[1])
      OBVIOUS
    <2>2. DOMAIN items = DOMAIN roots[1].items /\ \A i \in DOMAIN roots[1].items : items[i] = ShellItem(1, i)
      BY <1>2, <2>1, ShellNumbered
    <2>3. pc' = "done" /\ errors' = errors \cup Shell!Range(items)
      BY <1>2, <1>4, <2>1 DEF Shell!GiveUp
    <2>4. \A i \in DOMAIN roots[1].items : ShellItem(1, i) \in errors'
      BY <2>2, <2>3 DEF Shell!Range
    <2>5. ShellWanted(1)' = ShellWanted(1) /\ \A i : ShellItem(1, i)' = ShellItem(1, i)
      BY <1>1, <2>3, ShellStays
    <2>6. ShellClosed(1)'
      BY <2>4, <2>5 DEF ShellClosed, ShellOver, ShellWanted
    <2>7. candidates' \in Seq(STRING \X Nat) /\ errors \subseteq errors'
      BY <1>4, <2>3 DEF ShellInv
    <2> QED
      BY <1>1, <1>2, <2>3, <2>6, <2>7, ShellEnds
  <1> QED
    BY <1>3, <1>4 DEF Shell!ConnectAssociations

LEMMA ShellGaveUp ==
    ASSUME ShellInv, UNCHANGED <<source, roots, at, candidates, observed>>, Shell!GiveUp({<<"all", 0>>})
    PROVE  ShellInv'
  <1>1. pc' = "done" /\ errors' = errors \cup {<<"all", 0>>}
    BY DEF Shell!GiveUp
  <1>2. \A k \in DOMAIN roots : ShellClosed(k)'
    BY <1>1 DEF ShellClosed, ShellOver
  <1> QED
    BY <1>1, <1>2, ShellEnds DEF ShellInv

LEMMA ShellPackages == ASSUME ShellInv, Shell!ConnectPackages PROVE ShellInv'
  <1>1. UNCHANGED <<source, roots, at, observed>> /\ pc = "walk" /\ source \in {"appx", "associations"}
    BY DEF Shell!ConnectPackages
  <1>2. CASE Shell!Take(Shell!Numbered(Shell!Root)) /\ pc' = "items" /\ UNCHANGED errors
    BY <1>1, <1>2, ShellTakesAll
  <1>3. CASE Shell!GiveUp({<<"all", 0>>}) /\ UNCHANGED candidates
    BY <1>1, <1>3, ShellGaveUp
  <1> QED
    BY <1>2, <1>3 DEF Shell!ConnectPackages

(* An item leaves the list and is accounted for.                           *)
LEMMA ShellInspects ==
    ASSUME ShellInv, NEW from, Shell!NextOf(from), observed \subseteq observed', errors \subseteq errors',
           Shell!Item \in observed' \cup errors'
    PROVE  ShellInv'
  <1>1. /\ pc = "items" /\ UNCHANGED <<source, roots, pc, at>> /\ candidates # <<>>
        /\ candidates' = Tail(candidates)
    BY DEF Shell!NextOf
  <1>2. PICK A : A = STRING \X Nat
    OBVIOUS
  <1>3. candidates \in Seq(A)
    BY <1>2 DEF ShellInv
  <1>4. PICK m : m = Len(candidates)
    OBVIOUS
  <1>5. /\ candidates' \in Seq(A) /\ DOMAIN candidates' = 1..(m - 1) /\ m \in Nat /\ m >= 1 /\ DOMAIN candidates = 1..m
        /\ \A i \in 1..(m - 1) : candidates'[i] = candidates[i + 1]
    BY <1>1, <1>3, <1>4
  <1>6. Shell!Item = candidates[1]
    BY <1>1, <1>3 DEF Shell!Item
  <1>7. ASSUME NEW x, ShellListed(x) PROVE ShellListed(x)' \/ x \in observed' \cup errors'
    <2>1. PICK n \in 1..m : candidates[n] = x
      BY <1>5, <1>7 DEF ShellListed
    <2>2. CASE n = 1
      BY <1>6, <2>1, <2>2
    <2>3. CASE n # 1
      <3>1. n - 1 \in 1..(m - 1) /\ (n - 1) + 1 = n
        BY <1>5, <2>3
      <3>2. candidates'[n - 1] = x
        BY <1>5, <2>1, <3>1
      <3> QED
        BY <1>5, <3>1, <3>2 DEF ShellListed
    <2> QED
      BY <2>2, <2>3
  <1>8. \A k \in DOMAIN roots : ShellReached(k)'
    BY <1>1, <1>7, ShellKeeps DEF ShellInv
  <1> QED
    BY <1>1, <1>2, <1>5, <1>8 DEF ShellInv

LEMMA ShellKept == ASSUME ShellInv, Shell!SiNext PROVE ShellInv'
  <1>1. CASE Shell!InspectShortcut
    BY <1>1, ShellInspects DEF Shell!InspectShortcut, Shell!Observe, Shell!Fail
  <1>2. CASE Shell!QueryAssociation
    BY <1>2, ShellInspects DEF Shell!QueryAssociation, Shell!Observe, Shell!Fail
  <1>3. CASE Shell!InspectStartup
    BY <1>3, ShellInspects DEF Shell!InspectStartup, Shell!Observe, Shell!Fail
  <1>4. CASE Shell!CollectPackage
    BY <1>4, ShellInspects DEF Shell!CollectPackage, Shell!Observe, Shell!Fail
  <1>5. CASE Shell!EndPackages
    BY <1>5, ShellGaveUp DEF Shell!EndPackages
  <1>6. CASE Shell!Finish
    <2>1. /\ pc = "items" /\ candidates = <<>> /\ pc' = "done"
          /\ UNCHANGED <<source, roots, at, candidates, observed, errors>>
      BY <1>6 DEF Shell!Finish
    <2>2. \A x : ~ShellListed(x)
      BY <2>1 DEF ShellListed
    <2>3. \A k \in DOMAIN roots : ShellClosed(k)'
      BY <2>1, <2>2, ShellCloses DEF ShellInv
    <2> QED
      BY <2>1, <2>3, ShellEnds DEF ShellInv
  <1> QED
    BY <1>1, <1>2, <1>3, <1>4, <1>5, <1>6, ShellWalkShortcuts, ShellWalkStartup, ShellConnectShortcuts,
       ShellAssociations, ShellPackages, Zenon DEF Shell!SiNext

LEMMA ShellSound == ASSUME ShellInv PROVE Shell!ItemIsAccountedFor
  <1> SUFFICES ASSUME pc = "done", NEW k \in DOMAIN roots, NEW item \in Shell!Range(Shell!Numbered(roots[k])),
                      Shell!IsCandidate(roots[k], item)
               PROVE  ShellOver(k, item)
    BY DEF Shell!ItemIsAccountedFor, ShellOver
  <1>1. PICK i \in DOMAIN roots[k].items : item = ShellItem(k, i)
    BY ShellNumbered DEF Shell!Range
  <1>2. i \in ShellWanted(k)
    BY <1>1 DEF ShellWanted
  <1> QED
    BY <1>1, <1>2 DEF ShellInv, ShellClosed


-----------------------------------------------------------------------------
(* Taking a member out of a sequence.                                      *)
Removed(r, s, i) ==
    /\ Len(s) \in Nat /\ Len(r) = Len(s) - 1 /\ DOMAIN r = 1..(Len(s) - 1)
    /\ \A k \in 1..(Len(s) - 1) : r[k] = IF k < i THEN s[k] ELSE s[k + 1]

LEMMA TakenOut ==
    ASSUME NEW U, NEW s \in Seq(U), NEW i \in DOMAIN s
    PROVE  SubSeq(s, 1, i - 1) \o SubSeq(s, i + 1, Len(s)) \in Seq(U)
           /\ Removed(SubSeq(s, 1, i - 1) \o SubSeq(s, i + 1, Len(s)), s, i)
  <1>1. PICK n, a, b, r : n = Len(s) /\ a = SubSeq(s, 1, i - 1) /\ b = SubSeq(s, i + 1, n) /\ r = a \o b
    OBVIOUS
  <1>2. n \in Nat /\ i \in 1..n /\ DOMAIN s = 1..n
    BY <1>1
  <1>3. a \in Seq(U) /\ Len(a) = i - 1 /\ \A k \in 1..(i - 1) : a[k] = s[k]
    <2>1. a \in Seq(U)
      BY <1>1, <1>2
    <2>2. Len(a) = i - 1
      BY <1>1, <1>2
    <2>3. \A k \in 1..(i - 1) : a[k] = s[k]
      BY <1>1, <1>2
    <2> QED
      BY <2>1, <2>2, <2>3
  <1>4. b \in Seq(U) /\ Len(b) = n - i /\ \A k \in 1..(n - i) : b[k] = s[i + k]
    <2>1. b \in Seq(U)
      BY <1>1, <1>2
    <2>2. Len(b) = n - i
      BY <1>1, <1>2
    <2>3. ASSUME NEW k \in 1..(n - i) PROVE b[k] = s[i + k]
      <3>3. PICK j : j = i + 1
        OBVIOUS
      <3>6. b = SubSeq(s, j, n) /\ n = Len(s)
        BY <1>1, <3>3, Zenon
      <3>7. j \in 1..(n + 1) /\ k \in 1..(n - j + 1)
        BY <1>2, <3>3
      <3>4. b = SubSeq(s, j, n) /\ j \in 1..(n + 1) /\ n = Len(s) /\ k \in 1..(n - j + 1)
        BY <3>6, <3>7, Zenon
      <3>5. SubSeq(s, j, n)[k] = s[j + k - 1]
        BY <1>2, <3>4
      <3>1. b[k] = s[(i + 1) + k - 1]
        BY <3>3, <3>4, <3>5
      <3>2. (i + 1) + k - 1 = i + k
        BY <1>2
      <3> QED
        BY <3>1, <3>2
    <2> QED
      BY <2>1, <2>2, <2>3
  <1>5. r \in Seq(U) /\ Both(r, a, b)
    BY <1>1, <1>3, <1>4, Joined, Zenon
  <1>6. PICK p, q : p = Len(a) /\ q = Len(b)
    OBVIOUS
  <1>7. p = i - 1 /\ q = n - i
    BY <1>3, <1>4, <1>6
  <1>8. Len(r) = p + q /\ (\A k \in 1..p : r[k] = a[k]) /\ \A k \in 1..q : r[p + k] = b[k]
    BY <1>5, <1>6, Zenon DEF Both
  <1>9. DOMAIN r = 1..Len(r)
    BY <1>5
  <1>10. p + q = n - 1 /\ p \in Nat /\ q \in Nat
    BY <1>2, <1>7
  <1>11. ASSUME NEW k \in 1..(n - 1) PROVE r[k] = IF k < i THEN s[k] ELSE s[k + 1]
    <2>1. CASE k < i
      <3>1. k \in 1..p /\ k \in 1..(i - 1)
        BY <1>2, <1>7, <2>1
      <3> QED
        BY <1>3, <1>8, <2>1, <3>1
    <2>2. CASE ~(k < i)
      <3>1. k - p \in 1..q /\ p + (k - p) = k /\ k - p \in 1..(n - i) /\ i + (k - p) = k + 1
        BY <1>2, <1>7, <2>2
      <3>2. r[k] = b[k - p] /\ b[k - p] = s[k + 1]
        BY <1>4, <1>8, <3>1
      <3> QED
        BY <2>2, <3>2
    <2> QED
      BY <2>1, <2>2
  <1>12. Len(r) = n - 1 /\ DOMAIN r = 1..(n - 1)
    BY <1>8, <1>9, <1>10
  <1>13. Removed(r, s, i)
    BY <1>1, <1>2, <1>11, <1>12 DEF Removed
  <1> QED
    BY <1>1, <1>5, <1>13, Zenon

-----------------------------------------------------------------------------
(* The services (ServiceScan).                                             *)
ServiceNames(s) == {s[i].name : i \in DOMAIN s}
ServiceOnce(s) == \A i, j \in DOMAIN s : s[i].name = s[j].name => i = j

ServicePages ==
    pc \in {"open", "size", "page"} => observations = {} /\ ServiceNames(records) = resume
ServiceAnswered ==
    pc = "query" \/ (pc = "done" /\ ~Svc!Gave) =>
        /\ resume = ServiceNames(records) \cup Svc!Observed
        /\ stable \subseteq resume
        /\ pc = "done" => records = <<>>
ServiceErrors == \A o \in observations : o.config \/ \E e \in errors : e.name = o.name
ServiceTypes ==
    /\ pc \in {"open", "size", "page", "query", "done"} /\ capacity \in Nat
    /\ manager \in Seq(Svc!Services) /\ ServiceOnce(manager)
    /\ records \in Seq(Svc!Services) /\ ServiceOnce(records) /\ ServiceNames(records) \subseteq resume
    /\ stable \subseteq ServiceNames(manager)
ServiceInv == ServiceTypes /\ ServicePages /\ ServiceAnswered /\ ServiceErrors

LEMMA ServiceWords ==
    ASSUME NEW s
    PROVE  Svc!Names(s) = ServiceNames(s) /\ (Svc!NoNameTwice(s) <=> ServiceOnce(s))
  BY DEF Svc!Names, ServiceNames, Svc!NoNameTwice, ServiceOnce

LEMMA ServiceStart == ASSUME Svc!SsInit PROVE ServiceInv
  <1>1. manager \in Seq(Svc!Services) /\ ServiceOnce(manager) /\ stable = ServiceNames(manager)
    BY ServiceAssumption, ServiceWords DEF Svc!ServiceAssumption, Svc!SsInit
  <1>2. records = <<>> /\ records \in Seq(Svc!Services) /\ DOMAIN records = {}
    BY DEF Svc!SsInit
  <1>3. ServiceNames(records) = {} /\ ServiceOnce(records)
    BY <1>2 DEF ServiceNames, ServiceOnce
  <1> QED
    BY <1>1, <1>2, <1>3 DEF Svc!SsInit, ServiceInv, ServiceTypes, ServicePages, ServiceAnswered, ServiceErrors

(* The sum of the sizes is a number, and that of nothing is zero.          *)
SizeIs(f, s) == f = [n \in 0..Len(s) |-> IF n = 0 THEN 0 ELSE f[n - 1] + s[n].size]

LEMMA ServiceSize ==
    ASSUME NEW s \in Seq(Svc!Services)
    PROVE  Svc!SizeOf(s) \in Nat /\ (Len(s) = 0 => Svc!SizeOf(s) = 0)
  <1>1. PICK L : L = Len(s)
    OBVIOUS
  <1>2. L \in Nat /\ \A n \in 1..L : s[n].size \in Nat
    <2>1. L \in Nat /\ \A n \in 1..L : s[n] \in Svc!Services
      BY <1>1
    <2> QED
      BY <2>1 DEF Svc!Services
  <1> DEFINE Upto(m, g) == g \in [0..m -> Nat] /\ g[0] = 0 /\ \A n \in 1..m : g[n] = g[n - 1] + s[n].size
             Missing == {m \in 0..L : ~\E g : Upto(m, g)}
  <1>3. Missing = {}
    <2> SUFFICES ASSUME Missing # {} PROVE FALSE
      OBVIOUS
    <2>1. PICK m \in Missing : \A k \in Missing : m <= k
      <3>1. Missing \in SUBSET Nat
        BY <1>2
      <3> HIDE DEF Missing
      <3> QED
        BY <3>1, LeastMember
    <2>2. m # 0
      <3>1. Upto(0, [n \in 0..0 |-> 0])
        OBVIOUS
      <3> QED
        BY <3>1
    <2>3. m \in 0..L /\ m - 1 \in 0..L /\ m \in 1..L /\ m \in Int
      BY <1>2, <2>2
    <2>4. m - 1 \notin Missing
      BY <2>1, <2>3
    <2>5. PICK g : Upto(m - 1, g)
      BY <2>3, <2>4
    <2>6. PICK h : h = [n \in 0..m |-> IF n = m THEN g[m - 1] + s[m].size ELSE g[n]]
      OBVIOUS
    <2>7. h \in [0..m -> Nat]
      <3>1. g[m - 1] \in Nat /\ s[m].size \in Nat
        BY <1>2, <2>3, <2>5
      <3>2. \A n \in 0..m : n # m => g[n] \in Nat
        BY <2>3, <2>5
      <3> QED
        BY <2>6, <3>1, <3>2
    <2>8. h[0] = 0
      BY <2>2, <2>3, <2>5, <2>6
    <2>9. ASSUME NEW n \in 1..m PROVE h[n] = h[n - 1] + s[n].size
      <3>1. n - 1 \in 0..m /\ n - 1 # m /\ n \in 0..m
        BY <2>3
      <3>2. h[n - 1] = g[n - 1]
        BY <2>6, <3>1
      <3>3. CASE n = m
        BY <2>6, <3>1, <3>2, <3>3
      <3>4. CASE n # m
        <4>1. n \in 1..(m - 1)
          BY <2>3, <3>4
        <4>2. g[n] = g[n - 1] + s[n].size
          BY <2>5, <4>1
        <4> QED
          BY <2>6, <3>1, <3>2, <3>4, <4>2
      <3> QED
        BY <3>3, <3>4
    <2>10. Upto(m, h)
      BY <2>7, <2>8, <2>9
    <2> QED
      BY <2>10
  <1>4. PICK g : Upto(L, g)
    <2>1. L \in 0..L
      BY <1>2
    <2>2. L \notin Missing
      BY <1>3
    <2> HIDE DEF Upto
    <2> QED
      BY <2>1, <2>2
  <1>5. SizeIs(g, s)
    <2>1. ASSUME NEW n \in 0..L PROVE g[n] = IF n = 0 THEN 0 ELSE g[n - 1] + s[n].size
      <3>1. n = 0 \/ n \in 1..L
        BY <1>2
      <3> QED
        BY <1>4, <3>1
    <2> QED
      BY <1>1, <1>4, <2>1 DEF SizeIs
  <1>6. PICK f : f = CHOOSE x : SizeIs(x, s)
    OBVIOUS
  <1>7. SizeIs(f, s)
    BY <1>5, <1>6
  <1>8. Svc!SizeOf(s) = f[L]
    BY <1>1, <1>6, Zenon DEF Svc!SizeOf, SizeIs
  <1>9. \A n \in 0..L : f[n] = IF n = 0 THEN 0 ELSE f[n - 1] + s[n].size
    <2>1. f = [n \in 0..L |-> IF n = 0 THEN 0 ELSE f[n - 1] + s[n].size]
      BY <1>1, <1>7 DEF SizeIs
    <2> QED
      BY <2>1
  <1> DEFINE Wrong == {n \in 0..L : f[n] \notin Nat}
  <1>10. Wrong = {}
    <2> SUFFICES ASSUME Wrong # {} PROVE FALSE
      OBVIOUS
    <2>1. PICK m \in Wrong : \A k \in Wrong : m <= k
      <3>1. Wrong \in SUBSET Nat
        BY <1>2
      <3> HIDE DEF Wrong
      <3> QED
        BY <3>1, LeastMember
    <2>2. m # 0
      BY <1>2, <1>9
    <2>3. m \in 1..L /\ m - 1 \in 0..L /\ m \in 0..L
      BY <1>2, <2>2
    <2>4. f[m - 1] \in Nat
      BY <2>1, <2>3
    <2>5. f[m] = f[m - 1] + s[m].size /\ s[m].size \in Nat
      BY <1>2, <1>9, <2>2, <2>3
    <2> QED
      BY <2>1, <2>4, <2>5
  <1>11. f[L] \in Nat /\ (L = 0 => f[L] = 0)
    BY <1>2, <1>9, <1>10
  <1> QED
    BY <1>1, <1>8, <1>11


(* What the manager has left to return.                                    *)
LEMMA ServiceRest ==
    ASSUME ServiceTypes
    PROVE  /\ Svc!Rest \in Seq(Svc!Services) /\ ServiceOnce(Svc!Rest)
           /\ ServiceNames(Svc!Rest) = ServiceNames(manager) \ resume
  <1>1. PICK S, N, A, c : /\ S = {i \in DOMAIN manager : manager[i].name \notin resume} /\ N = Cardinality(S)
                          /\ A = Svc!Services /\ c = Chosen(manager, S)
    OBVIOUS
  <1>2. manager \in Seq(A) /\ S \in SUBSET DOMAIN manager
    BY <1>1 DEF ServiceTypes
  <1>3. c \in Seq(A) /\ IsChosen(c, manager, S)
    BY <1>1, <1>2, ChosenMembers, Zenon
  <1>4. IsPlaced(c, manager, S, N)
    BY <1>1, <1>3, Zenon DEF IsChosen
  <1>5. PICK place \in [1..N -> S] : /\ \A n \in 1..N : c[n] = manager[place[n]]
                                    /\ \A i \in S : \E n \in 1..N : place[n] = i
                                    /\ \A a, b \in 1..N : place[a] = place[b] => a = b
    BY <1>4 DEF IsPlaced
  <1>6. DOMAIN c = 1..N
    BY <1>4 DEF IsPlaced
  <1>7. Svc!Rest = c
    <2>1. Svc!Chosen(manager, S) = Chosen(manager, S)
      BY Zenon DEF Svc!Chosen, Chosen, Svc!Cardinality, Cardinality, Svc!IsFiniteSet, IsFiniteSet
    <2> QED
      BY <1>1, <2>1 DEF Svc!Rest
  <1>8. ASSUME NEW a \in DOMAIN c, NEW b \in DOMAIN c, c[a].name = c[b].name PROVE a = b
    <2>1. a \in 1..N /\ b \in 1..N /\ place[a] \in DOMAIN manager /\ place[b] \in DOMAIN manager
      BY <1>1, <1>5, <1>6
    <2>2. manager[place[a]].name = manager[place[b]].name
      BY <1>5, <1>8, <2>1
    <2>3. place[a] = place[b]
      BY <2>1, <2>2 DEF ServiceTypes, ServiceOnce
    <2> QED
      BY <1>5, <2>1, <2>3
  <1>9. ServiceOnce(c)
    BY <1>8 DEF ServiceOnce
  <1>10. ASSUME NEW x \in ServiceNames(c) PROVE x \in ServiceNames(manager) \ resume
    <2>1. PICK n \in 1..N : x = c[n].name
      BY <1>6, <1>10 DEF ServiceNames
    <2>2. place[n] \in S /\ c[n] = manager[place[n]]
      BY <1>5
    <2> QED
      BY <1>1, <2>1, <2>2 DEF ServiceNames
  <1>11. ASSUME NEW x \in ServiceNames(manager) \ resume PROVE x \in ServiceNames(c)
    <2>1. PICK i \in DOMAIN manager : x = manager[i].name
      BY <1>11 DEF ServiceNames
    <2>2. i \in S
      BY <1>1, <1>11, <2>1
    <2>3. PICK n \in 1..N : place[n] = i
      BY <1>5, <2>2
    <2> QED
      BY <1>5, <1>6, <2>1, <2>3 DEF ServiceNames
  <1> QED
    BY <1>1, <1>3, <1>7, <1>9, <1>10, <1>11

(* A page is a beginning of it.                                            *)
LEMMA ServicePage ==
    ASSUME ServiceTypes
    PROVE  /\ Svc!Page \in Seq(Svc!Services) /\ ServiceOnce(Svc!Page)
           /\ ServiceNames(Svc!Page) \subseteq ServiceNames(Svc!Rest)
           /\ Len(Svc!Page) < Len(Svc!Rest) \/ Svc!Page = Svc!Rest
  <1>1. PICK rest, A : rest = Svc!Rest /\ A = Svc!Services
    OBVIOUS
  <1>2. rest \in Seq(A) /\ ServiceOnce(rest)
    BY <1>1, ServiceRest
  <1>3. PICK L : L = Len(rest)
    OBVIOUS
  <1>4. L \in Nat /\ DOMAIN rest = 1..L
    BY <1>2, <1>3
  <1>5. PICK fits : fits = {n \in 0..L : Svc!SizeOf(SubSeq(rest, 1, n)) <= capacity}
    OBVIOUS
  <1>6. 0 \in fits
    <2>1. PICK e : e = SubSeq(rest, 1, 0)
      OBVIOUS
    <2>2. e \in Seq(A) /\ Len(e) = 0
      BY <1>2, <2>1
    <2>3. Svc!SizeOf(e) = 0
      BY <1>1, <2>2, ServiceSize
    <2>4. capacity \in Nat
      BY DEF ServiceTypes
    <2> QED
      BY <1>4, <1>5, <2>1, <2>3, <2>4
  <1>7. PICK M : M = Svc!Max(fits)
    OBVIOUS
  <1>8. M \in fits
    <2>1. fits \subseteq 0..L
      BY <1>5
    <2>2. PICK T : T = {L - n : n \in fits}
      OBVIOUS
    <2>3. T \in SUBSET Nat /\ T # {}
      BY <1>4, <1>6, <2>1, <2>2
    <2>4. PICK d \in T : \A e \in T : d <= e
      BY <2>3, LeastMember
    <2>5. PICK n \in fits : d = L - n
      BY <2>2, <2>4
    <2>6. ASSUME NEW y \in fits PROVE n >= y
      <3>1. L - y \in T
        BY <2>2
      <3>2. L - n <= L - y
        BY <2>4, <2>5, <3>1
      <3>3. n \in Int /\ y \in Int
        BY <2>1
      <3> QED
        BY <1>4, <3>2, <3>3
    <2>7. M = CHOOSE x \in fits : \A y \in fits : x >= y
      BY <1>7, Zenon DEF Svc!Max
    <2> QED
      BY <2>6, <2>7
  <1>9. M \in Nat /\ M <= L
    BY <1>4, <1>5, <1>8
  <1>10. PICK p : p = SubSeq(rest, 1, M)
    OBVIOUS
  <1>11. p \in Seq(A) /\ Len(p) = M /\ DOMAIN p = 1..M /\ \A k \in 1..M : p[k] = rest[k]
    BY <1>2, <1>3, <1>9, <1>10
  <1>12. Svc!Page = p
    <2>1. fits = {n \in 0..Len(Svc!Rest) : Svc!SizeOf(SubSeq(Svc!Rest, 1, n)) <= capacity}
      BY <1>1, <1>3, <1>5
    <2>2. p = SubSeq(Svc!Rest, 1, Svc!Max(fits))
      BY <1>1, <1>7, <1>10
    <2> QED
      BY <2>1, <2>2, Zenon DEF Svc!Page
  <1>13. M < L \/ p = rest
    <2>1. M < L \/ M = L
      BY <1>4, <1>9
    <2>2. M = L => p = rest
      BY <1>2, <1>3, <1>4, <1>10
    <2> QED
      BY <2>1, <2>2
  <1>14. \A k \in 1..M : k \in DOMAIN rest
    BY <1>4, <1>9
  <1>15. ServiceOnce(p) /\ ServiceNames(p) \subseteq ServiceNames(rest)
    BY <1>2, <1>11, <1>14 DEF ServiceOnce, ServiceNames
  <1> QED
    BY <1>1, <1>3, <1>11, <1>12, <1>13, <1>15

LEMMA ServiceJoined ==
    ASSUME NEW s \in Seq(Svc!Services), NEW t \in Seq(Svc!Services), ServiceOnce(s), ServiceOnce(t),
           ServiceNames(s) \cap ServiceNames(t) = {}
    PROVE  /\ s \o t \in Seq(Svc!Services) /\ ServiceOnce(s \o t)
           /\ ServiceNames(s \o t) = ServiceNames(s) \cup ServiceNames(t)
  <1>1. PICK e, m, n : e = s \o t /\ m = Len(s) /\ n = Len(t)
    OBVIOUS
  <1>2. e \in Seq(Svc!Services) /\ Both(e, s, t)
    BY <1>1, Joined, Zenon
  <1>3. m \in Nat /\ n \in Nat /\ DOMAIN s = 1..m /\ DOMAIN t = 1..n /\ DOMAIN e = 1..Len(e)
    <2>1. m = Len(s) /\ n = Len(t)
      BY <1>1
    <2> QED
      BY <1>2, <2>1
  <1>4. Len(e) = m + n /\ (\A i \in 1..m : e[i] = s[i]) /\ \A i \in 1..n : e[m + i] = t[i]
    BY <1>1, <1>2, Zenon DEF Both
  <1>5. ASSUME NEW i \in DOMAIN e
        PROVE  (i \in 1..m /\ e[i] = s[i]) \/ (i - m \in 1..n /\ e[i] = t[i - m])
    <2>1. i \in 1..m \/ (i - m \in 1..n /\ m + (i - m) = i)
      BY <1>3, <1>4
    <2>2. i - m \in 1..n /\ m + (i - m) = i => e[i] = t[i - m]
      BY <1>4
    <2> QED
      BY <1>4, <2>1, <2>2
  <1>6. (\A i \in 1..m : e[i].name \in ServiceNames(s)) /\ \A i \in 1..n : t[i].name \in ServiceNames(t)
    BY <1>3, <1>4 DEF ServiceNames
  <1>7. ASSUME NEW i \in DOMAIN e, NEW j \in DOMAIN e, e[i].name = e[j].name PROVE i = j
    <2>1. CASE i \in 1..m /\ e[i] = s[i] /\ j \in 1..m /\ e[j] = s[j]
      BY <1>3, <1>7, <2>1 DEF ServiceOnce
    <2>2. CASE i - m \in 1..n /\ e[i] = t[i - m] /\ j - m \in 1..n /\ e[j] = t[j - m]
      <3>1. i - m = j - m
        BY <1>3, <1>7, <2>2 DEF ServiceOnce
      <3>2. i \in Int /\ j \in Int
        BY <1>3, <1>4
      <3> QED
        BY <1>3, <3>1, <3>2
    <2>3. CASE i \in 1..m /\ j - m \in 1..n /\ e[j] = t[j - m]
      BY <1>6, <1>7, <2>3
    <2>4. CASE j \in 1..m /\ i - m \in 1..n /\ e[i] = t[i - m]
      BY <1>6, <1>7, <2>4
    <2> QED
      BY <1>5, <2>1, <2>2, <2>3, <2>4
  <1>8. ServiceOnce(e)
    BY <1>7 DEF ServiceOnce
  <1>9. ServiceNames(e) \subseteq ServiceNames(s) \cup ServiceNames(t)
    BY <1>3, <1>5 DEF ServiceNames
  <1>10. (\A i \in 1..m : i \in DOMAIN e) /\ \A i \in 1..n : m + i \in DOMAIN e
    BY <1>3, <1>4
  <1>11. ServiceNames(s) \cup ServiceNames(t) \subseteq ServiceNames(e)
    <2>1. ASSUME NEW i \in DOMAIN s PROVE s[i].name \in ServiceNames(e)
      <3>1. e[i] = s[i] /\ i \in DOMAIN e
        BY <1>3, <1>4, <1>10
      <3> QED
        BY <3>1 DEF ServiceNames
    <2>2. ASSUME NEW i \in DOMAIN t PROVE t[i].name \in ServiceNames(e)
      <3>1. e[m + i] = t[i] /\ m + i \in DOMAIN e
        BY <1>3, <1>4, <1>10
      <3> QED
        BY <3>1 DEF ServiceNames
    <2> QED
      BY <2>1, <2>2 DEF ServiceNames
  <1> QED
    BY <1>1, <1>2, <1>8, <1>9, <1>11, Zenon


(* The enumeration as a whole fails.                                       *)
LEMMA ServiceStop ==
    ASSUME ServiceInv, NEW operation, Svc!Stop(operation), UNCHANGED <<observations, stable>>, ServiceTypes'
    PROVE  ServiceInv'
  <1>1. errors' = errors \cup {[name |-> "none", operation |-> operation]} /\ pc' = "done"
    BY DEF Svc!Stop, Svc!Error
  <1>2. PICK e : e = [name |-> "none", operation |-> operation]
    OBVIOUS
  <1>3. e \in errors' /\ e.name = "none" /\ errors \subseteq errors'
    BY <1>1, <1>2
  <1>4. Svc!Gave'
    BY <1>3 DEF Svc!Gave
  <1> QED
    BY <1>1, <1>3, <1>4 DEF ServiceInv, ServicePages, ServiceAnswered, ServiceErrors

LEMMA ServiceOpen == ASSUME ServiceInv, Svc!OpenManager PROVE ServiceInv'
  <1>1. pc = "open" /\ UNCHANGED <<manager, resume, capacity, records, observations, changes, stable>>
    BY DEF Svc!OpenManager
  <1>2. CASE pc' = "size" /\ UNCHANGED errors
    BY <1>1, <1>2 DEF ServiceInv, ServiceTypes, ServicePages, ServiceAnswered, ServiceErrors,
                      ServiceOnce, ServiceNames
  <1>3. CASE Svc!Stop("open manager")
    <2>1. pc' = "done"
      BY <1>3, Zenon DEF Svc!Stop
    <2>2. ServiceTypes'
      BY <1>1, <2>1 DEF ServiceInv, ServiceTypes, ServiceOnce, ServiceNames
    <2> QED
      BY <1>1, <1>3, <2>2, ServiceStop, Zenon
  <1> QED
    BY <1>2, <1>3, Zenon DEF Svc!OpenManager

LEMMA ServiceAsk == ASSUME ServiceInv, Svc!AskSize PROVE ServiceInv'
  <1>1. pc = "size" /\ UNCHANGED <<manager, resume, records, observations, changes, stable>>
    BY DEF Svc!AskSize
  <1>2. Svc!Rest \in Seq(Svc!Services) /\ ServiceNames(Svc!Rest) = ServiceNames(manager) \ resume
    BY ServiceRest DEF ServiceInv
  <1>3. CASE Svc!Rest = <<>> /\ pc' = "query" /\ UNCHANGED <<capacity, errors>>
    <2>1. ServiceNames(Svc!Rest) = {}
      BY <1>3 DEF ServiceNames
    <2>2. stable \subseteq resume
      BY <1>2, <2>1 DEF ServiceInv, ServiceTypes
    <2>3. Svc!Observed' = {} /\ ServiceNames(records) = resume /\ observations = {}
      BY <1>1 DEF Svc!Observed, ServiceInv, ServicePages
    <2>4. ServiceTypes'
      BY <1>1, <1>3 DEF ServiceInv, ServiceTypes, ServiceOnce, ServiceNames
    <2> QED
      BY <1>1, <1>3, <2>2, <2>3, <2>4 DEF ServiceInv, ServicePages, ServiceAnswered, ServiceErrors, ServiceNames
  <1>4. CASE capacity' = Svc!SizeOf(Svc!Rest) /\ pc' = "page" /\ UNCHANGED errors
    <2>1. capacity' \in Nat
      BY <1>2, <1>4, ServiceSize
    <2>2. ServiceTypes'
      BY <1>1, <1>4, <2>1 DEF ServiceInv, ServiceTypes, ServiceOnce, ServiceNames
    <2> QED
      BY <1>1, <1>4, <2>2 DEF ServiceInv, ServicePages, ServiceAnswered, ServiceErrors, ServiceNames
  <1>5. CASE Svc!Stop("enumerate") /\ UNCHANGED capacity
    <2>1. pc' = "done"
      BY <1>5 DEF Svc!Stop
    <2>2. ServiceTypes'
      BY <1>1, <1>5, <2>1 DEF ServiceInv, ServiceTypes, ServiceOnce, ServiceNames
    <2> QED
      BY <1>1, <1>5, <2>2, ServiceStop
  <1> QED
    BY <1>3, <1>4, <1>5 DEF Svc!AskSize

LEMMA ServiceGrow == ASSUME ServiceInv, Svc!Grow PROVE ServiceInv'
  <1>1. pc = "page" /\ UNCHANGED <<manager, resume, records, observations, changes, stable>>
    BY DEF Svc!Grow
  <1>2. Svc!Rest \in Seq(Svc!Services)
    BY ServiceRest DEF ServiceInv
  <1>3. CASE capacity' = Svc!SizeOf(Svc!Rest) /\ UNCHANGED <<pc, errors>>
    <2>1. capacity' \in Nat
      BY <1>2, <1>3, ServiceSize
    <2>2. ServiceTypes'
      BY <1>1, <1>3, <2>1 DEF ServiceInv, ServiceTypes, ServiceOnce, ServiceNames
    <2> QED
      BY <1>1, <1>3, <2>2 DEF ServiceInv, ServicePages, ServiceAnswered, ServiceErrors, ServiceNames
  <1>4. CASE Svc!Stop("enumerate") /\ UNCHANGED capacity
    <2>1. pc' = "done"
      BY <1>4 DEF Svc!Stop
    <2>2. ServiceTypes'
      BY <1>1, <1>4, <2>1 DEF ServiceInv, ServiceTypes, ServiceOnce, ServiceNames
    <2> QED
      BY <1>1, <1>4, <2>2, ServiceStop
  <1> QED
    BY <1>3, <1>4 DEF Svc!Grow

LEMMA ServiceRead == ASSUME ServiceInv, Svc!ReadPage PROVE ServiceInv'
  <1>1. /\ pc = "page" /\ UNCHANGED <<manager, capacity, observations, changes, stable>>
        /\ records' = records \o Svc!Page /\ resume' = resume \cup Svc!Names(Svc!Page)
    BY DEF Svc!ReadPage
  <1>2. PICK page, rest : page = Svc!Page /\ rest = Svc!Rest
    OBVIOUS
  <1>3. /\ page \in Seq(Svc!Services) /\ ServiceOnce(page) /\ ServiceNames(page) \subseteq ServiceNames(rest)
        /\ Len(page) < Len(rest) \/ page = rest
    BY <1>2, ServicePage DEF ServiceInv
  <1>4. ServiceNames(rest) = ServiceNames(manager) \ resume
    BY <1>2, ServiceRest DEF ServiceInv
  <1>5. resume' = resume \cup ServiceNames(page) /\ records' = records \o page
    BY <1>1, <1>2, ServiceWords
  <1>6. ServiceNames(records) = resume /\ observations = {} /\ records \in Seq(Svc!Services) /\ ServiceOnce(records)
    BY <1>1 DEF ServiceInv, ServicePages, ServiceTypes
  <1>7. ServiceNames(records) \cap ServiceNames(page) = {}
    BY <1>3, <1>4, <1>6
  <1>8. /\ records' \in Seq(Svc!Services) /\ ServiceOnce(records')
        /\ ServiceNames(records') = ServiceNames(records) \cup ServiceNames(page)
    BY <1>3, <1>5, <1>6, <1>7, ServiceJoined, Zenon
  <1>9. ServiceNames(records') = resume'
    BY <1>5, <1>6, <1>8
  <1>10. ASSUME pc' \in {"size", "query", "done"} PROVE ServiceTypes'
    BY <1>1, <1>8, <1>9, <1>10 DEF ServiceInv, ServiceTypes, ServiceOnce, ServiceNames
  <1>11. CASE Svc!Stop("enumerate")
    <2>1. pc' = "done"
      BY <1>11 DEF Svc!Stop
    <2> QED
      BY <1>1, <1>10, <1>11, <2>1, ServiceStop
  <1>12. CASE pc' = (IF Len(page) < Len(rest) THEN "size" ELSE "query") /\ UNCHANGED errors
    <2>1. CASE pc' = "size"
      BY <1>1, <1>6, <1>9, <1>10, <1>12, <2>1 DEF ServiceInv, ServicePages, ServiceAnswered, ServiceErrors, ServiceNames
    <2>2. CASE pc' = "query"
      <3>1. page = rest
        BY <1>3, <1>12, <2>2
      <3>2. stable' \subseteq resume'
        BY <1>1, <1>4, <1>5, <3>1 DEF ServiceInv, ServiceTypes
      <3>3. Svc!Observed' = {}
        BY <1>1, <1>6 DEF Svc!Observed
      <3>4. ServiceNames(records)' = resume'
        BY <1>9 DEF ServiceNames
      <3> QED
        BY <1>1, <1>6, <1>10, <1>12, <2>2, <3>2, <3>3, <3>4 DEF ServiceInv, ServicePages, ServiceAnswered, ServiceErrors
    <2> QED
      BY <1>12, <2>1, <2>2
  <1> QED
    BY <1>2, <1>11, <1>12 DEF Svc!ReadPage


LEMMA ServiceQuery == ASSUME ServiceInv, Svc!Query PROVE ServiceInv'
  <1>1. pc = "query" /\ UNCHANGED <<manager, resume, capacity, changes, stable>>
    BY DEF Svc!Query
  <1>2. /\ resume = ServiceNames(records) \cup Svc!Observed /\ stable \subseteq resume
        /\ records \in Seq(Svc!Services) /\ ServiceOnce(records)
    BY <1>1 DEF ServiceInv, ServiceAnswered, ServiceTypes
  <1>3. CASE records = <<>> /\ pc' = "done" /\ UNCHANGED <<records, observations, errors>>
    <2>1. ServiceTypes'
      BY <1>1, <1>3 DEF ServiceInv, ServiceTypes, ServiceOnce, ServiceNames
    <2>2. Svc!Observed' = Svc!Observed /\ ServiceNames(records)' = ServiceNames(records)
      BY <1>3 DEF Svc!Observed, ServiceNames
    <2> QED
      BY <1>1, <1>2, <1>3, <2>1, <2>2 DEF ServiceInv, ServicePages, ServiceAnswered, ServiceErrors
  <1>4. CASE records # <<>>
    <2>1. PICK r, A, n : r = Head(records) /\ A = Svc!Services /\ n = Len(records)
      OBVIOUS
    <2>2. records \in Seq(A)
      BY <1>2, <2>1
    <2>3. /\ n \in Nat /\ n >= 1 /\ DOMAIN records = 1..n /\ Tail(records) \in Seq(A) /\ r = records[1]
          /\ DOMAIN Tail(records) = 1..(n - 1) /\ \A k \in 1..(n - 1) : Tail(records)[k] = records[k + 1]
      BY <1>4, <2>1, <2>2
    <2>4. records' = Tail(records) /\ pc' = pc
      BY <1>4 DEF Svc!Query
    <2>5. ServiceOnce(records')
      <3>1. ASSUME NEW i \in 1..(n - 1), NEW j \in 1..(n - 1), records'[i].name = records'[j].name PROVE i = j
        <4>1. i + 1 \in DOMAIN records /\ j + 1 \in DOMAIN records /\ i \in Int /\ j \in Int
          BY <2>3
        <4>2. records[i + 1].name = records[j + 1].name
          BY <2>3, <2>4, <3>1
        <4>3. i + 1 = j + 1
          BY <1>2, <4>1, <4>2 DEF ServiceOnce
        <4> QED
          BY <4>1, <4>3
      <3> QED
        BY <2>3, <2>4, <3>1 DEF ServiceOnce
    <2>6. ServiceNames(records') \subseteq ServiceNames(records)
          /\ ServiceNames(records) \subseteq ServiceNames(records') \cup {r.name} /\ r.name \in ServiceNames(records)
      <3>1. \A k \in 1..(n - 1) : k + 1 \in DOMAIN records
        BY <2>3
      <3>2. \A k \in 1..n : k = 1 \/ (k - 1 \in 1..(n - 1) /\ (k - 1) + 1 = k)
        BY <2>3
      <3>3. ServiceNames(records') \subseteq ServiceNames(records)
        BY <2>3, <2>4, <3>1 DEF ServiceNames
      <3>4. ASSUME NEW k \in 1..n PROVE records[k].name \in ServiceNames(records') \cup {r.name}
        <4>1. CASE k = 1
          BY <2>3, <4>1
        <4>2. CASE k - 1 \in 1..(n - 1) /\ (k - 1) + 1 = k
          <5>1. records'[k - 1] = records[k] /\ k - 1 \in DOMAIN records'
            BY <2>3, <2>4, <4>2
          <5> QED
            BY <5>1 DEF ServiceNames
        <4> QED
          BY <3>2, <4>1, <4>2
      <3>5. r.name \in ServiceNames(records)
        BY <2>3 DEF ServiceNames
      <3> QED
        BY <2>3, <3>3, <3>4, <3>5 DEF ServiceNames
    <2>7. PICK config, operation :
             /\ observations' = observations \cup {[name |-> r.name, config |-> config]}
             /\ config \in BOOLEAN
             /\ IF config THEN UNCHANGED errors ELSE Svc!Error(r.name, operation)
      BY <1>4, <2>1, Zenon DEF Svc!Query
    <2>8. PICK o : o = [name |-> r.name, config |-> config]
      OBVIOUS
    <2>9. observations' = observations \cup {o} /\ o.name = r.name /\ o.config = config
      BY <2>7, <2>8
    <2>10. errors \subseteq errors' /\ (o.config \/ \E e \in errors' : e.name = o.name)
      <3>1. CASE config
        BY <2>7, <2>9, <3>1
      <3>2. CASE ~config
        <4>1. PICK e : e = [name |-> r.name, operation |-> operation]
          OBVIOUS
        <4>2. errors' = errors \cup {e} /\ e.name = r.name
          BY <2>7, <3>2, <4>1 DEF Svc!Error
        <4> QED
          BY <2>9, <4>2
      <3> QED
        BY <3>1, <3>2
    <2>11. Svc!Observed' = Svc!Observed \cup {r.name}
      BY <2>9 DEF Svc!Observed
    <2>12. ServiceErrors'
      BY <2>9, <2>10 DEF ServiceInv, ServiceErrors
    <2>13. ServiceNames(records)' = ServiceNames(records')
      BY DEF ServiceNames
    <2>14. resume' = ServiceNames(records)' \cup Svc!Observed' /\ stable' \subseteq resume'
      BY <1>1, <1>2, <2>6, <2>11, <2>13
    <2>15. ServiceTypes'
      BY <1>1, <1>2, <2>1, <2>3, <2>4, <2>5, <2>6 DEF ServiceInv, ServiceTypes, ServiceOnce, ServiceNames
    <2> QED
      BY <1>1, <2>4, <2>12, <2>14, <2>15 DEF ServiceInv, ServicePages, ServiceAnswered
  <1> QED
    BY <1>3, <1>4 DEF Svc!Query

(* The manager's services change; what has been returned does not.         *)
LEMMA ServiceManager ==
    ASSUME ServiceInv, pc # "done", UNCHANGED <<resume, pc, capacity, records, observations, errors>>,
           manager' \in Seq(Svc!Services), ServiceOnce(manager'), stable' \subseteq ServiceNames(manager'),
           stable' \subseteq stable
    PROVE  ServiceInv'
  <1>1. ServiceTypes'
    BY DEF ServiceInv, ServiceTypes, ServiceOnce, ServiceNames
  <1>2. Svc!Observed' = Svc!Observed
    BY DEF Svc!Observed
  <1> QED
    BY <1>1, <1>2 DEF ServiceInv, ServicePages, ServiceAnswered, ServiceErrors, ServiceNames

LEMMA ServiceChange == ASSUME ServiceInv, Svc!ChangeServices PROVE ServiceInv'
  <1>1. pc # "done" /\ UNCHANGED <<resume, pc, capacity, records, observations, errors>>
    BY DEF Svc!ChangeServices
  <1>2. PICK A, n : A = Svc!Services /\ n = Len(manager)
    OBVIOUS
  <1>3. /\ manager \in Seq(A) /\ n \in Nat /\ DOMAIN manager = 1..n /\ ServiceOnce(manager)
        /\ stable \subseteq ServiceNames(manager)
    <2>1. manager \in Seq(A) /\ n = Len(manager)
      BY <1>2 DEF ServiceInv, ServiceTypes
    <2> QED
      BY <2>1 DEF ServiceInv, ServiceTypes
  <1>4. ASSUME NEW s \in NewServices, s.name \notin Svc!Names(manager), manager' = Append(manager, s), UNCHANGED stable
        PROVE  ServiceInv'
    <2>1. s \in A
      BY <1>2, <1>4, ServiceAssumption DEF Svc!ServiceAssumption
    <2>2. manager' \in Seq(A \cup {s}) /\ Longer(manager', manager, s)
      BY <1>3, <1>4, Appended, Zenon
    <2>3. A \cup {s} = A
      BY <2>1
    <2>4. /\ DOMAIN manager' = 1..(n + 1) /\ manager'[n + 1] = s
          /\ \A i \in 1..n : manager'[i] = manager[i]
      BY <1>2, <1>3, <2>2, Zenon DEF Longer
    <2>5. \A i \in 1..n : manager[i].name # s.name
      BY <1>3, <1>4 DEF Svc!Names
    <2>6. \A i \in 1..(n + 1) : i = n + 1 \/ i \in 1..n
      BY <1>3
    <2>7. ServiceOnce(manager')
      <3>1. ASSUME NEW i \in 1..(n + 1), NEW j \in 1..(n + 1), manager'[i].name = manager'[j].name PROVE i = j
        <4>1. CASE i \in 1..n /\ j \in 1..n
          BY <1>3, <2>4, <3>1, <4>1 DEF ServiceOnce
        <4>2. CASE i \in 1..n /\ j = n + 1
          BY <2>4, <2>5, <3>1, <4>2
        <4>3. CASE j \in 1..n /\ i = n + 1
          BY <2>4, <2>5, <3>1, <4>3
        <4> QED
          BY <2>6, <4>1, <4>2, <4>3
      <3> QED
        BY <2>4, <3>1 DEF ServiceOnce
    <2>8. \A i \in 1..n : i \in 1..(n + 1)
      BY <1>3
    <2>9. ServiceNames(manager) \subseteq ServiceNames(manager')
      BY <1>3, <2>4, <2>8 DEF ServiceNames
    <2> QED
      BY <1>1, <1>2, <1>3, <1>4, <2>2, <2>3, <2>7, <2>9, ServiceManager
  <1>5. ASSUME NEW i \in DOMAIN manager, manager' = Svc!RemoveAt(manager, i), stable' = stable \ {manager[i].name}
        PROVE  ServiceInv'
    <2>1. manager' \in Seq(A) /\ Removed(manager', manager, i)
      <3>1. manager' = SubSeq(manager, 1, i - 1) \o SubSeq(manager, i + 1, Len(manager))
        BY <1>5, Zenon DEF Svc!RemoveAt
      <3> QED
        BY <1>3, <3>1, TakenOut, Zenon
    <2>2. /\ DOMAIN manager' = 1..(n - 1)
          /\ \A k \in 1..(n - 1) : manager'[k] = IF k < i THEN manager[k] ELSE manager[k + 1]
      BY <1>2, <2>1, Zenon DEF Removed
    <2>3. i \in 1..n
      BY <1>3
    <2>4. ASSUME NEW k \in 1..(n - 1)
          PROVE  \/ k < i /\ k \in 1..n /\ manager'[k] = manager[k]
                 \/ ~(k < i) /\ k + 1 \in 1..n /\ manager'[k] = manager[k + 1]
      BY <1>3, <2>2, <2>3
    <2>5. ServiceOnce(manager')
      <3>1. ASSUME NEW j \in 1..(n - 1), NEW k \in 1..(n - 1), manager'[j].name = manager'[k].name PROVE j = k
        <4>1. PICK a \in 1..n : manager'[j] = manager[a] /\ ((j < i /\ a = j) \/ (~(j < i) /\ a = j + 1))
          BY <2>4
        <4>2. PICK b \in 1..n : manager'[k] = manager[b] /\ ((k < i /\ b = k) \/ (~(k < i) /\ b = k + 1))
          BY <2>4
        <4>3. a = b
          BY <1>3, <3>1, <4>1, <4>2 DEF ServiceOnce
        <4> QED
          BY <1>3, <2>3, <4>1, <4>2, <4>3
      <3> QED
        BY <2>2, <3>1 DEF ServiceOnce
    <2>6. ASSUME NEW k \in 1..n, k # i PROVE manager[k].name \in ServiceNames(manager')
      <3>1. CASE k < i
        <4>1. k \in 1..(n - 1) /\ manager'[k] = manager[k]
          <5>1. k \in 1..(n - 1)
            BY <1>3, <2>3, <3>1
          <5> QED
            BY <2>2, <3>1, <5>1
        <4> QED
          BY <2>2, <4>1 DEF ServiceNames
      <3>2. CASE k > i
        <4>1. k - 1 \in 1..(n - 1) /\ ~(k - 1 < i) /\ (k - 1) + 1 = k
          BY <1>3, <2>3, <3>2
        <4>2. manager'[k - 1] = manager[k]
          BY <2>2, <4>1
        <4> QED
          BY <2>2, <4>1, <4>2 DEF ServiceNames
      <3> QED
        BY <1>3, <2>3, <2>6, <3>1, <3>2
    <2>7. stable' \subseteq ServiceNames(manager')
      <3>1. ServiceNames(manager) \ {manager[i].name} \subseteq ServiceNames(manager')
        BY <1>3, <2>6 DEF ServiceNames
      <3> QED
        BY <1>3, <1>5, <3>1
    <2> QED
      BY <1>1, <1>2, <1>5, <2>1, <2>5, <2>7, ServiceManager
  <1>6. ASSUME NEW i \in DOMAIN manager, manager' = [manager EXCEPT ![i].size = @ + 1], UNCHANGED stable
        PROVE  ServiceInv'
    <2>1. \A k \in 1..n : manager[k] \in A
      BY <1>2, <1>3
    <2>2. PICK s : s = [manager[i] EXCEPT !.size = @ + 1]
      OBVIOUS
    <2>3. s \in A /\ s.name = manager[i].name
      <3>1. manager[i] \in A
        BY <1>3, <2>1
      <3> QED
        BY <1>2, <2>2, <3>1 DEF Svc!Services
    <2>4. manager' = [manager EXCEPT ![i] = s]
      BY <1>6, <2>2
    <2>5. manager' \in Seq(A) /\ DOMAIN manager' = 1..n
      BY <1>2, <1>3, <2>3, <2>4
    <2>6. \A k \in 1..n : manager'[k].name = manager[k].name
      BY <1>3, <2>3, <2>4
    <2>7. ServiceOnce(manager') /\ ServiceNames(manager') = ServiceNames(manager)
      BY <1>3, <2>5, <2>6 DEF ServiceOnce, ServiceNames
    <2> QED
      BY <1>1, <1>2, <1>3, <1>6, <2>5, <2>7, ServiceManager
  <1> QED
    BY <1>4, <1>5, <1>6, Zenon DEF Svc!ChangeServices

LEMMA ServiceKept == ASSUME ServiceInv, Svc!SsNext PROVE ServiceInv'
  BY ServiceOpen, ServiceAsk, ServiceGrow, ServiceRead, ServiceQuery, ServiceChange, Zenon
     DEF Svc!SsNext, Svc!SsStep

LEMMA ServiceSound ==
    ASSUME ServiceInv
    PROVE  Svc!StableIsObserved /\ Svc!RecordIsAccountedFor /\ Svc!NoServiceTwice
  <1>1. ASSUME pc = "done", ~Svc!Gave PROVE resume = Svc!Observed /\ stable \subseteq Svc!Observed
    <2>1. records = <<>> /\ resume = ServiceNames(records) \cup Svc!Observed /\ stable \subseteq resume
      BY <1>1 DEF ServiceInv, ServiceAnswered
    <2>2. ServiceNames(records) = {}
      BY <2>1 DEF ServiceNames
    <2> QED
      BY <2>1, <2>2
  <1>2. Svc!NoServiceTwice
    BY ServiceWords DEF ServiceInv, ServiceTypes, Svc!NoServiceTwice
  <1>3. Svc!StableIsObserved
    BY <1>1 DEF Svc!StableIsObserved
  <1>4. Svc!RecordIsAccountedFor
    BY <1>1 DEF Svc!RecordIsAccountedFor, ServiceInv, ServiceErrors
  <1> QED
    BY <1>2, <1>3, <1>4


-----------------------------------------------------------------------------
(* The registry (RegistryScan).                                            *)
RegWhole(vs) == \A i \in DOMAIN vs : vs[i].shown = vs[i].whole /\ vs[i].shown <= MaxValueBytes
RegDone(r, i) ==
    \/ registry[r][i].values = <<>>
    \/ \E o \in observations : o.key = registry[r][i].id
    \/ \E e \in errors : e.key = registry[r][i].id \/ e.key = registry[r][1].id

RegTypes ==
    /\ registry \in [Reg!Range(Roots) -> Seq(Reg!RegistryKeys)] /\ \A r \in Reg!Range(Roots) : registry[r] # <<>>
    /\ pc \in {"root", "subkey", "value", "data"} /\ at \in Nat \ {0} /\ changes \in Nat
    /\ pc # "root" => at <= Len(Roots)
    /\ \E U : values \in Seq(U)
RegData ==
    /\ RegWhole(values) /\ \A o \in observations : RegWhole(o.values)
    /\ pc = "value" => value \in Nat /\ value >= 1
    /\ pc = "data" => value \in Nat /\ value >= 2 /\ info.len \in Nat /\ info.len <= MaxValueBytes

(* Of a registry at rest: the roots that were scanned, the subkeys up to   *)
(* the index, and the key that is open.                                    *)
RegAt(r) ==
    /\ subkeys.count = Len(registry[r]) - 1 /\ index \in 1..Len(registry[r])
    /\ \A i \in 1..Len(registry[r]) : i < index => RegDone(r, i)
    /\ pc = "subkey" => RegDone(r, index)
    /\ pc \in {"value", "data"} => /\ key.id = registry[r][index].id
                                   /\ key.count = Len(registry[r][index].values)
    /\ pc = "value" => value = 1 \/ values # <<>>
RegOnce == \A r \in Reg!Range(Roots) : \A i, j \in DOMAIN registry[r] : registry[r][i].id = registry[r][j].id => i = j
RegStill ==
    changes = 0 =>
        /\ RegOnce
        /\ \A a \in DOMAIN Roots : a < at => \A i \in DOMAIN registry[Roots[a]] : RegDone(Roots[a], i)
        /\ pc # "root" => RegAt(Roots[at])
RegInv == RegTypes /\ RegData /\ RegStill

LEMMA RegBounds ==
    Roots \in Seq(STRING) /\ DOMAIN Roots = 1..Len(Roots) /\ Len(Roots) \in Nat /\ MaxValueBytes \in Nat
    /\ NewValue \in Reg!RegistryValues
  <1>1. Roots \in Seq(STRING) /\ MaxValueBytes \in Nat /\ NewValue \in Reg!RegistryValues
    BY RegistryAssumption DEF Reg!RegistryAssumption
  <1>2. DOMAIN Roots = 1..Len(Roots) /\ Len(Roots) \in Nat
    BY <1>1
  <1> QED
    BY <1>1, <1>2

LEMMA RegStart == ASSUME Reg!RsInit PROVE RegInv
  <1>1. /\ registry \in [Reg!Range(Roots) -> Seq(Reg!RegistryKeys)]
        /\ \A r \in Reg!Range(Roots) : registry[r] # <<>>
        /\ \A r \in Reg!Range(Roots) : \A i, j \in DOMAIN registry[r] : registry[r][i].id = registry[r][j].id => i = j
    BY RegistryAssumption DEF Reg!RegistryAssumption, Reg!RsInit
  <1>2. pc = "root" /\ at = 1 /\ values = <<>> /\ observations = {} /\ changes = 0
    BY DEF Reg!RsInit
  <1>3. values \in Seq({}) /\ DOMAIN values = {}
    BY <1>2
  <1>4. \A a \in DOMAIN Roots : ~(a < 1)
    BY RegBounds
  <1> QED
    BY <1>1, <1>2, <1>3, <1>4 DEF RegInv, RegTypes, RegData, RegWhole, RegStill, RegOnce

(* The root that is scanned, and the values of the open key.               *)
LEMMA RegHere ==
    ASSUME RegTypes, at <= Len(Roots), NEW r, r = Roots[at]
    PROVE  /\ r \in Reg!Range(Roots) /\ Reg!Root = r /\ Reg!Keys = registry[r] /\ Reg!RootKey = registry[r][1]
           /\ registry[r] \in Seq(Reg!RegistryKeys) /\ registry[r] # <<>>
           /\ Len(registry[r]) \in Nat /\ Len(registry[r]) >= 1 /\ DOMAIN registry[r] = 1..Len(registry[r])
  <1>1. at \in DOMAIN Roots
    BY RegBounds DEF RegTypes
  <1>2. r \in Reg!Range(Roots)
    BY <1>1 DEF Reg!Range
  <1>3. registry[r] \in Seq(Reg!RegistryKeys) /\ registry[r] # <<>>
    BY <1>2 DEF RegTypes
  <1>4. PICK s : s = registry[r]
    OBVIOUS
  <1>5. Len(s) \in Nat /\ Len(s) >= 1 /\ DOMAIN s = 1..Len(s)
    BY <1>3, <1>4
  <1> QED
    BY <1>2, <1>3, <1>4, <1>5 DEF Reg!Root, Reg!Keys, Reg!RootKey

LEMMA RegValues ==
    ASSUME RegTypes, at <= Len(Roots), Reg!Open # {}, NEW i \in Nat, i >= 1, i <= Len(Reg!Values)
    PROVE  Reg!Values[i] \in Reg!RegistryValues /\ Reg!Values[i].len \in Nat
  <1>1. PICK r : r = Roots[at]
    OBVIOUS
  <1>2. Reg!Keys = registry[r] /\ registry[r] \in Seq(Reg!RegistryKeys)
    BY <1>1, RegHere
  <1>3. PICK n : n = CHOOSE j \in Reg!Open : TRUE
    OBVIOUS
  <1>4. n \in Reg!Open
    BY <1>3
  <1>5. n \in DOMAIN registry[r]
    BY <1>2, <1>4 DEF Reg!Open
  <1>6. registry[r][n] \in Reg!RegistryKeys
    BY <1>2, <1>5
  <1>7. registry[r][n].values \in Seq(Reg!RegistryValues)
    BY <1>6 DEF Reg!RegistryKeys
  <1>8. Reg!Values = registry[r][n].values
    BY <1>2, <1>3 DEF Reg!Values
  <1>9. PICK vs : vs = Reg!Values
    OBVIOUS
  <1>10. vs \in Seq(Reg!RegistryValues)
    BY <1>7, <1>8, <1>9
  <1>11. vs[i] \in Reg!RegistryValues
    BY <1>9, <1>10
  <1> QED
    BY <1>9, <1>11 DEF Reg!RegistryValues

LEMMA RegStays ==
    ASSUME registry' = registry, errors \subseteq errors', observations \subseteq observations'
    PROVE  \A r, i : RegDone(r, i) => RegDone(r, i)'
  BY DEF RegDone

LEMMA RegNoted ==
    ASSUME NEW id, NEW operation, Reg!RecordError(id, operation)
    PROVE  errors \subseteq errors' /\ \E e \in errors' : e.key = id
  <1>1. PICK e : e = [key |-> id, operation |-> operation]
    OBVIOUS
  <1>2. errors' = errors \cup {e} /\ e.key = id
    BY <1>1 DEF Reg!RecordError
  <1> QED
    BY <1>2

(* An error of the root stands for all its keys, one of a key for it.      *)
LEMMA RegError ==
    ASSUME NEW r, NEW i, NEW operation, registry' = registry
    PROVE  /\ Reg!RecordError(registry[r][1].id, operation) => \A j : RegDone(r, j)'
           /\ Reg!RecordError(registry[r][i].id, operation) => RegDone(r, i)'
           /\ \A id : Reg!RecordError(id, operation) => errors \subseteq errors'
  <1>1. \A id : Reg!RecordError(id, operation) => errors \subseteq errors' /\ \E e \in errors' : e.key = id
    BY RegNoted
  <1> QED
    BY <1>1 DEF RegDone

LEMMA RegShow ==
    ASSUME RegTypes, RegData, NEW x, x.shown = x.whole, x.shown <= MaxValueBytes, values' = Append(values, x)
    PROVE  (\E U : values' \in Seq(U)) /\ RegWhole(values') /\ values' # <<>>
  <1>1. PICK U, n : values \in Seq(U) /\ n = Len(values)
    BY DEF RegTypes
  <1>2. values' \in Seq(U \cup {x}) /\ Longer(values', values, x)
    BY <1>1, Appended, Zenon
  <1>3. /\ n \in Nat /\ DOMAIN values = 1..n /\ DOMAIN values' = 1..(n + 1) /\ values'[n + 1] = x
        /\ \A i \in 1..n : values'[i] = values[i]
    BY <1>1, <1>2, Zenon DEF Longer
  <1>4. \A i \in 1..(n + 1) : i = n + 1 \/ i \in 1..n
    BY <1>3
  <1>5. RegWhole(values')
    BY <1>3, <1>4 DEF RegWhole, RegData
  <1>6. n + 1 \in DOMAIN values'
    BY <1>3
  <1>7. values' # <<>>
    BY <1>6
  <1> QED
    BY <1>2, <1>5, <1>7


(* What a step of the scan itself owes: the same root, or a finished one.  *)
LEMMA RegSameRoot ==
    ASSUME RegTypes, RegStill, registry' = registry, changes' = changes, at' = at,
           errors \subseteq errors', observations \subseteq observations',
           NEW r, r = Roots[at], changes = 0 /\ pc' # "root" => RegAt(r)'
    PROVE  RegStill'
  <1>1. ASSUME changes = 0, NEW a \in DOMAIN Roots, a < at, NEW i \in DOMAIN registry[Roots[a]] PROVE RegDone(Roots[a], i)'
    <2>1. RegDone(Roots[a], i)
      BY <1>1 DEF RegStill
    <2> QED
      BY <2>1, RegStays, Zenon
  <1>2. changes = 0 => RegOnce'
    BY DEF RegStill, RegOnce
  <1>3. changes = 0 /\ pc' # "root" => RegAt(Roots[at])'
    BY DEF RegAt, RegDone
  <1> QED
    BY <1>1, <1>2, <1>3 DEF RegStill

LEMMA RegNextRoot ==
    ASSUME RegTypes, RegStill, registry' = registry, changes' = changes, at' = at + 1, pc' = "root",
           errors \subseteq errors', observations \subseteq observations',
           NEW r, r = Roots[at], changes = 0 => \A i \in DOMAIN registry[r] : RegDone(r, i)'
    PROVE  RegStill'
  <1>1. ASSUME changes = 0, NEW a \in DOMAIN Roots, a < at + 1, NEW i \in DOMAIN registry[Roots[a]] PROVE RegDone(Roots[a], i)'
    <2>1. CASE a = at
      BY <2>1, <1>1
    <2>2. CASE a # at
      <3>1. a < at
        BY <1>1, <2>2, RegBounds DEF RegTypes
      <3>2. RegDone(Roots[a], i)
        BY <1>1, <3>1 DEF RegStill
      <3> QED
        BY <3>2, RegStays, Zenon
    <2> QED
      BY <2>1, <2>2
  <1>2. changes = 0 => RegOnce'
    BY DEF RegStill, RegOnce
  <1> QED
    BY <1>1, <1>2 DEF RegStill

(* The values of a key begin.                                              *)
LEMMA RegBegin ==
    ASSUME RegTypes, RegData, NEW r, NEW i \in 1..Len(registry[r]), registry' = registry, observations' = observations,
           Len(registry[r]) \in Nat, index' = i, subkeys'.count = Len(registry[r]) - 1, at' = at, at <= Len(Roots), changes' = changes,
           Reg!BeginValues(registry[r][i]), \A j \in 1..Len(registry[r]) : j < i /\ changes = 0 => RegDone(r, j)'
    PROVE  RegTypes' /\ RegData' /\ (changes = 0 => RegAt(r)')
  <1>1. PICK k : k = registry[r][i]
    OBVIOUS
  <1>2. key'.id = k.id /\ key'.count = Len(k.values) /\ value' = 1 /\ values' = <<>> /\ pc' = "value"
    BY <1>1 DEF Reg!BeginValues
  <1>3. values' \in Seq({}) /\ DOMAIN values' = {}
    BY <1>2
  <1>4. RegTypes'
    BY <1>2, <1>3 DEF RegTypes
  <1>5. RegData'
    BY <1>2, <1>3 DEF RegData, RegWhole
  <1>6. ASSUME changes = 0 PROVE RegAt(r)'
    BY <1>1, <1>2, <1>6 DEF RegAt
  <1> QED
    BY <1>4, <1>5, <1>6

LEMMA RegOpenRoot == ASSUME RegInv, Reg!OpenRoot PROVE RegInv'
  <1>1. PICK r : r = Roots[at]
    OBVIOUS
  <1>2. RegTypes /\ RegData /\ RegStill
    BY DEF RegInv
  <1>3. /\ pc = "root" /\ at <= Len(Roots) /\ registry' = registry /\ info' = info
        /\ observations' = observations /\ changes' = changes
    BY DEF Reg!OpenRoot
  <1>4. /\ Reg!Keys = registry[r] /\ Reg!RootKey = registry[r][1] /\ Len(registry[r]) \in Nat /\ Len(registry[r]) >= 1
        /\ DOMAIN registry[r] = 1..Len(registry[r])
    BY <1>1, <1>2, <1>3, RegHere, Zenon
  <1>5. CASE Reg!RootKey.opens
    <2>1. /\ subkeys' = [count |-> Len(Reg!Keys) - 1, width |-> Reg!LongestName(Tail(Reg!Keys))] /\ index' = 1
          /\ Reg!BeginValues(Reg!RootKey) /\ at' = at /\ errors' = errors
      BY <1>5, Zenon DEF Reg!OpenRoot
    <2>2. subkeys'.count = Len(registry[r]) - 1
      BY <2>1, <1>4
    <2>3. Reg!BeginValues(registry[r][1])
      BY <2>1, <1>4, Zenon
    <2>4. \A j \in 1..Len(registry[r]) : ~(j < 1)
      BY <1>4
    <2>5. 1 \in 1..Len(registry[r])
      BY <1>4
    <2>6. RegTypes' /\ RegData' /\ (changes = 0 => RegAt(r)')
      BY <1>2, <1>3, <1>4, <2>1, <2>2, <2>3, <2>4, <2>5, RegBegin
    <2>7. RegStill'
      BY <1>1, <1>2, <1>3, <2>1, <2>6, RegSameRoot
    <2> QED
      BY <2>6, <2>7 DEF RegInv
  <1>6. CASE ~Reg!RootKey.opens
    <2>1. /\ Reg!RecordError(registry[r][1].id, "open") /\ at' = at + 1
          /\ pc' = pc /\ value' = value /\ values' = values
      BY <1>4, <1>6, Zenon DEF Reg!OpenRoot
    <2>2. errors \subseteq errors' /\ \A j : RegDone(r, j)'
      BY <1>3, <2>1, RegError
    <2>3. RegStill'
      BY <1>1, <1>2, <1>3, <2>1, <2>2, RegNextRoot
    <2>4. RegTypes'
      BY <1>2, <1>3, <2>1 DEF RegTypes
    <2>5. RegData'
      BY <1>2, <1>3, <2>1 DEF RegData, RegWhole
    <2> QED
      BY <2>3, <2>4, <2>5 DEF RegInv
  <1> QED
    BY <1>5, <1>6


(* In a registry at rest the root that is scanned stands as RegAt says.    *)
LEMMA RegNow ==
    ASSUME RegTypes, RegStill, pc # "root", NEW r, r = Roots[at], changes = 0
    PROVE  RegAt(r) /\ RegOnce
  BY DEF RegStill, RegAt, RegDone

LEMMA RegNextSubkey == ASSUME RegInv, Reg!NextSubkey PROVE RegInv'
  <1>1. PICK r : r = Roots[at]
    OBVIOUS
  <1>2. RegTypes /\ RegData /\ RegStill
    BY DEF RegInv
  <1>3. /\ pc = "subkey" /\ registry' = registry /\ subkeys' = subkeys /\ info' = info
        /\ observations' = observations /\ changes' = changes
    BY DEF Reg!NextSubkey
  <1>4. at <= Len(Roots) /\ at \in Nat
    BY <1>2, <1>3 DEF RegTypes
  <1>5. /\ Reg!Keys = registry[r] /\ Reg!RootKey = registry[r][1] /\ Len(registry[r]) \in Nat /\ Len(registry[r]) >= 1
        /\ DOMAIN registry[r] = 1..Len(registry[r])
    BY <1>1, <1>2, <1>4, RegHere, Zenon
  <1>6. PICK n : n = Len(registry[r])
    OBVIOUS
  <1>7. ASSUME changes = 0
        PROVE  /\ subkeys.count = n - 1 /\ index \in 1..n /\ \A j \in 1..n : j < index => RegDone(r, j)
               /\ RegDone(r, index)
    <2>1. RegAt(r)
      BY <1>1, <1>2, <1>3, <1>7, RegNow
    <2> QED
      BY <2>1, <1>3, <1>6 DEF RegAt
  <1>8. ASSUME changes = 0, NEW j \in 1..n, j < index + 1 PROVE RegDone(r, j)
    <2>1. j < index \/ j = index
      BY <1>5, <1>6, <1>7, <1>8
    <2> QED
      BY <1>7, <1>8, <2>1
  <1>9. CASE index > subkeys.count \/ index + 1 > Len(Reg!Keys)
    <2>1. pc' = "root" /\ at' = at + 1 /\ value' = value /\ values' = values /\ errors' = errors
      BY <1>9, Zenon DEF Reg!NextSubkey
    <2>2. ASSUME changes = 0, NEW i \in DOMAIN registry[r] PROVE RegDone(r, i)'
      <3>1. i \in 1..n /\ i < index + 1
        BY <1>5, <1>6, <1>7, <1>9, <2>2
      <3>2. RegDone(r, i)
        BY <1>8, <2>2, <3>1
      <3> QED
        BY <1>3, <2>1, <3>2 DEF RegDone
    <2>3. RegStill'
      BY <1>1, <1>2, <1>3, <2>1, <2>2, RegNextRoot
    <2>4. RegTypes'
      BY <1>2, <1>3, <2>1 DEF RegTypes
    <2>5. RegData'
      BY <1>2, <1>3, <2>1 DEF RegData, RegWhole
    <2> QED
      BY <2>3, <2>4, <2>5 DEF RegInv
  <1>10. CASE ~(index > subkeys.count \/ index + 1 > Len(Reg!Keys))
    <2>1. PICK m, k : m = index + 1 /\ k = registry[r][m]
      OBVIOUS
    <2>2. /\ index' = m /\ at' = at
          /\ IF ~Reg!Fits(k.width, subkeys.width)
             THEN Reg!RecordError(registry[r][1].id, "enumerate subkeys") /\ UNCHANGED <<pc, key, value, values>>
             ELSE IF ~k.opens
             THEN Reg!RecordError(k.id, "open") /\ UNCHANGED <<pc, key, value, values>>
             ELSE Reg!BeginValues(k) /\ UNCHANGED errors
      BY <1>5, <1>10, <2>1, Zenon DEF Reg!NextSubkey
    <2>3. ASSUME changes = 0 PROVE m \in 1..n /\ m = index + 1
      BY <1>5, <1>6, <1>7, <1>10, <2>1, <2>3
    <2>4. ASSUME pc' = pc, value' = value, values' = values, errors \subseteq errors', changes = 0 => RegDone(r, m)'
          PROVE  RegInv'
      <3>1. ASSUME changes = 0, NEW j \in 1..n, j < m PROVE RegDone(r, j)'
        <4>1. RegDone(r, j)
          BY <1>8, <2>1, <3>1
        <4> QED
          BY <1>3, <2>4, <4>1 DEF RegDone
      <3>2. ASSUME changes = 0 PROVE RegAt(r)'
        <4>1. subkeys'.count = Len(registry'[r]) - 1 /\ index' \in 1..Len(registry'[r])
          BY <1>3, <1>6, <1>7, <2>2, <2>3, <3>2
        <4>2. \A j \in 1..Len(registry'[r]) : j < index' => RegDone(r, j)'
          BY <1>3, <1>6, <2>2, <3>1, <3>2
        <4>3. RegDone(r, index)'
          <5>1. RegDone(r, m)'
            BY <2>4, <3>2, Zenon
          <5>2. index' = m
            BY <2>2, Zenon
          <5> QED
            BY <5>1, <5>2 DEF RegDone
        <4> QED
          BY <1>3, <2>4, <4>1, <4>2, <4>3 DEF RegAt
      <3>3. RegStill'
        BY <1>1, <1>2, <1>3, <2>2, <2>4, <3>2, RegSameRoot
      <3>4. RegTypes'
        BY <1>2, <1>3, <2>2, <2>4 DEF RegTypes
      <3>5. RegData'
        BY <1>2, <1>3, <2>4 DEF RegData, RegWhole
      <3> QED
        BY <3>3, <3>4, <3>5 DEF RegInv
    <2>5. CASE ~Reg!Fits(k.width, subkeys.width)
      <3>1. Reg!RecordError(registry[r][1].id, "enumerate subkeys") /\ pc' = pc /\ value' = value /\ values' = values
        BY <2>2, <2>5, Zenon
      <3>2. errors \subseteq errors' /\ RegDone(r, m)'
        <4>4. errors \subseteq errors' /\ \E e \in errors' : e.key = registry[r][1].id
          BY <3>1, RegNoted, Zenon
        <4> QED
          BY <1>3, <4>4, Zenon DEF RegDone
      <3> QED
        BY <2>4, <3>1, <3>2
    <2>6. CASE Reg!Fits(k.width, subkeys.width) /\ ~k.opens
      <3>1. Reg!RecordError(k.id, "open") /\ pc' = pc /\ value' = value /\ values' = values
        BY <2>2, <2>6, Zenon
      <3>2. errors \subseteq errors' /\ \E e \in errors' : e.key = k.id
        BY <3>1, RegNoted, Zenon
      <3>3. RegDone(r, m)'
        BY <1>3, <2>1, <3>2 DEF RegDone
      <3> QED
        BY <2>4, <3>1, <3>2, <3>3, Zenon
    <2>7. CASE Reg!Fits(k.width, subkeys.width) /\ k.opens
      <3>1. Reg!BeginValues(k) /\ errors' = errors
        BY <2>2, <2>7, Zenon
      <3>2. PICK kk : kk = [id |-> k.id, count |-> Len(k.values), width |-> Reg!LongestName(k.values),
                            large |-> \E i \in DOMAIN k.values : k.values[i].len > MaxValueBytes]
        OBVIOUS
      <3>3. key' = kk /\ value' = 1 /\ values' = <<>> /\ pc' = "value"
        BY <3>1, <3>2, Zenon DEF Reg!BeginValues
      <3>4. kk.id = k.id /\ kk.count = Len(k.values)
        BY <3>2
      <3>5. values' \in Seq({}) /\ DOMAIN values' = {}
        BY <3>3
      <3>6. RegTypes'
        BY <1>2, <1>3, <1>4, <2>2, <3>3, <3>5 DEF RegTypes
      <3>7. RegData'
        BY <1>2, <1>3, <3>3, <3>5 DEF RegData, RegWhole
      <3>8. ASSUME changes = 0 PROVE RegAt(r)'
        <4>1. m \in 1..Len(registry[r]) /\ Len(registry[r]) \in Nat /\ subkeys'.count = Len(registry[r]) - 1
          BY <1>3, <1>5, <1>6, <1>7, <2>3, <3>8
        <4>2. \A j \in 1..Len(registry[r]) : j < m => RegDone(r, j)'
          <5>1. ASSUME NEW j \in 1..n, j < m PROVE RegDone(r, j)'
            <6>1. RegDone(r, j)
              BY <1>8, <2>1, <3>8, <5>1
            <6> QED
              BY <1>3, <3>1, <6>1 DEF RegDone
          <5> QED
            BY <5>1, <1>6
        <4> QED
          BY <1>3, <2>1, <2>2, <3>3, <3>4, <4>1, <4>2 DEF RegAt
      <3>9. RegStill'
        BY <1>1, <1>2, <1>3, <2>2, <3>1, <3>8, RegSameRoot
      <3> QED
        BY <3>6, <3>7, <3>9 DEF RegInv
    <2> QED
      BY <2>5, <2>6, <2>7
  <1> QED
    BY <1>9, <1>10


LEMMA RegWithheld ==
    ASSUME NEW reason, MaxValueBytes \in Nat, Reg!Withheld(reason)
    PROVE  \E x : x.shown = x.whole /\ x.shown <= MaxValueBytes /\ values' = Append(values, x)
  <1>1. PICK x : x = [id |-> info'.id, type |-> info'.type, of |-> reason, shown |-> 0, whole |-> 0]
    OBVIOUS
  <1>2. values' = Append(values, x)
    BY <1>1, Zenon DEF Reg!Withheld, Reg!Observed
  <1>3. x.shown = x.whole /\ x.shown <= MaxValueBytes
    BY <1>1
  <1> QED
    BY <1>2, <1>3

(* In a registry at rest the open key is the one at the index.             *)
LEMMA RegOpen ==
    ASSUME RegTypes, RegStill, pc \in {"value", "data"}, NEW r, r = Roots[at], changes = 0
    PROVE  /\ Reg!Open # {} /\ Reg!Values = registry[r][index].values
           /\ key.id = registry[r][index].id /\ key.count = Len(registry[r][index].values)
  <1>1. at <= Len(Roots) /\ pc # "root"
    BY DEF RegTypes
  <1>2. /\ Reg!Keys = registry[r] /\ r \in Reg!Range(Roots) /\ DOMAIN registry[r] = 1..Len(registry[r])
    BY <1>1, RegHere, Zenon
  <1>3. RegAt(r) /\ RegOnce
    BY <1>1, RegNow
  <1>4. index \in DOMAIN registry[r] /\ key.id = registry[r][index].id /\ key.count = Len(registry[r][index].values)
    BY <1>2, <1>3 DEF RegAt
  <1>5. \A i \in DOMAIN registry[r] : registry[r][i].id = registry[r][index].id => i = index
    BY <1>2, <1>3, <1>4, Zenon DEF RegOnce
  <1>6. Reg!Open = {i \in DOMAIN registry[r] : registry[r][i].id = key.id}
    BY <1>2, Zenon DEF Reg!Open
  <1>7. Reg!Open = {index}
    BY <1>4, <1>5, <1>6
  <1>8. (CHOOSE i \in Reg!Open : TRUE) = index
    BY <1>7
  <1> QED
    BY <1>2, <1>4, <1>7, <1>8 DEF Reg!Values

(* A step within the values of a key.                                      *)
LEMMA RegWithin ==
    ASSUME RegTypes, RegStill, pc \in {"value", "data"}, pc' \in {"value", "data"},
           registry' = registry, changes' = changes, at' = at, subkeys' = subkeys, index' = index, key' = key,
           errors \subseteq errors', observations \subseteq observations',
           changes = 0 /\ pc' = "value" => values' # <<>>
    PROVE  RegStill'
  <1>1. PICK r : r = Roots[at]
    OBVIOUS
  <1>2. ASSUME changes = 0 PROVE RegAt(r)'
    <2>1. RegAt(r)
      BY <1>1, <1>2, RegNow
    <2>2. \A i \in 1..Len(registry[r]) : i < index => RegDone(r, i)'
      BY <2>1, RegStays, Zenon DEF RegAt
    <2>3. subkeys'.count = Len(registry'[r]) - 1 /\ index' \in 1..Len(registry'[r])
      BY <2>1 DEF RegAt
    <2>4. key'.id = registry'[r][index'].id /\ key'.count = Len(registry'[r][index'].values)
      BY <2>1 DEF RegAt
    <2> QED
      BY <1>2, <2>2, <2>3, <2>4 DEF RegAt
  <1> QED
    BY <1>1, <1>2, RegSameRoot

LEMMA RegReadValue == ASSUME RegInv, Reg!ReadValue PROVE RegInv'
  <1>1. RegTypes /\ RegData /\ RegStill
    BY DEF RegInv
  <1>2. /\ pc = "data" /\ info' = info /\ pc' = "value" /\ registry' = registry /\ at' = at /\ subkeys' = subkeys
        /\ index' = index /\ key' = key /\ value' = value /\ observations' = observations /\ changes' = changes
    BY Zenon DEF Reg!ReadValue
  <1>3. at <= Len(Roots) /\ value \in Nat /\ value >= 2 /\ info.len \in Nat /\ info.len <= MaxValueBytes /\ MaxValueBytes \in Nat
    BY <1>1, <1>2, RegBounds DEF RegTypes, RegData
  <1>4. PICK v : v = Reg!Values[value - 1]
    OBVIOUS
  <1>5. \/ /\ Reg!Open # {} /\ value - 1 <= Len(Reg!Values) /\ v.len <= info.len
           /\ Reg!Observed(v.id, v.len, v.len) /\ errors' = errors
        \/ Reg!Withheld("unavailable") /\ Reg!RecordError(key.id, "read value")
    BY <1>4, Zenon DEF Reg!ReadValue
  <1>6. errors \subseteq errors'
    <2>1. CASE errors' = errors
      BY <2>1
    <2>2. CASE Reg!RecordError(key.id, "read value")
      BY <2>2, RegNoted, Zenon
    <2> QED
      BY <1>5, <2>1, <2>2, Zenon
  <1>7. \E x : x.shown = x.whole /\ x.shown <= MaxValueBytes /\ values' = Append(values, x)
    <2>1. CASE Reg!Open # {} /\ value - 1 <= Len(Reg!Values) /\ v.len <= info.len /\ Reg!Observed(v.id, v.len, v.len)
      <3>1. value - 1 \in Nat /\ value - 1 >= 1
        BY <1>3
      <3>2. v.len \in Nat
        BY <1>1, <1>3, <1>4, <2>1, <3>1, RegValues
      <3>3. v.len <= MaxValueBytes
        BY <1>3, <2>1, <3>2
      <3>4. PICK x : x = [id |-> info'.id, type |-> info'.type, of |-> v.id, shown |-> v.len, whole |-> v.len]
        OBVIOUS
      <3>5. values' = Append(values, x)
        BY <2>1, <3>4, Zenon DEF Reg!Observed
      <3>6. x.shown = x.whole /\ x.shown <= MaxValueBytes
        BY <3>3, <3>4
      <3> QED
        BY <3>5, <3>6
    <2>2. CASE Reg!Withheld("unavailable")
      BY <2>2, <1>3, RegWithheld
    <2> QED
      BY <1>5, <2>1, <2>2, Zenon
  <1>8. (\E U : values' \in Seq(U)) /\ RegWhole(values') /\ values' # <<>>
    BY <1>1, <1>7, RegShow
  <1>9. RegTypes'
    BY <1>1, <1>2, <1>8 DEF RegTypes
  <1>10. RegData'
    BY <1>1, <1>2, <1>3, <1>8 DEF RegData, RegWhole
  <1>11. RegStill'
    BY <1>1, <1>2, <1>6, <1>8, RegWithin
  <1> QED
    BY <1>9, <1>10, <1>11 DEF RegInv


(* One value is named: it is withheld, or its data is read next.           *)
LEMMA RegNameOne ==
    ASSUME RegInv, Reg!NameValue, Reg!Open # {} /\ value <= key.count /\ value <= Len(Reg!Values) PROVE RegInv'
  <1>1. RegTypes /\ RegData /\ RegStill
    BY DEF RegInv
  <1>2. pc = "value" /\ registry' = registry /\ at' = at /\ subkeys' = subkeys /\ index' = index /\ changes' = changes
    BY Zenon DEF Reg!NameValue
  <1>3. at <= Len(Roots) /\ value \in Nat /\ value >= 1 /\ MaxValueBytes \in Nat
    BY <1>1, <1>2, RegBounds DEF RegTypes, RegData
  <1>4. PICK v : v = Reg!Values[value]
    OBVIOUS
  <1>5. PICK g : g = ~Reg!Fits(v.width, key.width)
    OBVIOUS
  <1>6. /\ info' = [id |-> IF g THEN "garbled" ELSE v.id, garbled |-> g,
                    type |-> v.type, len |-> v.len, secret |-> v.secret /\ ~g]
        /\ value' = value + 1 /\ key' = key /\ errors' = errors /\ observations' = observations
        /\ CASE Reg!Root = RunRoot \/ info'.secret -> Reg!Withheld("redacted") /\ UNCHANGED pc
             [] OTHER -> IF v.len > MaxValueBytes THEN Reg!Withheld("unavailable") /\ UNCHANGED pc
                         ELSE IF v.len = 0 THEN Reg!Withheld("empty") /\ UNCHANGED pc
                         ELSE pc' = "data" /\ UNCHANGED values
    BY <1>4, <1>5, Zenon DEF Reg!NameValue
  <1>7. info'.len = v.len
    BY <1>6
  <1>8. v.len \in Nat
    BY <1>1, <1>3, <1>4, RegValues
  <1>9. \/ (\E reason : Reg!Withheld(reason)) /\ pc' = pc
        \/ pc' = "data" /\ values' = values /\ ~(v.len > MaxValueBytes)
    BY <1>6
  <1>10. value' \in Nat /\ value' >= 2
    BY <1>3, <1>6
  <1>11. CASE (\E reason : Reg!Withheld(reason)) /\ pc' = pc
    <2>1. \E x : x.shown = x.whole /\ x.shown <= MaxValueBytes /\ values' = Append(values, x)
      BY <1>11, <1>3, RegWithheld
    <2>2. (\E U : values' \in Seq(U)) /\ RegWhole(values') /\ values' # <<>>
      BY <1>1, <2>1, RegShow
    <2>3. RegTypes'
      BY <1>1, <1>2, <1>11, <2>2 DEF RegTypes
    <2>4. RegData'
      BY <1>1, <1>2, <1>6, <1>10, <1>11, <2>2 DEF RegData, RegWhole
    <2>5. RegStill'
      BY <1>1, <1>2, <1>6, <1>11, <2>2, RegWithin
    <2> QED
      BY <2>3, <2>4, <2>5 DEF RegInv
  <1>12. CASE pc' = "data" /\ values' = values /\ ~(v.len > MaxValueBytes)
    <2>1. info'.len \in Nat /\ info'.len <= MaxValueBytes
      BY <1>3, <1>7, <1>8, <1>12
    <2>2. RegTypes'
      BY <1>1, <1>2, <1>12 DEF RegTypes
    <2>3. errors' = errors /\ observations' = observations /\ key' = key
      BY <1>6, Zenon
    <2>4. RegData'
      BY <1>1, <1>2, <1>10, <1>12, <2>1, <2>3 DEF RegData, RegWhole
    <2>5. RegStill'
      BY <1>1, <1>2, <1>12, <2>3, RegWithin
    <2> QED
      BY <2>2, <2>4, <2>5 DEF RegInv
  <1> QED
    BY <1>9, <1>11, <1>12

(* The open key is gone.                                                   *)
LEMMA RegNameGone ==
    ASSUME RegInv, Reg!NameValue, Reg!Open = {} /\ value <= key.count PROVE RegInv'
  <1>1. RegTypes /\ RegData /\ RegStill
    BY DEF RegInv
  <1>2. pc = "value" /\ registry' = registry /\ at' = at /\ subkeys' = subkeys /\ index' = index /\ changes' = changes
    BY Zenon DEF Reg!NameValue
  <1>3. changes # 0
    BY <1>1, <1>2, RegOpen
  <1>4. value' = value + 1 /\ pc' = pc /\ key' = key /\ info' = info /\ values' = values /\ observations' = observations
    BY Zenon DEF Reg!NameValue
  <1>5. value' \in Nat /\ value' >= 1
    BY <1>1, <1>2, <1>4 DEF RegData
  <1>6. RegTypes'
    BY <1>1, <1>2, <1>4 DEF RegTypes
  <1>7. RegData'
    BY <1>1, <1>2, <1>4, <1>5 DEF RegData, RegWhole
  <1>8. RegStill'
    BY <1>2, <1>3 DEF RegStill
  <1> QED
    BY <1>6, <1>7, <1>8 DEF RegInv

(* The values of the key end, and are observed.                            *)
LEMMA RegNameEnd ==
    ASSUME RegInv, Reg!NameValue, ~(Reg!Open # {} /\ value <= key.count /\ value <= Len(Reg!Values)),
           ~(Reg!Open = {} /\ value <= key.count)
    PROVE  RegInv'
  <1>1. RegTypes /\ RegData /\ RegStill
    BY DEF RegInv
  <1>2. pc = "value" /\ registry' = registry /\ at' = at /\ subkeys' = subkeys /\ index' = index /\ changes' = changes
    BY Zenon DEF Reg!NameValue
  <1>3. PICK r, x : r = Roots[at] /\ x = [key |-> key.id, values |-> values]
    OBVIOUS
  <1>4. x.key = key.id /\ x.values = values
    BY <1>3
  <1>5. /\ observations' = IF values = <<>> THEN observations ELSE observations \cup {x}
        /\ IF key.large THEN Reg!RecordError(key.id, "read value") ELSE UNCHANGED errors
        /\ pc' = "subkey" /\ value' = value /\ values' = values
    BY <1>3, Zenon DEF Reg!NameValue
  <1>6. errors \subseteq errors'
    <2>1. CASE errors' = errors
      BY <2>1
    <2>2. CASE Reg!RecordError(key.id, "read value")
      BY <2>2, RegNoted, Zenon
    <2> QED
      BY <1>5, <2>1, <2>2, Zenon
  <1>7. /\ pc' = "subkey" /\ values' = values /\ observations \subseteq observations'
        /\ \A o \in observations' : o \in observations \/ o = x
        /\ values # <<>> => x \in observations'
    <2>1. observations' = IF values = <<>> THEN observations ELSE observations \cup {x}
      BY <1>5, Zenon
    <2>2. pc' = "subkey" /\ values' = values
      BY <1>5, Zenon
    <2> QED
      BY <2>1, <2>2
  <1>8. RegTypes'
    <2>1. at <= Len(Roots)
      BY <1>1, <1>2 DEF RegTypes
    <2> QED
      BY <1>1, <1>2, <1>7, <2>1 DEF RegTypes
  <1>9. RegData'
    <2>1. RegWhole(x.values)
      BY <1>1, <1>4 DEF RegData, RegWhole
    <2>2. \A o \in observations' : RegWhole(o.values)
      BY <1>1, <1>7, <2>1 DEF RegData
    <2> QED
      BY <1>1, <1>7, <2>2 DEF RegData, RegWhole
  <1>10. ASSUME changes = 0 PROVE RegAt(r)'
    <2>1. /\ Reg!Open # {} /\ Reg!Values = registry[r][index].values
          /\ key.id = registry[r][index].id /\ key.count = Len(registry[r][index].values)
      BY <1>1, <1>2, <1>3, <1>10, RegOpen
    <2>2. RegAt(r)
      BY <1>1, <1>2, <1>3, <1>10, RegNow
    <2>3. PICK i : i = index
      OBVIOUS
    <2>4. registry[r][i].values = <<>> \/ values # <<>>
      <3>1. SUFFICES ASSUME values = <<>> PROVE registry[r][i].values = <<>>
        OBVIOUS
      <3>2. value = 1
        BY <1>2, <2>2, <3>1 DEF RegAt
      <3>3. i \in 1..Len(registry[r])
        BY <2>2, <2>3 DEF RegAt
      <3>4. at <= Len(Roots)
        BY <1>1, <1>2 DEF RegTypes
      <3>5. registry[r] \in Seq(Reg!RegistryKeys)
        BY <1>1, <1>3, <3>4, RegHere, Zenon
      <3>6. registry[r][i] \in Reg!RegistryKeys
        BY <3>3, <3>5
      <3>7. PICK vs : vs = registry[r][i].values
        OBVIOUS
      <3>8. vs \in Seq(Reg!RegistryValues)
        BY <3>6, <3>7 DEF Reg!RegistryKeys
      <3>9. ~(1 <= Len(vs))
        BY <2>1, <2>3, <3>2, <3>7
      <3>10. vs = <<>>
        BY <3>8, <3>9
      <3> QED
        BY <3>7, <3>10
    <2>5. RegDone(r, i)'
      <3>1. CASE registry[r][i].values = <<>>
        BY <3>1, <1>2 DEF RegDone
      <3>2. CASE values # <<>>
        <4>1. x \in observations' /\ x.key = registry'[r][i].id
          BY <1>2, <1>4, <1>7, <2>1, <2>3, <3>2
        <4> QED
          BY <4>1 DEF RegDone
      <3> QED
        BY <2>4, <3>1, <3>2
    <2>6. RegDone(r, index)'
      <3>1. index' = i
        BY <1>2, <2>3
      <3> QED
        BY <2>5, <3>1 DEF RegDone
    <2>7. \A j \in 1..Len(registry[r]) : j < index => RegDone(r, j)'
      BY <1>2, <1>6, <1>7, <2>2, RegStays, Zenon DEF RegAt
    <2>8. subkeys'.count = Len(registry'[r]) - 1 /\ index' \in 1..Len(registry'[r])
      BY <1>2, <2>2 DEF RegAt
    <2> QED
      BY <1>2, <1>7, <2>6, <2>7, <2>8 DEF RegAt
  <1>11. RegStill'
    BY <1>1, <1>2, <1>3, <1>6, <1>7, <1>10, RegSameRoot
  <1> QED
    BY <1>8, <1>9, <1>11 DEF RegInv


-----------------------------------------------------------------------------
(* Other programs: a root keeps its own key, and keys stay keys.           *)
LEMMA RegGrow ==
    ASSUME NEW r \in Reg!Range(Roots), NEW s \in Seq(Reg!RegistryKeys), s # <<>>, RegTypes,
           registry' = [registry EXCEPT ![r] = s]
    PROVE  /\ registry' \in [Reg!Range(Roots) -> Seq(Reg!RegistryKeys)]
           /\ \A q \in Reg!Range(Roots) : registry'[q] # <<>>
  BY DEF RegTypes

LEMMA RegKeyWith ==
    ASSUME NEW s \in Seq(Reg!RegistryKeys), s # <<>>, NEW i \in DOMAIN s, NEW vs \in Seq(Reg!RegistryValues)
    PROVE  [s EXCEPT ![i].values = vs] \in Seq(Reg!RegistryKeys) /\ [s EXCEPT ![i].values = vs] # <<>>
  <1>1. PICK k : k = [s[i] EXCEPT !.values = vs]
    OBVIOUS
  <1>2. s[i] \in Reg!RegistryKeys
    OBVIOUS
  <1>3. k \in Reg!RegistryKeys
    BY <1>1, <1>2 DEF Reg!RegistryKeys
  <1>4. [s EXCEPT ![i].values = vs] = [s EXCEPT ![i] = k]
    BY <1>1
  <1>5. [s EXCEPT ![i] = k] \in Seq(Reg!RegistryKeys) /\ Len([s EXCEPT ![i] = k]) = Len(s)
    BY <1>3
  <1>6. Len(s) # 0
    OBVIOUS
  <1>7. [s EXCEPT ![i] = k] # <<>>
    BY <1>5, <1>6
  <1> QED
    BY <1>4, <1>5, <1>7

LEMMA RegShorter ==
    ASSUME NEW U, NEW s \in Seq(U), NEW i \in DOMAIN s
    PROVE  Reg!RemoveAt(s, i) \in Seq(U) /\ Len(Reg!RemoveAt(s, i)) = Len(s) - 1
  <1>1. PICK t : t = SubSeq(s, 1, i - 1) \o SubSeq(s, i + 1, Len(s))
    OBVIOUS
  <1>2. Reg!RemoveAt(s, i) = t
    BY <1>1, Zenon DEF Reg!RemoveAt
  <1>3. t \in Seq(U) /\ Removed(t, s, i)
    BY <1>1, TakenOut, Zenon
  <1> QED
    BY <1>2, <1>3, Zenon DEF Removed

LEMMA RegChange == ASSUME RegInv, NEW r \in Reg!Range(Roots), Reg!Change(r) PROVE RegInv'
  <1>1. RegTypes /\ RegData
    BY DEF RegInv
  <1>2. /\ changes' = changes + 1 /\ pc' = pc /\ at' = at /\ value' = value /\ info' = info /\ values' = values
        /\ observations' = observations
    BY DEF Reg!Change
  <1>3. PICK s : s = registry[r]
    OBVIOUS
  <1>4. s \in Seq(Reg!RegistryKeys) /\ s # <<>> /\ Len(s) \in Nat /\ DOMAIN s = 1..Len(s)
    BY <1>1, <1>3 DEF RegTypes
  <1>5. ASSUME NEW i \in DOMAIN s PROVE s[i].values \in Seq(Reg!RegistryValues)
    <2>1. s[i] \in Reg!RegistryKeys
      BY <1>4, <1>5
    <2> QED
      BY <2>1 DEF Reg!RegistryKeys
  <1>6. ASSUME NEW i \in 2..Len(registry[r]), registry' = [registry EXCEPT ![r] = Reg!RemoveAt(@, i)]
        PROVE  \E t \in Seq(Reg!RegistryKeys) : t # <<>> /\ registry' = [registry EXCEPT ![r] = t]
    <2>1. PICK t : t = Reg!RemoveAt(s, i)
      OBVIOUS
    <2>2. i \in DOMAIN s /\ Len(s) >= 2
      BY <1>3, <1>4, <1>6
    <2>3. t \in Seq(Reg!RegistryKeys) /\ Len(t) = Len(s) - 1
      BY <1>4, <2>1, <2>2, RegShorter, Zenon
    <2>4. Len(t) # 0
      BY <1>4, <2>2, <2>3
    <2>5. t # <<>>
      BY <2>4
    <2>6. registry' = [registry EXCEPT ![r] = t]
      BY <1>3, <1>6, <2>1, Zenon
    <2> QED
      BY <2>3, <2>5, <2>6, Zenon
  <1>7. ASSUME NEW i \in DOMAIN registry[r], NEW vs \in Seq(Reg!RegistryValues),
               registry' = [registry EXCEPT ![r][i].values = vs]
        PROVE  \E t \in Seq(Reg!RegistryKeys) : t # <<>> /\ registry' = [registry EXCEPT ![r] = t]
    <2>1. PICK t : t = [s EXCEPT ![i].values = vs]
      OBVIOUS
    <2>2. t \in Seq(Reg!RegistryKeys) /\ t # <<>>
      BY <1>3, <1>4, <1>7, <2>1, RegKeyWith, Zenon
    <2>3. registry' = [registry EXCEPT ![r] = [registry[r] EXCEPT ![i].values = vs]]
      BY <1>7
    <2>4. registry' = [registry EXCEPT ![r] = t]
      BY <1>3, <2>1, <2>3, Zenon
    <2> QED
      BY <2>2, <2>4, Zenon
  <1>8. ASSUME NEW i \in DOMAIN registry[r], NEW j \in DOMAIN registry[r][i].values,
               registry' = [registry EXCEPT ![r][i].values = Reg!RemoveAt(@, j)]
        PROVE  \E t \in Seq(Reg!RegistryKeys) : t # <<>> /\ registry' = [registry EXCEPT ![r] = t]
    <2>1. PICK vs : vs = Reg!RemoveAt(registry[r][i].values, j)
      OBVIOUS
    <2>2. registry[r][i].values \in Seq(Reg!RegistryValues)
      BY <1>3, <1>5, <1>8
    <2>3. vs \in Seq(Reg!RegistryValues)
      BY <1>8, <2>1, <2>2, RegShorter, Zenon
    <2>4. registry' = [registry EXCEPT ![r][i].values = vs]
      BY <1>8, <2>1
    <2> QED
      BY <1>7, <1>8, <2>3, <2>4
  <1>9. ASSUME NEW i \in DOMAIN registry[r], NEW j \in DOMAIN registry[r][i].values,
               registry' = [registry EXCEPT ![r][i].values[j].len = @ + 1]
        PROVE  \E t \in Seq(Reg!RegistryKeys) : t # <<>> /\ registry' = [registry EXCEPT ![r] = t]
    <2>1. PICK us, v, vs : us = registry[r][i].values /\ v = [us[j] EXCEPT !.len = us[j].len + 1] /\ vs = [us EXCEPT ![j] = v]
      OBVIOUS
    <2>2. us \in Seq(Reg!RegistryValues)
      BY <1>3, <1>5, <1>9, <2>1
    <2>3. us[j] \in Reg!RegistryValues
      BY <1>9, <2>1, <2>2
    <2>4. v \in Reg!RegistryValues
      BY <2>1, <2>3 DEF Reg!RegistryValues
    <2>5. vs \in Seq(Reg!RegistryValues)
      BY <1>9, <2>1, <2>2, <2>4
    <2>6. registry' = [registry EXCEPT ![r][i].values = vs]
      BY <1>9, <2>1
    <2> QED
      BY <1>7, <1>9, <2>5, <2>6
  <1>10. ASSUME NEW i \in DOMAIN registry[r], registry' = [registry EXCEPT ![r][i].values = <<NewValue>> \o @]
         PROVE  \E t \in Seq(Reg!RegistryKeys) : t # <<>> /\ registry' = [registry EXCEPT ![r] = t]
    <2>1. PICK us, one, vs : us = registry[r][i].values /\ one = <<NewValue>> /\ vs = one \o us
      OBVIOUS
    <2>2. us \in Seq(Reg!RegistryValues)
      BY <1>3, <1>5, <1>10, <2>1
    <2>3. one \in Seq(Reg!RegistryValues)
      BY <2>1, RegBounds
    <2>4. vs \in Seq(Reg!RegistryValues)
      BY <2>1, <2>2, <2>3
    <2>5. registry' = [registry EXCEPT ![r][i].values = vs]
      BY <1>10, <2>1
    <2> QED
      BY <1>7, <1>10, <2>4, <2>5
  <1>11. \E t \in Seq(Reg!RegistryKeys) : t # <<>> /\ registry' = [registry EXCEPT ![r] = t]
    BY <1>6, <1>8, <1>9, <1>10, Zenon DEF Reg!Change
  <1>12. /\ registry' \in [Reg!Range(Roots) -> Seq(Reg!RegistryKeys)]
         /\ \A q \in Reg!Range(Roots) : registry'[q] # <<>>
    BY <1>1, <1>11, RegGrow, Zenon
  <1>13. changes' \in Nat /\ changes' # 0
    BY <1>1, <1>2 DEF RegTypes
  <1>14. RegTypes'
    BY <1>1, <1>2, <1>12, <1>13 DEF RegTypes
  <1>15. RegData'
    BY <1>1, <1>2 DEF RegData, RegWhole
  <1>16. RegStill'
    BY <1>13 DEF RegStill
  <1> QED
    BY <1>14, <1>15, <1>16 DEF RegInv

LEMMA RegNameValue == ASSUME RegInv, Reg!NameValue PROVE RegInv'
  BY RegNameOne, RegNameGone, RegNameEnd

LEMMA RegKept == ASSUME RegInv, Reg!RsNext PROVE RegInv'
  BY RegOpenRoot, RegNextSubkey, RegNameValue, RegReadValue, RegChange, Zenon DEF Reg!RsNext

LEMMA RegSound == ASSUME RegInv PROVE Reg!StillIsAccountedFor /\ Reg!DataIsWhole
  <1>1. Reg!DataIsWhole
    BY DEF RegInv, RegData, RegWhole, Reg!DataIsWhole
  <1>2. ASSUME at > Len(Roots), changes = 0, NEW r \in Reg!Range(Roots), NEW i \in DOMAIN registry[r]
        PROVE  \/ registry[r][i].values = <<>> \/ registry[r][i].id \in Reg!Seen \cup Reg!Failed
               \/ registry[r][1].id \in Reg!Failed
    <2>1. PICK a \in DOMAIN Roots : r = Roots[a]
      BY <1>2 DEF Reg!Range
    <2>2. a < at
      BY <1>2, <2>1, RegBounds DEF RegInv, RegTypes
    <2>3. RegDone(r, i)
      BY <1>2, <2>1, <2>2 DEF RegInv, RegStill
    <2> QED
      BY <2>3 DEF RegDone, Reg!Seen, Reg!Failed
  <1>3. Reg!StillIsAccountedFor
    BY <1>2 DEF Reg!StillIsAccountedFor, Reg!Finished
  <1> QED
    BY <1>1, <1>3

-----------------------------------------------------------------------------
(* The part that runs, and its invariant.                                  *)
ScanInv ==
    /\ part = "wsl" => WslInv
    /\ part = "tasks" => TaskInv
    /\ part = "shell" => ShellInv
    /\ part = "services" => ServiceInv
    /\ part = "registry" => RegInv

LEMMA ScanStart == ASSUME WinInit PROVE ScanInv
  BY WslStart, TaskStart, ShellStart, ServiceStart, RegStart DEF WinInit, ScanInv

LEMMA WslSame ==
    ASSUME WslInv, UNCHANGED <<world, pc, listing, toQuery, configs, warnings, discoveries, metadata, plans>>
    PROVE  WslInv'
  BY WslKeepFound DEF WslInv, WslWorld, WslQueries

LEMMA TaskSame ==
    ASSUME TaskInv, UNCHANGED <<folders, pc, stack, observations, errors>>
    PROVE  TaskInv'
  <1>1. TaskFrames' = TaskFrames
    BY DEF TaskFrames
  <1>2. \A f : (TaskFailed(f) => TaskFailed(f)') /\ (TaskRead(f) => TaskRead(f)')
    BY DEF TaskFailed, TaskRead
  <1>3. ASSUME NEW V, TaskWalk(V) PROVE TaskWalk(V)'
    <2>1. \A f : TaskOpen(f, V) => TaskOpen(f, V)'
      BY <1>2 DEF TaskOpen, TaskFrame, TaskRead
    <2>2. \A f : TaskWalked(f, V) => TaskWalked(f, V)'
      BY <1>2 DEF TaskWalked
    <2> QED
      BY <1>2, <1>3, <2>1, <2>2 DEF TaskWalk
  <1> QED
    BY <1>1, <1>2, <1>3 DEF TaskInv

LEMMA ShellSame ==
    ASSUME ShellInv, UNCHANGED <<source, roots, pc, at, candidates, observed, errors>>
    PROVE  ShellInv'
  <1>1. \A k, x : (ShellOver(k, x) => ShellOver(k, x)') /\ (ShellListed(x) => ShellListed(x)')
    BY DEF ShellOver, ShellListed
  <1>2. (\A k : ShellWanted(k)' = ShellWanted(k)) /\ \A k, i : ShellItem(k, i)' = ShellItem(k, i)
    BY ShellStays
  <1>3. \A k : ShellReached(k) => ShellReached(k)'
    BY <1>1, <1>2, Zenon DEF ShellReached
  <1>4. \A k : ShellClosed(k) => ShellClosed(k)'
    BY <1>1, <1>2, Zenon DEF ShellClosed
  <1> QED
    BY <1>3, <1>4 DEF ShellInv

LEMMA ServiceSame ==
    ASSUME ServiceInv, UNCHANGED <<pc, capacity, manager, records, resume, stable, observations, errors>>
    PROVE  ServiceInv'
  BY DEF ServiceInv, ServiceTypes, ServicePages, ServiceAnswered, ServiceErrors, Svc!Gave, Svc!Observed

LEMMA RegSame ==
    ASSUME RegInv, UNCHANGED <<registry, pc, at, subkeys, index, key, value, info, values, observations, errors, changes>>
    PROVE  RegInv'
  <1>1. PICK r : r = Roots[at]
    OBVIOUS
  <1>2. RegTypes /\ RegData /\ RegStill
    BY DEF RegInv
  <1>3. RegTypes'
    BY <1>2 DEF RegTypes
  <1>4. RegData'
    BY <1>2 DEF RegData, RegWhole
  <1>5. ASSUME changes = 0, pc # "root" PROVE RegAt(r)'
    <2>1. RegAt(r)
      BY <1>1, <1>2, <1>5, RegNow
    <2> QED
      BY <2>1 DEF RegAt, RegDone
  <1>6. RegStill'
    BY <1>1, <1>2, <1>5, RegSameRoot
  <1> QED
    BY <1>3, <1>4, <1>6 DEF RegInv

LEMMA ScanSame == ASSUME ScanInv, UNCHANGED winVars PROVE ScanInv'
  <1>1. UNCHANGED <<part, world, pc, listing, toQuery, configs, warnings, discoveries, metadata, plans>>
    BY DEF winVars
  <1>2. UNCHANGED <<folders, pc, stack, observations, errors>>
    BY DEF winVars
  <1>3. UNCHANGED <<source, roots, pc, at, candidates, observed, errors>>
    BY DEF winVars
  <1>4. UNCHANGED <<pc, capacity, manager, records, resume, stable, observations, errors>>
    BY DEF winVars
  <1>5. UNCHANGED <<registry, pc, at, subkeys, index, key, value, info, values, observations, errors, changes>>
    BY DEF winVars
  <1> QED
    BY <1>1, <1>2, <1>3, <1>4, <1>5, WslSame, TaskSame, ShellSame, ServiceSame, RegSame DEF ScanInv

LEMMA ScanStep == ASSUME ScanInv, WinNext PROVE ScanInv'
  <1>1. CASE WslStep
    BY <1>1, WslKept DEF ScanInv, WslStep
  <1>2. CASE TaskStep
    BY <1>2, TaskKept DEF ScanInv, TaskStep
  <1>3. CASE ShellStep
    BY <1>3, ShellKept DEF ScanInv, ShellStep
  <1>4. CASE ServiceStep
    BY <1>4, ServiceKept DEF ScanInv, ServiceStep
  <1>5. CASE RegistryStep
    BY <1>5, RegKept DEF ScanInv, RegistryStep
  <1> QED
    BY <1>1, <1>2, <1>3, <1>4, <1>5, Zenon DEF WinNext

LEMMA ScanInvariant == WinSpec => []ScanInv
  <1>1. WinInit => ScanInv
    BY ScanStart
  <1>2. ScanInv /\ [WinNext]_winVars => ScanInv'
    BY ScanStep, ScanSame
  <1> QED
    BY <1>1, <1>2, PTL DEF WinSpec

(* The enumerations of Windows and of WSL: however many keys, services,    *)
(* folders and items there are and whatever other programs do between two  *)
(* calls, a key of a registry at rest, a service that stays, a task below  *)
(* its folders, a candidate of every root and a running distribution is    *)
(* observed or stands among the errors, no service is listed twice, the    *)
(* tasks stay within their limit and registry data is shown whole or not   *)
(* at all (registry.rs, services.rs, tasks.rs, appx.rs, startup.rs,        *)
(* shell_links.rs, providers/wsl.rs).                                      *)
THEOREM ScansAreAlwaysAccountedFor == WinSpec => []ScansAreAccountedFor
  <1>1. ScanInv => ScansAreAccountedFor
    BY WslSound, TaskSound, ShellSound, ServiceSound, RegSound DEF ScanInv, ScansAreAccountedFor
  <1> QED
    BY <1>1, ScanInvariant, PTL

(* The plans of the WSL adapter: whatever the user does to the             *)
(* distributions between listing, query and plan, and however often the    *)
(* shared adapter is asked, every operation comes after what it waits for, *)
(* a distribution waits for its features, and a plan of the latest         *)
(* discovery imports only a verified export (providers/wsl.rs,             *)
(* plan_restore).                                                          *)
THEOREM WslPlansAreAlwaysSound == WinSpec => []WslPlansAreSound
  <1>1. ScanInv => WslPlansAreSound
    BY WslSound DEF ScanInv, WslPlansAreSound
  <1> QED
    BY <1>1, ScanInvariant, PTL
=============================================================================
