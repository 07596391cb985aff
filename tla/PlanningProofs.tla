--------------------------- MODULE PlanningProofs ---------------------------
(***************************************************************************)
(* Proofs about the selection, the comparison with the target, the plan    *)
(* and the report, for every input that MCPlanning's assumptions allow:    *)
(* each part has an inductive invariant, and PlanningInv puts them         *)
(* together.                                                               *)
(*                                                                         *)
(*   SelInv   what is selected is reachable from what was asked for, what  *)
(*            it requires is selected or pending, and every artifact was   *)
(*            admitted by its policy or by an explicit decision.           *)
(*   DiffInv  what is blocked is the consequence of a conflict, and an     *)
(*            edge that could block more is still to come or the pass is   *)
(*            marked as changed.                                           *)
(*   PlanInv  every operation that was added knows its owner, disposition  *)
(*            and confirmations; prerequisites only grow; an operation is  *)
(*            emitted after its prerequisites.                             *)
(*   RepInv   the types of the states and answers: a report is a function  *)
(*            of them, and its lemmas say what each status implies.        *)
(***************************************************************************)
EXTENDS MCPlanning, FiniteSetTheorems, WellFoundedInduction, TLAPS

-----------------------------------------------------------------------------
(* Induction in the form the provers can use: a set of numbers that is not *)
(* empty has a least member.                                               *)
LEMMA LeastMember ==
    ASSUME NEW T \in SUBSET Nat, T # {}
    PROVE  \E n \in T : \A m \in T : n <= m
  <1> DEFINE Less == OpToRel(<, Nat)
  <1>1. PICK n \in T : \A m \in T : ~(<<m, n>> \in Less)
    BY NatLessThanWellFounded, WFMin, Zenon
  <1>2. \A m \in T : ~(m < n)
    BY <1>1 DEF OpToRel
  <1> QED
    BY <1>2

(* A finite set can be listed in any total order of its members.           *)
LEMMA Listing ==
    ASSUME NEW S, IsFiniteSet(S), NEW R,
           \A x, y \in S : x # y => <<x, y>> \in R \/ <<y, x>> \in R,
           \A x, y, z \in S : <<x, y>> \in R /\ <<y, z>> \in R => <<x, z>> \in R
    PROVE  \E s \in [1..Cardinality(S) -> S] :
              /\ \A x \in S : \E i \in DOMAIN s : s[i] = x
              /\ \A i, j \in DOMAIN s : i < j => <<s[i], s[j]>> \in R
  <1> DEFINE Lists(s, T) == /\ s \in [1..Cardinality(T) -> T]
                            /\ \A x \in T : \E i \in DOMAIN s : s[i] = x
                            /\ \A i, j \in DOMAIN s : i < j => <<s[i], s[j]>> \in R
             Bad == {n \in Nat : \E T \in SUBSET S : Cardinality(T) = n /\ ~\E s : Lists(s, T)}
  <1>1. Bad = {}
    <2> SUFFICES ASSUME Bad # {} PROVE FALSE
      OBVIOUS
    <2>1. PICK n \in Bad : \A m \in Bad : n <= m
      BY LeastMember
    <2>2. PICK T \in SUBSET S : Cardinality(T) = n /\ ~\E s : Lists(s, T)
      BY <2>1
    <2>3. IsFiniteSet(T)
      BY FS_Subset
    <2>4. ASSUME NEW x \in T
          PROVE  /\ Cardinality(T \ {x}) = n - 1
                 /\ n # 0 /\ \E s : Lists(s, T \ {x})
      <3>1. Cardinality(T \ {x}) = n - 1
        BY <2>2, <2>3, FS_RemoveElement
      <3>2. n # 0
        BY <2>2, <2>3, FS_EmptySet
      <3>3. n - 1 \in Nat /\ ~(n - 1 \in Bad)
        BY <2>1, <3>2
      <3> QED
        BY <3>1, <3>2, <3>3
    <2>5. ASSUME NEW x \in T, \A y \in T : y # x => <<y, x>> \in R
          PROVE  FALSE
      <3>1. PICK s : Lists(s, T \ {x})
        BY <2>4
      <3>2. n \in Nat \ {0} /\ s \in [1..(n-1) -> T \ {x}]
        BY <3>1, <2>4
      <3>7. /\ \A y \in T \ {x} : \E i \in 1..(n-1) : s[i] = y
            /\ \A i, j \in 1..(n-1) : i < j => <<s[i], s[j]>> \in R
        BY <3>1, <3>2
      <3> DEFINE t == [i \in 1..n |-> IF i = n THEN x ELSE s[i]]
      <3>3. t \in [1..n -> T]
        BY <3>2
      <3>8. t[n] = x /\ \A i \in 1..(n-1) : i \in 1..n /\ t[i] = s[i]
        BY <3>2
      <3>4. \A y \in T : \E i \in DOMAIN t : t[i] = y
        BY <3>7, <3>8, <3>2
      <3>5. ASSUME NEW i \in DOMAIN t, NEW j \in DOMAIN t, i < j
            PROVE  <<t[i], t[j]>> \in R
        <4>1. i \in 1..(n-1) /\ t[i] = s[i]
          BY <3>2, <3>5, <3>8
        <4>2. CASE j = n
          BY <4>1, <4>2, <3>2, <3>8, <2>5
        <4>3. CASE j # n
          BY <4>1, <4>3, <3>2, <3>5, <3>7, <3>8
        <4> QED
          BY <4>2, <4>3
      <3>6. Lists(t, T)
        BY <3>3, <3>4, <3>5, <2>2
      <3> QED
        BY <3>6, <2>2
    <2>6. PICK x : x \in T
      <3>1. T # {}
        <4> SUFFICES ASSUME T = {} PROVE FALSE
          OBVIOUS
        <4>1. n = 0
          BY <2>2, FS_EmptySet
        <4> DEFINE s == [i \in 1..0 |-> i]
        <4>2. Lists(s, T)
          BY <4>1, <2>2
        <4> QED
          BY <4>2, <2>2
      <3> QED
        BY <3>1
    <2>7. PICK s : Lists(s, T \ {x})
      BY <2>4, <2>6
    <2>8. n \in Nat /\ n # 0 /\ n - 1 \in Nat /\ Cardinality(T \ {x}) = n - 1
      <3>1. n \in Nat
        BY <2>1
      <3>2. n # 0 /\ Cardinality(T \ {x}) = n - 1
        BY <2>4, <2>6
      <3> QED
        BY <3>1, <3>2
    <2>11. /\ s \in [1..(n-1) -> T \ {x}]
           /\ \A y \in T \ {x} : \E i \in 1..(n-1) : s[i] = y
           /\ \A i, j \in 1..(n-1) : i < j => <<s[i], s[j]>> \in R
      BY <2>7, <2>8
    <2> HIDE DEF Lists, Bad
    <2>9. CASE n = 1
      <3>1. ~\E i \in 1..(n-1) : TRUE
        BY <2>9
      <3>2. \A y \in T : y = x
        BY <3>1, <2>11
      <3> QED
        BY <3>2, <2>5, <2>6
    <2>10. CASE n # 1
      <3> DEFINE l == s[n-1]
      <3>1. l \in T /\ l # x
        <4>1. n - 1 \in 1..(n-1)
          BY <2>8, <2>10
        <4> QED
          BY <4>1, <2>11
      <3>2. ASSUME NEW y \in T, y # x, y # l
            PROVE  <<y, l>> \in R
        <4>1. PICK i \in 1..(n-1) : s[i] = y
          BY <3>2, <2>11
        <4>2. i < n - 1 /\ n - 1 \in 1..(n-1)
          BY <4>1, <3>2, <2>8, <2>10
        <4> QED
          BY <4>1, <4>2, <2>11
      <3>3. CASE <<l, x>> \in R
        BY <3>1, <3>2, <3>3, <2>5, <2>6
      <3>4. CASE <<x, l>> \in R
        BY <3>1, <3>2, <3>4, <2>5, <2>6
      <3> QED
        BY <3>1, <3>3, <3>4, <2>6
    <2> QED
      BY <2>9, <2>10
  <1>2. Cardinality(S) \in Nat
    BY FS_CardinalityType
  <1>3. \E s : Lists(s, S)
    BY <1>1, <1>2
  <1> QED
    BY <1>3

(* The parts speak of the same finite sets and numbers of members.         *)
LEMMA SelFinite ==
    ASSUME NEW S
    PROVE  Sel!Cardinality(S) = Cardinality(S) /\ (Sel!IsFiniteSet(S) <=> IsFiniteSet(S))
  BY DEF Sel!Cardinality, Cardinality, Sel!IsFiniteSet, IsFiniteSet

(* What a map makes of a finite set is finite.                             *)
LEMMA FiniteImage ==
    ASSUME NEW S, IsFiniteSet(S), NEW T, NEW f \in [S -> T],
           \A y \in T : \E x \in S : f[x] = y
    PROVE  IsFiniteSet(T)
  <1>1. f \in Surjection(S, T)
    BY DEF Surjection
  <1> QED
    BY <1>1, FS_Surjection

LEMMA FiniteTriple ==
    ASSUME NEW x, NEW y, NEW z
    PROVE  IsFiniteSet({x, y, z})
  <1>1. IsFiniteSet({x})
    BY FS_Singleton
  <1>2. IsFiniteSet({x} \cup {y})
    BY <1>1, FS_AddElement
  <1>3. IsFiniteSet(({x} \cup {y}) \cup {z})
    BY <1>2, FS_AddElement
  <1>4. ({x} \cup {y}) \cup {z} = {x, y, z}
    OBVIOUS
  <1> QED
    BY <1>3, <1>4

LEMMA ListAsSequence ==
    ASSUME NEW S, NEW n \in Nat, NEW t \in [1..n -> S]
    PROVE  t \in Seq(S) /\ Len(t) = n
  OBVIOUS

(* Members of lists that grow at the end and shrink at either end.         *)
LEMMA HeadAndTail ==
    ASSUME NEW A, NEW s \in Seq(A), s # <<>>
    PROVE  /\ Tail(s) \in Seq(A) /\ Head(s) \in A
           /\ Sel!Range(s) = {Head(s)} \cup Sel!Range(Tail(s))
  <1>0. Tail(s) \in Seq(A) /\ Head(s) \in A
    OBVIOUS
  <1>1. /\ Len(s) \in Nat \ {0} /\ DOMAIN s = 1..Len(s) /\ DOMAIN Tail(s) = 1..(Len(s) - 1)
        /\ Head(s) = s[1] /\ \A i \in 1..(Len(s) - 1) : Tail(s)[i] = s[i + 1]
    OBVIOUS
  <1>2. \A i \in DOMAIN s : i = 1 \/ (i - 1 \in DOMAIN Tail(s) /\ Tail(s)[i - 1] = s[i])
    BY <1>1
  <1>3. \A i \in DOMAIN Tail(s) : i + 1 \in DOMAIN s
    BY <1>1
  <1> QED
    <2>1. Sel!Range(s) \subseteq {Head(s)} \cup Sel!Range(Tail(s))
      BY <1>1, <1>2 DEF Sel!Range
    <2>2. {Head(s)} \cup Sel!Range(Tail(s)) \subseteq Sel!Range(s)
      BY <1>1, <1>3 DEF Sel!Range
    <2> QED
      BY <1>0, <2>1, <2>2

LEMMA FrontAndLast ==
    ASSUME NEW A, NEW s \in Seq(A), s # <<>>
    PROVE  /\ Sel!Front(s) \in Seq(A) /\ Sel!Last(s) \in A
           /\ Sel!Range(s) = {Sel!Last(s)} \cup Sel!Range(Sel!Front(s))
  <1>1. Len(s) \in Nat \ {0} /\ DOMAIN s = 1..Len(s)
    OBVIOUS
  <1>2. /\ Sel!Front(s) \in Seq(A) /\ DOMAIN Sel!Front(s) = 1..(Len(s) - 1)
        /\ \A i \in 1..(Len(s) - 1) : Sel!Front(s)[i] = s[i]
    BY <1>1 DEF Sel!Front
  <1>3. \A i \in DOMAIN s : i = Len(s) \/ i \in DOMAIN Sel!Front(s)
    BY <1>1, <1>2
  <1>4. \A i \in DOMAIN Sel!Front(s) : i \in DOMAIN s
    BY <1>1, <1>2
  <1>5. Sel!Last(s) \in A
    BY <1>1 DEF Sel!Last
  <1> QED
    BY <1>1, <1>2, <1>3, <1>4, <1>5 DEF Sel!Range, Sel!Last

LEMMA RangeOfConcatenation ==
    ASSUME NEW A, NEW s \in Seq(A), NEW t \in Seq(A)
    PROVE  s \o t \in Seq(A) /\ Sel!Range(s \o t) = Sel!Range(s) \cup Sel!Range(t)
  <1>1. /\ Len(s) \in Nat /\ Len(t) \in Nat
        /\ DOMAIN s = 1..Len(s) /\ DOMAIN t = 1..Len(t) /\ DOMAIN (s \o t) = 1..(Len(s) + Len(t))
        /\ \A i \in 1..(Len(s) + Len(t)) : (s \o t)[i] = IF i <= Len(s) THEN s[i] ELSE t[i - Len(s)]
    OBVIOUS
  <1>2. \A i \in DOMAIN s : i \in DOMAIN (s \o t) /\ (s \o t)[i] = s[i]
    BY <1>1
  <1>3. \A i \in DOMAIN t : i + Len(s) \in DOMAIN (s \o t) /\ (s \o t)[i + Len(s)] = t[i]
    BY <1>1
  <1>4. ASSUME NEW i \in DOMAIN (s \o t)
        PROVE  \/ i \in DOMAIN s /\ (s \o t)[i] = s[i]
               \/ i - Len(s) \in DOMAIN t /\ (s \o t)[i] = t[i - Len(s)]
    BY <1>1
  <1>5. s \o t \in Seq(A)
    OBVIOUS
  <1>6. Sel!Range(s \o t) \subseteq Sel!Range(s) \cup Sel!Range(t)
    BY <1>4 DEF Sel!Range
  <1>7. Sel!Range(s) \cup Sel!Range(t) \subseteq Sel!Range(s \o t)
    BY <1>2, <1>3 DEF Sel!Range
  <1> QED
    BY <1>5, <1>6, <1>7

(* The iteration order of a BTreeSet of numbers.                           *)
LEMMA SortedListing ==
    ASSUME NEW S \in SUBSET Nat, IsFiniteSet(S)
    PROVE  /\ Sel!Sorted(S) \in Seq(S) /\ Sel!Sorted(S) \in Seq(Nat) /\ Len(Sel!Sorted(S)) = Cardinality(S)
           /\ Sel!Range(Sel!Sorted(S)) = S
           /\ \A i, j \in DOMAIN Sel!Sorted(S) : i < j => Sel!Sorted(S)[i] < Sel!Sorted(S)[j]
  <1> DEFINE R == {p \in S \X S : p[1] < p[2]}
             L(s) == /\ Sel!Range(s) = S
                     /\ \A i, j \in DOMAIN s : i < j => s[i] < s[j]
  <1>1. PICK s \in [1..Cardinality(S) -> S] :
              /\ \A x \in S : \E i \in DOMAIN s : s[i] = x
              /\ \A i, j \in DOMAIN s : i < j => <<s[i], s[j]>> \in R
    <2>1. \A x, y \in S : x # y => <<x, y>> \in R \/ <<y, x>> \in R
      OBVIOUS
    <2>2. \A x, y, z \in S : <<x, y>> \in R /\ <<y, z>> \in R => <<x, z>> \in R
      OBVIOUS
    <2> HIDE DEF R
    <2> QED
      BY <2>1, <2>2, Listing
  <1>2. Sel!Range(s) = S
    <2> HIDE DEF R
    <2>1. \A i \in DOMAIN s : s[i] \in S
      OBVIOUS
    <2> QED
      BY <1>1, <2>1 DEF Sel!Range
  <1>4. \A i, j \in DOMAIN s : i < j => s[i] < s[j]
    BY <1>1
  <1>3. Sel!Sorted(S) \in [1..Cardinality(S) -> S] /\ L(Sel!Sorted(S))
    BY <1>2, <1>4, SelFinite DEF Sel!Sorted, Sel!Ordered
  <1>5. Cardinality(S) \in Nat
    BY FS_CardinalityType
  <1>6. PICK t : t = Sel!Sorted(S)
    OBVIOUS
  <1>7. t \in Seq(S) /\ t \in Seq(Nat) /\ Len(t) = Cardinality(S)
    <2>1. t \in [1..Cardinality(S) -> S]
      BY <1>3, <1>6
    <2>2. t \in [1..Cardinality(S) -> Nat]
      BY <2>1
    <2> QED
      BY <2>1, <2>2, <1>5, ListAsSequence
  <1> QED
    BY <1>3, <1>6, <1>7

-----------------------------------------------------------------------------
(* Selection: the inductive invariant.                                     *)

(* What the policy checks have let through.                                *)
ComponentAllowed(c) ==
    /\ Sel!IsSecret(c) => request.secrets # "Exclude"
    /\ Sel!IsUnknownBinary(c) => request.binaries # "Exclude" /\ inv.comp[c].hash
ArtifactAllowed(a) ==
    /\ a \in Sel!Artifacts /\ inv.art[a].owner \in selected
    /\ Sel!Included(a)
    /\ Sel!SecretArtifact(a) => request.secrets # "Exclude"

SelTypes ==
    /\ inv \in Inventories /\ request \in Requests
    /\ pc \in Sel!Errors \cup {"index", "close", "components", "artifacts", "selected"}
    /\ selected \subseteq Sel!Components
    /\ pending \in Seq(Nat) /\ bytes \in 0..MaxU64
    /\ IsFiniteSet(warnings) /\ Cardinality(warnings) <= MaxWarnings

(* Between the index and the end the selection is between the roots and    *)
(* every closed set around them.                                           *)
SelClosure ==
    /\ pc = "index" => selected = {} /\ auto = {}
    /\ auto \subseteq selected
    /\ pc \in {"close", "components", "artifacts", "selected"} =>
          /\ Sel!Roots \subseteq selected /\ auto = selected \ Sel!Roots
          /\ \A S : Sel!Roots \subseteq S /\ Sel!Closed(S) => selected \subseteq S
    /\ pc = "close" =>
          /\ Sel!Range(pending) \subseteq selected
          /\ \A c \in selected : c \in Sel!Range(pending) \/ Sel!Followed(c) \subseteq selected
    /\ pc \in {"components", "artifacts", "selected"} =>
          /\ Sel!Closed(selected)
          /\ \A c \in auto : <<c, "added">> \in warnings

SelPolicy ==
    /\ pc \in {"index", "close", "components"} => chosen = {}
    /\ pc = "components" =>
          \A c \in selected : c \in Sel!Range(pending) \/ ComponentAllowed(c)
    /\ pc = "artifacts" =>
          \A i \in DOMAIN pending : /\ pending[i] \in Sel!Artifacts
                                     /\ inv.art[pending[i]].owner \in selected
    /\ pc \in {"artifacts", "selected"} => \A c \in selected : ComponentAllowed(c)
    /\ \A a \in chosen : ArtifactAllowed(a)

SelInv == SelTypes /\ SelClosure /\ SelPolicy

LEMMA SelInitInv == Sel!SelectionInit => SelInv
  <1> SUFFICES ASSUME Sel!SelectionInit PROVE SelInv
    OBVIOUS
  <1> USE DEF Sel!SelectionInit
  <1>1. Cardinality({}) = 0 /\ IsFiniteSet({})
    BY FS_EmptySet
  <1>2. SelTypes
    BY <1>1, SelectionAssumption DEF SelTypes, Sel!SelectionAssumption
  <1>3. SelClosure
    BY DEF SelClosure
  <1>4. SelPolicy
    BY DEF SelPolicy
  <1> QED
    BY <1>2, <1>3, <1>4 DEF SelInv

(* The facts about the inputs that every step uses.                        *)
LEMMA SelInputs ==
    ASSUME SelTypes
    PROVE  /\ Sel!Components \subseteq Nat /\ IsFiniteSet(Sel!Components)
           /\ Sel!Artifacts \subseteq Nat /\ IsFiniteSet(Sel!Artifacts)
           /\ \A a \in Sel!Artifacts : inv.art[a].owner \in Nat /\ inv.art[a].size \in Nat
           /\ IsFiniteSet(inv.edges)
           /\ \A e \in inv.edges : e.from \in Nat /\ e.to \in Nat /\ e.required \in BOOLEAN
           /\ request.components \in Seq(Nat)
           /\ request.artifacts \in Seq([artifact : Nat, include : BOOLEAN])
           /\ request.secrets \in {"Exclude", "VaultExplicit"}
           /\ request.binaries \in {"Exclude", "PortableBinaryExplicit"}
           /\ Large \in Nat /\ MaxU64 \in Nat /\ MaxComponents \in Nat /\ MaxWarnings \in Nat
           /\ IsFiniteSet(selected)
  <1>1. /\ Sel!InventoryOK(inv) /\ Sel!RequestOK(request)
        /\ Large \in Nat /\ MaxU64 \in Nat /\ MaxComponents \in Nat /\ MaxWarnings \in Nat
    BY SelectionAssumption DEF SelTypes, Sel!SelectionAssumption
  <1>2. IsFiniteSet(Sel!Components)
    BY <1>1, SelFinite DEF Sel!InventoryOK, Sel!Components
  <1>3. IsFiniteSet(selected)
    BY <1>2, FS_Subset DEF SelTypes
  <1> QED
    BY <1>1, <1>2, <1>3, SelFinite
       DEF Sel!InventoryOK, Sel!RequestOK, Sel!Components, Sel!Artifacts

(* A step that returns an error keeps what the earlier ones made.          *)
LEMMA SelFail ==
    ASSUME SelInv, NEW e \in Sel!Errors, Sel!Fail(e)
    PROVE  SelInv'
  <1> USE DEF Sel!Fail
  <1>1. e \notin {"index", "close", "components", "artifacts", "selected"}
    BY DEF Sel!Errors
  <1>2. SelTypes'
    BY DEF SelInv, SelTypes, Sel!Errors, Sel!Components
  <1>3. SelClosure'
    BY <1>1 DEF SelInv, SelClosure
  <1>4. SelPolicy'
    BY <1>1 DEF SelInv, SelPolicy, ArtifactAllowed, Sel!Artifacts, Sel!Included,
                Sel!Explicit, Sel!Decision, Sel!DefaultArtifactSelection,
                Sel!SecretArtifact, Sel!IsSecret
  <1> QED
    BY <1>2, <1>3, <1>4 DEF SelInv

LEMMA SelIndex ==
    ASSUME SelInv, Sel!Index
    PROVE  SelInv'
  <1>1. CASE \E e \in {"SelectionIncomplete", "SecurityPolicy"} : Sel!Fail(e)
    BY <1>1, SelFail DEF Sel!Errors
  <1>2. CASE ~\E e \in {"SelectionIncomplete", "SecurityPolicy"} : Sel!Fail(e)
    <2>1. /\ pc = "index" /\ Sel!Roots \subseteq Sel!Components
          /\ selected' = Sel!Roots /\ pending' = Sel!Sorted(Sel!Roots) /\ pc' = "close"
          /\ UNCHANGED <<inv, request, auto, chosen, bytes, warnings>>
      BY <1>2 DEF Sel!Index
    <2>2. SelTypes /\ SelClosure /\ SelPolicy
      BY DEF SelInv
    <2>3. Sel!Roots \subseteq Nat /\ IsFiniteSet(Sel!Roots)
      BY <2>1, <2>2, SelInputs, FS_Subset
    <2>4. pending' \in Seq(Nat) /\ Sel!Range(pending') = Sel!Roots
      BY <2>1, <2>3, SortedListing
    <2>5. SelTypes'
      BY <2>1, <2>2, <2>4 DEF SelTypes, Sel!Components
    <2>6. SelClosure'
      BY <2>1, <2>2, <2>4 DEF SelClosure, Sel!Roots
    <2>7. SelPolicy'
      BY <2>1, <2>2 DEF SelPolicy
    <2> QED
      BY <2>5, <2>6, <2>7 DEF SelInv
  <1> QED
    BY <1>1, <1>2

LEMMA SelClose ==
    ASSUME SelInv, Sel!Close
    PROVE  SelInv'
  <1> DEFINE source == Sel!Last(pending)
             gone == Sel!Followed(source) \ Sel!Components
             fresh == {c \in Sel!Followed(source) \ selected : \A g \in gone : c < g}
             n == Sel!Cardinality(selected \cup fresh)
  <1>1. CASE \E e \in {"SelectionIncomplete", "SecurityPolicy"} : Sel!Fail(e)
    BY <1>1, SelFail DEF Sel!Errors
  <1>2. CASE ~\E e \in {"SelectionIncomplete", "SecurityPolicy"} : Sel!Fail(e)
    <2>1. /\ pc = "close" /\ pending # <<>> /\ ~(n > MaxComponents)
          /\ ~(n <= MaxComponents /\ gone # {})
          /\ selected' = selected \cup fresh
          /\ auto' = auto \cup fresh
          /\ pending' = Sel!Front(pending) \o Sel!Sorted(fresh)
          /\ UNCHANGED <<inv, request, pc, chosen, bytes, warnings>>
      BY <1>2 DEF Sel!Close
    <2>2. SelTypes /\ SelClosure /\ SelPolicy
      BY DEF SelInv
    <2>3. IsFiniteSet(Sel!Followed(source))
      <3> DEFINE E == {x \in Sel!OutEdges(source) : x.required}
                 f == [e \in E |-> e.to]
      <3>1. E \in SUBSET inv.edges
        BY DEF Sel!OutEdges
      <3>2. IsFiniteSet(E)
        BY <3>1, <2>2, SelInputs, FS_Subset
      <3>3. f \in [E -> Sel!Followed(source)] /\ \A y \in Sel!Followed(source) : \E x \in E : f[x] = y
        BY DEF Sel!Followed
      <3> HIDE DEF f, E
      <3> QED
        BY <3>2, <3>3, FiniteImage
    <2>4. IsFiniteSet(fresh) /\ n \in Nat
      <3>1. IsFiniteSet(fresh)
        BY <2>3, FS_Subset
      <3>2. IsFiniteSet(selected \cup fresh)
        BY <3>1, <2>2, SelInputs, FS_Union
      <3> QED
        BY <3>1, <3>2, FS_CardinalityType, SelFinite
    <2>5. gone = {}
      <3>1. MaxComponents \in Nat
        BY <2>2, SelInputs
      <3> HIDE DEF n, gone
      <3> QED
        BY <2>1, <2>4, <3>1
    <2>6. fresh = Sel!Followed(source) \ selected /\ fresh \subseteq Sel!Components
      BY <2>5
    <2>7. fresh \subseteq Nat
      BY <2>2, <2>6, SelInputs
    <2>8. Sel!Sorted(fresh) \in Seq(Nat) /\ Sel!Range(Sel!Sorted(fresh)) = fresh
      BY <2>4, <2>7, SortedListing
    <2>9. /\ pending \in Seq(Nat) /\ Sel!Front(pending) \in Seq(Nat)
          /\ Sel!Range(pending) = {source} \cup Sel!Range(Sel!Front(pending))
      BY <2>1, <2>2, FrontAndLast DEF SelTypes
    <2> HIDE DEF fresh, gone, n
    <2>10. /\ pending' \in Seq(Nat)
           /\ Sel!Range(pending') = Sel!Range(Sel!Front(pending)) \cup fresh
      <3> DEFINE s == Sel!Front(pending)
                 t == Sel!Sorted(fresh)
      <3>1. s \in Seq(Nat) /\ t \in Seq(Nat)
        BY <2>8, <2>9
      <3> HIDE DEF s, t
      <3>2. s \o t \in Seq(Nat) /\ Sel!Range(s \o t) = Sel!Range(s) \cup Sel!Range(t)
        BY <3>1, RangeOfConcatenation
      <3> QED
        BY <3>2, <2>1, <2>8 DEF s, t
    <2>11. SelTypes'
      BY <2>1, <2>2, <2>6, <2>10 DEF SelTypes, Sel!Components
    <2>12. ASSUME NEW c \in selected'
           PROVE  c \in Sel!Range(pending') \/ (Sel!Followed(c))' \subseteq selected'
      <3>1. (Sel!Followed(c))' = Sel!Followed(c)
        BY <2>1 DEF Sel!Followed, Sel!OutEdges
      <3>2. CASE c = source
        BY <3>1, <3>2, <2>1, <2>6
      <3>3. CASE c \in fresh
        BY <3>3, <2>10
      <3>4. CASE c # source /\ c \in selected
        BY <3>1, <3>4, <2>1, <2>2, <2>9, <2>10 DEF SelClosure
      <3> QED
        BY <3>2, <3>3, <3>4, <2>1
    <2>13. ASSUME NEW S, Sel!Roots \subseteq S, Sel!Closed(S), source \in selected
           PROVE  selected' \subseteq S
      <3>1. selected \subseteq S
        BY <2>1, <2>2, <2>13 DEF SelClosure
      <3>2. Sel!Followed(source) \subseteq S
        BY <3>1, <2>13 DEF Sel!Followed, Sel!OutEdges, Sel!Closed
      <3> QED
        BY <3>1, <3>2, <2>1, <2>6
    <2>14. source \in selected /\ Sel!Range(pending') \subseteq selected'
      BY <2>1, <2>2, <2>6, <2>9, <2>10 DEF SelClosure
    <2>16. Sel!Roots' = Sel!Roots /\ \A S : (Sel!Closed(S))' = Sel!Closed(S)
      BY <2>1 DEF Sel!Roots, Sel!Closed
    <2>17. Sel!Roots' \subseteq selected' /\ auto' = selected' \ Sel!Roots'
      BY <2>1, <2>2, <2>6, <2>16 DEF SelClosure
    <2>18. \A S : Sel!Roots' \subseteq S /\ (Sel!Closed(S))' => selected' \subseteq S
      BY <2>13, <2>14, <2>16
    <2>19. SelClosure'
      BY <2>1, <2>2, <2>12, <2>14, <2>17, <2>18 DEF SelClosure
    <2>15. SelPolicy'
      BY <2>1, <2>2 DEF SelPolicy
    <2> QED
      BY <2>11, <2>19, <2>15 DEF SelInv
  <1> QED
    BY <1>1, <1>2

(* Warnings within the limit stay finitely many.                           *)
LEMMA SelWarn ==
    ASSUME SelTypes, NEW ws, IsFiniteSet(ws), ~Sel!TooMany(ws)
    PROVE  IsFiniteSet(warnings \cup ws) /\ Cardinality(warnings \cup ws) <= MaxWarnings
  <1>1. IsFiniteSet(warnings \cup ws)
    BY FS_Union DEF SelTypes
  <1>2. Cardinality(warnings \cup ws) \in Nat /\ MaxWarnings \in Nat
    BY <1>1, FS_CardinalityType, SelInputs
  <1>3. ~(Cardinality(warnings \cup ws) > MaxWarnings)
    BY SelFinite DEF Sel!TooMany
  <1> QED
    BY <1>1, <1>2, <1>3

LEMMA SelExpose ==
    ASSUME SelInv, Sel!ExposeOptionalEdges
    PROVE  SelInv'
  <1> DEFINE added == {<<c, "added">> : c \in auto}
             E == {x \in inv.edges : x.from \in selected /\ ~x.required /\ x.to \notin selected}
             warn(e) == <<e.to, IF e.to \in Sel!Components THEN "available" ELSE "unavailable">>
             optional == {warn(e) : e \in E}
  <1>1. CASE Sel!Fail("SecurityPolicy")
    BY <1>1, SelFail DEF Sel!Errors
  <1>2. CASE ~Sel!Fail("SecurityPolicy")
    <2>1. /\ pc = "close" /\ pending = <<>> /\ ~Sel!TooMany(added \cup optional)
          /\ warnings' = warnings \cup added \cup optional
          /\ pc' = "components" /\ pending' = Sel!Sorted(selected)
          /\ UNCHANGED <<inv, request, selected, auto, chosen, bytes>>
      BY <1>2 DEF Sel!ExposeOptionalEdges
    <2>2. SelTypes /\ SelClosure /\ SelPolicy
      BY DEF SelInv
    <2>3. IsFiniteSet(added)
      <3> DEFINE f == [c \in auto |-> <<c, "added">>]
      <3>1. IsFiniteSet(auto)
        BY <2>2, SelInputs, FS_Subset DEF SelClosure
      <3>2. f \in [auto -> added] /\ \A y \in added : \E x \in auto : f[x] = y
        OBVIOUS
      <3> HIDE DEF f, added
      <3> QED
        BY <3>1, <3>2, FiniteImage
    <2>4. IsFiniteSet(optional)
      <3> DEFINE f == [e \in E |-> warn(e)]
      <3>1. IsFiniteSet(E)
        BY <2>2, SelInputs, FS_Subset
      <3> HIDE DEF E, warn
      <3>2. f \in [E -> optional] /\ \A y \in optional : \E x \in E : f[x] = y
        OBVIOUS
      <3> HIDE DEF f, optional
      <3> QED
        BY <3>1, <3>2, FiniteImage
    <2>5. <<>> = <<>> /\ Sel!Range(pending) = {}
      BY <2>1 DEF Sel!Range
    <2> HIDE DEF optional
    <2>6. IsFiniteSet(warnings') /\ Cardinality(warnings') <= MaxWarnings
      <3>1. IsFiniteSet(added \cup optional)
        BY <2>3, <2>4, FS_Union
      <3>2. warnings' = warnings \cup (added \cup optional)
        BY <2>1
      <3> HIDE DEF added
      <3> QED
        BY <3>1, <3>2, <2>1, <2>2, SelWarn
    <2>7. IsFiniteSet(selected) /\ selected \subseteq Nat
      BY <2>2, SelInputs DEF SelTypes
    <2>8. pending' \in Seq(Nat) /\ Sel!Range(pending') = selected
      BY <2>1, <2>7, SortedListing
    <2>9. SelTypes'
      BY <2>1, <2>2, <2>6, <2>8 DEF SelTypes, Sel!Components
    <2>10. \A c \in selected : Sel!Followed(c) \subseteq selected
      BY <2>1, <2>2, <2>5 DEF SelClosure
    <2>11. Sel!Closed(selected)
      BY <2>10 DEF Sel!Closed, Sel!Followed, Sel!OutEdges
    <2>12. \A c \in auto' : <<c, "added">> \in warnings'
      BY <2>1
    <2>13. SelClosure'
      BY <2>1, <2>2, <2>11, <2>12 DEF SelClosure, Sel!Roots, Sel!Closed
    <2>14. SelPolicy'
      BY <2>1, <2>2, <2>8 DEF SelPolicy
    <2> QED
      BY <2>9, <2>13, <2>14 DEF SelInv
  <1> QED
    BY <1>1, <1>2 DEF Sel!ExposeOptionalEdges

LEMMA SelValidate ==
    ASSUME SelInv, Sel!ValidateComponentPolicy
    PROVE  SelInv'
  <1> DEFINE c == Head(pending)
             w == Sel!ComponentWarnings(c)
  <1>1. CASE \E e \in {"SelectionIncomplete", "SecurityPolicy"} : Sel!Fail(e)
    BY <1>1, SelFail DEF Sel!Errors
  <1>2. CASE ~\E e \in {"SelectionIncomplete", "SecurityPolicy"} : Sel!Fail(e)
    <2>1. /\ pc = "components" /\ pending # <<>>
          /\ Sel!ComponentError(c) = "none" /\ ~Sel!TooMany(w)
          /\ warnings' = warnings \cup w /\ pending' = Tail(pending)
          /\ UNCHANGED <<inv, request, pc, selected, auto, chosen, bytes>>
      BY <1>2 DEF Sel!ValidateComponentPolicy, Sel!ComponentError
    <2>2. SelTypes /\ SelClosure /\ SelPolicy
      BY DEF SelInv
    <2>3. IsFiniteSet(w)
      <3>1. w \in SUBSET {<<c, "vault">>, <<c, "source">>, <<c, "signature">>}
        BY DEF Sel!ComponentWarnings
      <3>2. IsFiniteSet({<<c, "vault">>, <<c, "source">>, <<c, "signature">>})
        BY FiniteTriple
      <3> QED
        BY <3>1, <3>2, FS_Subset
    <2> HIDE DEF w
    <2>4. IsFiniteSet(warnings') /\ Cardinality(warnings') <= MaxWarnings
      BY <2>1, <2>2, <2>3, SelWarn
    <2>5. /\ pending' \in Seq(Nat)
          /\ Sel!Range(pending) = {c} \cup Sel!Range(pending')
      BY <2>1, <2>2, HeadAndTail DEF SelTypes
    <2>6. SelTypes'
      BY <2>1, <2>2, <2>4, <2>5 DEF SelTypes, Sel!Components
    <2>7. SelClosure'
      BY <2>1, <2>2 DEF SelClosure, Sel!Roots, Sel!Closed
    <2>8. ComponentAllowed(c)
      BY <2>1 DEF ComponentAllowed, Sel!ComponentError
    <2>9. \A d : ComponentAllowed(d)' = ComponentAllowed(d)
      BY <2>1 DEF ComponentAllowed, Sel!IsSecret, Sel!IsUnknownBinary, Sel!ArtifactsOf, Sel!Artifacts
    <2>10. \A d \in selected' : d \in Sel!Range(pending') \/ ComponentAllowed(d)'
      BY <2>1, <2>2, <2>5, <2>8, <2>9 DEF SelPolicy
    <2>11. SelPolicy'
      BY <2>1, <2>2, <2>10 DEF SelPolicy
    <2> QED
      BY <2>6, <2>7, <2>11 DEF SelInv
  <1> QED
    BY <1>1, <1>2

(* The artifacts in the order in which they are visited.                   *)
LEMMA OwnerListing ==
    ASSUME SelTypes, NEW S \in SUBSET Sel!Artifacts
    PROVE  /\ Sel!Ordered(S, Sel!ByOwner) \in Seq(Nat)
           /\ \A i \in DOMAIN Sel!Ordered(S, Sel!ByOwner) : Sel!Ordered(S, Sel!ByOwner)[i] \in S
  <1> DEFINE R == {p \in S \X S : Sel!ByOwner(p[1], p[2])}
  <1>1. IsFiniteSet(S) /\ S \subseteq Nat /\ \A a \in S : inv.art[a].owner \in Nat
    BY SelInputs, FS_Subset
  <1>2. PICK s \in [1..Cardinality(S) -> S] :
              /\ \A x \in S : \E i \in DOMAIN s : s[i] = x
              /\ \A i, j \in DOMAIN s : i < j => <<s[i], s[j]>> \in R
    <2>1. \A x, y \in S : x # y => <<x, y>> \in R \/ <<y, x>> \in R
      BY <1>1 DEF Sel!ByOwner
    <2>2. \A x, y, z \in S : <<x, y>> \in R /\ <<y, z>> \in R => <<x, z>> \in R
      BY <1>1 DEF Sel!ByOwner
    <2> HIDE DEF R
    <2> QED
      BY <1>1, <2>1, <2>2, Listing
  <1>3. Sel!Range(s) = S
    <2> HIDE DEF R
    <2>1. \A i \in DOMAIN s : s[i] \in S
      OBVIOUS
    <2> QED
      BY <1>2, <2>1 DEF Sel!Range
  <1>4. \A i, j \in DOMAIN s : i < j => Sel!ByOwner(s[i], s[j])
    BY <1>2
  <1>5. Sel!Ordered(S, Sel!ByOwner) \in [1..Cardinality(S) -> S]
    <2> HIDE DEF R
    <2>1. s \in [1..Sel!Cardinality(S) -> S]
      BY SelFinite
    <2>2. Sel!Ordered(S, Sel!ByOwner) \in [1..Sel!Cardinality(S) -> S]
      BY <1>3, <1>4, <2>1, Zenon DEF Sel!Ordered
    <2> QED
      BY <2>2, SelFinite
  <1>6. Cardinality(S) \in Nat
    BY <1>1, FS_CardinalityType
  <1>7. PICK t : t = Sel!Ordered(S, Sel!ByOwner)
    OBVIOUS
  <1>8. t \in [1..Cardinality(S) -> S] /\ t \in [1..Cardinality(S) -> Nat]
    BY <1>1, <1>5, <1>7
  <1>9. t \in Seq(Nat) /\ \A i \in DOMAIN t : t[i] \in S
    BY <1>6, <1>8, ListAsSequence
  <1> QED
    BY <1>7, <1>9

LEMMA SelOwners ==
    ASSUME SelInv, Sel!CheckOwners
    PROVE  SelInv'
  <1> DEFINE S == {a \in Sel!Artifacts : inv.art[a].owner \in selected}
  <1>1. CASE Sel!Fail("SelectionIncomplete")
    BY <1>1, SelFail DEF Sel!Errors
  <1>2. CASE ~Sel!Fail("SelectionIncomplete")
    <2>1. /\ pc = "components" /\ pending = <<>> /\ pc' = "artifacts"
          /\ pending' = Sel!Ordered(S, Sel!ByOwner)
          /\ UNCHANGED <<inv, request, selected, auto, chosen, bytes, warnings>>
      BY <1>2 DEF Sel!CheckOwners
    <2>2. SelTypes /\ SelClosure /\ SelPolicy
      BY DEF SelInv
    <2>3. pending' \in Seq(Nat) /\ \A i \in DOMAIN pending' : pending'[i] \in S
      BY <2>1, <2>2, OwnerListing
    <2>4. Sel!Range(pending) = {}
      BY <2>1 DEF Sel!Range
    <2>5. SelTypes'
      BY <2>1, <2>2, <2>3 DEF SelTypes, Sel!Components
    <2>6. SelClosure'
      BY <2>1, <2>2 DEF SelClosure, Sel!Roots, Sel!Closed
    <2>7. \A c : ComponentAllowed(c)' = ComponentAllowed(c)
      BY <2>1 DEF ComponentAllowed, Sel!IsSecret, Sel!IsUnknownBinary, Sel!ArtifactsOf, Sel!Artifacts
    <2>8. \A c \in selected' : ComponentAllowed(c)'
      BY <2>1, <2>2, <2>4, <2>7 DEF SelPolicy
    <2>9. \A i \in DOMAIN pending' : /\ pending'[i] \in Sel!Artifacts'
                                      /\ inv'.art[pending'[i]].owner \in selected'
      BY <2>1, <2>3 DEF Sel!Artifacts
    <2>10. SelPolicy'
      BY <2>1, <2>2, <2>8, <2>9 DEF SelPolicy
    <2> QED
      BY <2>5, <2>6, <2>10 DEF SelInv
  <1> QED
    BY <1>1, <1>2

(* Nothing of an earlier decision changes while artifacts are visited.     *)
LEMMA SelKept ==
    ASSUME UNCHANGED <<inv, request, selected>>
    PROVE  /\ \A c : ComponentAllowed(c)' = ComponentAllowed(c)
           /\ \A a : ArtifactAllowed(a)' = ArtifactAllowed(a)
  BY DEF ComponentAllowed, ArtifactAllowed, Sel!IsSecret, Sel!IsUnknownBinary, Sel!ArtifactsOf,
         Sel!Artifacts, Sel!Included, Sel!Explicit, Sel!Decision, Sel!DefaultArtifactSelection,
         Sel!SecretArtifact

LEMMA SelArtifact ==
    ASSUME SelInv, Sel!SelectArtifact
    PROVE  SelInv'
  <1> DEFINE a == Head(pending)
             w == Sel!ArtifactWarnings(a)
  <1>0. SelTypes /\ SelClosure /\ SelPolicy
    BY DEF SelInv
  <1>1. CASE \E e \in {"SelectionIncomplete", "SecurityPolicy"} : Sel!Fail(e)
    BY <1>1, SelFail DEF Sel!Errors
  <1>2. CASE ~\E e \in {"SelectionIncomplete", "SecurityPolicy"} : Sel!Fail(e)
    <2>1. /\ pc = "artifacts" /\ pending # <<>> /\ pending' = Tail(pending)
          /\ UNCHANGED <<inv, request, pc, selected, auto>>
          /\ \/ UNCHANGED <<chosen, bytes, warnings>>
             \/ /\ Sel!Included(a) /\ Sel!ArtifactError(a) = "none" /\ ~Sel!TooMany(w)
                /\ ~(bytes + inv.art[a].size > MaxU64)
                /\ chosen' = chosen \cup {a} /\ bytes' = bytes + inv.art[a].size
                /\ warnings' = warnings \cup w
      BY <1>2 DEF Sel!SelectArtifact, Sel!ArtifactError
    <2>2. /\ pending' \in Seq(Nat)
          /\ Sel!Range(pending) = {a} \cup Sel!Range(pending')
      BY <2>1, <1>0, HeadAndTail DEF SelTypes
    <2>3. \A i \in Sel!Range(pending) : i \in Sel!Artifacts /\ inv.art[i].owner \in selected
      BY <2>1, <1>0 DEF SelPolicy, Sel!Range
    <2>4. \A i \in DOMAIN pending' : pending'[i] \in Sel!Range(pending)
      BY <2>2 DEF Sel!Range
    <2>5. IsFiniteSet(w)
      <3>1. w \in SUBSET {<<a, "secret artifact">>, <<a, "large artifact">>, <<a, "manual artifact">>}
        BY DEF Sel!ArtifactWarnings
      <3> QED
        BY <3>1, FiniteTriple, FS_Subset
    <2> HIDE DEF w
    <2>6. IsFiniteSet(warnings') /\ Cardinality(warnings') <= MaxWarnings
      BY <2>1, <1>0, <2>5, SelWarn DEF SelTypes
    <2>7. bytes' \in 0..MaxU64
      <3>1. inv.art[a].size \in Nat /\ MaxU64 \in Nat /\ bytes \in 0..MaxU64
        BY <2>2, <2>3, <1>0, SelInputs DEF SelTypes
      <3> QED
        BY <3>1, <2>1
    <2>8. SelTypes'
      BY <2>1, <2>2, <2>6, <2>7, <1>0 DEF SelTypes, Sel!Components
    <2>9. SelClosure'
      <3>1. warnings \subseteq warnings'
        BY <2>1
      <3> QED
        BY <2>1, <3>1, <1>0 DEF SelClosure, Sel!Roots, Sel!Closed
    <2>10. \A x \in chosen' : ArtifactAllowed(x)
      <3>1. CASE UNCHANGED chosen
        BY <3>1, <1>0 DEF SelPolicy
      <3>2. CASE ~UNCHANGED chosen
        <4>1. Sel!Included(a) /\ Sel!ArtifactError(a) = "none" /\ chosen' = chosen \cup {a}
          BY <2>1, <3>2
        <4>2. ArtifactAllowed(a)
          BY <4>1, <2>2, <2>3 DEF ArtifactAllowed, Sel!ArtifactError
        <4> QED
          BY <4>1, <4>2, <1>0 DEF SelPolicy
      <3> QED
        BY <3>1, <3>2
    <2>11. \A i \in DOMAIN pending' : /\ pending'[i] \in Sel!Artifacts'
                                       /\ inv'.art[pending'[i]].owner \in selected'
      BY <2>1, <2>3, <2>4 DEF Sel!Artifacts
    <2>12. SelPolicy'
      BY <2>1, <1>0, <2>10, <2>11, SelKept DEF SelPolicy
    <2> QED
      BY <2>8, <2>9, <2>12 DEF SelInv
  <1> QED
    BY <1>1, <1>2

LEMMA SelBytes ==
    ASSUME SelInv, Sel!CheckBytes
    PROVE  SelInv'
  <1>1. CASE Sel!Fail("SecurityPolicy")
    BY <1>1, SelFail DEF Sel!Errors
  <1>2. CASE ~Sel!Fail("SecurityPolicy")
    <2>1. /\ pc = "artifacts" /\ pc' = "selected"
          /\ UNCHANGED <<inv, request, selected, auto, pending, chosen, bytes, warnings>>
      BY <1>2 DEF Sel!CheckBytes
    <2>2. SelTypes'
      BY <2>1 DEF SelInv, SelTypes, Sel!Components
    <2>3. SelClosure'
      BY <2>1 DEF SelInv, SelClosure, Sel!Roots, Sel!Closed
    <2>4. SelPolicy'
      BY <2>1, SelKept DEF SelInv, SelPolicy
    <2> QED
      BY <2>2, <2>3, <2>4 DEF SelInv
  <1> QED
    BY <1>1, <1>2

LEMMA SelStutter ==
    ASSUME SelInv, UNCHANGED Sel!selVars
    PROVE  SelInv'
  <1> USE DEF Sel!selVars
  <1>1. SelTypes'
    BY DEF SelInv, SelTypes, Sel!Components
  <1>2. SelClosure'
    BY DEF SelInv, SelClosure, Sel!Roots, Sel!Closed, Sel!Followed, Sel!OutEdges
  <1>3. SelPolicy'
    BY SelKept DEF SelInv, SelPolicy, Sel!Artifacts
  <1> QED
    BY <1>1, <1>2, <1>3 DEF SelInv

LEMMA SelStepInv == SelInv /\ (Sel!SelectionNext \/ UNCHANGED Sel!selVars) => SelInv'
  BY SelIndex, SelClose, SelExpose, SelValidate, SelOwners, SelArtifact, SelBytes, SelStutter
     DEF Sel!SelectionNext, Sel!SelectionStep, Sel!SelectionDone

LEMMA SelInvImplies ==
    ASSUME SelInv
    PROVE  Sel!SelectionTypeOK /\ Sel!LeastClosure /\ Sel!NothingRiskyByDefault
  <1>0. SelTypes /\ SelClosure /\ SelPolicy
    BY DEF SelInv
  <1>1. Sel!SelectionTypeOK
    <2>1. chosen \subseteq Sel!Artifacts
      BY <1>0 DEF SelPolicy, ArtifactAllowed
    <2> QED
      BY <1>0, <2>1, SelFinite DEF SelTypes, SelClosure, Sel!SelectionTypeOK
  <1>2. Sel!LeastClosure
    BY <1>0 DEF SelClosure, Sel!LeastClosure
  <1>3. Sel!NothingRiskyByDefault
    <2> SUFFICES ASSUME pc = "selected" PROVE Sel!NothingRiskyByDefault
      BY DEF Sel!NothingRiskyByDefault
    <2>1. /\ request.secrets \in {"Exclude", "VaultExplicit"}
          /\ request.binaries \in {"Exclude", "PortableBinaryExplicit"}
          /\ Large \in Nat /\ \A a \in Sel!Artifacts : inv.art[a].size \in Nat
      BY <1>0, SelInputs
    <2>2. \A c \in selected : ComponentAllowed(c)
      BY <1>0 DEF SelPolicy
    <2>3. \A a \in chosen : ArtifactAllowed(a)
      BY <1>0 DEF SelPolicy
    <2>4. ASSUME NEW c \in selected
          PROVE  /\ Sel!IsSecret(c) => request.secrets = "VaultExplicit"
                 /\ inv.comp[c].kind = "PortableBinary" \/ inv.comp[c].strategy = "PortableBinary"
                       => request.binaries = "PortableBinaryExplicit" /\ inv.comp[c].hash
      BY <2>1, <2>2 DEF ComponentAllowed, Sel!IsUnknownBinary
    <2>5. ASSUME NEW a \in chosen,
                 \/ inv.art[a].policy \in {"LargeOptIn", "PortableBinary", "SecretReference", "Manual"}
                 \/ inv.art[a].size > Large
          PROVE  Sel!Explicit(a) /\ Sel!Decision(a)
      BY <2>1, <2>3, <2>5 DEF ArtifactAllowed, Sel!Included, Sel!DefaultArtifactSelection
    <2>6. ASSUME NEW a \in chosen, inv.art[a].policy = "SecretReference"
          PROVE  request.secrets = "VaultExplicit"
      BY <2>1, <2>3, <2>6 DEF ArtifactAllowed, Sel!SecretArtifact
    <2>7. ASSUME NEW a \in chosen, inv.art[a].policy = "PortableBinary"
          PROVE  request.binaries = "PortableBinaryExplicit"
      <3>1. Sel!IsUnknownBinary(inv.art[a].owner) /\ inv.art[a].owner \in selected
        BY <2>3, <2>7 DEF ArtifactAllowed, Sel!IsUnknownBinary, Sel!ArtifactsOf
      <3> QED
        BY <3>1, <2>1, <2>2 DEF ComponentAllowed
    <2> QED
      BY <2>4, <2>5, <2>6, <2>7 DEF Sel!NothingRiskyByDefault
  <1> QED
    BY <1>1, <1>2, <1>3

-----------------------------------------------------------------------------
(* TargetDiff: versions.                                                   *)

LEMMA DiffFinite ==
    ASSUME NEW S
    PROVE  Diff!Cardinality(S) = Cardinality(S) /\ (Diff!IsFiniteSet(S) <=> IsFiniteSet(S))
  BY DEF Diff!Cardinality, Cardinality, Diff!IsFiniteSet, IsFiniteSet

LEMMA DiffRange == \A f : Diff!Range(f) = Sel!Range(f)
  BY DEF Diff!Range, Sel!Range

LEMMA DiffSorted == \A S : Diff!Sorted(S) = Sel!Sorted(S)
  BY DiffRange, DiffFinite, SelFinite DEF Diff!Sorted, Diff!Ordered, Sel!Sorted, Sel!Ordered

LEMMA MaxOfTwo ==
    ASSUME NEW m \in Nat, NEW n \in Nat
    PROVE  Diff!Max({m, n}) = IF m >= n THEN m ELSE n
  BY DEF Diff!Max

LEMMA MinOfDiff ==
    ASSUME NEW D \in SUBSET Nat, D # {}
    PROVE  Diff!Min(D) \in D
  <1>1. \E x \in D : \A y \in D : x =< y
    BY LeastMember
  <1> QED
    BY <1>1 DEF Diff!Min

LEMMA SegmentIsNumber ==
    ASSUME NEW v, v.seg \in Seq(Nat), NEW i \in Nat \ {0}
    PROVE  Diff!Segment(v, i) \in Nat
  <1>1. PICK g \in Seq(Nat) : g = v.seg
    OBVIOUS
  <1>2. i <= Len(g) => g[i] \in Nat
    BY <1>1
  <1> QED
    BY <1>1, <1>2 DEF Diff!Segment

(* Comparing the other way round gives the opposite answer.                *)
LEMMA VersionsCompared ==
    ASSUME NEW s, NEW t, s.kind = "numeric", t.kind = "numeric",
           Diff!VersionOK(s), Diff!VersionOK(t)
    PROVE  LET flip == [Same |-> "Same", TargetNewer |-> "TargetOlder", TargetOlder |-> "TargetNewer",
                        DifferentUnknown |-> "DifferentUnknown"]
           IN /\ Diff!VersionRelation(t, s) = flip[Diff!VersionRelation(s, t)]
              /\ Diff!VersionRelation(s, t) = "Same"
                    => \A k \in 1..Diff!Max({Len(s.seg), Len(t.seg)}) : Diff!Segment(s, k) = Diff!Segment(t, k)
  <1> DEFINE n == Diff!Max({Len(s.seg), Len(t.seg)})
             D == {i \in 1..n : Diff!Segment(s, i) # Diff!Segment(t, i)}
             E == {i \in 1..Diff!Max({Len(t.seg), Len(s.seg)}) : Diff!Segment(t, i) # Diff!Segment(s, i)}
             R(a, b, i) == IF Diff!Segment(a, i) < Diff!Segment(b, i) THEN "TargetNewer" ELSE "TargetOlder"
  <1>1. s.seg \in Seq(Nat) /\ t.seg \in Seq(Nat)
    BY DEF Diff!VersionOK
  <1>2. \A i \in 1..n : Diff!Segment(s, i) \in Nat /\ Diff!Segment(t, i) \in Nat
    <2>1. Len(s.seg) \in Nat /\ Len(t.seg) \in Nat
      BY <1>1
    <2>2. n = IF Len(s.seg) >= Len(t.seg) THEN Len(s.seg) ELSE Len(t.seg)
      BY <2>1, MaxOfTwo
    <2> HIDE DEF n, D, E, R
    <2>3. \A i \in 1..n : i \in Nat \ {0}
      BY <2>1, <2>2
    <2> QED
      BY <2>3, <1>1, SegmentIsNumber
  <1>3. E = D
    <2>1. {Len(s.seg), Len(t.seg)} = {Len(t.seg), Len(s.seg)}
      OBVIOUS
    <2>2. E = {i \in 1..n : Diff!Segment(t, i) # Diff!Segment(s, i)}
      BY <2>1
    <2> HIDE DEF n, E
    <2> QED
      BY <2>2
  <1>4. /\ Diff!CompareNumericVersions(s, t) = IF D = {} THEN "Same" ELSE R(s, t, Diff!Min(D))
        /\ Diff!CompareNumericVersions(t, s) = IF E = {} THEN "Same" ELSE R(t, s, Diff!Min(E))
    BY DEF Diff!CompareNumericVersions
  <1>5. /\ Diff!VersionRelation(s, t) = IF s = t THEN "Same" ELSE Diff!CompareNumericVersions(s, t)
        /\ Diff!VersionRelation(t, s) = IF s = t THEN "Same" ELSE Diff!CompareNumericVersions(t, s)
    BY DEF Diff!VersionRelation
  <1>6. CASE D = {}
    <2>1. \A k \in 1..n : Diff!Segment(s, k) = Diff!Segment(t, k)
      BY <1>6
    <2> HIDE DEF n, D, E
    <2>2. Diff!VersionRelation(s, t) = "Same" /\ Diff!VersionRelation(t, s) = "Same"
      BY <1>3, <1>4, <1>5, <1>6
    <2> QED
      BY <2>1, <2>2 DEF n
  <1>7. CASE D # {}
    <2>1. Diff!Min(D) \in D /\ D \subseteq 1..n
      <3>1. D \subseteq 1..n /\ D \subseteq Nat
        OBVIOUS
      <3> HIDE DEF D
      <3> QED
        BY <3>1, <1>7, MinOfDiff
    <2>2. PICK m : m = Diff!Min(D)
      OBVIOUS
    <2>3. /\ Diff!Segment(s, m) \in Nat /\ Diff!Segment(t, m) \in Nat
          /\ Diff!Segment(s, m) # Diff!Segment(t, m)
      BY <1>2, <2>1, <2>2
    <2>4. s # t
      BY <2>3
    <2> HIDE DEF n, D, E
    <2>5. /\ Diff!VersionRelation(s, t) = R(s, t, m)
          /\ Diff!VersionRelation(t, s) = R(t, s, m)
      BY <1>3, <1>4, <1>5, <1>7, <2>2, <2>4
    <2> QED
      BY <2>3, <2>5
  <1> QED
    BY <1>6, <1>7

-----------------------------------------------------------------------------
(* TargetDiff: the inductive invariant.                                    *)

(* What is known of every conflict, whatever made it.                      *)
ConflictOK(x) ==
    /\ x.component \in Diff!Components
    /\ x.kind = "DependencyConflict" => x.blocks
    /\ x.resolution = "Install" => x.suffix = <<"TargetOlder", 0>> /\ x.confirm
    /\ x.resolution = "Merge" => x.confirm \/ x.kind = "PathCollision"

BlockedNow == {x.component : x \in {y \in conflicts : y.blocks}}
ClosedUnderNeed(S) == \A e \in Diff!RequiredEdges : e.to \in S => e.from \in S

DiffTypes ==
    /\ pkg \in DiffPackages /\ target \in DiffTargets
    /\ step \in {"validate", "compare", "dependencies", "compared", "SchemaInvalid"}
    /\ changed \in BOOLEAN
    /\ step \in {"validate", "compare"} => todo \in Seq(Diff!Components)
    /\ step = "dependencies" => todo \in Seq(Diff!RequiredEdges)
    /\ step \in {"compare", "dependencies", "compared"} =>
          \A e \in pkg.edges : {e.from, e.to} \subseteq Diff!Components

DiffConflicts ==
    /\ \A x \in conflicts : ConflictOK(x)
    /\ step \in {"validate", "compare"} => \A x \in conflicts : x.kind # "DependencyConflict"

(* While edges are visited, an edge whose dependency is blocked is still   *)
(* to come, was followed, or this pass has changed something.              *)
DiffBlocked ==
    /\ step \in {"dependencies", "compared"} =>
          /\ blocked = BlockedNow
          /\ \A S : Diff!Directly \subseteq S /\ ClosedUnderNeed(S) => blocked \subseteq S
    /\ step = "dependencies" /\ ~changed =>
          \A e \in Diff!RequiredEdges :
              e \in Sel!Range(todo) \/ (e.to \in blocked => e.from \in blocked)
    /\ step = "compared" => ClosedUnderNeed(blocked)

DiffInv == DiffTypes /\ DiffConflicts /\ DiffBlocked

LEMMA DiffInputs ==
    ASSUME pkg \in DiffPackages, target \in DiffTargets
    PROVE  /\ Diff!Components \subseteq Nat /\ IsFiniteSet(Diff!Components)
           /\ IsFiniteSet(Diff!RequiredEdges)
           /\ \A e \in Diff!RequiredEdges : e.from \in Nat /\ e.to \in Nat
           /\ \A c \in Diff!Components : Diff!VersionOK(pkg.comp[c].version)
           /\ \A i \in DOMAIN target.installed : Diff!VersionOK(target.installed[i].version)
  <1>1. Diff!PackageOK(pkg) /\ Diff!TargetOK(target)
    BY DiffAssumption DEF Diff!DiffAssumption
  <1>2. IsFiniteSet(pkg.edges)
    BY <1>1, DiffFinite DEF Diff!PackageOK
  <1>3. IsFiniteSet(Diff!RequiredEdges)
    BY <1>2, FS_Subset DEF Diff!RequiredEdges
  <1> QED
    BY <1>1, <1>3, DiffFinite
       DEF Diff!PackageOK, Diff!TargetOK, Diff!Components, Diff!RequiredEdges

LEMMA DiffEdgesListed ==
    ASSUME pkg \in DiffPackages, target \in DiffTargets
    PROVE  Diff!SortedEdges \in Seq(Diff!RequiredEdges) /\ Sel!Range(Diff!SortedEdges) = Diff!RequiredEdges
  <1> DEFINE S == Diff!RequiredEdges
             Lt(x, y) == x.from < y.from \/ (x.from = y.from /\ x.to <= y.to)
             R == {p \in S \X S : Lt(p[1], p[2])}
  <1>1. IsFiniteSet(S) /\ \A e \in S : e.from \in Nat /\ e.to \in Nat
    BY DiffInputs
  <1> HIDE DEF S
  <1>2. PICK s \in [1..Cardinality(S) -> S] :
              /\ \A x \in S : \E i \in DOMAIN s : s[i] = x
              /\ \A i, j \in DOMAIN s : i < j => <<s[i], s[j]>> \in R
    <2>1. \A x, y \in S : x # y => <<x, y>> \in R \/ <<y, x>> \in R
      BY <1>1
    <2>2. \A x, y, z \in S : <<x, y>> \in R /\ <<y, z>> \in R => <<x, z>> \in R
      BY <1>1
    <2> HIDE DEF R
    <2> QED
      BY <1>1, <2>1, <2>2, Listing
  <1>3. Diff!Range(s) = S
    <2> HIDE DEF R
    <2>1. \A i \in DOMAIN s : s[i] \in S
      OBVIOUS
    <2> QED
      BY <1>2, <2>1 DEF Diff!Range
  <1>4. \A i, j \in DOMAIN s : i < j => Lt(s[i], s[j])
    BY <1>2
  <1> HIDE DEF R
  <1>5. s \in [1..Diff!Cardinality(S) -> S]
    BY DiffFinite
  <1>6. Diff!SortedEdges \in [1..Diff!Cardinality(S) -> S] /\ Diff!Range(Diff!SortedEdges) = S
    BY <1>3, <1>4, <1>5, Zenon DEF Diff!SortedEdges, Diff!Ordered, S
  <1>7. Cardinality(S) \in Nat
    BY <1>1, FS_CardinalityType
  <1>8. Diff!SortedEdges \in Seq(S)
    BY <1>6, <1>7, DiffFinite, ListAsSequence
  <1> QED
    BY <1>6, <1>8, DiffRange DEF S

LEMMA DiffInitInv == Diff!DiffInit => DiffInv
  <1> SUFFICES ASSUME Diff!DiffInit PROVE DiffInv
    OBVIOUS
  <1> USE DEF Diff!DiffInit, Diff!InputInit
  <1>1. pkg \in DiffPackages /\ target \in DiffTargets
    OBVIOUS
  <1>2. todo \in Seq(Diff!Components)
    BY <1>1, DiffInputs, DiffSorted, SortedListing
  <1>3. DiffTypes
    BY <1>1, <1>2 DEF DiffTypes
  <1>4. DiffConflicts /\ DiffBlocked
    BY DEF DiffConflicts, DiffBlocked
  <1> QED
    BY <1>3, <1>4 DEF DiffInv

(* Every conflict that a comparison makes is well formed.                  *)
LEMMA ConflictMade ==
    ASSUME NEW c \in Diff!Components, NEW k, NEW s, NEW d,
           k = "VersionDifference" => s = <<d, 0>>
    PROVE  ConflictOK(Diff!Conflict(c, k, s, d)) /\ Diff!Conflict(c, k, s, d).kind = k
  BY DEF ConflictOK, Diff!Conflict, Diff!Resolution, Diff!RequiresConfirmation, Diff!BlocksPlanning

LEMMA ConflictsFound ==
    ASSUME NEW c \in Diff!Components, NEW x \in Diff!Found(c)
    PROVE  ConflictOK(x) /\ x.kind # "DependencyConflict"
  <1> DEFINE Good(y) == ConflictOK(y) /\ y.kind # "DependencyConflict"
  <1>1. ASSUME NEW k, NEW s, NEW d, k = "VersionDifference" => s = <<d, 0>>, k # "DependencyConflict"
        PROVE  Good(Diff!Conflict(c, k, s, d))
    BY <1>1, ConflictMade
  <1> HIDE DEF Good
  <1>2. \A v : \A y \in Diff!CompareVersions(c, v) : Good(y)
    BY <1>1 DEF Diff!CompareVersions
  <1>3. \A y \in Diff!CompareInstalled(c).found : Good(y)
    BY <1>1, <1>2 DEF Diff!CompareInstalled
  <1>4. \A y \in Diff!CompareRuntime(c).found : Good(y)
    BY <1>1, <1>2 DEF Diff!CompareRuntime
  <1>5. \A y \in Diff!CompareEnvironment(c).found : Good(y)
    BY <1>1 DEF Diff!CompareEnvironment
  <1>6. \A y \in Diff!CompareSecret(c).found : Good(y)
    BY <1>1 DEF Diff!CompareSecret
  <1>7. \A y \in Diff!Compared(c).found : Good(y)
    BY <1>3, <1>4, <1>5, <1>6 DEF Diff!Compared
  <1>8. \A y \in Diff!CompareArchitecture(c) \cup Diff!CompareSupportedState(c) : Good(y)
    BY <1>1 DEF Diff!CompareArchitecture, Diff!CompareSupportedState
  <1>9. \A p : \A y \in Diff!CompareArtifacts(c, p) : Good(y)
    BY <1>1 DEF Diff!CompareArtifacts, Diff!ArtifactConflict
  <1>10. Good(x)
    BY <1>7, <1>8, <1>9 DEF Diff!Found
  <1> QED
    BY <1>10 DEF Good

LEMMA DiffValidate ==
    ASSUME DiffInv, Diff!ValidateInputs, UNCHANGED <<pkg, target>>
    PROVE  DiffInv'
  <1> USE DEF Diff!ValidateInputs
  <1>1. DiffTypes'
    BY DEF DiffInv, DiffTypes, Diff!Components
  <1>2. DiffConflicts'
    BY DEF DiffInv, DiffConflicts, ConflictOK, Diff!Components
  <1>3. DiffBlocked'
    BY DEF DiffInv, DiffBlocked
  <1> QED
    BY <1>1, <1>2, <1>3 DEF DiffInv

LEMMA DiffCompare ==
    ASSUME DiffInv, Diff!CompareComponent, UNCHANGED <<pkg, target>>
    PROVE  DiffInv'
  <1> DEFINE c == Head(todo)
  <1>0. DiffTypes /\ DiffConflicts /\ DiffBlocked
    BY DEF DiffInv
  <1>1. /\ step = "compare" /\ todo # <<>> /\ todo' = Tail(todo)
        /\ conflicts' = conflicts \cup Diff!Found(c)
        /\ UNCHANGED <<step, blocked, changed>>
    BY DEF Diff!CompareComponent
  <1>2. todo \in Seq(Diff!Components) /\ c \in Diff!Components /\ todo' \in Seq(Diff!Components)
    BY <1>0, <1>1, HeadAndTail DEF DiffTypes
  <1>3. Diff!Components' = Diff!Components
    BY DEF Diff!Components
  <1>4. DiffTypes'
    BY <1>0, <1>1, <1>2, <1>3 DEF DiffTypes
  <1>5. \A x \in conflicts' : ConflictOK(x) /\ x.kind # "DependencyConflict"
    BY <1>0, <1>1, <1>2, ConflictsFound DEF DiffConflicts
  <1>6. DiffConflicts'
    BY <1>1, <1>3, <1>5 DEF DiffConflicts, ConflictOK
  <1>7. DiffBlocked'
    BY <1>1 DEF DiffBlocked
  <1> QED
    BY <1>4, <1>6, <1>7 DEF DiffInv

LEMMA DiffStart ==
    ASSUME DiffInv, Diff!StartDependencies, UNCHANGED <<pkg, target>>
    PROVE  DiffInv'
  <1>0. DiffTypes /\ DiffConflicts /\ DiffBlocked
    BY DEF DiffInv
  <1>1. /\ step = "compare" /\ step' = "dependencies" /\ todo' = Diff!SortedEdges
        /\ blocked' = BlockedNow /\ changed' = FALSE
        /\ UNCHANGED <<present, conflicts, used, backups>>
    BY DEF Diff!StartDependencies, BlockedNow
  <1>2. todo' \in Seq(Diff!RequiredEdges) /\ Sel!Range(todo') = Diff!RequiredEdges
    BY <1>0, <1>1, DiffEdgesListed DEF DiffTypes
  <1>3. Diff!Components' = Diff!Components /\ Diff!RequiredEdges' = Diff!RequiredEdges
    BY DEF Diff!Components, Diff!RequiredEdges
  <1>4. DiffTypes'
    BY <1>0, <1>1, <1>2, <1>3 DEF DiffTypes
  <1>5. DiffConflicts'
    BY <1>0, <1>1, <1>3 DEF DiffConflicts, ConflictOK
  <1>6. BlockedNow' = BlockedNow /\ Diff!Directly' = Diff!Directly
    BY <1>1 DEF BlockedNow, Diff!Directly
  <1>7. BlockedNow \subseteq Diff!Directly
    BY <1>0, <1>1 DEF BlockedNow, Diff!Directly, DiffConflicts
  <1>8. DiffBlocked'
    BY <1>1, <1>2, <1>3, <1>6, <1>7 DEF DiffBlocked
  <1> QED
    BY <1>4, <1>5, <1>8 DEF DiffInv

LEMMA DiffAdd ==
    ASSUME DiffInv, Diff!AddDependencyConflict, UNCHANGED <<pkg, target>>
    PROVE  DiffInv'
  <1> DEFINE e == Head(todo)
             x == Diff!Conflict(e.from, "DependencyConflict", <<"requires", e.to>>, "none")
  <1>0. DiffTypes /\ DiffConflicts /\ DiffBlocked
    BY DEF DiffInv
  <1>1. /\ step = "dependencies" /\ todo # <<>> /\ todo' = Tail(todo)
        /\ \/ /\ e.to \in blocked /\ conflicts' = conflicts \cup {x}
              /\ blocked' = blocked \cup {e.from}
              /\ changed' = (changed \/ e.from \notin blocked)
           \/ e.to \notin blocked /\ UNCHANGED <<conflicts, blocked, changed>>
        /\ UNCHANGED <<step, present, used, backups>>
    BY DEF Diff!AddDependencyConflict
  <1>2. /\ todo \in Seq(Diff!RequiredEdges) /\ e \in Diff!RequiredEdges
        /\ todo' \in Seq(Diff!RequiredEdges) /\ Sel!Range(todo) = {e} \cup Sel!Range(todo')
    BY <1>0, <1>1, HeadAndTail DEF DiffTypes
  <1>3. Diff!Components' = Diff!Components /\ Diff!RequiredEdges' = Diff!RequiredEdges
    BY DEF Diff!Components, Diff!RequiredEdges
  <1>4. e.from \in Diff!Components
    BY <1>0, <1>1, <1>2 DEF DiffTypes, Diff!RequiredEdges
  <1>5. ConflictOK(x) /\ x.kind = "DependencyConflict" /\ x.component = e.from /\ x.blocks
    BY <1>4, ConflictMade DEF Diff!Conflict, Diff!BlocksPlanning
  <1> HIDE DEF x, e
  <1>6. DiffTypes'
    BY <1>0, <1>1, <1>2, <1>3 DEF DiffTypes
  <1>7. DiffConflicts'
    BY <1>0, <1>1, <1>3, <1>5 DEF DiffConflicts, ConflictOK
  <1>8. Diff!Directly' = Diff!Directly
    BY <1>1, <1>5 DEF Diff!Directly
  <1>9. blocked' = BlockedNow'
    <2>1. CASE UNCHANGED <<conflicts, blocked>>
      BY <2>1, <1>0, <1>1 DEF DiffBlocked, BlockedNow
    <2>2. CASE conflicts' = conflicts \cup {x} /\ blocked' = blocked \cup {e.from}
      BY <2>2, <1>0, <1>1, <1>5 DEF DiffBlocked, BlockedNow
    <2> QED
      BY <2>1, <2>2, <1>1
  <1>10. ASSUME NEW S, Diff!Directly \subseteq S, ClosedUnderNeed(S)
         PROVE  blocked' \subseteq S
    BY <1>0, <1>1, <1>2, <1>10 DEF DiffBlocked, ClosedUnderNeed
  <1>11. ASSUME ~changed', NEW d \in Diff!RequiredEdges
         PROVE  d \in Sel!Range(todo') \/ (d.to \in blocked' => d.from \in blocked')
    <2>4. e.to \in blocked => ~changed /\ e.from \in blocked
      <3> SUFFICES ASSUME e.to \in blocked PROVE ~changed /\ e.from \in blocked
        OBVIOUS
      <3>1. changed' = (changed \/ e.from \notin blocked)
        BY <1>1
      <3> QED
        BY <3>1, <1>11, Zenon
    <2>5. e.to \notin blocked => ~changed
      <3> SUFFICES ASSUME e.to \notin blocked PROVE ~changed
        OBVIOUS
      <3>1. changed' = changed
        BY <1>1
      <3> QED
        BY <3>1, <1>11, Zenon
    <2>1. ~changed /\ (e.to \in blocked => e.from \in blocked)
      BY <2>4, <2>5, Zenon
    <2>2. blocked' = blocked
      BY <1>1, <2>1
    <2>3. d \in Sel!Range(todo) \/ (d.to \in blocked => d.from \in blocked)
      BY <1>0, <1>1, <2>1 DEF DiffBlocked
    <2> QED
      BY <1>2, <2>1, <2>2, <2>3
  <1>12. DiffBlocked'
    BY <1>1, <1>3, <1>8, <1>9, <1>10, <1>11 DEF DiffBlocked, ClosedUnderNeed
  <1> QED
    BY <1>6, <1>7, <1>12 DEF DiffInv

LEMMA DiffEnd ==
    ASSUME DiffInv, Diff!EndOfPass, UNCHANGED <<pkg, target>>
    PROVE  DiffInv'
  <1>0. DiffTypes /\ DiffConflicts /\ DiffBlocked
    BY DEF DiffInv
  <1>1. Diff!Components' = Diff!Components /\ Diff!RequiredEdges' = Diff!RequiredEdges
    BY DEF Diff!Components, Diff!RequiredEdges
  <1>2. /\ step = "dependencies" /\ todo = <<>>
        /\ UNCHANGED <<present, conflicts, blocked, used, backups>>
    BY DEF Diff!EndOfPass
  <1>3. /\ BlockedNow' = BlockedNow /\ Diff!Directly' = Diff!Directly
        /\ DiffConflicts'
    BY <1>0, <1>1, <1>2 DEF BlockedNow, Diff!Directly, DiffConflicts, ConflictOK, Diff!EndOfPass
  <1>4. CASE changed
    <2>1. todo' = Diff!SortedEdges /\ changed' = FALSE /\ step' = step
      BY <1>4 DEF Diff!EndOfPass
    <2>2. todo' \in Seq(Diff!RequiredEdges) /\ Sel!Range(todo') = Diff!RequiredEdges
      BY <1>0, <2>1, DiffEdgesListed DEF DiffTypes
    <2>3. DiffTypes'
      BY <1>0, <1>1, <1>2, <2>1, <2>2 DEF DiffTypes
    <2>4. DiffBlocked'
      BY <1>0, <1>1, <1>2, <1>3, <2>1, <2>2 DEF DiffBlocked, ClosedUnderNeed
    <2> QED
      BY <1>3, <2>3, <2>4 DEF DiffInv
  <1>5. CASE ~changed
    <2>1. step' = "compared" /\ UNCHANGED <<todo, changed>>
      BY <1>5 DEF Diff!EndOfPass
    <2>2. Sel!Range(todo) = {}
      BY <1>2 DEF Sel!Range
    <2>3. ClosedUnderNeed(blocked)
      BY <1>0, <1>2, <1>5, <2>2 DEF DiffBlocked, ClosedUnderNeed
    <2>4. DiffTypes'
      BY <1>0, <1>1, <1>2, <2>1 DEF DiffTypes
    <2>5. DiffBlocked'
      BY <1>0, <1>1, <1>2, <1>3, <2>1, <2>3 DEF DiffBlocked, ClosedUnderNeed
    <2> QED
      BY <1>3, <2>4, <2>5 DEF DiffInv
  <1> QED
    BY <1>0, <1>4, <1>5 DEF DiffTypes

LEMMA DiffStutter ==
    ASSUME DiffInv, UNCHANGED <<pkg, target, Diff!diffVars>>
    PROVE  DiffInv'
  <1> USE DEF Diff!diffVars
  <1>1. DiffTypes'
    BY DEF DiffInv, DiffTypes, Diff!Components, Diff!RequiredEdges
  <1>2. DiffConflicts'
    BY DEF DiffInv, DiffConflicts, ConflictOK, Diff!Components
  <1>3. DiffBlocked'
    BY DEF DiffInv, DiffBlocked, BlockedNow, Diff!Directly, ClosedUnderNeed, Diff!RequiredEdges
  <1> QED
    BY <1>1, <1>2, <1>3 DEF DiffInv

LEMMA DiffStepInv == DiffInv /\ (Diff!DiffNext \/ UNCHANGED <<pkg, target, Diff!diffVars>>) => DiffInv'
  BY DiffValidate, DiffCompare, DiffStart, DiffAdd, DiffEnd, DiffStutter
     DEF Diff!DiffNext, Diff!DiffStep

LEMMA DiffInvImplies ==
    ASSUME DiffInv
    PROVE  Diff!BlockedExactly /\ Diff!NoSilentChange /\ Diff!VersionOrderSound
  <1>0. DiffTypes /\ DiffConflicts /\ DiffBlocked
    BY DEF DiffInv
  <1>1. Diff!BlockedExactly
    <2> SUFFICES ASSUME step = "compared" PROVE Diff!BlockedExactly
      BY DEF Diff!BlockedExactly
    <2> DEFINE B == {c \in Diff!Components : Diff!Disposition(c) = "Blocked"}
    <2>1. B = blocked
      <3>1. \A c : Diff!Disposition(c) = "Blocked" <=> \E x \in Diff!ConflictsOf(c) : x.blocks
        BY DEF Diff!Disposition
      <3>2. \A c : c \in blocked <=> \E x \in Diff!ConflictsOf(c) : x.blocks
        BY <1>0 DEF DiffBlocked, BlockedNow, Diff!ConflictsOf
      <3>3. blocked \subseteq Diff!Components
        BY <1>0 DEF DiffBlocked, BlockedNow, DiffConflicts, ConflictOK
      <3> QED
        BY <3>1, <3>2, <3>3
    <2>2. Diff!Directly \subseteq blocked
      BY <1>0 DEF DiffBlocked, BlockedNow, Diff!Directly
    <2> HIDE DEF B
    <2>3. /\ Diff!Directly \subseteq B
          /\ \A e \in Diff!RequiredEdges : e.to \in B => e.from \in B
          /\ \A S \in SUBSET B :
                Diff!Directly \subseteq S /\ (\A e \in Diff!RequiredEdges : e.to \in S => e.from \in S)
                    => S = B
      BY <1>0, <2>1, <2>2 DEF DiffBlocked, ClosedUnderNeed
    <2> QED
      BY <2>3 DEF B, Diff!BlockedExactly
  <1>2. Diff!NoSilentChange
    BY <1>0 DEF Diff!NoSilentChange, Diff!Disposition, Diff!ConflictsOf, DiffConflicts, ConflictOK
  <1>3. Diff!VersionOrderSound
    <2> SUFFICES ASSUME NEW c \in Diff!Components, NEW i \in DOMAIN target.installed
                 PROVE  LET s == pkg.comp[c].version
                            t == target.installed[i].version
                            known == {s.kind, t.kind} = {"numeric"}
                            flip == [Same |-> "Same", TargetNewer |-> "TargetOlder",
                                     TargetOlder |-> "TargetNewer", DifferentUnknown |-> "DifferentUnknown"]
                        IN /\ known => Diff!VersionRelation(t, s) = flip[Diff!VersionRelation(s, t)]
                           /\ known /\ Diff!VersionRelation(s, t) = "Same"
                                => \A k \in 1..Diff!Max({Len(s.seg), Len(t.seg)}) :
                                      Diff!Segment(s, k) = Diff!Segment(t, k)
      BY DEF Diff!VersionOrderSound
    <2> DEFINE s == pkg.comp[c].version
               t == target.installed[i].version
    <2>1. Diff!VersionOK(s) /\ Diff!VersionOK(t)
      BY <1>0, DiffInputs DEF DiffTypes
    <2>2. {s.kind, t.kind} = {"numeric"} => s.kind = "numeric" /\ t.kind = "numeric"
      OBVIOUS
    <2> HIDE DEF s, t
    <2> QED
      BY <2>1, <2>2, VersionsCompared DEF s, t
  <1> QED
    BY <1>1, <1>2, <1>3

-----------------------------------------------------------------------------
(* Planner: the inductive invariant.                                       *)

PlEnd == {"emit", "planned"}
PlOrdered == {"overlaps"} \cup PlEnd
PlVerified == {"dependencies-first"} \cup PlOrdered
PlSeeded == {"build"} \cup PlVerified
PlClosed == {"seed"} \cup PlSeeded
PlSteps ==
    {"validate", "compare", "dependencies", "compared", "close"}
    \cup PlClosed \cup Plan!Errors

InstallKinds == {"EnsureRuntime", "InstallPackage", "SetUserEnvironment", "InstallVsCodeExtension"}

(* What is known of an operation, whoever added it.                        *)
OpOK(o) ==
    /\ specs[o] = [comp |-> specs[o].comp, pre |-> specs[o].pre]
    /\ Plan!Mutation(o) =>
          /\ o.comp \in selected
          /\ Plan!Disposition(o.comp) \in {"Install", "Merge"}
          /\ o.kind \in InstallKinds => Plan!Disposition(o.comp) = "Install"
          /\ confirmations[o.comp] \subseteq specs[o].pre
    /\ o.kind \in Plan!WriteKinds =>
          /\ o = Plan!Op(o.kind, o.comp, o.dest, o.object)
          /\ o.comp \in Nat /\ specs[o].comp = o.comp
          /\ o.dest \in Seq(Nat) /\ o.object \in Nat

(* A verification waits for the mutations of its component.                *)
VerifyOK(c, v) ==
    /\ v \in DOMAIN specs /\ v \in owned[c]
    /\ mutations[c] \subseteq specs[v].pre

PlanTypes ==
    /\ pkg \in PlanPackages /\ step \in PlSteps
    /\ step \in {"close"} \cup PlClosed => selected \subseteq Plan!Components
    /\ step = "build" => todo \in Seq(selected)
    /\ step \in {"validate", "compare", "dependencies", "compared", "close", "seed"} => order = <<>>
    /\ step \in PlSeeded \ PlEnd => order = <<>>

PlanGates ==
    /\ step \in PlClosed =>
          /\ \A x \in Plan!Relevant(conflicts) : ~x.blocks
          /\ \A c \in selected : pkg.comp[c].rules # {}
    /\ step \in PlSeeded =>
          \A c \in selected : \A x \in Plan!Relevant(conflicts) :
              x.component = c /\ x.confirm => Plan!ConflictAction(x) \in confirmations[c]

PlanOps ==
    /\ step \in PlSeeded => \A o \in DOMAIN specs : OpOK(o)
    /\ step = "build" => \A o \in DOMAIN specs : o.kind # "Verify"
    /\ step \in PlVerified => \A c \in selected : \A v \in Plan!VerifyOps(c) : VerifyOK(c, v)
    /\ step \in PlOrdered =>
          \A c \in selected : \A v \in Plan!VerifyOps(c) :
              \A p \in Plan!DependencyPairs : p[1] = c => readiness[p[2]] \subseteq specs[v].pre
    /\ step \in PlEnd =>
          \A o, p \in DOMAIN specs :
              /\ {o.kind, p.kind} \subseteq Plan!WriteKinds /\ o # p
              /\ Plan!PathsOverlap(p.dest, o.dest) /\ Plan!PathsOverlap(o.dest, p.dest)
              => o \in specs[p].pre \/ p \in specs[o].pre

(* What is emitted comes after all it waits for, and once.                 *)
PlanOrder ==
    step \in PlEnd =>
        /\ order \in Seq(DOMAIN specs)
        /\ \A i, j \in DOMAIN order : order[i] = order[j] => i = j
        /\ \A i \in DOMAIN order : \A p \in specs[order[i]].pre : \E j \in 1..(i - 1) : order[j] = p
        /\ step = "planned" => \A o \in DOMAIN specs : \E i \in DOMAIN order : order[i] = o

PlanInv == PlanTypes /\ PlanGates /\ PlanOps /\ PlanOrder

LEMMA PlanFinite ==
    ASSUME NEW S
    PROVE  Plan!Cardinality(S) = Cardinality(S) /\ (Plan!IsFiniteSet(S) <=> IsFiniteSet(S))
  BY DEF Plan!Cardinality, Cardinality, Plan!IsFiniteSet, IsFiniteSet

LEMMA PlanRange == \A f : Plan!Range(f) = Sel!Range(f)
  BY DEF Plan!Range, Sel!Range

LEMMA PlanSorted == \A S : Plan!Sorted(S) = Sel!Sorted(S)
  BY PlanRange, PlanFinite, SelFinite DEF Plan!Sorted, Plan!Ordered, Sel!Sorted, Sel!Ordered

LEMMA PlanInputs ==
    ASSUME pkg \in PlanPackages
    PROVE  /\ Plan!Components \subseteq Nat /\ IsFiniteSet(Plan!Components)
           /\ \A a \in Plan!Artifacts : pkg.art[a].path \in Seq(Nat) /\ pkg.art[a].object \in Nat
  <1>1. Plan!PackageOK(pkg) /\ Plan!PlannableOK(pkg)
    BY PlannerAssumption DEF Plan!PlannerAssumption, Plan!PlannableOK
  <1> QED
    BY <1>1, PlanFinite DEF Plan!PackageOK, Plan!PlannableOK, Plan!Components, Plan!Artifacts

LEMMA PlanInitInv == Plan!PlannerInit => PlanInv
  <1> SUFFICES ASSUME Plan!PlannerInit PROVE PlanInv
    OBVIOUS
  <1>1. pkg \in PlanPackages /\ step = "validate" /\ order = <<>>
    BY DEF Plan!PlannerInit, Plan!DiffInit, Plan!InputInit
  <1> USE DEF PlSteps, PlClosed, PlSeeded, PlVerified, PlOrdered, PlEnd
  <1> QED
    BY <1>1 DEF PlanInv, PlanTypes, PlanGates, PlanOps, PlanOrder

(* The comparison leaves the planner's own state alone.                    *)
LEMMA PlanDiff ==
    ASSUME PlanInv, Plan!DiffStep, UNCHANGED Plan!planVars, UNCHANGED <<pkg, target>>
    PROVE  PlanInv'
  <1> USE DEF PlSteps, PlClosed, PlSeeded, PlVerified, PlOrdered, PlEnd
  <1>1. /\ step \in {"validate", "compare", "dependencies"}
        /\ step' \in {"validate", "compare", "dependencies", "compared", "SchemaInvalid"}
    BY DEF Plan!DiffStep, Plan!ValidateInputs, Plan!CompareComponent, Plan!StartDependencies,
           Plan!AddDependencyConflict, Plan!EndOfPass
  <1>2. order' = <<>>
    BY <1>1 DEF PlanInv, PlanTypes, Plan!planVars
  <1>3. PlanTypes'
    BY <1>1, <1>2 DEF PlanInv, PlanTypes, Plan!Errors
  <1>4. PlanGates' /\ PlanOps' /\ PlanOrder'
    BY <1>1 DEF PlanGates, PlanOps, PlanOrder
  <1> QED
    BY <1>3, <1>4 DEF PlanInv

(* An error ends the planning.                                             *)
LEMMA PlanFail ==
    ASSUME PlanInv, step' \in Plan!Errors, UNCHANGED <<pkg, target>>
    PROVE  PlanInv'
  <1> USE DEF PlSteps, PlClosed, PlSeeded, PlVerified, PlOrdered, PlEnd
  <1>1. step' \notin {"close", "build", "validate", "compare", "dependencies", "compared"} \cup PlClosed
    BY DEF Plan!Errors
  <1>2. PlanTypes'
    BY <1>1 DEF PlanInv, PlanTypes
  <1>3. PlanGates' /\ PlanOps' /\ PlanOrder'
    BY <1>1 DEF PlanGates, PlanOps, PlanOrder
  <1> QED
    BY <1>2, <1>3 DEF PlanInv

LEMMA PlanApprove ==
    ASSUME PlanInv, Plan!Approve, UNCHANGED <<pkg, target>>
    PROVE  PlanInv'
  <1> USE DEF PlSteps, PlClosed, PlSeeded, PlVerified, PlOrdered, PlEnd
  <1>1. CASE step' \in Plan!Errors
    BY <1>1, PlanFail
  <1>2. CASE step' \notin Plan!Errors
    <2>1. /\ step = "compared" /\ step' = "close" /\ selected' = selection.components
          /\ selection.components \subseteq Plan!Components /\ order' = order
      BY <1>2 DEF Plan!Approve, Plan!Fail, Plan!Errors
    <2>2. PlanTypes'
      BY <2>1 DEF PlanInv, PlanTypes, Plan!Components
    <2>3. PlanGates' /\ PlanOps' /\ PlanOrder'
      BY <2>1 DEF PlanGates, PlanOps, PlanOrder
    <2> QED
      BY <2>2, <2>3 DEF PlanInv
  <1> QED
    BY <1>1, <1>2

LEMMA PlanClose ==
    ASSUME PlanInv, Plan!CloseSelection, UNCHANGED <<pkg, target>>
    PROVE  PlanInv'
  <1> USE DEF PlSteps, PlClosed, PlSeeded, PlVerified, PlOrdered, PlEnd
  <1>1. CASE step' \in Plan!Errors
    BY <1>1, PlanFail
  <1>2. CASE step' \notin Plan!Errors
    <2>1. /\ step = "close" /\ step' = "close" /\ order' = order
          /\ \E needs : selected' = selected \cup needs /\ needs \subseteq Plan!Components
      BY <1>2 DEF Plan!CloseSelection, Plan!Fail, Plan!Errors
    <2>2. PlanTypes'
      BY <2>1 DEF PlanInv, PlanTypes, Plan!Components
    <2>3. PlanGates' /\ PlanOps' /\ PlanOrder'
      BY <2>1 DEF PlanGates, PlanOps, PlanOrder
    <2> QED
      BY <2>2, <2>3 DEF PlanInv
  <1> QED
    BY <1>1, <1>2

LEMMA PlanEndOfClosure ==
    ASSUME PlanInv, Plan!EndOfClosure, UNCHANGED <<pkg, target, conflicts>>
    PROVE  PlanInv'
  <1> USE DEF PlSteps, PlClosed, PlSeeded, PlVerified, PlOrdered, PlEnd
  <1>1. CASE step' \in Plan!Errors
    BY <1>1, PlanFail
  <1>2. CASE step' \notin Plan!Errors
    <2>1. /\ step = "close" /\ step' = "seed" /\ ~Plan!TargetBlocks /\ Plan!ClosureError = "none"
          /\ UNCHANGED <<selected, order>>
      BY <1>2 DEF Plan!EndOfClosure, Plan!Errors, Plan!ClosureError
    <2>2. PlanTypes'
      BY <2>1 DEF PlanInv, PlanTypes, Plan!Components
    <2>3. \A x \in Plan!Relevant(conflicts) : ~x.blocks
      BY <2>1 DEF Plan!TargetBlocks
    <2>4. \A c \in selected : pkg.comp[c].rules # {}
      BY <2>1 DEF Plan!ClosureError
    <2>5. PlanGates'
      BY <2>1, <2>3, <2>4 DEF PlanGates, Plan!Relevant
    <2>6. PlanOps' /\ PlanOrder'
      BY <2>1 DEF PlanOps, PlanOrder
    <2> QED
      BY <2>2, <2>5, <2>6 DEF PlanInv
  <1> QED
    BY <1>1, <1>2

LEMMA ManualOps ==
    ASSUME NEW c, NEW r, NEW n
    PROVE  Plan!Manual(c, r, n).kind = "OpenManualAction" /\ Plan!Manual(c, r, n).comp = c
  BY DEF Plan!Manual, Plan!Op

LEMMA PlanSeed ==
    ASSUME PlanInv, Plan!SeedConfirmations, UNCHANGED <<pkg, target, conflicts, present>>
    PROVE  PlanInv'
  <1> USE DEF PlSteps, PlClosed, PlSeeded, PlVerified, PlOrdered, PlEnd
  <1> DEFINE global == IF Plan!Evaluate(PayloadBytes).confirmations = {} THEN {} ELSE {Plan!GlobalAction}
             byConflict == {Plan!ConflictAction(x) : x \in Plan!Unconfirmed}
             comp(o) == IF o.comp = 0 THEN Plan!Min(selected) ELSE o.comp
  <1>1. CASE step' \in Plan!Errors
    BY <1>1, PlanFail
  <1>2. CASE step' \notin Plan!Errors
    <2>1. /\ step = "seed" /\ step' = "build" /\ todo' = Plan!Sorted(selected)
          /\ specs' = [o \in global \cup byConflict |-> [comp |-> comp(o), pre |-> {}]]
          /\ confirmations' = [c \in selected |-> global \cup {o \in byConflict : o.comp = c}]
          /\ UNCHANGED <<selected, order>>
      BY <1>2 DEF Plan!SeedConfirmations, Plan!Fail, Plan!Errors
    <2>2. selected \subseteq Plan!Components /\ Plan!Components \subseteq Nat /\ IsFiniteSet(selected)
      BY <2>1, PlanInputs, FS_Subset DEF PlanInv, PlanTypes
    <2>3. todo' \in Seq(selected)
      BY <2>1, <2>2, PlanSorted, SortedListing
    <2>4. PlanTypes'
      BY <2>1, <2>3 DEF PlanInv, PlanTypes, Plan!Components
    <2>5. \A o \in global \cup byConflict : o.kind = "OpenManualAction"
      <3>1. Plan!GlobalAction.kind = "OpenManualAction"
        BY ManualOps DEF Plan!GlobalAction
      <3>2. \A x : Plan!ConflictAction(x).kind = "OpenManualAction"
        BY ManualOps DEF Plan!ConflictAction
      <3> QED
        BY <3>1, <3>2
    <2>6. \A x : Plan!ConflictAction(x).comp = x.component
      BY DEF Plan!ConflictAction, Plan!Manual, Plan!Op
    <2>7. ASSUME NEW c \in selected, NEW x \in Plan!Relevant(conflicts), x.component = c, x.confirm
          PROVE  Plan!ConflictAction(x) \in confirmations'[c]
      <3>1. Plan!ConflictAction(x) \in byConflict
        BY <2>7 DEF Plan!Unconfirmed
      <3> HIDE DEF byConflict, global
      <3> QED
        BY <3>1, <2>1, <2>6, <2>7
    <2> HIDE DEF byConflict, global, comp
    <2>8. \A x : Plan!ConflictAction(x)' = Plan!ConflictAction(x)
      BY DEF Plan!ConflictAction, Plan!Manual, Plan!Op, Plan!IndexOf, Plan!ConflictKinds, Plan!ByConflict
    <2>9. PlanGates'
      BY <2>1, <2>7, <2>8 DEF PlanInv, PlanGates, Plan!Relevant
    <2>10. \A o \in DOMAIN specs' : OpOK(o)' /\ o.kind # "Verify"
      BY <2>1, <2>5 DEF OpOK, Plan!Mutation, Plan!WriteKinds
    <2>11. PlanOps' /\ PlanOrder'
      BY <2>1, <2>10 DEF PlanOps, PlanOrder
    <2> QED
      BY <2>4, <2>9, <2>11 DEF PlanInv
  <1> QED
    BY <1>1, <1>2

(* The operations of a component belong to it; its mutations follow from   *)
(* a disposition that allows them.                                         *)
LEMMA ArtifactOps ==
    ASSUME pkg \in PlanPackages, NEW c, NEW a \in Plan!ArtifactsOf(c)
    PROVE  LET o == Plan!ArtifactOperation(c, a) IN
           /\ o.comp = c /\ o.kind \notin InstallKinds \cup {"Verify", "EnsureProvider"}
           /\ o.kind \in Plan!WriteKinds =>
                 /\ o = Plan!Op(o.kind, o.comp, o.dest, o.object)
                 /\ o.dest \in Seq(Nat) /\ o.object \in Nat
  <1> DEFINE r == pkg.art[a]
             o == Plan!ArtifactOperation(c, a)
  <1>1. r.path \in Seq(Nat) /\ r.object \in Nat
    BY PlanInputs DEF Plan!ArtifactsOf
  <1>2. \/ o = Plan!Manual(c, Plan!ByArtifact, <<a>>)
        \/ Plan!Special(c, a) # "none" /\ o = Plan!Op(Plan!Special(c, a), c, <<c>>, r.object)
        \/ \E k \in {"MergeJson", "MergeToml", "WriteFile"} : o = Plan!Op(k, c, r.path, r.object)
    BY DEF Plan!ArtifactOperation
  <1>3. Plan!Special(c, a) \in {"none", "ImportWsl", "RestoreDockerImage", "RestoreDockerVolume"}
    BY DEF Plan!Special
  <1>4. CASE o = Plan!Manual(c, Plan!ByArtifact, <<a>>)
    <2> HIDE DEF o
    <2> QED
      BY <1>4, ManualOps DEF InstallKinds, Plan!WriteKinds, o
  <1>5. CASE Plan!Special(c, a) # "none" /\ o = Plan!Op(Plan!Special(c, a), c, <<c>>, r.object)
    <2>1. o.comp = c /\ o.kind = Plan!Special(c, a)
      BY <1>5 DEF Plan!Op
    <2> HIDE DEF o
    <2> QED
      BY <1>3, <1>5, <2>1 DEF InstallKinds, Plan!WriteKinds, o
  <1>6. CASE \E k \in {"MergeJson", "MergeToml", "WriteFile"} : o = Plan!Op(k, c, r.path, r.object)
    <2>1. PICK k \in {"MergeJson", "MergeToml", "WriteFile"} : o = Plan!Op(k, c, r.path, r.object)
      BY <1>6
    <2>2. o.kind = k /\ o.comp = c /\ o.dest = r.path /\ o.object = r.object
      BY <2>1 DEF Plan!Op
    <2> HIDE DEF o, r
    <2> QED
      BY <1>1, <2>1, <2>2 DEF InstallKinds, Plan!WriteKinds, o
  <1> QED
    BY <1>2, <1>4, <1>5, <1>6

LEMMA PrimaryOps ==
    ASSUME NEW c, NEW o \in Plan!PrimaryOperation(c)
    PROVE  /\ o.comp = c /\ o.kind \notin Plan!WriteKinds \cup {"Verify", "EnsureProvider"}
           /\ Plan!Disposition(c) = "Install"
  <1>1. /\ Plan!Disposition(c) = "Install"
        /\ \E k \in InstallKinds : o = Plan!Op(k, c, <<c>>, 0)
    BY DEF Plan!PrimaryOperation, InstallKinds
  <1> QED
    BY <1>1 DEF Plan!Op, InstallKinds, Plan!WriteKinds

LEMMA BuiltOps ==
    ASSUME pkg \in PlanPackages, NEW c,
           \A x \in Plan!ConflictsOf(c) : ~x.blocks,
           NEW o \in Plan!Built(c).ops
    PROVE  /\ o.comp = c /\ o.kind # "Verify"
           /\ Plan!Mutation(o) => Plan!Disposition(c) \in {"Install", "Merge"}
           /\ Plan!Mutation(o) /\ o.kind \in InstallKinds => Plan!Disposition(c) = "Install"
           /\ o.kind \in Plan!WriteKinds =>
                 /\ o = Plan!Op(o.kind, o.comp, o.dest, o.object)
                 /\ o.dest \in Seq(Nat) /\ o.object \in Nat
  <1> DEFINE byArtifact == {Plan!ArtifactOperation(c, a) : a \in Plan!SelectedArtifacts(c)}
             manual == {Plan!Manual(c, r, <<>>) : r \in {Plan!ByComponent, Plan!ByUnsupported, Plan!ByReauth}}
             mcp == Plan!Op("RegisterMcp", c, <<c>>, 0)
  <1>1. Plan!Disposition(c) \in {"Manual", "PreserveTarget", "Merge", "Install", "Skip"}
    BY DEF Plan!Disposition
  <1>2. \/ o \in manual
        \/ /\ Plan!Disposition(c) \notin {"Skip", "PreserveTarget", "Manual"}
           /\ o \in Plan!PrimaryOperation(c) \cup byArtifact \cup {mcp}
    BY DEF Plan!Built, Plan!RequiresManual
  <1>3. CASE o \in manual
    <2>1. o.kind = "OpenManualAction" /\ o.comp = c
      BY <1>3, ManualOps
    <2> QED
      BY <2>1 DEF Plan!Mutation, Plan!WriteKinds
  <1>4. CASE o \in Plan!PrimaryOperation(c)
    BY <1>4, PrimaryOps
  <1>5. CASE o = mcp
    <2>1. o.kind = "RegisterMcp" /\ o.comp = c
      BY <1>5 DEF Plan!Op
    <2>2. Plan!Disposition(c) \in {"Install", "Merge"} \/ o \in manual
      BY <1>1, <1>2
    <2> QED
      BY <1>3, <2>1, <2>2 DEF Plan!WriteKinds, InstallKinds
  <1>6. CASE o \in byArtifact
    <2>1. PICK a \in Plan!SelectedArtifacts(c) : o = Plan!ArtifactOperation(c, a)
      BY <1>6
    <2>2. a \in Plan!ArtifactsOf(c)
      BY DEF Plan!SelectedArtifacts
    <2>3. /\ o.comp = c /\ o.kind \notin InstallKinds \cup {"Verify", "EnsureProvider"}
          /\ o.kind \in Plan!WriteKinds =>
                 /\ o = Plan!Op(o.kind, o.comp, o.dest, o.object)
                 /\ o.dest \in Seq(Nat) /\ o.object \in Nat
      BY <2>1, <2>2, ArtifactOps
    <2>4. Plan!Disposition(c) \in {"Install", "Merge"} \/ o \in manual
      BY <1>1, <1>2
    <2> HIDE DEF manual
    <2> QED
      BY <1>3, <2>3, <2>4
  <1> QED
    BY <1>2, <1>3, <1>4, <1>5, <1>6

LEMMA PlanBuild ==
    ASSUME PlanInv, Plan!BuildComponentOperations, UNCHANGED <<pkg, target, conflicts, present>>
    PROVE  PlanInv'
  <1> USE DEF PlSteps, PlClosed, PlSeeded, PlVerified, PlOrdered, PlEnd
  <1> DEFINE c == Head(todo)
             new == Plan!Built(c).ops
             providers == {p \in UNION {Plan!Prerequisites(c, o) : o \in new} : p.kind = "EnsureProvider"}
             g == [o \in new |-> [comp |-> c, pre |-> Plan!Prerequisites(c, o)]]
             h == [o \in providers |-> [comp |-> c, pre |-> {}]]
  <1>1. CASE step' \in Plan!Errors
    BY <1>1, PlanFail
  <1>2. CASE step' \notin Plan!Errors
    <2>1. /\ step = "build" /\ todo # <<>> /\ step' = "build" /\ todo' = Tail(todo)
          /\ specs' = Plan!OrInsert(Plan!OrInsert(specs, g), h)
          /\ UNCHANGED <<selected, confirmations, order>>
      BY <1>2 DEF Plan!BuildComponentOperations, Plan!Fail, Plan!Errors
    <2>2. c \in selected /\ todo' \in Seq(selected)
      BY <2>1, HeadAndTail DEF PlanInv, PlanTypes
    <2>3. PlanTypes'
      BY <2>1, <2>2 DEF PlanInv, PlanTypes, Plan!Components
    <2>4. PlanGates'
      BY <2>1 DEF PlanInv, PlanGates, Plan!Relevant, Plan!ConflictAction
    <2>5. \A x \in Plan!ConflictsOf(c) : ~x.blocks
      BY <2>1, <2>2 DEF PlanInv, PlanGates, Plan!Relevant, Plan!ConflictsOf
    <2>6. pkg \in PlanPackages /\ c \in Nat
      BY <2>1, <2>2, PlanInputs DEF PlanInv, PlanTypes
    <2>7. \A o : Plan!Disposition(o)' = Plan!Disposition(o)
      BY DEF Plan!Disposition, Plan!ConflictsOf
    <2>20. /\ DOMAIN specs' = DOMAIN specs \cup new \cup providers
           /\ \A o \in DOMAIN specs : specs'[o] = specs[o]
           /\ \A o \in new \ DOMAIN specs : specs'[o] = [comp |-> c, pre |-> Plan!Prerequisites(c, o)]
           /\ \A o \in providers \ (DOMAIN specs \cup new) : specs'[o] = [comp |-> c, pre |-> {}]
      <3>1. DOMAIN g = new /\ \A o \in new : g[o] = [comp |-> c, pre |-> Plan!Prerequisites(c, o)]
        OBVIOUS
      <3>2. DOMAIN h = providers /\ \A o \in providers : h[o] = [comp |-> c, pre |-> {}]
        OBVIOUS
      <3> HIDE DEF g, h, new, providers, c
      <3>3. PICK m : m = Plan!OrInsert(specs, g)
        OBVIOUS
      <3>4. /\ DOMAIN m = DOMAIN specs \cup DOMAIN g
            /\ \A x \in DOMAIN specs : m[x] = specs[x]
            /\ \A x \in DOMAIN g \ DOMAIN specs : m[x] = g[x]
        BY <3>3 DEF Plan!OrInsert
      <3>5. /\ DOMAIN specs' = DOMAIN m \cup DOMAIN h
            /\ \A x \in DOMAIN m : specs'[x] = m[x]
            /\ \A x \in DOMAIN h \ DOMAIN m : specs'[x] = h[x]
        <4>1. specs' = Plan!OrInsert(m, h)
          BY <3>3, <2>1, Zenon
        <4> QED
          BY <4>1 DEF Plan!OrInsert
      <3> QED
        BY <3>1, <3>2, <3>4, <3>5
    <2>8. ASSUME NEW o \in DOMAIN specs
          PROVE  o \in DOMAIN specs' /\ specs'[o] = specs[o] /\ OpOK(o)' /\ o.kind # "Verify"
      <3>1. o \in DOMAIN specs' /\ specs'[o] = specs[o]
        <4> HIDE DEF new, providers, c
        <4> QED
          BY <2>20
      <3>2. OpOK(o) /\ o.kind # "Verify"
        BY <2>1 DEF PlanInv, PlanOps
      <3> QED
        BY <3>1, <3>2, <2>1, <2>7 DEF OpOK, Plan!Mutation, Plan!WriteKinds, Plan!Op
    <2>9. ASSUME NEW o \in new \ DOMAIN specs
          PROVE  OpOK(o)' /\ o.kind # "Verify"
      <3>1. specs'[o] = [comp |-> c, pre |-> Plan!Prerequisites(c, o)]
        <4> HIDE DEF new, providers, c
        <4> QED
          BY <2>20
      <3>2. /\ o.comp = c /\ o.kind # "Verify"
            /\ Plan!Mutation(o) => Plan!Disposition(c) \in {"Install", "Merge"}
            /\ Plan!Mutation(o) /\ o.kind \in InstallKinds => Plan!Disposition(c) = "Install"
            /\ o.kind \in Plan!WriteKinds =>
                 /\ o = Plan!Op(o.kind, o.comp, o.dest, o.object)
                 /\ o.dest \in Seq(Nat) /\ o.object \in Nat
        BY <2>5, <2>6, BuiltOps
      <3>3. Plan!Mutation(o) => confirmations[c] \subseteq Plan!Prerequisites(c, o)
        BY DEF Plan!Mutation, Plan!Prerequisites, Plan!ConfirmationPrerequisites
      <3> HIDE DEF c, new, g, h, providers
      <3>4. (Plan!Mutation(o) <=> Plan!Mutation(o)') /\ Plan!WriteKinds' = Plan!WriteKinds
        BY DEF Plan!Mutation, Plan!WriteKinds
      <3>5. specs'[o].comp = c /\ specs'[o].pre = Plan!Prerequisites(c, o)
        BY <3>1
      <3>6. OpOK(o)'
        BY <3>1, <3>2, <3>3, <3>4, <3>5, <2>1, <2>2, <2>6, <2>7 DEF OpOK, Plan!Op
      <3> QED
        BY <3>2, <3>6
    <2>10. ASSUME NEW o \in providers \ (DOMAIN specs \cup new)
           PROVE  OpOK(o)' /\ o.kind # "Verify"
      <3>1. o.kind = "EnsureProvider"
        OBVIOUS
      <3> HIDE DEF new, providers, c
      <3>2. specs'[o] = [comp |-> c, pre |-> {}]
        BY <2>20
      <3> QED
        BY <3>1, <3>2 DEF OpOK, Plan!Mutation, Plan!WriteKinds
    <2> HIDE DEF new, providers, c, g, h
    <2>12. \A o \in DOMAIN specs' : OpOK(o)' /\ o.kind # "Verify"
      BY <2>8, <2>9, <2>10, <2>20
    <2>13. PlanOps' /\ PlanOrder'
      BY <2>1, <2>12 DEF PlanOps, PlanOrder
    <2> QED
      BY <2>3, <2>4, <2>13 DEF PlanInv
  <1> QED
    BY <1>1, <1>2

(* What the later steps leave as it is.                                    *)
LEMMA PlanKeepGates ==
    ASSUME PlanInv, step \in PlSeeded, UNCHANGED <<pkg, conflicts, selected, confirmations>>
    PROVE  PlanGates'
  <1>1. \A x : Plan!ConflictAction(x)' = Plan!ConflictAction(x)
    BY DEF Plan!ConflictAction, Plan!Manual, Plan!Op, Plan!IndexOf, Plan!ConflictKinds, Plan!ByConflict
  <1>2. step \in PlClosed
    BY DEF PlClosed
  <1> QED
    BY <1>1, <1>2 DEF PlanInv, PlanGates, Plan!Relevant

LEMMA OpKept ==
    ASSUME NEW o, OpOK(o), UNCHANGED <<pkg, target, conflicts, present, selected, confirmations>>,
           NEW X, specs'[o] = [comp |-> specs[o].comp, pre |-> specs[o].pre \cup X]
    PROVE  OpOK(o)'
  <1>1. Plan!Disposition(o.comp)' = Plan!Disposition(o.comp)
    BY DEF Plan!Disposition, Plan!ConflictsOf
  <1>2. (Plan!Mutation(o) <=> Plan!Mutation(o)') /\ Plan!WriteKinds' = Plan!WriteKinds
    BY DEF Plan!Mutation, Plan!WriteKinds
  <1>3. specs'[o].comp = specs[o].comp /\ specs'[o].pre = specs[o].pre \cup X
    OBVIOUS
  <1>4. Plan!Op(o.kind, o.comp, o.dest, o.object)' = Plan!Op(o.kind, o.comp, o.dest, o.object)
    BY DEF Plan!Op
  <1> QED
    BY <1>1, <1>2, <1>3, <1>4 DEF OpOK

LEMMA PlanVerify ==
    ASSUME PlanInv, Plan!AddVerificationOperations, UNCHANGED <<pkg, target, conflicts, present>>
    PROVE  PlanInv'
  <1> USE DEF PlSteps, PlClosed, PlSeeded, PlVerified, PlOrdered, PlEnd
  <1> DEFINE new == UNION {Plan!VerifyOps(c) : c \in selected}
             g == [o \in new |-> [comp |-> o.comp, pre |-> Plan!VerifyPrerequisites(o.comp)]]
  <1>1. /\ step = "build" /\ step' = "dependencies-first"
        /\ owned' = [c \in selected |-> owned[c] \cup Plan!VerifyOps(c)]
        /\ specs' = Plan!OrInsert(specs, g)
        /\ UNCHANGED <<selected, confirmations, mutations, order>>
    BY DEF Plan!AddVerificationOperations
  <1>2. PlanTypes'
    BY <1>1 DEF PlanInv, PlanTypes, Plan!Components
  <1>3. PlanGates'
    BY <1>1, PlanKeepGates
  <1>4. \A c : \A v \in Plan!VerifyOps(c) : v.kind = "Verify" /\ v.comp = c
    BY DEF Plan!VerifyOps, Plan!Op
  <1>5. \A o \in DOMAIN specs : o.kind # "Verify" /\ OpOK(o)
    BY <1>1 DEF PlanInv, PlanOps
  <1>6. /\ DOMAIN specs' = DOMAIN specs \cup new
        /\ \A o \in DOMAIN specs : specs'[o] = specs[o]
        /\ \A o \in new \ DOMAIN specs : specs'[o] = [comp |-> o.comp, pre |-> mutations[o.comp]]
    <2>1. DOMAIN g = new /\ \A o \in new : g[o] = [comp |-> o.comp, pre |-> mutations[o.comp]]
      BY DEF Plan!VerifyPrerequisites
    <2> HIDE DEF g, new
    <2>2. /\ DOMAIN specs' = DOMAIN specs \cup DOMAIN g
          /\ \A x \in DOMAIN specs : specs'[x] = specs[x]
          /\ \A x \in DOMAIN g \ DOMAIN specs : specs'[x] = g[x]
      BY <1>1 DEF Plan!OrInsert
    <2> QED
      BY <2>1, <2>2
  <1>7. \A o \in new : o.kind = "Verify"
    BY <1>4
  <1>8. \A c : Plan!VerifyOps(c)' = Plan!VerifyOps(c)
    BY DEF Plan!VerifyOps, Plan!Op
  <1>9. ASSUME NEW c \in selected, NEW v \in Plan!VerifyOps(c) PROVE VerifyOK(c, v)'
    <2>1. v \in new /\ v \notin DOMAIN specs /\ v.comp = c
      BY <1>4, <1>5
    <2>2. v \in DOMAIN specs' /\ specs'[v].pre = mutations[c]
      <3> HIDE DEF new
      <3> QED
        BY <1>6, <2>1
    <2>3. v \in owned'[c]
      BY <1>1
    <2> QED
      BY <1>1, <2>2, <2>3 DEF VerifyOK
  <1> HIDE DEF new
  <1>10. ASSUME NEW o \in DOMAIN specs' PROVE OpOK(o)'
    <2>1. CASE o \in DOMAIN specs
      <3>1. specs'[o] = [comp |-> specs[o].comp, pre |-> specs[o].pre \cup {}]
        <4>1. specs'[o] = specs[o] /\ specs[o] = [comp |-> specs[o].comp, pre |-> specs[o].pre]
          BY <1>5, <1>6, <2>1 DEF OpOK
        <4>2. specs[o].pre \cup {} = specs[o].pre
          OBVIOUS
        <4> QED
          BY <4>1, <4>2
      <3> QED
        BY <1>1, <1>5, <2>1, <3>1, OpKept
    <2>2. CASE o \in new \ DOMAIN specs
      <3>1. specs'[o] = [comp |-> o.comp, pre |-> mutations[o.comp]] /\ o.kind = "Verify"
        BY <1>6, <1>7, <2>2
      <3> QED
        BY <3>1 DEF OpOK, Plan!Mutation, Plan!WriteKinds
    <2> QED
      BY <1>6, <2>1, <2>2
  <1>11. PlanOps'
    BY <1>1, <1>8, <1>9, <1>10 DEF PlanOps
  <1>12. PlanOrder'
    BY <1>1 DEF PlanOrder
  <1> QED
    BY <1>2, <1>3, <1>11, <1>12 DEF PlanInv

LEMMA PreExtended ==
    ASSUME NEW a, NEW b, NEW X
    PROVE  [[comp |-> a, pre |-> b] EXCEPT !.pre = @ \cup X] = [comp |-> a, pre |-> b \cup X]
  OBVIOUS

LEMMA PlanDependencies ==
    ASSUME PlanInv, Plan!AddDependencyPrerequisites, UNCHANGED <<pkg, target, conflicts, present>>
    PROVE  PlanInv'
  <1> USE DEF PlSteps, PlClosed, PlSeeded, PlVerified, PlOrdered, PlEnd
  <1> DEFINE added(o) == UNION {readiness[p[2]] : p \in {q \in Plan!DependencyPairs : o \in owned[q[1]]}}
  <1>1. CASE step' \in Plan!Errors
    BY <1>1, PlanFail
  <1>2. CASE step' \notin Plan!Errors
    <2>1. /\ step = "dependencies-first" /\ step' = "overlaps"
          /\ specs' = [o \in DOMAIN specs |-> [specs[o] EXCEPT !.pre = @ \cup added(o)]]
          /\ UNCHANGED <<selected, confirmations, mutations, readiness, owned, order>>
      BY <1>2 DEF Plan!AddDependencyPrerequisites, Plan!Errors
    <2>2. PlanTypes'
      BY <2>1 DEF PlanInv, PlanTypes, Plan!Components
    <2>3. PlanGates'
      BY <2>1, PlanKeepGates
    <2>4. \A o \in DOMAIN specs : OpOK(o)
      BY <2>1 DEF PlanInv, PlanOps
    <2>5. \A c \in selected : \A v \in Plan!VerifyOps(c) : VerifyOK(c, v)
      BY <2>1 DEF PlanInv, PlanOps
    <2>6. \A c : Plan!VerifyOps(c)' = Plan!VerifyOps(c)
      BY DEF Plan!VerifyOps, Plan!Op
    <2>7. Plan!DependencyPairs' = Plan!DependencyPairs
      BY <2>1 DEF Plan!DependencyPairs, Plan!RuntimeNeeds, Plan!McpNeeds
    <2>8. \A v : \A p \in Plan!DependencyPairs : v \in owned[p[1]] => readiness[p[2]] \subseteq added(v)
      OBVIOUS
    <2> HIDE DEF added
    <2>9. DOMAIN specs' = DOMAIN specs
      BY <2>1
    <2>10. ASSUME NEW o \in DOMAIN specs
           PROVE  /\ specs'[o] = [comp |-> specs[o].comp, pre |-> specs[o].pre \cup added(o)]
                  /\ specs'[o].pre = specs[o].pre \cup added(o)
      <3>1. specs'[o] = [specs[o] EXCEPT !.pre = @ \cup added(o)]
        BY <2>1
      <3>2. specs[o] = [comp |-> specs[o].comp, pre |-> specs[o].pre]
        BY <2>4 DEF OpOK
      <3>3. PICK X : X = added(o)
        OBVIOUS
      <3>4. [specs[o] EXCEPT !.pre = @ \cup X] = [comp |-> specs[o].comp, pre |-> specs[o].pre \cup X]
        BY <3>2
      <3> QED
        BY <3>1, <3>3, <3>4
    <2>11. \A o \in DOMAIN specs : specs'[o].pre = specs[o].pre \cup added(o)
      BY <2>10
    <2>12. \A o \in DOMAIN specs' : OpOK(o)'
      BY <2>1, <2>4, <2>9, <2>10, OpKept
    <2>13. ASSUME NEW c \in selected, NEW v \in Plan!VerifyOps(c)
           PROVE  /\ VerifyOK(c, v)'
                  /\ \A p \in Plan!DependencyPairs : p[1] = c => readiness[p[2]] \subseteq specs'[v].pre
      <3>1. v \in DOMAIN specs /\ v \in owned[c] /\ mutations[c] \subseteq specs[v].pre
        BY <2>5 DEF VerifyOK
      <3> QED
        BY <3>1, <2>1, <2>8, <2>9, <2>11 DEF VerifyOK
    <2>14. PlanOps'
      BY <2>1, <2>6, <2>7, <2>12, <2>13 DEF PlanOps
    <2>15. PlanOrder'
      BY <2>1 DEF PlanOrder
    <2> QED
      BY <2>2, <2>3, <2>14, <2>15 DEF PlanInv
  <1> QED
    BY <1>1, <1>2

LEMMA SameSequence ==
    ASSUME NEW S, NEW s \in Seq(S), NEW t \in Seq(S), Len(s) = Len(t), \A i \in 1..Len(s) : s[i] = t[i]
    PROVE  s = t
  OBVIOUS

LEMMA Joined ==
    ASSUME NEW s \in Seq(Nat), NEW t \in Seq(Nat)
    PROVE  \E e \in Seq(Nat) : /\ e = s \o t /\ Len(e) = Len(s) + Len(t)
                               /\ \A i \in 1..Len(s) : e[i] = s[i]
                               /\ \A i \in 1..Len(t) : e[Len(s) + i] = t[i]
  <1>1. s \o t \in Seq(Nat)
    OBVIOUS
  <1>2. Len(s \o t) = Len(s) + Len(t)
    OBVIOUS
  <1>3. \A i \in 1..Len(s) : (s \o t)[i] = s[i]
    OBVIOUS
  <1>4. \A i \in 1..Len(t) : (s \o t)[Len(s) + i] = t[i]
    OBVIOUS
  <1> QED
    BY <1>1, <1>2, <1>3, <1>4, Zenon

(* Sequences of numbers are ordered by the first place they differ in.     *)
LEMMA LexTotal ==
    ASSUME NEW s \in Seq(Nat), NEW t \in Seq(Nat), s # t
    PROVE  Plan!LexLess(s, t) \/ Plan!LexLess(t, s)
  <1> DEFINE D == {i \in Nat : i >= 1 /\ (i > Len(s) \/ i > Len(t) \/ s[i] # t[i])}
  <1>1. D \subseteq Nat /\ Len(s) + 1 \in D
    OBVIOUS
  <1>2. PICK i \in D : \A j \in D : i <= j
    <2> HIDE DEF D
    <2> QED
      BY <1>1, LeastMember
  <1>3. \A j \in 1..(i - 1) : j <= Len(s) /\ j <= Len(t) /\ s[j] = t[j]
    BY <1>2
  <1>4. i <= Len(s) + 1 /\ i <= Len(t) + 1 /\ i \in Nat /\ i >= 1
    BY <1>2
  <1>5. CASE i > Len(s) /\ i > Len(t)
    <2>1. Len(s) = Len(t) /\ \A j \in 1..Len(s) : s[j] = t[j]
      BY <1>3, <1>4, <1>5
    <2> QED
      BY <2>1, SameSequence
  <1>6. CASE i > Len(s) /\ i <= Len(t)
    BY <1>3, <1>4, <1>6 DEF Plan!LexLess
  <1>7. CASE i <= Len(s) /\ i > Len(t)
    BY <1>3, <1>4, <1>7 DEF Plan!LexLess
  <1>8. CASE i <= Len(s) /\ i <= Len(t)
    <2>1. s[i] # t[i] /\ s[i] \in Nat /\ t[i] \in Nat
      BY <1>2, <1>8
    <2>2. s[i] < t[i] \/ t[i] < s[i]
      BY <2>1
    <2> QED
      BY <1>3, <1>4, <1>8, <2>2 DEF Plan!LexLess
  <1> QED
    BY <1>4, <1>5, <1>6, <1>7, <1>8

LEMMA PhaseOf ==
    ASSUME NEW k \in Plan!WriteKinds
    PROVE  LET p == CHOOSE i \in DOMAIN Plan!Phases : k \in Plan!Range(Plan!Phases[i])
               n == CHOOSE i \in DOMAIN Plan!Phases[p] : Plan!Phases[p][i] = k
           IN p \in Nat /\ n \in Nat /\ Plan!Phases[p][n] = k
  <1> DEFINE p == CHOOSE i \in DOMAIN Plan!Phases : k \in Plan!Range(Plan!Phases[i])
             n == CHOOSE i \in DOMAIN Plan!Phases[p] : Plan!Phases[p][i] = k
  <1>1. DOMAIN Plan!Phases = 1..9 /\ Plan!Phases[4] = <<"MergeJson", "MergeToml", "WriteFile">>
    BY DEF Plan!Phases
  <1>2. \A i \in 1..9 : DOMAIN Plan!Phases[i] \subseteq Nat
    BY DEF Plan!Phases
  <1>3. k \in Plan!Range(Plan!Phases[4])
    <2>1. PICK f : f = <<"MergeJson", "MergeToml", "WriteFile">>
      OBVIOUS
    <2>2. DOMAIN f = 1..3 /\ f[1] = "MergeJson" /\ f[2] = "MergeToml" /\ f[3] = "WriteFile"
      BY <2>1
    <2> QED
      BY <1>1, <2>1, <2>2 DEF Plan!Range, Plan!WriteKinds
  <1>4. p \in 1..9 /\ k \in Plan!Range(Plan!Phases[p])
    BY <1>1, <1>3
  <1> HIDE DEF p
  <1>5. \E i \in DOMAIN Plan!Phases[p] : Plan!Phases[p][i] = k
    BY <1>4 DEF Plan!Range
  <1>6. n \in DOMAIN Plan!Phases[p] /\ Plan!Phases[p][n] = k
    BY <1>5
  <1> HIDE DEF n
  <1>7. p \in Nat /\ n \in Nat /\ Plan!Phases[p][n] = k
    BY <1>2, <1>4, <1>6
  <1> QED
    BY <1>7, Zenon DEF p, n

(* Two writes never have the same place in the order.                      *)
LEMMA SortKeyOf ==
    ASSUME NEW o, OpOK(o), o.kind \in Plan!WriteKinds
    PROVE  /\ Plan!SortKey(o) \in Seq(Nat)
           /\ \E p \in Nat, n \in Nat :
                 /\ Plan!SortKey(o) = <<p, o.comp, n>> \o o.dest \o <<0, o.object>>
                 /\ Plan!Phases[p][n] = o.kind
  <1>1. /\ o.comp \in Nat /\ specs[o].comp = o.comp /\ o.dest \in Seq(Nat) /\ o.object \in Nat
    BY DEF OpOK
  <1> DEFINE p == CHOOSE i \in DOMAIN Plan!Phases : o.kind \in Plan!Range(Plan!Phases[i])
             n == CHOOSE i \in DOMAIN Plan!Phases[p] : Plan!Phases[p][i] = o.kind
  <1>2. p \in Nat /\ n \in Nat /\ Plan!Phases[p][n] = o.kind
    BY PhaseOf
  <1>3. Plan!SortKey(o) = <<p, o.comp, n>> \o o.dest \o <<0, o.object>>
    BY <1>1 DEF Plan!SortKey
  <1> HIDE DEF p, n
  <1>4. PICK a, b : a = <<p, o.comp, n>> /\ b = <<0, o.object>>
    OBVIOUS
  <1>6. a \in Seq(Nat) /\ b \in Seq(Nat)
    BY <1>1, <1>2, <1>4
  <1>7. PICK d : d = o.dest
    OBVIOUS
  <1>8. d \in Seq(Nat)
    BY <1>1, <1>7
  <1>9. a \o d \in Seq(Nat)
    BY <1>6, <1>8, Joined, Zenon
  <1>10. (a \o d) \o b \in Seq(Nat)
    BY <1>6, <1>9, Joined, Zenon
  <1>5. Plan!SortKey(o) \in Seq(Nat)
    BY <1>3, <1>4, <1>7, <1>10
  <1> QED
    BY <1>2, <1>3, <1>5

(* What the key of a write says of the write.                              *)
LEMMA KeyOf ==
    ASSUME NEW o, OpOK(o), o.kind \in Plan!WriteKinds
    PROVE  LET k == Plan!SortKey(o)
           IN /\ Len(k) = Len(o.dest) + 5 /\ Plan!Phases[k[1]][k[3]] = o.kind
              /\ k[2] = o.comp /\ k[Len(k)] = o.object
              /\ \A i \in 1..Len(o.dest) : k[i + 3] = o.dest[i]
  <1>1. PICK c, d, x : c = o.comp /\ d = o.dest /\ x = o.object
    OBVIOUS
  <1>2. c \in Nat /\ d \in Seq(Nat) /\ x \in Nat
    BY <1>1 DEF OpOK
  <1>3. PICK p \in Nat, n \in Nat : /\ Plan!SortKey(o) = <<p, o.comp, n>> \o o.dest \o <<0, o.object>>
                                    /\ Plan!Phases[p][n] = o.kind
    BY SortKeyOf, Zenon
  <1>6. \E k : /\ k = <<p, c, n>> \o d \o <<0, x>>
               /\ Len(k) = Len(d) + 5 /\ k[1] = p /\ k[2] = c /\ k[3] = n /\ k[Len(k)] = x
               /\ \A i \in 1..Len(d) : k[i + 3] = d[i]
    <2> USE <1>2
    <2>1. PICK a, b : a = <<p, c, n>> /\ b = <<0, x>>
      OBVIOUS
    <2>2. a \in Seq(Nat) /\ Len(a) = 3 /\ a[1] = p /\ a[2] = c /\ a[3] = n
      BY <2>1
    <2>3. b \in Seq(Nat) /\ Len(b) = 2 /\ b[2] = x
      BY <2>1
    <2>4. \E e \in Seq(Nat) : /\ e = a \o d /\ Len(e) = Len(a) + Len(d)
                              /\ \A i \in 1..Len(a) : e[i] = a[i]
                              /\ \A i \in 1..Len(d) : e[Len(a) + i] = d[i]
      BY <2>2, Joined, Zenon
    <2>5. PICK e \in Seq(Nat) : /\ e = a \o d /\ Len(e) = Len(a) + Len(d)
                                /\ \A i \in 1..Len(a) : e[i] = a[i]
                                /\ \A i \in 1..Len(d) : e[Len(a) + i] = d[i]
      BY <2>4, Zenon
    <2>6. \E k \in Seq(Nat) : /\ k = e \o b /\ Len(k) = Len(e) + Len(b)
                              /\ \A i \in 1..Len(e) : k[i] = e[i]
                              /\ \A i \in 1..Len(b) : k[Len(e) + i] = b[i]
      BY <2>3, Joined, Zenon
    <2>7. PICK k \in Seq(Nat) : /\ k = e \o b /\ Len(k) = Len(e) + Len(b)
                                /\ \A i \in 1..Len(e) : k[i] = e[i]
                                /\ \A i \in 1..Len(b) : k[Len(e) + i] = b[i]
      BY <2>6, Zenon
    <2>8. PICK l, m, n1 : l = Len(d) /\ m = Len(e) /\ n1 = Len(k)
      OBVIOUS
    <2>9. l \in Nat
      BY <2>8
    <2>10. m = 3 + l /\ n1 = m + 2
      BY <2>2, <2>3, <2>5, <2>7, <2>8, Zenon
    <2>11. (\A i \in 1..3 : e[i] = a[i]) /\ \A i \in 1..l : e[3 + i] = d[i]
      BY <2>2, <2>5, <2>8, Zenon
    <2>12. (\A i \in 1..m : k[i] = e[i]) /\ \A i \in 1..2 : k[m + i] = b[i]
      BY <2>3, <2>7, <2>8, Zenon
    <2>13. n1 = l + 5 /\ k[n1] = b[2]
      BY <2>9, <2>10, <2>12
    <2>14. k[1] = p /\ k[2] = c /\ k[3] = n
      <3>1. 1 \in 1..m /\ 2 \in 1..m /\ 3 \in 1..m
        BY <2>9, <2>10
      <3>2. k[1] = e[1] /\ k[2] = e[2] /\ k[3] = e[3]
        BY <2>12, <3>1, Zenon
      <3>3. e[1] = a[1] /\ e[2] = a[2] /\ e[3] = a[3]
        BY <2>11
      <3> QED
        BY <2>2, <3>2, <3>3, Zenon
    <2>15. \A i \in 1..l : k[i + 3] = d[i]
      BY <2>9, <2>10, <2>11, <2>12
    <2>16. k = <<p, c, n>> \o d \o <<0, x>>
      BY <2>1, <2>5, <2>7, Zenon
    <2> QED
      BY <2>3, <2>8, <2>13, <2>14, <2>15, <2>16, Zenon
  <1>4. PICK k : /\ k = <<p, c, n>> \o d \o <<0, x>>
                 /\ Len(k) = Len(d) + 5 /\ k[1] = p /\ k[2] = c /\ k[3] = n /\ k[Len(k)] = x
                 /\ \A i \in 1..Len(d) : k[i + 3] = d[i]
    BY <1>6, Zenon
  <1>5. Plan!SortKey(o) = k
    BY <1>1, <1>3, <1>4, Zenon
  <1> QED
    BY <1>1, <1>3, <1>4, <1>5, Zenon

LEMMA KeysDiffer ==
    ASSUME NEW o, NEW q, OpOK(o), OpOK(q), o # q,
           o.kind \in Plan!WriteKinds, q.kind \in Plan!WriteKinds
    PROVE  Plan!SortKey(o) # Plan!SortKey(q)
  <1> SUFFICES ASSUME Plan!SortKey(o) = Plan!SortKey(q) PROVE FALSE
    OBVIOUS
  <1>1. o.dest \in Seq(Nat) /\ q.dest \in Seq(Nat)
    BY DEF OpOK
  <1>2. /\ o = Plan!Op(o.kind, o.comp, o.dest, o.object)
        /\ q = Plan!Op(q.kind, q.comp, q.dest, q.object)
    BY DEF OpOK
  <1>3. PICK k : k = Plan!SortKey(o) /\ k = Plan!SortKey(q)
    OBVIOUS
  <1>4. /\ Len(k) = Len(o.dest) + 5 /\ Plan!Phases[k[1]][k[3]] = o.kind
        /\ k[2] = o.comp /\ k[Len(k)] = o.object
        /\ \A i \in 1..Len(o.dest) : k[i + 3] = o.dest[i]
    BY <1>3, KeyOf
  <1>5. /\ Len(k) = Len(q.dest) + 5 /\ Plan!Phases[k[1]][k[3]] = q.kind
        /\ k[2] = q.comp /\ k[Len(k)] = q.object
        /\ \A i \in 1..Len(q.dest) : k[i + 3] = q.dest[i]
    BY <1>3, KeyOf
  <1>6. PICK d, e : d = o.dest /\ e = q.dest
    OBVIOUS
  <1>7. d \in Seq(Nat) /\ e \in Seq(Nat)
    BY <1>1, <1>6
  <1>8. Len(d) = Len(e)
    <2>1. Len(d) + 5 = Len(e) + 5
      BY <1>4, <1>5, <1>6
    <2>2. Len(d) \in Nat /\ Len(e) \in Nat
      BY <1>7
    <2> QED
      BY <2>1, <2>2
  <1>9. \A i \in 1..Len(d) : d[i] = e[i]
    BY <1>4, <1>5, <1>6, <1>8
  <1>10. d = e
    BY <1>7, <1>8, <1>9, SameSequence
  <1>11. o.kind = q.kind /\ o.comp = q.comp /\ o.object = q.object
    BY <1>4, <1>5, Zenon
  <1>12. o.dest = q.dest
    BY <1>6, <1>10, Zenon
  <1> QED
    BY <1>2, <1>11, <1>12, Zenon

LEMMA PlanOverlaps ==
    ASSUME PlanInv, Plan!OrderOverlappingWrites, UNCHANGED <<pkg, target, conflicts, present>>
    PROVE  PlanInv'
  <1> USE DEF PlSteps, PlClosed, PlSeeded, PlVerified, PlOrdered, PlEnd
  <1> DEFINE writes == {o \in DOMAIN specs : o.kind \in Plan!WriteKinds}
             earlier(o) == {p \in writes \ {o} : Plan!PathsOverlap(p.dest, o.dest) /\ Plan!SortsBefore(p, o)}
             added(o) == IF o \in writes THEN earlier(o) ELSE {}
  <1>1. /\ step = "overlaps" /\ step' = "emit"
        /\ specs' = [o \in DOMAIN specs |->
                        IF o \in writes THEN [specs[o] EXCEPT !.pre = @ \cup earlier(o)] ELSE specs[o]]
        /\ UNCHANGED <<selected, confirmations, mutations, readiness, owned, order>>
    BY DEF Plan!OrderOverlappingWrites
  <1>2. PlanTypes'
    BY <1>1 DEF PlanInv, PlanTypes, Plan!Components
  <1>3. PlanGates'
    BY <1>1, PlanKeepGates
  <1>4. \A o \in DOMAIN specs : OpOK(o)
    BY <1>1 DEF PlanInv, PlanOps
  <1>5. DOMAIN specs' = DOMAIN specs
    BY <1>1
  <1>6. ASSUME NEW o \in DOMAIN specs
        PROVE  specs'[o] = [comp |-> specs[o].comp, pre |-> specs[o].pre \cup added(o)]
    <2>1. specs[o] = [comp |-> specs[o].comp, pre |-> specs[o].pre]
      BY <1>4 DEF OpOK
    <2> HIDE DEF writes, earlier
    <2>2. CASE o \in writes
      <3>1. specs'[o] = [specs[o] EXCEPT !.pre = @ \cup earlier(o)] /\ added(o) = earlier(o)
        BY <1>1, <2>2
      <3> QED
        BY <3>1, <2>1, PreExtended
    <2>3. CASE o \notin writes
      <3>1. specs'[o] = specs[o] /\ specs[o].pre \cup added(o) = specs[o].pre
        BY <1>1, <2>3
      <3> QED
        BY <3>1, <2>1
    <2> QED
      BY <2>2, <2>3
  <1>7. ASSUME NEW o \in DOMAIN specs, NEW p \in DOMAIN specs,
               {o.kind, p.kind} \subseteq Plan!WriteKinds, o # p,
               Plan!PathsOverlap(p.dest, o.dest), Plan!PathsOverlap(o.dest, p.dest)
        PROVE  o \in added(p) \/ p \in added(o)
    <2>1. Plan!SortKey(o) \in Seq(Nat) /\ Plan!SortKey(p) \in Seq(Nat) /\ Plan!SortKey(o) # Plan!SortKey(p)
      BY <1>4, <1>7, SortKeyOf, KeysDiffer
    <2>2. Plan!SortsBefore(o, p) \/ Plan!SortsBefore(p, o)
      BY <2>1, LexTotal DEF Plan!SortsBefore
    <2>3. o \in writes /\ p \in writes
      BY <1>7
    <2> QED
      BY <1>7, <2>2, <2>3
  <1> HIDE DEF added, writes, earlier
  <1>8. ASSUME NEW o \in DOMAIN specs PROVE specs'[o].pre = specs[o].pre \cup added(o)
    <2>1. PICK X : X = added(o)
      OBVIOUS
    <2>2. specs'[o] = [comp |-> specs[o].comp, pre |-> specs[o].pre \cup X]
      BY <1>6, <2>1
    <2>3. specs'[o].pre = specs[o].pre \cup X
      BY <2>2
    <2> QED
      BY <2>1, <2>3
  <1>9. \A o \in DOMAIN specs' : OpOK(o)'
    BY <1>1, <1>4, <1>5, <1>6, OpKept
  <1>10. \A c : Plan!VerifyOps(c)' = Plan!VerifyOps(c)
    BY DEF Plan!VerifyOps, Plan!Op
  <1>11. Plan!DependencyPairs' = Plan!DependencyPairs
    BY <1>1 DEF Plan!DependencyPairs, Plan!RuntimeNeeds, Plan!McpNeeds
  <1>12. ASSUME NEW c \in selected, NEW v \in Plan!VerifyOps(c)
         PROVE  /\ VerifyOK(c, v)'
                /\ \A p \in Plan!DependencyPairs : p[1] = c => readiness[p[2]] \subseteq specs'[v].pre
    <2>1. VerifyOK(c, v) /\ \A p \in Plan!DependencyPairs : p[1] = c => readiness[p[2]] \subseteq specs[v].pre
      BY <1>1 DEF PlanInv, PlanOps
    <2> QED
      BY <2>1, <1>1, <1>5, <1>8 DEF VerifyOK
  <1>13. ASSUME NEW o \in DOMAIN specs', NEW p \in DOMAIN specs',
                {o.kind, p.kind} \subseteq Plan!WriteKinds, o # p,
                Plan!PathsOverlap(p.dest, o.dest), Plan!PathsOverlap(o.dest, p.dest)
         PROVE  o \in specs'[p].pre \/ p \in specs'[o].pre
    BY <1>5, <1>7, <1>8, <1>13
  <1>14. PlanOps'
    <2>1. Plan!WriteKinds' = Plan!WriteKinds /\ \A o, p : Plan!PathsOverlap(p, o)' = Plan!PathsOverlap(p, o)
      BY DEF Plan!WriteKinds, Plan!PathsOverlap
    <2>2. step' = "emit" /\ selected' = selected /\ readiness' = readiness
      BY <1>1
    <2>3. \A c \in selected' : \A v \in Plan!VerifyOps(c)' : VerifyOK(c, v)'
      BY <1>10, <1>12, <2>2
    <2>4. \A c \in selected' : \A v \in Plan!VerifyOps(c)' : \A p \in Plan!DependencyPairs' :
             p[1] = c => readiness'[p[2]] \subseteq specs'[v].pre
      BY <1>10, <1>11, <1>12, <2>2
    <2>5. \A o, p \in DOMAIN specs' :
             /\ {o.kind, p.kind} \subseteq Plan!WriteKinds' /\ o # p
             /\ Plan!PathsOverlap(p.dest, o.dest)' /\ Plan!PathsOverlap(o.dest, p.dest)'
             => o \in specs'[p].pre \/ p \in specs'[o].pre
      BY <1>13, <2>1
    <2>6. ~(step' = "build")
      BY <2>2
    <2> QED
      BY <1>9, <2>3, <2>4, <2>5, <2>6, Zenon DEF PlanOps
  <1>15. PlanOrder'
    <2>1. order' = <<>>
      BY <1>1 DEF PlanInv, PlanTypes
    <2> QED
      BY <1>1, <2>1 DEF PlanOrder
  <1> QED
    BY <1>2, <1>3, <1>14, <1>15 DEF PlanInv

(* The steps of the topological order change nothing but the order.        *)
LEMMA PlanKeepOps ==
    ASSUME PlanInv, step \in PlEnd, step' \in PlEnd,
           UNCHANGED <<pkg, target, conflicts, present, selected, confirmations, specs,
                       mutations, readiness, owned>>
    PROVE  PlanGates' /\ PlanOps'
  <1> USE DEF PlSteps, PlClosed, PlSeeded, PlVerified, PlOrdered, PlEnd
  <1>1. PlanGates'
    BY PlanKeepGates
  <1>2. \A o \in DOMAIN specs : OpOK(o)
    BY DEF PlanInv, PlanOps
  <1>3. ASSUME NEW o \in DOMAIN specs PROVE OpOK(o)'
    <2>1. specs'[o] = [comp |-> specs[o].comp, pre |-> specs[o].pre \cup {}]
      <3>1. specs'[o] = specs[o] /\ specs[o] = [comp |-> specs[o].comp, pre |-> specs[o].pre]
        BY <1>2 DEF OpOK
      <3>2. specs[o].pre \cup {} = specs[o].pre
        OBVIOUS
      <3> QED
        BY <3>1, <3>2
    <2> QED
      BY <1>2, <2>1, OpKept
  <1>4. \A c : Plan!VerifyOps(c)' = Plan!VerifyOps(c)
    BY DEF Plan!VerifyOps, Plan!Op
  <1>5. Plan!DependencyPairs' = Plan!DependencyPairs
    BY DEF Plan!DependencyPairs, Plan!RuntimeNeeds, Plan!McpNeeds
  <1>6. \A c, v : VerifyOK(c, v)' <=> VerifyOK(c, v)
    BY DEF VerifyOK
  <1>7. PlanOps'
    BY <1>3, <1>4, <1>5, <1>6 DEF PlanInv, PlanOps
  <1> QED
    BY <1>1, <1>7

LEMMA PlanEmit ==
    ASSUME PlanInv, Plan!Emit, UNCHANGED <<pkg, target, conflicts, present>>
    PROVE  PlanInv'
  <1> USE DEF PlSteps, PlClosed, PlSeeded, PlVerified, PlOrdered, PlEnd
  <1>1. PICK o \in Plan!ReadyOps : order' = Append(order, o)
    BY DEF Plan!Emit
  <1>2. /\ step = "emit" /\ step' = "emit"
        /\ UNCHANGED <<todo, selected, confirmations, specs, mutations, readiness, owned>>
    BY DEF Plan!Emit
  <1>3. PlanTypes'
    BY <1>2 DEF PlanInv, PlanTypes, Plan!Components
  <1>4. PlanGates' /\ PlanOps'
    BY <1>2, PlanKeepOps
  <1>5. o \in DOMAIN specs /\ o \notin Sel!Range(order) /\ specs[o].pre \subseteq Sel!Range(order)
    BY PlanRange DEF Plan!ReadyOps, Plan!Waiting
  <1>6. /\ order \in Seq(DOMAIN specs)
        /\ \A i, j \in DOMAIN order : order[i] = order[j] => i = j
        /\ \A i \in DOMAIN order : \A p \in specs[order[i]].pre : \E j \in 1..(i - 1) : order[j] = p
    BY <1>2 DEF PlanInv, PlanOrder
  <1>7. /\ order' \in Seq(DOMAIN specs) /\ Len(order') = Len(order) + 1
        /\ order'[Len(order) + 1] = o /\ \A i \in 1..Len(order) : order'[i] = order[i]
    BY <1>1, <1>5, <1>6
  <1>8. \A p \in Sel!Range(order) : \E j \in 1..Len(order) : order[j] = p
    BY <1>6 DEF Sel!Range
  <1>9. \A j \in 1..Len(order) : order[j] # o
    BY <1>5, <1>6 DEF Sel!Range
  <1>10. ASSUME NEW i \in DOMAIN order', NEW j \in DOMAIN order', order'[i] = order'[j] PROVE i = j
    BY <1>6, <1>7, <1>9, <1>10
  <1>11. ASSUME NEW i \in DOMAIN order', NEW p \in specs[order'[i]].pre
         PROVE  \E j \in 1..(i - 1) : order'[j] = p
    <2>1. i \in 1..(Len(order) + 1)
      BY <1>6, <1>7
    <2>2. CASE i = Len(order) + 1
      <3>1. PICK j \in 1..Len(order) : order[j] = p
        BY <1>5, <1>7, <1>8, <1>11, <2>2
      <3> QED
        BY <1>6, <1>7, <2>2, <3>1
    <2>3. CASE i \in 1..Len(order)
      <3>1. PICK j \in 1..(i - 1) : order[j] = p
        BY <1>6, <1>7, <1>11, <2>3
      <3>2. j \in 1..Len(order)
        BY <1>6, <2>3, <3>1
      <3> QED
        BY <1>7, <3>1, <3>2
    <2> QED
      BY <1>6, <2>1, <2>2, <2>3
  <1>12. PlanOrder'
    BY <1>2, <1>7, <1>10, <1>11 DEF PlanOrder
  <1> QED
    BY <1>3, <1>4, <1>12 DEF PlanInv

LEMMA PlanEndOfOrder ==
    ASSUME PlanInv, Plan!EndOfOrder, UNCHANGED <<pkg, target, conflicts, present>>
    PROVE  PlanInv'
  <1> USE DEF PlSteps, PlClosed, PlSeeded, PlVerified, PlOrdered, PlEnd
  <1>1. CASE step' \in Plan!Errors
    BY <1>1, PlanFail
  <1>2. CASE step' \notin Plan!Errors
    <2>1. /\ step = "emit" /\ step' = "planned" /\ Plan!Waiting = {}
          /\ UNCHANGED <<selected, confirmations, specs, mutations, readiness, owned, order>>
      BY <1>2 DEF Plan!EndOfOrder, Plan!Errors
    <2>2. PlanTypes'
      BY <2>1 DEF PlanInv, PlanTypes, Plan!Components
    <2>3. PlanGates' /\ PlanOps'
      BY <2>1, PlanKeepOps
    <2>4. \A o \in DOMAIN specs : \E i \in DOMAIN order : order[i] = o
      BY <2>1, PlanRange DEF Plan!Waiting, Sel!Range
    <2>5. PlanOrder'
      BY <2>1, <2>4 DEF PlanInv, PlanOrder
    <2> QED
      BY <2>2, <2>3, <2>5 DEF PlanInv
  <1> QED
    BY <1>1, <1>2

LEMMA PlanStutter ==
    ASSUME PlanInv, UNCHANGED Plan!plannerVars
    PROVE  PlanInv'
  <1>1. UNCHANGED <<pkg, target, step, todo, present, conflicts, blocked, changed, used, backups,
                    selection, trust, selected, confirmations, specs, mutations, readiness, owned, order>>
    BY DEF Plan!plannerVars, Plan!planVars, Plan!diffVars
  <1>2. PlanTypes'
    BY <1>1 DEF PlanInv, PlanTypes, Plan!Components
  <1>3. PlanGates'
    BY <1>1 DEF PlanInv, PlanGates, Plan!Relevant, Plan!ConflictAction
  <1>4. PlanOps'
    <2>1. \A o : OpOK(o)' <=> OpOK(o)
      BY <1>1 DEF OpOK, Plan!Mutation, Plan!WriteKinds, Plan!Op, Plan!Disposition, Plan!ConflictsOf
    <2>2. \A c, v : VerifyOK(c, v)' <=> VerifyOK(c, v)
      BY <1>1 DEF VerifyOK
    <2>3. \A c : Plan!VerifyOps(c)' = Plan!VerifyOps(c)
      BY <1>1 DEF Plan!VerifyOps, Plan!Op
    <2>4. Plan!DependencyPairs' = Plan!DependencyPairs
      BY <1>1 DEF Plan!DependencyPairs, Plan!RuntimeNeeds, Plan!McpNeeds
    <2> QED
      BY <1>1, <2>1, <2>2, <2>3, <2>4 DEF PlanInv, PlanOps
  <1>5. PlanOrder'
    BY <1>1 DEF PlanInv, PlanOrder
  <1> QED
    BY <1>2, <1>3, <1>4, <1>5 DEF PlanInv

LEMMA PlanStepInv == PlanInv /\ (Plan!PlannerNext \/ UNCHANGED Plan!plannerVars) => PlanInv'
  <1> SUFFICES ASSUME PlanInv, Plan!PlannerNext \/ UNCHANGED Plan!plannerVars PROVE PlanInv'
    OBVIOUS
  <1>1. CASE UNCHANGED Plan!plannerVars
    BY <1>1, PlanStutter
  <1>2. CASE Plan!DiffStep /\ UNCHANGED Plan!planVars /\ UNCHANGED <<pkg, target>>
    BY <1>2, PlanDiff
  <1>3. CASE /\ Plan!PlanStep /\ UNCHANGED <<present, conflicts, blocked, changed, used, backups>>
             /\ UNCHANGED <<pkg, target>>
    BY <1>3, PlanApprove, PlanClose, PlanEndOfClosure, PlanSeed, PlanBuild, PlanVerify,
       PlanDependencies, PlanOverlaps, PlanEmit, PlanEndOfOrder DEF Plan!PlanStep
  <1> QED
    BY <1>1, <1>2, <1>3 DEF Plan!PlannerNext, Plan!Planning

(* Where an operation stands in a finished plan.                           *)
LEMMA Positions ==
    ASSUME PlanInv, Plan!Planned
    PROVE  /\ order \in Seq(DOMAIN specs)
           /\ \A o \in DOMAIN specs : /\ Plan!Position(o) \in 1..Len(order)
                                      /\ order[Plan!Position(o)] = o
           /\ \A i \in 1..Len(order) : Plan!Position(order[i]) = i
           /\ \A o \in DOMAIN specs : \A p \in specs[o].pre :
                 p \in DOMAIN specs /\ Plan!Position(p) < Plan!Position(o)
  <1>1. /\ order \in Seq(DOMAIN specs)
        /\ \A i, j \in DOMAIN order : order[i] = order[j] => i = j
        /\ \A i \in DOMAIN order : \A p \in specs[order[i]].pre : \E j \in 1..(i - 1) : order[j] = p
        /\ \A o \in DOMAIN specs : \E i \in DOMAIN order : order[i] = o
    BY DEF PlanInv, PlanOrder, Plan!Planned, PlEnd
  <1>2. DOMAIN order = 1..Len(order) /\ Len(order) \in Nat /\ \A i \in 1..Len(order) : order[i] \in DOMAIN specs
    BY <1>1
  <1>3. \A o \in DOMAIN specs : Plan!Position(o) \in 1..Len(order) /\ order[Plan!Position(o)] = o
    BY <1>1, <1>2 DEF Plan!Position, Plan!IndexOf
  <1>4. \A i \in 1..Len(order) : Plan!Position(order[i]) = i
    BY <1>1, <1>2, <1>3
  <1>5. ASSUME NEW o \in DOMAIN specs, NEW p \in specs[o].pre
        PROVE  p \in DOMAIN specs /\ Plan!Position(p) < Plan!Position(o)
    <2>1. PICK j \in 1..(Plan!Position(o) - 1) : order[j] = p
      BY <1>1, <1>2, <1>3, <1>5
    <2>2. j \in 1..Len(order)
      BY <1>2, <1>3, <2>1
    <2>3. Plan!Position(p) = j /\ p \in DOMAIN specs
      BY <1>2, <1>4, <2>1, <2>2
    <2> QED
      BY <1>2, <1>3, <2>1, <2>3
  <1> QED
    BY <1>1, <1>3, <1>4, <1>5

(* The prerequisites of prerequisites are well founded on the order.       *)
IsWaits(f) == f = [n \in 1..Len(order) |-> UNION {{p} \cup f[Plan!Position(p)] : p \in specs[order[n]].pre}]

LEMMA WaitsForExists ==
    ASSUME PlanInv, Plan!Planned
    PROVE  Plan!WaitsFor = [n \in 1..Len(order) |->
               UNION {{p} \cup Plan!WaitsFor[Plan!Position(p)] : p \in specs[order[n]].pre}]
  <1> DEFINE Body(f, n) == UNION {{p} \cup f[Plan!Position(p)] : p \in specs[order[n]].pre}
             Defined(k) == \E f : f = [n \in 1..k |-> Body(f, n)]
             D == {k \in 0..Len(order) : ~Defined(k)}
  <1>1. /\ Len(order) \in Nat
        /\ \A n \in 1..Len(order) : \A p \in specs[order[n]].pre :
              Plan!Position(p) \in 1..Len(order) /\ Plan!Position(p) < n
    BY Positions
  <1>2. Defined(0)
    <2>1. PICK f : f = [n \in 1..0 |-> {}]
      OBVIOUS
    <2> HIDE DEF Body
    <2>2. f = [n \in 1..0 |-> Body(f, n)]
      BY <2>1
    <2> QED
      BY <2>2
  <1>3. ASSUME NEW k \in 0..(Len(order) - 1), Defined(k) PROVE Defined(k + 1)
    <2>1. PICK f : f = [n \in 1..k |-> Body(f, n)]
      BY <1>3
    <2>2. PICK g : g = [n \in 1..(k + 1) |-> Body(f, n)]
      OBVIOUS
    <2>3. \A n \in 1..k : f[n] = g[n]
      <3> HIDE DEF Body
      <3> QED
        BY <2>1, <2>2
    <2>4. \A n \in 1..(k + 1) : \A p \in specs[order[n]].pre : Plan!Position(p) \in 1..k
      BY <1>1
    <2>5. \A n \in 1..(k + 1) : Body(f, n) = Body(g, n)
      BY <2>3, <2>4
    <2> HIDE DEF Body
    <2>6. g = [n \in 1..(k + 1) |-> Body(g, n)]
      BY <2>2, <2>5
    <2> QED
      BY <2>6
  <1>4. Defined(Len(order))
    <2> HIDE DEF Defined
    <2> SUFFICES ASSUME ~Defined(Len(order)) PROVE FALSE
      OBVIOUS
    <2>1. D \subseteq Nat /\ Len(order) \in D
      BY <1>1
    <2>2. PICK k \in D : \A j \in D : k <= j
      <3> HIDE DEF D
      <3> QED
        BY <2>1, LeastMember
    <2>3. k \in 0..Len(order) /\ ~Defined(k) /\ k # 0
      BY <1>2, <2>2
    <2>4. k - 1 \in 0..(Len(order) - 1) /\ k - 1 \notin D /\ (k - 1) + 1 = k
      BY <1>1, <2>2, <2>3
    <2>5. Defined(k - 1)
      BY <1>1, <2>4
    <2> QED
      BY <1>3, <2>3, <2>4, <2>5
  <1>5. Plan!WaitsFor = CHOOSE f : IsWaits(f)
    BY DEF Plan!WaitsFor, IsWaits
  <1>6. \E f : IsWaits(f)
    BY <1>4 DEF IsWaits
  <1>7. IsWaits(Plan!WaitsFor)
    <2>1. PICK g : g = CHOOSE f : IsWaits(f)
      OBVIOUS
    <2>2. IsWaits(g)
      BY <1>6, <2>1
    <2> QED
      BY <1>5, <2>1, <2>2
  <1> QED
    BY <1>7 DEF IsWaits

LEMMA PlanPrefix ==
    ASSUME NEW s \in Seq(Nat), NEW t \in Seq(Nat), NEW n \in DOMAIN t, SubSeq(t, 1, n) = s
    PROVE  Plan!IsPrefix(s, t)
  <1>1. n \in 1..Len(t) /\ Len(s) = n
    OBVIOUS
  <1>2. \A i \in 1..n : s[i] = t[i]
    BY <1>1
  <1>3. SubSeq(s, 1, Len(s)) = SubSeq(t, 1, Len(s))
    BY <1>1, <1>2
  <1> QED
    BY <1>1, <1>3 DEF Plan!IsPrefix

LEMMA PlanInvImplies ==
    ASSUME PlanInv
    PROVE  /\ Plan!PlanIsOrdered /\ Plan!NoRacingWrites /\ Plan!ConfirmedFirst
           /\ Plan!VerifiedAtTheEnd /\ Plan!TargetStateKept
  <1> USE DEF PlSteps, PlClosed, PlSeeded, PlVerified, PlOrdered, PlEnd
  <1> SUFFICES ASSUME Plan!Planned
               PROVE  /\ Plan!PlanIsOrdered /\ Plan!NoRacingWrites /\ Plan!ConfirmedFirst
                      /\ Plan!VerifiedAtTheEnd /\ Plan!TargetStateKept
    BY DEF Plan!PlanIsOrdered, Plan!NoRacingWrites, Plan!ConfirmedFirst, Plan!VerifiedAtTheEnd,
           Plan!TargetStateKept
  <1>1. step = "planned"
    BY DEF Plan!Planned
  <1>2. /\ order \in Seq(DOMAIN specs)
        /\ \A o \in DOMAIN specs : /\ Plan!Position(o) \in 1..Len(order)
                                   /\ order[Plan!Position(o)] = o
        /\ \A i \in 1..Len(order) : Plan!Position(order[i]) = i
        /\ \A o \in DOMAIN specs : \A p \in specs[o].pre :
              p \in DOMAIN specs /\ Plan!Position(p) < Plan!Position(o)
    BY Positions
  <1>3. \A o \in DOMAIN specs : OpOK(o)
    BY <1>1 DEF PlanInv, PlanOps
  <1>4. Plan!PlanIsOrdered
    <2>1. Plan!Range(order) = DOMAIN specs
      <3>1. Sel!Range(order) \subseteq DOMAIN specs
        BY <1>2 DEF Sel!Range
      <3>2. DOMAIN specs \subseteq Sel!Range(order)
        BY <1>2 DEF Sel!Range
      <3> QED
        BY <3>1, <3>2, PlanRange
    <2>2. Len(order) = Plan!Cardinality(DOMAIN specs)
      <3>1. Len(order) \in Nat /\ order \in [1..Len(order) -> DOMAIN specs]
        BY <1>2
      <3>2. \A i, j \in 1..Len(order) : order[i] = order[j] => i = j
        BY <1>2
      <3>3. \A o \in DOMAIN specs : \E i \in 1..Len(order) : order[i] = o
        BY <1>2
      <3>4. order \in Bijection(1..Len(order), DOMAIN specs)
        BY <3>1, <3>2, <3>3 DEF Bijection, Injection, Surjection, IsInjective
      <3>5. ExistsBijection(1..Len(order), DOMAIN specs)
        BY <3>4 DEF ExistsBijection
      <3> QED
        BY <3>1, <3>5, FS_CountingElements, PlanFinite
    <2> QED
      BY <1>2, <2>1, <2>2 DEF Plan!PlanIsOrdered, Plan!Before
  <1>5. Plan!NoRacingWrites
    <2> SUFFICES ASSUME NEW o \in DOMAIN specs, NEW p \in DOMAIN specs,
                        o.kind \in Plan!WriteKinds, p.kind \in Plan!WriteKinds, o # p,
                        o.dest = p.dest \/ (Len(o.dest) > 1 /\ \E n \in DOMAIN p.dest : SubSeq(p.dest, 1, n) = o.dest)
                 PROVE  o \in specs[p].pre \/ p \in specs[o].pre
      BY DEF Plan!NoRacingWrites
    <2>1. o.dest \in Seq(Nat) /\ p.dest \in Seq(Nat)
      BY <1>3 DEF OpOK
    <2>2. Plan!PathsOverlap(p.dest, o.dest) /\ Plan!PathsOverlap(o.dest, p.dest)
      BY <2>1, PlanPrefix DEF Plan!PathsOverlap
    <2> QED
      BY <1>1, <2>2 DEF PlanInv, PlanOps
  <1>6. Plan!ConfirmedFirst
    <2> SUFFICES ASSUME NEW o \in DOMAIN specs, Plan!Mutation(o), NEW x \in Plan!Relevant(conflicts),
                        x.component = o.comp, x.confirm
                 PROVE  Plan!Before(Plan!ConflictAction(x), o)
      BY DEF Plan!ConfirmedFirst
    <2>1. o.comp \in selected /\ confirmations[o.comp] \subseteq specs[o].pre
      BY <1>3 DEF OpOK
    <2>2. Plan!ConflictAction(x) \in confirmations[o.comp]
      BY <1>1, <2>1 DEF PlanInv, PlanGates
    <2> QED
      BY <1>2, <2>1, <2>2 DEF Plan!Before
  <1>7. Plan!VerifiedAtTheEnd
    <2> SUFFICES ASSUME NEW c \in selected
                 PROVE  /\ Plan!VerifyOps(c) # {}
                        /\ \A v \in Plan!VerifyOps(c) :
                              /\ mutations[c] \subseteq Plan!WaitsFor[Plan!Position(v)]
                              /\ \A p \in Plan!DependencyPairs :
                                    p[1] = c => readiness[p[2]] \subseteq Plan!WaitsFor[Plan!Position(v)]
      BY DEF Plan!VerifiedAtTheEnd
    <2>1. Plan!VerifyOps(c) # {}
      <3>1. pkg.comp[c].rules # {}
        BY <1>1 DEF PlanInv, PlanGates
      <3> QED
        BY <3>1 DEF Plan!VerifyOps
    <2>2. ASSUME NEW v \in Plan!VerifyOps(c)
          PROVE  /\ mutations[c] \subseteq Plan!WaitsFor[Plan!Position(v)]
                 /\ \A p \in Plan!DependencyPairs :
                        p[1] = c => readiness[p[2]] \subseteq Plan!WaitsFor[Plan!Position(v)]
      <3>1. VerifyOK(c, v) /\ \A p \in Plan!DependencyPairs : p[1] = c => readiness[p[2]] \subseteq specs[v].pre
        BY <1>1 DEF PlanInv, PlanOps
      <3>2. PICK n \in 1..Len(order) : n = Plan!Position(v) /\ order[n] = v
        BY <1>2, <3>1 DEF VerifyOK
      <3>3. Plan!WaitsFor[n] = UNION {{p} \cup Plan!WaitsFor[Plan!Position(p)] : p \in specs[order[n]].pre}
        BY WaitsForExists
      <3>4. specs[v].pre \subseteq Plan!WaitsFor[n]
        BY <3>2, <3>3
      <3> QED
        BY <3>1, <3>2, <3>4 DEF VerifyOK
    <2> QED
      BY <2>1, <2>2
  <1>8. Plan!TargetStateKept
    BY <1>3 DEF Plan!TargetStateKept, OpOK, InstallKinds
  <1> QED
    BY <1>4, <1>5, <1>6, <1>7, <1>8

-----------------------------------------------------------------------------
(* VerificationReport: the invariant, and the statuses that are possible.  *)

Waits == {"WaitingForUser", "WaitingForReboot"}
PauseStatuses == {"ReauthRequired", "RebootRequired", "WaitingForUser"}
LifeStatuses == {"none", "Skipped", "Failed"} \cup PauseStatuses
RuleStatuses == {"Failed", "Verified", "AlreadyPresent", "Unsupported"} \cup PauseStatuses
PartStatuses == {"Skipped", "PartiallyVerified"} \cup RuleStatuses

RepInv ==
    /\ plan \in Plans
    /\ state \in [Report!Ops -> Report!Settled \cup Report!Broken \cup Report!Unfinished \cup Waits]
    /\ answer \in [Report!Actions -> {"Pending", "Acknowledged", "Completed", "Skipped"}]

LEMMA RepInitInv == Report!ReportInit => RepInv
  BY DEF Report!ReportInit, RepInv, Report!Unfinished

LEMMA RepStepInv == RepInv /\ (Report!ReportNext \/ UNCHANGED Report!reportVars) => RepInv'
  <1> SUFFICES ASSUME RepInv, Report!ReportNext \/ UNCHANGED Report!reportVars PROVE RepInv'
    OBVIOUS
  <1> USE DEF RepInv, Report!Ops, Report!Actions
  <1>0. /\ Report!Settled' = Report!Settled /\ Report!Broken' = Report!Broken
        /\ Report!Unfinished' = Report!Unfinished /\ Waits' = Waits
    BY DEF Report!Settled, Report!Broken, Report!Unfinished, Waits
  <1>1. CASE UNCHANGED Report!reportVars
    BY <1>1, <1>0 DEF Report!reportVars
  <1>2. ASSUME NEW o \in Report!Ops, Report!Start(o) PROVE RepInv'
    BY <1>2, <1>0 DEF Report!Start, Report!Unfinished
  <1>3. ASSUME NEW o \in Report!Ops, NEW s \in Report!Settled \cup Report!Broken \cup Waits, NEW ps,
               Report!Settle(o, s, ps)
        PROVE  RepInv'
    BY <1>3, <1>0 DEF Report!Settle
  <1>4. ASSUME NEW a \in Report!Actions, NEW s \in {"Acknowledged", "Completed", "Skipped"},
               Report!Answer(a, s)
        PROVE  RepInv'
    BY <1>4, <1>0 DEF Report!Answer
  <1>5. ASSUME NEW f, Report!Rescan(f) PROVE RepInv'
    BY <1>5, <1>0 DEF Report!Rescan
  <1> QED
    BY <1>1, <1>2, <1>3, <1>4, <1>5 DEF Report!ReportNext, Waits

LEMMA RepFinite ==
    ASSUME NEW S
    PROVE  Report!Cardinality(S) = Cardinality(S) /\ (Report!IsFiniteSet(S) <=> IsFiniteSet(S))
  BY DEF Report!Cardinality, Cardinality, Report!IsFiniteSet, IsFiniteSet

LEMMA RepMin ==
    ASSUME NEW S \in SUBSET Nat, S # {}
    PROVE  Report!Min(S) \in S
  <1>1. \E n \in S : \A m \in S : n <= m
    BY LeastMember
  <1> QED
    BY <1>1 DEF Report!Min

LEMMA RepInputs ==
    ASSUME plan \in Plans
    PROVE  /\ \E n \in Nat : Report!Ops = 1..n
           /\ \A o \in Report!Ops : Report!Op(o).prereqs \in Seq(Report!Ops)
           /\ plan.selected \in Seq(Nat)
  BY ReportAssumption DEF Report!ReportAssumption, Report!PlanOK, Report!Ops, Report!Op

LEMMA WaitStatuses == \A o : Report!WaitStatus(o) \in PauseStatuses
  BY DEF Report!WaitStatus, PauseStatuses

-----------------------------------------------------------------------------
(* The search for the prerequisite that holds an operation up: it visits   *)
(* more operations with each turn, so it is defined for every plan.        *)

Why(f, c, p, V, q) ==
    IF Report!Op(q).comp # c \/ state[q] \in Report!Settled THEN "none"
    ELSE IF state[q] \in Report!Broken THEN "Failed"
    ELSE IF state[q] \in Report!Unfinished THEN f[V \cup {p}][q]
    ELSE Report!WaitStatus(q)
Explained(f, c, p, V) ==
    {i \in DOMAIN Report!Op(p).prereqs : Why(f, c, p, V, Report!Op(p).prereqs[i]) # "none"}
Search(f, c, p, V) ==
    IF p \in V THEN "Failed"
    ELSE IF Explained(f, c, p, V) = {} THEN "none"
    ELSE Why(f, c, p, V, Report!Op(p).prereqs[Report!Min(Explained(f, c, p, V))])
IsSearch(f, c) == f = [V \in SUBSET Report!Ops |-> [p \in Report!Ops |-> Search(f, c, p, V)]]
Unvisited(V) == Cardinality(Report!Ops \ V)

LEMMA SearchDefined == \A o, c : Report!BlockedByPrerequisite(o, c) = (CHOOSE f : IsSearch(f, c))[{}][o]
  BY DEF Report!BlockedByPrerequisite, IsSearch, Search, Explained, Why

LEMMA Visit ==
    ASSUME plan \in Plans, NEW V \in SUBSET Report!Ops, NEW p \in Report!Ops, p \notin V
    PROVE  /\ Unvisited(V) \in Nat /\ Unvisited(V \cup {p}) \in Nat
           /\ Unvisited(V \cup {p}) < Unvisited(V)
  <1>1. IsFiniteSet(Report!Ops)
    BY RepInputs, FS_Interval
  <1>2. IsFiniteSet(Report!Ops \ V)
    BY <1>1, FS_Subset
  <1>3. Report!Ops \ (V \cup {p}) = (Report!Ops \ V) \ {p} /\ p \in Report!Ops \ V
    OBVIOUS
  <1>4. /\ IsFiniteSet((Report!Ops \ V) \ {p})
        /\ Cardinality((Report!Ops \ V) \ {p}) = Cardinality(Report!Ops \ V) - 1
    BY <1>2, <1>3, FS_RemoveElement
  <1>5. Cardinality(Report!Ops \ V) \in Nat /\ Cardinality((Report!Ops \ V) \ {p}) \in Nat
    BY <1>2, <1>4, FS_CardinalityType
  <1> QED
    BY <1>3, <1>4, <1>5 DEF Unvisited

(* What a search finds depends on the searches one operation further.      *)
LEMMA SearchAgrees ==
    ASSUME plan \in Plans, NEW f, NEW g, NEW c, NEW V \in SUBSET Report!Ops, NEW p \in Report!Ops,
           p \notin V => \A q \in Report!Ops : f[V \cup {p}][q] = g[V \cup {p}][q]
    PROVE  Search(f, c, p, V) = Search(g, c, p, V)
  <1>1. CASE p \in V
    BY <1>1 DEF Search
  <1>2. CASE p \notin V
    <2> DEFINE pre == Report!Op(p).prereqs
    <2>1. \A i \in DOMAIN pre : pre[i] \in Report!Ops
      BY RepInputs
    <2>2. \A i \in DOMAIN pre : Why(f, c, p, V, pre[i]) = Why(g, c, p, V, pre[i])
      BY <1>2, <2>1 DEF Why
    <2>3. Explained(f, c, p, V) = Explained(g, c, p, V)
      BY <2>2 DEF Explained
    <2>4. Explained(g, c, p, V) # {} => Report!Min(Explained(g, c, p, V)) \in DOMAIN pre
      <3>1. Explained(g, c, p, V) \subseteq DOMAIN pre /\ DOMAIN pre \subseteq Nat
        BY RepInputs DEF Explained
      <3> QED
        BY <3>1, RepMin
    <2> QED
      BY <1>2, <2>2, <2>3, <2>4 DEF Search
  <1> QED
    BY <1>1, <1>2

LEMMA UnvisitedCounts ==
    ASSUME plan \in Plans
    PROVE  /\ IsFiniteSet(Report!Ops) /\ Cardinality(Report!Ops) \in Nat
           /\ \A V \in SUBSET Report!Ops : Unvisited(V) \in Nat /\ Unvisited(V) <= Cardinality(Report!Ops)
  <1>1. PICK n \in Nat : Report!Ops = 1..n
    BY RepInputs
  <1>2. IsFiniteSet(1..n)
    BY FS_Interval
  <1>3. IsFiniteSet(Report!Ops)
    BY <1>1, <1>2
  <1>4. Cardinality(Report!Ops) \in Nat
    BY <1>3, FS_CardinalityType
  <1>5. ASSUME NEW V \in SUBSET Report!Ops
        PROVE  Unvisited(V) \in Nat /\ Unvisited(V) <= Cardinality(Report!Ops)
    <2>1. Report!Ops \ V \in SUBSET Report!Ops
      OBVIOUS
    <2>2. IsFiniteSet(Report!Ops \ V) /\ Cardinality(Report!Ops \ V) <= Cardinality(Report!Ops)
      BY <1>3, <2>1, FS_Subset
    <2>3. Cardinality(Report!Ops \ V) \in Nat
      BY <2>2, FS_CardinalityType
    <2> QED
      BY <2>2, <2>3 DEF Unvisited
  <1> QED
    BY <1>3, <1>4, <1>5

LEMMA SearchExists ==
    ASSUME plan \in Plans, NEW c
    PROVE  \E f : IsSearch(f, c)
  <1> DEFINE Near(n) == {V \in SUBSET Report!Ops : Unvisited(V) < n}
             Holds(f, n) == \A V \in Near(n) : \A p \in Report!Ops : f[V][p] = Search(f, c, p, V)
             Defined(n) == \E f : Holds(f, n)
             D == {n \in Nat : ~Defined(n)}
  <1>0. IsFiniteSet(Report!Ops) /\ \A V \in SUBSET Report!Ops : Unvisited(V) \in Nat
    BY UnvisitedCounts
  <1>1. Defined(0)
    <2>1. Near(0) = {}
      BY <1>0
    <2> HIDE DEF Near
    <2> QED
      BY <2>1
  <1>2. ASSUME NEW n \in Nat, Defined(n) PROVE Defined(n + 1)
    <2>1. PICK f : Holds(f, n)
      BY <1>2
    <2>2. PICK g : g = [V \in SUBSET Report!Ops |-> [p \in Report!Ops |-> Search(f, c, p, V)]]
      OBVIOUS
    <2>3. \A V \in SUBSET Report!Ops : \A p \in Report!Ops : g[V][p] = Search(f, c, p, V)
      BY <2>2
    <2>4. ASSUME NEW V \in Near(n + 1), NEW p \in Report!Ops PROVE g[V][p] = Search(g, c, p, V)
      <3>1. ASSUME p \notin V, NEW q \in Report!Ops PROVE f[V \cup {p}][q] = g[V \cup {p}][q]
        <4>1. V \cup {p} \in SUBSET Report!Ops /\ Unvisited(V \cup {p}) < n
          BY <1>0, <2>4, <3>1, Visit
        <4>2. f[V \cup {p}][q] = Search(f, c, q, V \cup {p})
          BY <2>1, <4>1
        <4> QED
          BY <2>3, <4>1, <4>2
      <3>2. Search(f, c, p, V) = Search(g, c, p, V)
        BY <2>4, <3>1, SearchAgrees
      <3> QED
        BY <2>3, <2>4, <3>2
    <2> QED
      BY <2>4
  <1>3. \A n \in Nat : Defined(n)
    <2> HIDE DEF Defined
    <2> SUFFICES ASSUME D # {} PROVE FALSE
      OBVIOUS
    <2>1. PICK n \in D : \A m \in D : n <= m
      <3>1. D \subseteq Nat
        OBVIOUS
      <3> HIDE DEF D
      <3> QED
        BY <3>1, LeastMember
    <2>2. n \in Nat /\ n # 0 /\ ~Defined(n)
      BY <1>1, <2>1
    <2>3. n - 1 \in Nat /\ n - 1 \notin D
      BY <2>1, <2>2
    <2>4. Defined(n - 1) /\ (n - 1) + 1 = n
      BY <2>2, <2>3
    <2> QED
      BY <1>2, <2>2, <2>3, <2>4
  <1>4. PICK n \in Nat : \A V \in SUBSET Report!Ops : Unvisited(V) < n
    <2>1. PICK m : m = Cardinality(Report!Ops)
      OBVIOUS
    <2>2. m \in Nat /\ \A V \in SUBSET Report!Ops : Unvisited(V) \in Nat /\ Unvisited(V) <= m
      BY <2>1, UnvisitedCounts
    <2>3. m + 1 \in Nat /\ \A V \in SUBSET Report!Ops : Unvisited(V) < m + 1
      BY <2>2
    <2> QED
      BY <2>3, Zenon
  <1>5. PICK f : Holds(f, n)
    BY <1>3
  <1>6. \A V \in SUBSET Report!Ops : \A p \in Report!Ops : f[V][p] = Search(f, c, p, V)
    BY <1>4, <1>5
  <1>7. PICK g : g = [V \in SUBSET Report!Ops |-> [p \in Report!Ops |-> Search(f, c, p, V)]]
    OBVIOUS
  <1>8. \A V \in SUBSET Report!Ops : \A p \in Report!Ops : f[V][p] = g[V][p]
    BY <1>6, <1>7
  <1>9. \A V \in SUBSET Report!Ops : \A p \in Report!Ops : Search(f, c, p, V) = Search(g, c, p, V)
    <2> SUFFICES ASSUME NEW V \in SUBSET Report!Ops, NEW p \in Report!Ops
                 PROVE  Search(f, c, p, V) = Search(g, c, p, V)
      OBVIOUS
    <2>1. \A q \in Report!Ops : f[V \cup {p}][q] = g[V \cup {p}][q]
      BY <1>8
    <2> QED
      BY <2>1, SearchAgrees
  <1>10. g = [V \in SUBSET Report!Ops |-> [p \in Report!Ops |-> Search(g, c, p, V)]]
    BY <1>7, <1>9
  <1> QED
    BY <1>10 DEF IsSearch

(* A search ends in nothing, a failure, or an operation that waits.        *)
Paused(c) == \E q \in Report!Ops : Report!Op(q).comp = c /\ state[q] \in Waits
Found(c, s) == s \in {"none", "Failed"} \/ (s \in PauseStatuses /\ Paused(c))

LEMMA WhyFound ==
    ASSUME RepInv, NEW f, NEW c, NEW p, NEW V, NEW q \in Report!Ops,
           Found(c, f[V \cup {p}][q])
    PROVE  Found(c, Why(f, c, p, V, q))
  <1>1. CASE Report!Op(q).comp # c \/ state[q] \in Report!Settled \cup Report!Broken \cup Report!Unfinished
    BY <1>1 DEF Why, Found
  <1>2. CASE Report!Op(q).comp = c /\ state[q] \notin Report!Settled \cup Report!Broken \cup Report!Unfinished
    <2>1. state[q] \in Waits
      BY <1>2 DEF RepInv
    <2>2. Why(f, c, p, V, q) = Report!WaitStatus(q)
      BY <1>2 DEF Why
    <2> QED
      BY <1>2, <2>1, <2>2, WaitStatuses DEF Found, Paused
  <1> QED
    BY <1>1, <1>2

LEMMA SearchFound ==
    ASSUME RepInv, NEW c, NEW f, IsSearch(f, c)
    PROVE  \A V \in SUBSET Report!Ops : \A p \in Report!Ops : Found(c, f[V][p])
  <1> DEFINE Good(V) == \A p \in Report!Ops : Found(c, f[V][p])
             D == {Unvisited(V) : V \in {W \in SUBSET Report!Ops : ~Good(W)}}
  <1>0. plan \in Plans /\ \A V \in SUBSET Report!Ops : Unvisited(V) \in Nat
    <2>1. plan \in Plans
      BY DEF RepInv
    <2> QED
      BY <2>1, UnvisitedCounts
  <1>1. SUFFICES ASSUME D # {} PROVE FALSE
    OBVIOUS
  <1>2. PICK n \in D : \A m \in D : n <= m
    <2>1. D \subseteq Nat
      BY <1>0
    <2> HIDE DEF D
    <2> QED
      BY <1>1, <2>1, LeastMember
  <1>3. PICK V \in SUBSET Report!Ops : ~Good(V) /\ n = Unvisited(V)
    BY <1>2
  <1>4. PICK p \in Report!Ops : ~Found(c, f[V][p])
    BY <1>3
  <1>5. f[V][p] = Search(f, c, p, V)
    BY DEF IsSearch
  <1>6. p \notin V
    BY <1>4, <1>5 DEF Search, Found
  <1>7. Good(V \cup {p})
    <2>1. V \cup {p} \in SUBSET Report!Ops /\ Unvisited(V \cup {p}) < n /\ Unvisited(V \cup {p}) \in Nat
      BY <1>0, <1>3, <1>6, Visit
    <2> HIDE DEF Good
    <2>2. Good(V \cup {p}) \/ Unvisited(V \cup {p}) \in D
      BY <2>1
    <2>3. n \in Nat
      BY <1>0, <1>3
    <2> QED
      BY <1>2, <2>1, <2>2, <2>3
  <1>8. \A i \in DOMAIN Report!Op(p).prereqs : Found(c, Why(f, c, p, V, Report!Op(p).prereqs[i]))
    <2>1. PICK s : s = Report!Op(p).prereqs
      OBVIOUS
    <2>2. s \in Seq(Report!Ops)
      BY <1>0, <2>1, RepInputs
    <2>3. \A i \in DOMAIN s : s[i] \in Report!Ops
      BY <2>2
    <2>4. \A q \in Report!Ops : Found(c, f[V \cup {p}][q])
      BY <1>7
    <2>5. \A q \in Report!Ops : Found(c, Why(f, c, p, V, q))
      BY <2>4, WhyFound
    <2>6. \A i \in DOMAIN s : Found(c, Why(f, c, p, V, s[i]))
      BY <2>3, <2>5
    <2> QED
      BY <2>1, <2>6, Zenon
  <1>9. Explained(f, c, p, V) # {} => Report!Min(Explained(f, c, p, V)) \in DOMAIN Report!Op(p).prereqs
    <2>1. Explained(f, c, p, V) \subseteq DOMAIN Report!Op(p).prereqs /\ DOMAIN Report!Op(p).prereqs \subseteq Nat
      BY <1>0, RepInputs DEF Explained
    <2> QED
      BY <2>1, RepMin
  <1>10. Found(c, Search(f, c, p, V))
    BY <1>6, <1>8, <1>9 DEF Search, Found
  <1> QED
    BY <1>4, <1>5, <1>10

LEMMA BlockedFound ==
    ASSUME RepInv, NEW c, NEW o \in Report!Ops
    PROVE  Found(c, Report!BlockedByPrerequisite(o, c))
  <1>1. PICK f : f = CHOOSE g : IsSearch(g, c)
    OBVIOUS
  <1>2. IsSearch(f, c)
    BY <1>1, SearchExists DEF RepInv
  <1>3. Report!BlockedByPrerequisite(o, c) = f[{}][o]
    BY <1>1, SearchDefined
  <1>4. {} \in SUBSET Report!Ops
    OBVIOUS
  <1> QED
    BY <1>2, <1>3, <1>4, SearchFound

-----------------------------------------------------------------------------
(* What the status of a component says about its operations.               *)

One(o, c) ==
    CASE state[o] \in Report!Broken -> "Failed"
      [] state[o] \in Report!Unfinished ->
           IF Report!BlockedByPrerequisite(o, c) = "none" THEN "Failed"
           ELSE Report!BlockedByPrerequisite(o, c)
      [] state[o] \in Report!Settled -> "none"
      [] OTHER -> Report!WaitStatus(o)

LEMMA OneOf ==
    ASSUME RepInv, NEW c, NEW o \in Report!OpsOf(c)
    PROVE  /\ state[o] \in Report!Broken => One(o, c) = "Failed"
           /\ state[o] \in Report!Settled => One(o, c) = "none"
           /\ state[o] \notin Report!Settled => One(o, c) \in {"Failed"} \cup PauseStatuses
           /\ One(o, c) \in PauseStatuses => Paused(c)
  <1>1. o \in Report!Ops /\ Report!Op(o).comp = c
    BY DEF Report!OpsOf
  <1>2. /\ Report!Broken \cap Report!Unfinished = {} /\ Report!Broken \cap Report!Settled = {}
        /\ Report!Settled \cap Report!Unfinished = {} /\ Waits \cap Report!Settled = {}
        /\ Waits \cap Report!Broken = {} /\ Waits \cap Report!Unfinished = {}
    BY DEF Report!Broken, Report!Unfinished, Report!Settled, Waits
  <1>3. Found(c, Report!BlockedByPrerequisite(o, c))
    BY <1>1, BlockedFound
  <1>4. "none" \notin PauseStatuses /\ "Failed" \notin PauseStatuses
    BY DEF PauseStatuses
  <1>5. CASE state[o] \in Report!Broken
    BY <1>2, <1>4, <1>5 DEF One
  <1>6. CASE state[o] \in Report!Settled
    BY <1>2, <1>4, <1>6 DEF One
  <1>7. CASE state[o] \in Report!Unfinished
    <2>1. One(o, c) = IF Report!BlockedByPrerequisite(o, c) = "none" THEN "Failed"
                      ELSE Report!BlockedByPrerequisite(o, c)
      BY <1>2, <1>7 DEF One
    <2> QED
      BY <1>2, <1>3, <1>4, <1>7, <2>1 DEF Found
  <1>8. CASE state[o] \in Waits
    <2>1. One(o, c) = Report!WaitStatus(o) /\ Paused(c)
      BY <1>1, <1>2, <1>8 DEF One, Paused
    <2> QED
      BY <1>2, <1>8, <2>1, WaitStatuses
  <1> QED
    BY <1>1, <1>5, <1>6, <1>7, <1>8 DEF RepInv

LEMMA LifecycleOf ==
    ASSUME NEW c
    PROVE  Report!OperationLifecycle(c) =
               LET all == {One(o, c) : o \in Report!OpsOf(c)}
               IN IF "Failed" \in all THEN "Failed"
                  ELSE IF "ReauthRequired" \in all THEN "ReauthRequired"
                  ELSE IF "RebootRequired" \in all THEN "RebootRequired"
                  ELSE IF "WaitingForUser" \in all THEN "WaitingForUser"
                  ELSE IF Report!OpsOf(c) # {} /\ \A o \in Report!OpsOf(c) : state[o] = "Skipped"
                  THEN "Skipped" ELSE "none"
  BY DEF Report!OperationLifecycle, One

LEMMA OperationsSay ==
    ASSUME RepInv, NEW c
    PROVE  /\ Report!OperationLifecycle(c) \in LifeStatuses
           /\ (\E o \in Report!OpsOf(c) : state[o] \in Report!Broken) => Report!OperationLifecycle(c) = "Failed"
           /\ Report!OperationLifecycle(c) \in {"none", "Skipped"} =>
                 \A o \in Report!OpsOf(c) : state[o] \in Report!Settled
           /\ Report!OperationLifecycle(c) \in PauseStatuses => Paused(c)
  <1> DEFINE all == {One(o, c) : o \in Report!OpsOf(c)}
             skipped == Report!OpsOf(c) # {} /\ \A o \in Report!OpsOf(c) : state[o] = "Skipped"
  <1>1. Report!OperationLifecycle(c) =
               IF "Failed" \in all THEN "Failed"
               ELSE IF "ReauthRequired" \in all THEN "ReauthRequired"
               ELSE IF "RebootRequired" \in all THEN "RebootRequired"
               ELSE IF "WaitingForUser" \in all THEN "WaitingForUser"
               ELSE IF skipped THEN "Skipped" ELSE "none"
    BY LifecycleOf
  <1>2. (\E o \in Report!OpsOf(c) : state[o] \in Report!Broken) => "Failed" \in all
    BY OneOf
  <1>3. \A o \in Report!OpsOf(c) : One(o, c) \in all
    OBVIOUS
  <1>4. \A s \in all : s \in PauseStatuses => Paused(c)
    BY OneOf
  <1> HIDE DEF all, skipped
  <1>5. Report!OperationLifecycle(c) \in {"none", "Skipped"} =>
            \A o \in Report!OpsOf(c) : state[o] \in Report!Settled
    <2> SUFFICES ASSUME Report!OperationLifecycle(c) \in {"none", "Skipped"}, NEW o \in Report!OpsOf(c),
                        state[o] \notin Report!Settled
                 PROVE  FALSE
      OBVIOUS
    <2>1. One(o, c) \in {"Failed"} \cup PauseStatuses /\ One(o, c) \in all
      BY <1>3, OneOf
    <2> QED
      BY <1>1, <2>1 DEF PauseStatuses
  <1> QED
    BY <1>1, <1>2, <1>4, <1>5 DEF LifeStatuses, PauseStatuses

OpenAction(c) == \E a \in Report!ActionsOf(c) : answer[a] \in {"Pending", "Acknowledged"}

LEMMA ActionsSay ==
    ASSUME RepInv, NEW c
    PROVE  /\ Report!ManualActionLifecycle(c) \in LifeStatuses \ {"Failed"}
           /\ Report!ManualActionLifecycle(c) \in PauseStatuses => OpenAction(c)
           /\ Report!ManualActionLifecycle(c) \in {"none", "Skipped"} =>
                 \A a \in Report!ActionsOf(c) : answer[a] \in {"Completed", "Skipped"}
  <1> DEFINE open == {a \in Report!ActionsOf(c) : answer[a] \in {"Pending", "Acknowledged"}}
  <1>1. open # {} <=> OpenAction(c)
    BY DEF OpenAction
  <1>2. \A a \in Report!ActionsOf(c) \ open : answer[a] \in {"Completed", "Skipped"}
    BY DEF RepInv, Report!ActionsOf
  <1>3. \/ open # {} /\ Report!ManualActionLifecycle(c) \in {"ReauthRequired", "WaitingForUser"}
        \/ open = {} /\ Report!ManualActionLifecycle(c) \in {"none", "Skipped"}
    BY DEF Report!ManualActionLifecycle
  <1> HIDE DEF open
  <1> QED
    BY <1>1, <1>2, <1>3 DEF LifeStatuses, PauseStatuses

Proved(r, c) ==
    \/ \E o \in Report!Ops : /\ Report!Op(o).comp = c
                             /\ Report!OperationMatchesRule(o, r) /\ Report!OperationProves(o, r)
    \/ Report!TargetSatisfies(r)

LEMMA RulesSay ==
    ASSUME RepInv, NEW c, NEW r
    PROVE  /\ Report!EvaluateRule(r, c) \in RuleStatuses
           /\ Report!OperationLifecycle(c) = "Failed" => Report!EvaluateRule(r, c) = "Failed"
           /\ Report!EvaluateRule(r, c) \in {"Verified", "AlreadyPresent"} => Proved(r, c)
           /\ Report!EvaluateRule(r, c) \in PauseStatuses =>
                 Paused(c) \/ OpenAction(c) \/ Report!RuleRequiresReauth(r)
  <1> DEFINE relevant == {o \in Report!OpsOf(c) : Report!OperationMatchesRule(o, r)}
             open == {o \in relevant : state[o] \notin Report!Settled}
             proofs == {o \in relevant : Report!OperationProves(o, r)}
             asked == \E a \in Report!ActionsOf(c) : /\ r \in plan.actions[a].rule
                                                    /\ answer[a] \in {"Pending", "Acknowledged"}
  <1>1. Report!EvaluateRule(r, c) =
          IF Report!OperationLifecycle(c) = "Failed" THEN "Failed"
          ELSE IF open # {}
            THEN IF state[Report!Min(open)] \in Report!Unfinished \cup Report!Broken THEN "Failed"
                 ELSE Report!WaitStatus(Report!Min(open))
          ELSE IF proofs # {}
            THEN IF state[Report!Min(proofs)] = "Skipped" THEN "AlreadyPresent" ELSE "Verified"
          ELSE IF relevant = {} /\ Report!TargetSatisfies(r) THEN "AlreadyPresent"
          ELSE IF Report!RuleRequiresReauth(r) THEN "ReauthRequired"
          ELSE IF asked THEN "WaitingForUser"
          ELSE IF relevant = {} /\ Report!UnsupportedRestore(c) THEN "Unsupported" ELSE "Failed"
    BY DEF Report!EvaluateRule
  <1>2. proofs # {} => Proved(r, c)
    BY DEF Proved, Report!OpsOf
  <1>3. asked => OpenAction(c)
    BY DEF OpenAction
  <1>4. open # {} => state[Report!Min(open)] \in Report!Unfinished \cup Report!Broken \/ Paused(c)
    <2> SUFFICES ASSUME open # {}
                 PROVE  state[Report!Min(open)] \in Report!Unfinished \cup Report!Broken \/ Paused(c)
      OBVIOUS
    <2>1. open \subseteq Report!Ops /\ Report!Ops \subseteq Nat
      BY RepInputs DEF RepInv, Report!OpsOf
    <2>2. PICK m : m = Report!Min(open) /\ m \in open
      <3> HIDE DEF open
      <3> QED
        BY <2>1, RepMin
    <2>3. m \in Report!Ops /\ Report!Op(m).comp = c /\ state[m] \notin Report!Settled
      BY <2>2 DEF Report!OpsOf
    <2> HIDE DEF open
    <2> QED
      BY <2>2, <2>3 DEF RepInv, Paused
  <1>5. Report!WaitStatus(Report!Min(open)) \in PauseStatuses
    BY WaitStatuses
  <1>6. /\ "Verified" \notin PauseStatuses /\ "AlreadyPresent" \notin PauseStatuses
        /\ "Failed" \notin PauseStatuses /\ "Unsupported" \notin PauseStatuses
        /\ "ReauthRequired" \in PauseStatuses /\ "WaitingForUser" \in PauseStatuses
    BY DEF PauseStatuses
  <1> HIDE DEF relevant, open, proofs, asked
  <1> QED
    BY <1>1, <1>2, <1>3, <1>4, <1>5, <1>6 DEF RuleStatuses, Proved

LEMMA PartStatusesFinite == IsFiniteSet(PartStatuses)
  <1> DEFINE f == <<"Skipped", "PartiallyVerified", "Failed", "Verified", "AlreadyPresent",
                    "Unsupported", "ReauthRequired", "RebootRequired", "WaitingForUser">>
  <1>1. DOMAIN f = 1..9 /\ f = [i \in 1..9 |-> f[i]]
    OBVIOUS
  <1>2. \A i \in 1..9 : f[i] \in PartStatuses
    BY DEF PartStatuses, RuleStatuses, PauseStatuses
  <1>3. \A y \in PartStatuses : \E i \in 1..9 : f[i] = y
    BY DEF PartStatuses, RuleStatuses, PauseStatuses
  <1> HIDE DEF f
  <1>4. f \in [1..9 -> PartStatuses]
    BY <1>1, <1>2
  <1>5. IsFiniteSet(1..9)
    <2>1. 1 \in Int /\ 9 \in Int
      OBVIOUS
    <2> QED
      BY <2>1, FS_Interval, Zenon
  <1> QED
    BY <1>3, <1>4, <1>5, FiniteImage

LEMMA Aggregated ==
    ASSUME NEW ss \in SUBSET PartStatuses
    PROVE  /\ Report!AggregateStatuses(ss) \in PartStatuses
           /\ "Failed" \in ss => Report!AggregateStatuses(ss) = "Failed"
           /\ Report!AggregateStatuses(ss) \in PauseStatuses => Report!AggregateStatuses(ss) \in ss
           /\ Report!AggregateStatuses(ss) \in {"Verified", "AlreadyPresent"} =>
                 ss = {Report!AggregateStatuses(ss)}
  <1>1. Report!Cardinality(ss) = 1 => \E x : ss = {x}
    BY PartStatusesFinite, FS_Subset, FS_Singleton, RepFinite
  <1>2. CASE ss = {} \/ "Failed" \in ss
    BY <1>2 DEF Report!AggregateStatuses, PartStatuses, RuleStatuses, PauseStatuses
  <1>3. CASE ~(ss = {} \/ "Failed" \in ss) /\ ss \cap PauseStatuses # {}
    BY <1>3 DEF Report!AggregateStatuses, PartStatuses, RuleStatuses, PauseStatuses
  <1>4. CASE ~(ss = {} \/ "Failed" \in ss) /\ ss \cap PauseStatuses = {}
    <2>1. \/ Report!Cardinality(ss) = 1 /\ Report!AggregateStatuses(ss) = CHOOSE s \in ss : TRUE
          \/ Report!AggregateStatuses(ss) = "PartiallyVerified"
      BY <1>4 DEF Report!AggregateStatuses, PauseStatuses
    <2>2. CASE Report!AggregateStatuses(ss) = "PartiallyVerified"
      BY <1>4, <2>2 DEF PartStatuses, PauseStatuses
    <2>3. CASE Report!Cardinality(ss) = 1 /\ Report!AggregateStatuses(ss) = CHOOSE s \in ss : TRUE
      <3>1. PICK x : ss = {x}
        BY <1>1, <2>3
      <3>2. Report!AggregateStatuses(ss) = x
        BY <2>3, <3>1
      <3> QED
        BY <1>4, <3>1, <3>2
    <2> QED
      BY <2>1, <2>2, <2>3
  <1> QED
    BY <1>2, <1>3, <1>4

LEMMA Combined ==
    ASSUME NEW rules \in PartStatuses, NEW ops \in LifeStatuses, NEW acts \in LifeStatuses
    PROVE  LET s == Report!CombineComponentStatus(rules, ops, acts) IN
           /\ s \in PartStatuses
           /\ rules = "Failed" => s = "Failed"
           /\ s \in {"Verified", "AlreadyPresent"} =>
                 rules = s /\ ops \in {"none", "Skipped"} /\ acts \in {"none", "Skipped"}
           /\ s \in PauseStatuses => s \in {rules, ops, acts}
  <1> DEFINE s == Report!CombineComponentStatus(rules, ops, acts)
             life == {ops, acts} \ {"none"}
  <1> USE DEF PartStatuses, RuleStatuses, LifeStatuses, PauseStatuses
  <1>1. CASE rules = "Failed"
    <2>1. s = "Failed"
      BY <1>1 DEF Report!CombineComponentStatus
    <2> QED
      BY <1>1, <2>1
  <1>2. CASE rules # "Failed" /\ life = {}
    <2>1. s = rules
      BY <1>2 DEF Report!CombineComponentStatus
    <2>2. ops = "none" /\ acts = "none"
      BY <1>2
    <2> QED
      BY <1>2, <2>1, <2>2
  <1>3. CASE rules # "Failed" /\ life = {"Skipped"}
    <2>1. s = CASE rules = "AlreadyPresent" -> "AlreadyPresent"
                [] rules = "Verified" -> "PartiallyVerified"
                [] OTHER -> "Skipped"
      BY <1>3 DEF Report!CombineComponentStatus
    <2>2. ops \in {"none", "Skipped"} /\ acts \in {"none", "Skipped"}
      BY <1>3
    <2>3. \/ s = "AlreadyPresent" /\ rules = "AlreadyPresent"
          \/ s = "PartiallyVerified"
          \/ s = "Skipped"
      BY <2>1
    <2> HIDE DEF s
    <2> QED
      BY <1>3, <2>2, <2>3 DEF s
  <1>4. CASE rules # "Failed" /\ life # {} /\ life # {"Skipped"}
    <2> DEFINE ss == life \ {"Skipped"}
    <2>1. s = Report!AggregateStatuses(ss)
      BY <1>4 DEF Report!CombineComponentStatus
    <2>2. ss # {} /\ ss \subseteq {"Failed", "ReauthRequired", "RebootRequired", "WaitingForUser"} /\ ss \subseteq {ops, acts}
      BY <1>4
    <2> HIDE DEF ss, life
    <2>3. s \in ss
      BY <2>1, <2>2 DEF Report!AggregateStatuses
    <2> HIDE DEF s
    <2> QED
      BY <1>4, <2>2, <2>3 DEF s
  <1> QED
    BY <1>1, <1>2, <1>3, <1>4

LEMMA ComponentSays ==
    ASSUME RepInv, NEW c
    PROVE  LET s == Report!BuildComponentReport(c) IN
           /\ s \in PartStatuses
           /\ (\E o \in Report!OpsOf(c) : state[o] \in Report!Broken) => s = "Failed"
           /\ s \in {"Verified", "AlreadyPresent"} =>
                 /\ \A o \in Report!OpsOf(c) : state[o] \in Report!Settled
                 /\ \A a \in Report!ActionsOf(c) : answer[a] \in {"Completed", "Skipped"}
                 /\ \A r \in Report!RulesOf(c) : Proved(r, c)
           /\ s \in PauseStatuses =>
                 \/ Paused(c) \/ OpenAction(c)
                 \/ \E r \in Report!RulesOf(c) : Report!RuleRequiresReauth(r)
  <1> DEFINE s == Report!BuildComponentReport(c)
             ss == {Report!EvaluateRule(r, c) : r \in Report!RulesOf(c)}
             rules == Report!AggregateStatuses(ss)
             ops == Report!OperationLifecycle(c)
             acts == Report!ManualActionLifecycle(c)
  <1>1. CASE c \notin DOMAIN plan.comps \/ Report!RulesOf(c) = {}
    <2>1. s = "Failed"
      BY <1>1 DEF Report!BuildComponentReport
    <2> HIDE DEF s
    <2> QED
      BY <2>1 DEF s, PartStatuses, RuleStatuses, PauseStatuses
  <1>2. CASE ~(c \notin DOMAIN plan.comps \/ Report!RulesOf(c) = {})
    <2>1. s = Report!CombineComponentStatus(rules, ops, acts)
      BY <1>2 DEF Report!BuildComponentReport
    <2>2. ss \subseteq RuleStatuses /\ ss \subseteq PartStatuses /\ ss # {}
      BY <1>2, RulesSay DEF PartStatuses
    <2>3. /\ ops = "Failed" => "Failed" \in ss
          /\ \A r \in Report!RulesOf(c) : Report!EvaluateRule(r, c) \in ss
          /\ \A x \in ss : \E r \in Report!RulesOf(c) : x = Report!EvaluateRule(r, c)
      BY <2>2, RulesSay
    <2> HIDE DEF ss
    <2>4. /\ rules \in PartStatuses
          /\ "Failed" \in ss => rules = "Failed"
          /\ rules \in PauseStatuses => rules \in ss
          /\ rules \in {"Verified", "AlreadyPresent"} => ss = {rules}
      BY <2>2, Aggregated
    <2>5. /\ ops \in LifeStatuses
          /\ (\E o \in Report!OpsOf(c) : state[o] \in Report!Broken) => ops = "Failed"
          /\ ops \in {"none", "Skipped"} => \A o \in Report!OpsOf(c) : state[o] \in Report!Settled
          /\ ops \in PauseStatuses => Paused(c)
      BY OperationsSay
    <2>6. /\ acts \in LifeStatuses
          /\ acts \in PauseStatuses => OpenAction(c)
          /\ acts \in {"none", "Skipped"} => \A a \in Report!ActionsOf(c) : answer[a] \in {"Completed", "Skipped"}
      BY ActionsSay
    <2> HIDE DEF rules, ops, acts, s
    <2>7. /\ s \in PartStatuses
          /\ rules = "Failed" => s = "Failed"
          /\ s \in {"Verified", "AlreadyPresent"} =>
                 rules = s /\ ops \in {"none", "Skipped"} /\ acts \in {"none", "Skipped"}
          /\ s \in PauseStatuses => s \in {rules, ops, acts}
      BY <2>1, <2>4, <2>5, <2>6, Combined
    <2>8. (\E o \in Report!OpsOf(c) : state[o] \in Report!Broken) => s = "Failed"
      BY <2>3, <2>4, <2>5, <2>7
    <2>9. s \in {"Verified", "AlreadyPresent"} => \A r \in Report!RulesOf(c) : Proved(r, c)
      BY <2>3, <2>4, <2>7, RulesSay
    <2>10. rules \in PauseStatuses => Paused(c) \/ OpenAction(c) \/ \E r \in Report!RulesOf(c) : Report!RuleRequiresReauth(r)
      BY <2>3, <2>4, RulesSay
    <2> QED
      BY <2>5, <2>6, <2>7, <2>8, <2>9, <2>10 DEF s
  <1> QED
    BY <1>1, <1>2

Parts == [i \in DOMAIN plan.selected |-> Report!BuildComponentReport(plan.selected[i])]

LEMMA ReportOf ==
    ASSUME RepInv
    PROVE  \/ Report!BuildReport.status = "SchemaInvalid"
           \/ /\ Report!BuildReport.status = Report!AggregateStatuses(Report!Range(Parts))
              /\ Report!BuildReport.components = Parts
  BY DEF Report!BuildReport, Parts

LEMMA PartsOf ==
    ASSUME RepInv
    PROVE  /\ Report!Range(Parts) \subseteq PartStatuses
           /\ \A c \in Report!Range(plan.selected) : Report!BuildComponentReport(c) \in Report!Range(Parts)
           /\ \A s \in Report!Range(Parts) :
                 \E c \in Report!Range(plan.selected) : s = Report!BuildComponentReport(c)
  <1>1. \A i \in DOMAIN plan.selected : Parts[i] = Report!BuildComponentReport(plan.selected[i])
    BY DEF Parts
  <1>2. DOMAIN Parts = DOMAIN plan.selected
    BY DEF Parts
  <1>3. \A s \in Report!Range(Parts) :
            \E c \in Report!Range(plan.selected) : s = Report!BuildComponentReport(c)
    BY <1>1, <1>2 DEF Report!Range
  <1>4. \A c \in Report!Range(plan.selected) : Report!BuildComponentReport(c) \in Report!Range(Parts)
    BY <1>1, <1>2 DEF Report!Range
  <1>5. \A c : Report!BuildComponentReport(c) \in PartStatuses
    BY ComponentSays
  <1> QED
    BY <1>3, <1>4, <1>5

LEMMA FailureReported == ASSUME RepInv PROVE Report!FailureIsReported
  <1> SUFFICES ASSUME NEW o \in Report!SelectedOps, state[o] \in Report!Broken
               PROVE  Report!BuildReport.status \in {"Failed", "SchemaInvalid"}
    BY DEF Report!FailureIsReported
  <1>1. PICK c : c \in Report!Range(plan.selected) /\ o \in Report!OpsOf(c)
    BY DEF Report!SelectedOps, Report!OpsOf
  <1>2. Report!BuildComponentReport(c) = "Failed"
    BY <1>1, ComponentSays
  <1>3. Report!AggregateStatuses(Report!Range(Parts)) = "Failed"
    BY <1>1, <1>2, PartsOf, Aggregated
  <1> QED
    BY <1>3, ReportOf

LEMMA PauseReal == ASSUME RepInv PROVE Report!PauseIsReal
  <1> SUFFICES ASSUME Report!BuildReport.status \in {"WaitingForUser", "ReauthRequired", "RebootRequired"}
               PROVE  \/ \E o \in Report!SelectedOps : state[o] \in {"WaitingForUser", "WaitingForReboot"}
                      \/ \E a \in Report!Actions : /\ plan.actions[a].comp \in Report!Range(plan.selected)
                                                   /\ answer[a] \in {"Pending", "Acknowledged"}
                      \/ \E c \in Report!Range(plan.selected) : \E r \in Report!RulesOf(c) :
                            Report!RuleRequiresReauth(r)
    BY DEF Report!PauseIsReal
  <1>1. Report!AggregateStatuses(Report!Range(Parts)) \in PauseStatuses
    BY ReportOf DEF PauseStatuses
  <1>2. PICK c \in Report!Range(plan.selected) : Report!BuildComponentReport(c) \in PauseStatuses
    BY <1>1, PartsOf, Aggregated
  <1>3. Paused(c) \/ OpenAction(c) \/ \E r \in Report!RulesOf(c) : Report!RuleRequiresReauth(r)
    BY <1>2, ComponentSays
  <1>4. Paused(c) => \E o \in Report!SelectedOps : state[o] \in {"WaitingForUser", "WaitingForReboot"}
    BY DEF Paused, Waits, Report!SelectedOps
  <1>5. OpenAction(c) => \E a \in Report!Actions : /\ plan.actions[a].comp \in Report!Range(plan.selected)
                                                   /\ answer[a] \in {"Pending", "Acknowledged"}
    BY DEF OpenAction, Report!ActionsOf
  <1> QED
    BY <1>3, <1>4, <1>5

LEMMA SuccessEarned == ASSUME RepInv PROVE Report!SuccessIsEarned
  <1> DEFINE s == Report!AggregateStatuses(Report!Range(Parts))
  <1> SUFFICES ASSUME Report!ReportExitCode(Report!BuildReport.status) = 0
               PROVE  /\ Report!ReportCounts(Report!BuildReport, "Verified")
                             + Report!ReportCounts(Report!BuildReport, "AlreadyPresent") = Len(plan.selected)
                      /\ \A o \in Report!SelectedOps : state[o] \in Report!Settled
                      /\ \A a \in Report!Actions : plan.actions[a].comp \in Report!Range(plan.selected)
                                                     => answer[a] \in {"Completed", "Skipped"}
                      /\ \A c \in Report!Range(plan.selected) : \A r \in Report!RulesOf(c) : Proved(r, c)
    BY DEF Report!SuccessIsEarned, Proved
  <1>1. Report!BuildReport.status \in {"Verified", "AlreadyPresent"}
    BY DEF Report!ReportExitCode
  <1>2. s \in {"Verified", "AlreadyPresent"} /\ Report!BuildReport.components = Parts
    BY <1>1, ReportOf
  <1> HIDE DEF s
  <1>3. Report!Range(Parts) = {s}
    BY <1>2, PartsOf, Aggregated DEF s
  <1>4. \A c \in Report!Range(plan.selected) : Report!BuildComponentReport(c) \in {"Verified", "AlreadyPresent"}
    BY <1>2, <1>3, PartsOf
  <1>5. \A o \in Report!SelectedOps : state[o] \in Report!Settled
    BY <1>4, ComponentSays DEF Report!SelectedOps, Report!OpsOf
  <1>6. \A a \in Report!Actions : plan.actions[a].comp \in Report!Range(plan.selected)
                                    => answer[a] \in {"Completed", "Skipped"}
    BY <1>4, ComponentSays DEF Report!ActionsOf
  <1>7. \A c \in Report!Range(plan.selected) : \A r \in Report!RulesOf(c) : Proved(r, c)
    BY <1>4, ComponentSays
  <1>8. Report!ReportCounts(Report!BuildReport, "Verified")
            + Report!ReportCounts(Report!BuildReport, "AlreadyPresent") = Len(plan.selected)
    <2>1. DOMAIN Parts = 1..Len(plan.selected) /\ Len(plan.selected) \in Nat
      BY RepInputs DEF Parts, RepInv
    <2>2. \A i \in DOMAIN Parts : Parts[i] = s
      BY <1>3 DEF Report!Range
    <2>3. \A x \in {"Verified", "AlreadyPresent"} :
              Report!ReportCounts(Report!BuildReport, x) = Report!Cardinality({i \in DOMAIN Parts : Parts[i] = x})
      BY <1>2 DEF Report!ReportCounts
    <2>4. {i \in DOMAIN Parts : Parts[i] = s} = 1..Len(plan.selected)
      BY <2>1, <2>2
    <2>5. \A x : x # s => {i \in DOMAIN Parts : Parts[i] = x} = {}
      BY <2>2
    <2>6. Cardinality(1..Len(plan.selected)) = Len(plan.selected) /\ Cardinality({}) = 0
      BY <2>1, FS_Interval, FS_EmptySet
    <2>7. Report!ReportCounts(Report!BuildReport, s) = Len(plan.selected)
      BY <1>2, <2>3, <2>4, <2>6, RepFinite
    <2>8. \A x \in {"Verified", "AlreadyPresent"} : x # s => Report!ReportCounts(Report!BuildReport, x) = 0
      BY <2>3, <2>5, <2>6, RepFinite
    <2> QED
      BY <1>2, <2>1, <2>7, <2>8
  <1> QED
    BY <1>5, <1>6, <1>7, <1>8

-----------------------------------------------------------------------------
(* The parts together.                                                     *)

PlanningInv ==
    /\ part \in {"selection", "diff", "plan", "report"}
    /\ part = "selection" => SelInv
    /\ part = "diff" => DiffInv
    /\ part = "plan" => PlanInv
    /\ part = "report" => RepInv

LEMMA PlanningInitInv == MCInit => PlanningInv
  BY SelInitInv, DiffInitInv, PlanInitInv, RepInitInv DEF MCInit, PlanningInv

LEMMA PlanningStepInv == PlanningInv /\ [MCNext]_mcVars => PlanningInv'
  <1> SUFFICES ASSUME PlanningInv, [MCNext]_mcVars PROVE PlanningInv'
    OBVIOUS
  <1>1. CASE SelectionStep
    <2>1. part = "selection" /\ part' = part /\ SelInv
      BY <1>1 DEF SelectionStep, PlanningInv
    <2>2. SelInv'
      BY <1>1, <2>1, SelStepInv DEF SelectionStep
    <2> QED
      BY <2>1, <2>2 DEF PlanningInv
  <1>2. CASE DiffStep
    <2>1. part = "diff" /\ part' = part /\ DiffInv
      BY <1>2 DEF DiffStep, PlanningInv
    <2>2. DiffInv'
      BY <1>2, <2>1, DiffStepInv DEF DiffStep
    <2> QED
      BY <2>1, <2>2 DEF PlanningInv
  <1>3. CASE PlanStep
    <2>1. part = "plan" /\ part' = part /\ PlanInv
      BY <1>3 DEF PlanStep, PlanningInv
    <2>2. PlanInv'
      BY <1>3, <2>1, PlanStepInv DEF PlanStep
    <2> QED
      BY <2>1, <2>2 DEF PlanningInv
  <1>4. CASE ReportStep
    <2>1. part = "report" /\ part' = part /\ RepInv
      BY <1>4 DEF ReportStep, PlanningInv
    <2>2. RepInv'
      BY <1>4, <2>1, RepStepInv DEF ReportStep
    <2> QED
      BY <2>1, <2>2 DEF PlanningInv
  <1>5. CASE UNCHANGED mcVars
    <2>1. /\ part' = part /\ UNCHANGED Sel!selVars /\ UNCHANGED <<pkg, target, Diff!diffVars>>
          /\ UNCHANGED Plan!plannerVars /\ UNCHANGED Report!reportVars
      BY <1>5 DEF mcVars, Sel!selVars, Diff!diffVars, Plan!plannerVars, Plan!diffVars, Plan!planVars,
                  Report!reportVars
    <2>3. (part = "selection" => SelInv') /\ (part = "diff" => DiffInv')
      BY <2>1, SelStepInv, DiffStepInv DEF PlanningInv
    <2>4. (part = "plan" => PlanInv') /\ (part = "report" => RepInv')
      BY <2>1, PlanStepInv, RepStepInv DEF PlanningInv
    <2> QED
      BY <2>1, <2>3, <2>4 DEF PlanningInv
  <1> QED
    BY <1>1, <1>2, <1>3, <1>4, <1>5 DEF MCNext

LEMMA PlanningAlwaysInv == MCSpec => []PlanningInv
  BY PlanningInitInv, PlanningStepInv, PTL DEF MCSpec

(* selection.rs, for every inventory and every request: what is selected   *)
(* is the least set that has what the user chose and all it requires, and  *)
(* nothing secret, large or executable is in it that was not asked for.    *)
THEOREM SelectionIsAlwaysSafe == MCSpec => []SelectionIsSafe
  <1>1. PlanningInv => SelectionIsSafe
    BY SelInvImplies DEF PlanningInv, SelectionIsSafe
  <1> QED
    BY <1>1, PlanningAlwaysInv, PTL

(* diff.rs, for every package and every target: the blocked components are *)
(* the least set that has those that cannot be restored and all that need  *)
(* one of them, whatever cycles the dependencies have; a target's own      *)
(* state is never replaced silently; version comparison is antisymmetric.  *)
THEOREM DiffIsAlwaysSound == MCSpec => []DiffIsSound
  <1>1. PlanningInv => DiffIsSound
    BY DiffInvImplies DEF PlanningInv, DiffIsSound
  <1> QED
    BY <1>1, PlanningAlwaysInv, PTL

(* planner.rs and operations.rs, for every package, target, selection and  *)
(* limit: a plan that is returned has every operation once and after its   *)
(* prerequisites, orders any two writes that overlap, asks before it       *)
(* changes, and verifies a component after all that it depends on.         *)
THEOREM PlanIsAlwaysSound == MCSpec => []PlanIsSound
  <1>1. PlanningInv => PlanIsSound
    BY PlanInvImplies DEF PlanningInv, PlanIsSound
  <1> QED
    BY <1>1, PlanningAlwaysInv, PTL

(* verification.rs, for every plan and every mix of journal states, stored *)
(* results, answers and facts: a broken operation makes the report fail,   *)
(* exit code 0 means that nothing is open and every rule has its proof,    *)
(* and a report that asks the user to come back names a reason.            *)
THEOREM ReportIsAlwaysHonest == MCSpec => []ReportIsHonest
  <1>1. PlanningInv => ReportIsHonest
    BY FailureReported, SuccessEarned, PauseReal DEF PlanningInv, ReportIsHonest
  <1> QED
    BY <1>1, PlanningAlwaysInv, PTL
=============================================================================
