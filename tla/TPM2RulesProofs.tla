--------------------------- MODULE TPM2RulesProofs ---------------------------
(***************************************************************************)
(* Theorems about the rules of module TPM2Rules: what it takes for a rule  *)
(* on the PCRs of a quote to succeed.  They rest on what Ascending returns,*)
(* for which the library's induction over finite sets is replaced by the   *)
(* least counterexample, a set without which no smaller one is one.        *)
(***************************************************************************)
EXTENDS TPM2Rules, FiniteSetTheorems, TLAPS

(* Each set in a set of subsets of a finite set has one below which there   *)
(* is none.                                                                *)
LEMMA LeastSet ==
  ASSUME NEW S, IsFiniteSet(S), NEW Sets, \A T \in Sets : T \subseteq S, Sets # {}
  PROVE  \E T \in Sets : \A U \in Sets : U \subseteq T => U = T
<1> DEFINE R == StrictSubsetOrdering(S)
           F == FiniteSubsetsOf(S)
<1>1. IsWellFoundedOn(R, F)
  BY FS_StrictSubsetOrderingWellFounded
<1>2. Sets \subseteq F
  BY FS_FiniteSubsetsOfFinite
<1>3. PICK T \in Sets : \A U \in Sets : ~(<<U, T>> \in R)
  <2> HIDE DEF R, F
  <2> QED
    BY <1>1, <1>2, WFMin
<1> QED
  BY <1>3 DEF StrictSubsetOrdering

(* Every finite set of numbers has a greatest member.                       *)
LEMMA GreatestMember ==
  ASSUME NEW S \in SUBSET Nat, IsFiniteSet(S), S # {}
  PROVE  \E m \in S : \A i \in S : i <= m
<1> DEFINE Without == {T \in SUBSET S : T # {} /\ ~\E m \in T : \A i \in T : i <= m}
<1> SUFFICES ASSUME Without # {} PROVE FALSE
  BY Zenon
<1>1. PICK T \in Without : \A U \in Without : U \subseteq T => U = T
  <2>1. \A T \in Without : T \subseteq S
    OBVIOUS
  <2> HIDE DEF Without
  <2> QED
    BY <2>1, LeastSet
<1>2. PICK n \in T : TRUE
  BY <1>1
<1>3. T \ {n} \notin Without
  BY <1>1, <1>2
<1>4. CASE T \ {n} = {}
  BY <1>1, <1>2, <1>4
<1>5. ASSUME NEW m \in T \ {n}, \A i \in T \ {n} : i <= m PROVE FALSE
  <2>1. m \in Nat /\ n \in Nat /\ T \subseteq Nat
    BY <1>1, <1>2
  <2>2. CASE n <= m
    BY <1>1, <1>5, <2>1, <2>2
  <2>3. CASE m <= n
    <3>1. \A i \in T : i <= n
      BY <1>5, <2>1, <2>3
    <3> QED
      BY <1>1, <1>2, <3>1
  <2> QED
    BY <2>1, <2>2, <2>3
<1> QED
  BY <1>1, <1>3, <1>4, <1>5

Lists(S) == {l \in [1..Cardinality(S) -> S] : \A j, k \in DOMAIN l : j < k => l[j] < l[k]}

(* There is an ascending list of every finite set of numbers.               *)
LEMMA AscendingExists ==
  ASSUME NEW S \in SUBSET Nat, IsFiniteSet(S)
  PROVE  Lists(S) # {}
<1> DEFINE Without == {T \in SUBSET S : Lists(T) = {}}
<1> SUFFICES ASSUME Without # {} PROVE FALSE
  BY Zenon
<1>1. PICK T \in Without : \A U \in Without : U \subseteq T => U = T
  <2>1. \A T \in Without : T \subseteq S
    OBVIOUS
  <2> HIDE DEF Without
  <2> QED
    BY <2>1, LeastSet
<1>2. IsFiniteSet(T) /\ T \subseteq Nat
  BY <1>1, FS_Subset
<1>3. CASE T = {}
  <2>1. Cardinality(T) = 0
    BY <1>3, FS_EmptySet
  <2>2. <<>> \in Lists(T)
    BY <1>3, <2>1 DEF Lists
  <2> QED
    BY <1>1, <2>2
<1>4. CASE T # {}
  <2>1. PICK m \in T : \A i \in T : i <= m
    BY <1>2, <1>4, GreatestMember
  <2> DEFINE U == T \ {m}
             n == Cardinality(U)
  <2>2. n \in Nat /\ Cardinality(T) = n + 1
    <3>1. IsFiniteSet(U) /\ n = Cardinality(T) - 1
      BY <1>2, <2>1, FS_RemoveElement
    <3>2. n \in Nat /\ Cardinality(T) \in Nat
      BY <1>2, <3>1, FS_CardinalityType
    <3> QED
      BY <3>1, <3>2
  <2>3. PICK l \in Lists(U) : TRUE
    BY <1>1, <2>1
  <2>4. l \in [1..n -> U] /\ \A j, k \in 1..n : j < k => l[j] < l[k]
    BY <2>3 DEF Lists
  <2> DEFINE longer == [k \in 1..(n + 1) |-> IF k = n + 1 THEN m ELSE l[k]]
  <2> HIDE DEF n
  <2>5. longer \in [1..(n + 1) -> T]
    BY <2>1, <2>2, <2>4
  <2>6. ASSUME NEW j \in 1..(n + 1), NEW k \in 1..(n + 1), j < k
        PROVE  longer[j] < longer[k]
    <3>1. j \in 1..n /\ longer[j] = l[j] /\ l[j] \in U
      BY <2>2, <2>4, <2>6
    <3>2. CASE k = n + 1
      <4>1. longer[k] = m /\ l[j] \in Nat /\ m \in Nat /\ l[j] <= m /\ l[j] # m
        BY <1>2, <2>1, <3>1, <3>2
      <4> QED
        BY <3>1, <4>1
    <3>3. CASE k # n + 1
      <4>1. k \in 1..n /\ longer[k] = l[k]
        BY <2>2, <3>3
      <4> QED
        BY <2>4, <2>6, <3>1, <4>1
    <3> QED
      BY <3>2, <3>3
  <2>7. longer \in Lists(T)
    BY <2>2, <2>5, <2>6 DEF Lists
  <2> QED
    BY <1>1, <2>7
<1> QED
  BY <1>3, <1>4

(* A list of members of a finite set that is as long as the set has members *)
(* has all of them, unless it has a duplicate.                             *)
LEMMA InjectionIsOnto ==
  ASSUME NEW S, IsFiniteSet(S), NEW n \in Nat, n = Cardinality(S), NEW l \in [1..n -> S],
         \A j, k \in 1..n : l[j] = l[k] => j = k
  PROVE  \A i \in S : \E k \in 1..n : l[k] = i
<1> SUFFICES ASSUME NEW i \in S, \A k \in 1..n : l[k] # i PROVE FALSE
  OBVIOUS
<1> DEFINE T == S \ {i}
           D == 1..n
<1>1. IsFiniteSet(T) /\ Cardinality(T) = n - 1
  BY FS_RemoveElement
<1>2. IsFiniteSet(D) /\ Cardinality(D) = n
  BY FS_Interval
<1>3. l \in [D -> T] /\ Cardinality(T) < Cardinality(D)
  BY <1>1, <1>2
<1> HIDE DEF T, D
<1>4. PICK j, k \in D : j # k /\ l[j] = l[k]
  BY <1>1, <1>2, <1>3, FS_PigeonHole
<1> QED
  BY <1>4 DEF D

(* The list Ascending(S) has each member of S once, in ascending order.     *)
THEOREM AscendingLists ==
  ASSUME NEW S \in SUBSET Nat, IsFiniteSet(S)
  PROVE  /\ Cardinality(S) \in Nat
         /\ Ascending(S) \in [1..Cardinality(S) -> S]
         /\ Len(Ascending(S)) = Cardinality(S)
         /\ \A j, k \in 1..Cardinality(S) : j < k => Ascending(S)[j] < Ascending(S)[k]
         /\ \A i \in S : \E k \in 1..Cardinality(S) : Ascending(S)[k] = i
<1> DEFINE n == Cardinality(S)
           l == Ascending(S)
<1>1. n \in Nat
  BY FS_CardinalityType
<1>2. l \in [1..n -> S] /\ \A j, k \in DOMAIN l : j < k => l[j] < l[k]
  <2>1. PICK x \in [1..n -> S] : \A j, k \in DOMAIN x : j < k => x[j] < x[k]
    BY AscendingExists DEF Lists
  <2> QED
    BY <2>1 DEF Ascending
<1> HIDE DEF n, l
<1>3. \A j, k \in 1..n : j < k => l[j] < l[k]
  BY <1>2
<1>4. Len(l) = n
  BY <1>1, <1>2
<1>5. \A j, k \in 1..n : l[j] = l[k] => j = k
  <2> SUFFICES ASSUME NEW j \in 1..n, NEW k \in 1..n, j # k PROVE l[j] # l[k]
    OBVIOUS
  <2>1. l[j] \in Nat /\ l[k] \in Nat
    BY <1>2
  <2> QED
    BY <1>1, <1>3, <2>1
<1>6. \A i \in S : \E k \in 1..n : l[k] = i
  BY <1>1, <1>2, <1>5, InjectionIsOnto DEF n
<1> QED
  BY <1>1, <1>2, <1>3, <1>4, <1>6 DEF n, l

-----------------------------------------------------------------------------
(* The first i members of a sequence, as the concatenation of pieces of one *)
(* member each has them.                                                   *)
First(x, i) == [k \in 1..i |-> x[k]]

LEMMA FirstGrows ==
  ASSUME NEW n \in Nat, NEW S, NEW x \in [1..n -> S], NEW i \in 1..n, i # 1
  PROVE  i - 1 \in 1..n /\ First(x, i - 1) \o <<x[i]>> = First(x, i)
<1> DEFINE y == First(x, i - 1)
<1>1. i - 1 \in 1..n /\ y = [k \in 1..(i - 1) |-> x[k]]
  BY DEF First
<1>2. y \in Seq(S) /\ <<x[i]>> \in Seq(S) /\ Len(y) = i - 1
  BY <1>1
<1> HIDE DEF y
<1>3. y \o <<x[i]>> = [k \in 1..i |-> x[k]]
  BY <1>1, <1>2
<1> QED
  BY <1>1, <1>3 DEF First, y

(* To concatenate pieces of one member each is to put these in a sequence.  *)
(* The recursive function of FlattenSeq exists, for First is one, and no    *)
(* first i is the last for which it is First.                              *)
THEOREM FlattenedPieces ==
  ASSUME NEW n \in Nat, NEW S, NEW x \in [1..n -> S],
         NEW seqs, seqs = [k \in 1..n |-> <<x[k]>>]
  PROVE  FlattenSeq(seqs) = x
<1> DEFINE Flattens(f) == f = [i \in 1..n |-> IF i = 1 THEN seqs[i] ELSE f[i-1] \o seqs[i]]
           flatten == CHOOSE f : Flattens(f)
<1>1. Len(seqs) = n
  OBVIOUS
<1>2. \E f : Flattens(f)
  <2> DEFINE f == [i \in 1..n |-> First(x, i)]
  <2>1. ASSUME NEW i \in 1..n PROVE f[i] = IF i = 1 THEN seqs[i] ELSE f[i-1] \o seqs[i]
    <3>1. CASE i = 1
      BY <3>1 DEF First
    <3>2. CASE i # 1
      BY <3>2, FirstGrows
    <3> QED
      BY <3>1, <3>2
  <2>2. Flattens(f)
    <3> HIDE DEF f
    <3>1. f = [i \in 1..n |-> f[i]]
      BY DEF f
    <3> QED
      BY <2>1, <3>1
  <2> HIDE DEF f, Flattens
  <2> QED
    BY <2>2
<1>3. Flattens(flatten)
  <2> HIDE DEF Flattens
  <2> QED
    BY <1>2, Zenon
<1>4. ASSUME n # 0 PROVE flatten[n] = First(x, n)
  <2> DEFINE Good == {i \in 1..n : flatten[i] = First(x, i)}
  <2>1. Good \in SUBSET Nat /\ IsFiniteSet(Good)
    <3>1. Good \subseteq Nat /\ \A i \in Good : i <= n
      OBVIOUS
    <3> HIDE DEF Good
    <3> QED
      BY <3>1, FS_BoundedSetOfNaturals
  <2>2. 1 \in Good
    <3> HIDE DEF flatten
    <3>1. 1 \in 1..n /\ flatten[1] = seqs[1]
      BY <1>3, <1>4
    <3>2. seqs[1] = <<x[1]>> /\ First(x, 1) = <<x[1]>>
      BY <3>1 DEF First
    <3> QED
      BY <3>1, <3>2
  <2>3. PICK m \in Good : \A i \in Good : i <= m
    <3> HIDE DEF Good
    <3> QED
      BY <2>1, <2>2, GreatestMember
  <2>4. m + 1 \in 1..n => m + 1 \in Good
    <3> SUFFICES ASSUME m + 1 \in 1..n PROVE flatten[m + 1] = First(x, m + 1)
      OBVIOUS
    <3>1. m \in 1..n /\ flatten[m] = First(x, m) /\ m + 1 # 1 /\ (m + 1) - 1 = m
      OBVIOUS
    <3>2. flatten[m + 1] = flatten[m] \o <<x[m + 1]>>
      <4> HIDE DEF flatten
      <4> QED
        BY <1>3, <3>1
    <3>3. First(x, (m + 1) - 1) \o <<x[m + 1]>> = First(x, m + 1)
      BY <3>1, FirstGrows
    <3> HIDE DEF flatten
    <3> QED
      BY <3>1, <3>2, <3>3
  <2>5. m \in 1..n /\ flatten[m] = First(x, m)
    OBVIOUS
  <2> HIDE DEF Good
  <2>6. m = n
    BY <2>3, <2>4, <2>5
  <2> QED
    BY <2>5, <2>6
<1>5. First(x, n) = x
  BY DEF First
<1>6. n # 0 => FlattenSeq(seqs) = flatten[n]
  BY <1>1 DEF FlattenSeq
<1>7. n = 0 => FlattenSeq(seqs) = x
  BY <1>1 DEF FlattenSeq
<1> QED
  BY <1>4, <1>5, <1>6, <1>7

(* The list of a single selection is that of its members.                   *)
LEMMA SingleSelection ==
  ASSUME NEW S \in SUBSET Nat, IsFiniteSet(S)
  PROVE  TPMSPCRSelectionToList(<<S>>) = Ascending(S)
<1> DEFINE seqs == [k \in DOMAIN <<S>> |-> Ascending(<<S>>[k])]
<1>1. seqs = <<Ascending(S)>> /\ Len(seqs) = 1
  OBVIOUS
<1> HIDE DEF seqs
<1>2. FlattenSeq(seqs) = seqs[1]
  <2> DEFINE Flattens(f) == f = [i \in 1..1 |-> IF i = 1 THEN seqs[i] ELSE f[i-1] \o seqs[i]]
  <2>1. Flattens([i \in 1..1 |-> seqs[1]])
    OBVIOUS
  <2>2. Flattens(CHOOSE f : Flattens(f))
    <3> HIDE DEF Flattens
    <3> QED
      BY <2>1, Zenon
  <2> QED
    BY <1>1, <2>2 DEF FlattenSeq
<1> QED
  BY <1>1, <1>2 DEF TPMSPCRSelectionToList, seqs

-----------------------------------------------------------------------------
(* The entries are each as long as one digest.                              *)
Single(entries, i) == \E piece : entries[i] = <<piece>>

(* If the entries of both are each as long as one digest, two digests over  *)
(* the same PCRs are equal only if their hashes and all those entries are,  *)
(* and if they are (checkQuoteDigest256, tpm2rules/public.go:204).          *)
THEOREM DigestIsOfSelection ==
  ASSUME NEW S \in SUBSET Nat, IsFiniteSet(S), NEW v, NEW w, NEW g, NEW h,
         \A i \in S : Single(v, i) /\ Single(w, i)
  PROVE  Digest(g, v, Ascending(S)) = Digest(h, w, Ascending(S)) <=>
           g = h /\ \A i \in S : v[i] = w[i]
<1> DEFINE l == Ascending(S)
           n == Cardinality(S)
<1>1. n \in Nat /\ l \in [1..n -> S] /\ \A i \in S : \E k \in 1..n : l[k] = i
  BY AscendingLists
<1> HIDE DEF l, n
<1>2. ASSUME NEW u, \A i \in S : Single(u, i)
      PROVE  Digest(h, u, l).of = [k \in 1..n |-> u[l[k]][1]]
             /\ \A i \in S : u[i] = <<u[i][1]>>
  <2> DEFINE x == [k \in 1..n |-> u[l[k]][1]]
             Pieces == {x[k] : k \in 1..n}
             seqs == [k \in DOMAIN l |-> u[l[k]]]
  <2>1. ASSUME NEW i \in S PROVE u[i] = <<u[i][1]>>
    BY <1>2 DEF Single
  <2>2. seqs = [k \in 1..n |-> <<x[k]>>]
    BY <1>1, <2>1
  <2>3. x \in [1..n -> Pieces]
    OBVIOUS
  <2> HIDE DEF Pieces
  <2>4. FlattenSeq(seqs) = x
    <3> HIDE DEF x, seqs
    <3> QED
      BY <1>1, <2>2, <2>3, FlattenedPieces
  <2> QED
    BY <2>1, <2>4 DEF Digest
<1>3. Digest(g, v, l) = Digest(h, w, l) => g = h
  BY DEF Digest
<1>4. ASSUME Digest(g, v, l) = Digest(h, w, l), NEW i \in S PROVE v[i] = w[i]
  <2>1. v[i] = <<v[i][1]>> /\ w[i] = <<w[i][1]>>
    BY <1>2
  <2>2. PICK k \in 1..n : l[k] = i
    BY <1>1
  <2>3. Digest(h, v, l).of = Digest(h, w, l).of
    BY <1>3, <1>4
  <2>4. v[i][1] = w[i][1]
    <3>1. [m \in 1..n |-> v[l[m]][1]] = [m \in 1..n |-> w[l[m]][1]]
      BY <1>2, <2>3
    <3>2. [m \in 1..n |-> v[l[m]][1]][k] = [m \in 1..n |-> w[l[m]][1]][k]
      BY <3>1
    <3> QED
      BY <2>2, <3>2
  <2> QED
    BY <2>1, <2>4
<1>5. ASSUME g = h, \A i \in S : v[i] = w[i] PROVE Digest(g, v, l) = Digest(h, w, l)
  BY <1>1, <1>5 DEF Digest
<1> QED
  BY <1>3, <1>4, <1>5 DEF l

(* Rule checkPCRSelection accepts a list only of members of the selections  *)
(* of the quote and as long as their list.  If there is one selection, a    *)
(* list without duplicates is all of it (tpm2rules/public.go:169).          *)
THEOREM SelectionChecked ==
  ASSUME NEW claim, NEW evs, checkPCRSelection(claim, evs) = "Success"
  PROVE  /\ HasQuote(claim)
         /\ LET list == TPMSPCRSelectionToList(claim.body.quote.selection)
            IN  ToSet(evs.pcrselection) \subseteq ToSet(list) /\ Len(evs.pcrselection) = Len(list)
         /\ \A S \in SUBSET Nat :
              IsFiniteSet(S) /\ claim.body.quote.selection = <<S>> =>
                /\ ToSet(evs.pcrselection) \subseteq S
                /\ Len(evs.pcrselection) = Cardinality(S)
                /\ /\ evs.pcrselection \in Seq(Nat)
                   /\ \A j, k \in DOMAIN evs.pcrselection :
                        evs.pcrselection[j] = evs.pcrselection[k] => j = k
                   => ToSet(evs.pcrselection) = S
<1> DEFINE e == evs.pcrselection
           list == TPMSPCRSelectionToList(claim.body.quote.selection)
<1>1. HasQuote(claim) /\ Len(e) = Len(list) /\ ToSet(e) \subseteq ToSet(list)
  BY DEF checkPCRSelection
<1>2. ASSUME NEW S \in SUBSET Nat, IsFiniteSet(S), claim.body.quote.selection = <<S>>
      PROVE  /\ ToSet(e) \subseteq S
             /\ Len(e) = Cardinality(S)
             /\ /\ e \in Seq(Nat)
                /\ \A j, k \in DOMAIN e : e[j] = e[k] => j = k
                => ToSet(e) = S
  <2> DEFINE l == Ascending(S)
  <2>1. list = l
    BY <1>2, SingleSelection
  <2>2. l \in [1..Cardinality(S) -> S] /\ Len(l) = Cardinality(S)
    BY <1>2, AscendingLists
  <2>3. ToSet(l) \subseteq S
    BY <2>2 DEF ToSet
  <2> HIDE DEF l, e, list
  <2>4. ToSet(e) \subseteq S /\ Len(e) = Cardinality(S)
    BY <1>1, <2>1, <2>2, <2>3
  <2>5. ASSUME e \in Seq(Nat), \A j, k \in DOMAIN e : e[j] = e[k] => j = k, NEW i \in S
        PROVE  i \in ToSet(e)
    <3> DEFINE n == Len(e)
    <3>1. n \in Nat /\ DOMAIN e = 1..n /\ n = Cardinality(S)
      BY <2>4, <2>5
    <3>2. e \in [1..n -> S]
      <4>1. \A k \in 1..n : e[k] \in ToSet(e)
        BY <3>1 DEF ToSet
      <4> QED
        BY <2>4, <2>5, <3>1, <4>1
    <3>3. \E k \in 1..n : e[k] = i
      <4>1. \A j, k \in 1..n : e[j] = e[k] => j = k
        BY <2>5, <3>1
      <4> HIDE DEF n
      <4> QED
        BY <1>2, <3>1, <3>2, <4>1, InjectionIsOnto
    <3> QED
      BY <3>1, <3>3 DEF ToSet
  <2> QED
    BY <2>4, <2>5
<1> QED
  BY <1>1, <1>2 DEF e, list
=============================================================================
