------------------------------ MODULE ListFacts ------------------------------
(***************************************************************************)
(* Facts about the lists of module Lists, for lists of anything, and about *)
(* their representation in memory by LinkedList and Memb.                  *)
(***************************************************************************)
EXTENDS LinkedList, Memb, TLAPS, SequenceTheorems, FiniteSetTheorems, WellFoundedInduction

Distinct(list) == \A i, j \in DOMAIN list : list[i] = list[j] => i = j

\* Element p stands after x in the list.
After(list, p, x) ==
  /\ p \in Elements(list)
  /\ x \in Elements(list)
  /\ Place(list, p) > Place(list, x)

LEMMA ListDomain ==
  ASSUME NEW S, NEW list \in Seq(S)
  PROVE  /\ Len(list) \in Nat /\ DOMAIN list = 1 .. Len(list)
         /\ Elements(list) \subseteq S
BY DEF Elements

LEMMA PlaceFact ==
  ASSUME NEW S, NEW list \in Seq(S), NEW p \in Elements(list)
  PROVE  Place(list, p) \in 1 .. Len(list) /\ list[Place(list, p)] = p
<1>1. \E i \in DOMAIN list : list[i] = p
  BY DEF Elements
<1>2. Place(list, p) \in DOMAIN list /\ list[Place(list, p)] = p
  BY <1>1 DEF Place
<1>3. QED BY <1>2, ListDomain

LEMMA PlaceIs ==
  ASSUME NEW S, NEW list \in Seq(S), Distinct(list), NEW i \in 1 .. Len(list)
  PROVE  list[i] \in Elements(list) /\ Place(list, list[i]) = i
<1>1. list[i] \in Elements(list)
  BY DEF Elements
<1>2. QED BY <1>1, PlaceFact, ListDomain DEF Distinct

\* An element put in front leaves the others in their order.
LEMMA Prepend ==
  ASSUME NEW S, NEW list \in Seq(S), Distinct(list), NEW q \in S, q \notin Elements(list)
  PROVE  LET new == <<q>> \o list
         IN  /\ new \in Seq(S) /\ Distinct(new)
             /\ Elements(new) = Elements(list) \cup {q}
             /\ \A p, x : After(list, p, x) => After(new, p, x)
<1> DEFINE new == <<q>> \o list
<1>1. /\ new \in Seq(S) /\ Len(new) = Len(list) + 1
      /\ new[1] = q
      /\ \A i \in 1 .. Len(list) : new[i + 1] = list[i]
  OBVIOUS
<1>2. Len(list) \in Nat /\ DOMAIN list = 1 .. Len(list)
  BY ListDomain
<1> HIDE DEF new
<1>3. /\ DOMAIN new = 1 .. Len(list) + 1
      /\ \A j \in 2 .. Len(list) + 1 : j - 1 \in 1 .. Len(list) /\ new[j] = list[j - 1]
  <2>1. DOMAIN new = 1 .. Len(list) + 1
    BY <1>1
  <2>2. ASSUME NEW j \in 2 .. Len(list) + 1
        PROVE  j - 1 \in 1 .. Len(list) /\ new[j] = list[j - 1]
    <3>1. j - 1 \in 1 .. Len(list) /\ (j - 1) + 1 = j
      BY <1>2, <2>2
    <3>2. QED BY <1>1, <3>1
  <2>3. QED BY <2>1, <2>2
<1>4. \A i \in 1 .. Len(list) : list[i] # q
  BY <1>2 DEF Elements
<1>5. Distinct(new)
  <2>1. SUFFICES ASSUME NEW i \in 1 .. Len(list) + 1, NEW j \in 1 .. Len(list) + 1,
                        new[i] = new[j]
                 PROVE  i = j
    BY <1>3 DEF Distinct
  <2>2. CASE i = 1 \/ j = 1
    BY <1>1, <1>2, <1>3, <1>4, <2>1, <2>2
  <2>3. CASE i # 1 /\ j # 1
    <3>1. i \in 2 .. Len(list) + 1 /\ j \in 2 .. Len(list) + 1
      BY <1>2, <2>3
    <3>2. list[i - 1] = list[j - 1] /\ i - 1 \in DOMAIN list /\ j - 1 \in DOMAIN list
      BY <1>2, <1>3, <2>1, <3>1
    <3>3. i - 1 = j - 1
      BY <3>2 DEF Distinct
    <3>4. QED BY <1>2, <3>3
  <2>4. QED BY <2>2, <2>3
<1>6. Elements(new) = Elements(list) \cup {q}
  <2>1. ASSUME NEW e \in Elements(new) PROVE e \in Elements(list) \cup {q}
    <3>1. PICK j \in 1 .. Len(list) + 1 : new[j] = e
      BY <1>3 DEF Elements
    <3>2. CASE j = 1
      BY <1>1, <3>1, <3>2
    <3>3. CASE j # 1
      <4>1. j \in 2 .. Len(list) + 1
        BY <1>2, <3>3
      <4>2. QED BY <1>2, <1>3, <3>1, <4>1 DEF Elements
    <3>4. QED BY <3>2, <3>3
  <2>2. ASSUME NEW e \in Elements(list) \cup {q} PROVE e \in Elements(new)
    <3>1. CASE e = q
      <4>1. 1 \in DOMAIN new
        BY <1>2, <1>3
      <4>2. QED BY <1>1, <3>1, <4>1 DEF Elements
    <3>2. CASE e \in Elements(list)
      <4>1. PICK i \in 1 .. Len(list) : list[i] = e
        BY <1>2, <3>2 DEF Elements
      <4>2. i + 1 \in DOMAIN new /\ new[i + 1] = e
        BY <1>1, <1>2, <1>3, <4>1
      <4>3. QED BY <4>2 DEF Elements
    <3>3. QED BY <3>1, <3>2
  <2>3. QED BY <2>1, <2>2
<1>7. ASSUME NEW p \in Elements(list)
      PROVE  Place(new, p) = Place(list, p) + 1
  <2>1. Place(list, p) \in 1 .. Len(list) /\ list[Place(list, p)] = p
    BY PlaceFact
  <2>2. new[Place(list, p) + 1] = p /\ Place(list, p) + 1 \in 1 .. Len(new)
    BY <1>1, <1>2, <2>1
  <2>3. QED BY <1>1, <1>5, <2>2, PlaceIs
<1>8. ASSUME NEW p, NEW x, After(list, p, x)
      PROVE  After(new, p, x)
  <2>1. Place(list, p) \in 1 .. Len(list) /\ Place(list, x) \in 1 .. Len(list)
    BY <1>8, PlaceFact DEF After
  <2>2. QED BY <1>2, <1>6, <1>7, <1>8, <2>1 DEF After
<1>9. QED BY <1>1, <1>5, <1>6, <1>8 DEF new

\* Unlinking an element leaves the others in their order.
LEMMA UnlinkFact ==
  ASSUME NEW S, NEW list \in Seq(S), Distinct(list), NEW q \in Elements(list)
  PROVE  LET new == Unlink(list, q)
         IN  /\ new \in Seq(S) /\ Distinct(new)
             /\ Elements(new) = Elements(list) \ {q}
             /\ \A p, x : After(list, p, x) /\ p # q /\ x # q => After(new, p, x)
<1> DEFINE k == Place(list, q)
           n == Len(list)
           new == [i \in 1 .. n - 1 |-> IF i < k THEN list[i] ELSE list[i + 1]]
<1>1. n \in Nat /\ DOMAIN list = 1 .. n
  BY ListDomain
<1>2. k \in 1 .. n /\ list[k] = q
  BY PlaceFact
<1>3. \A i \in 1 .. n : list[i] \in S
  OBVIOUS
<1>4. new = Unlink(list, q)
  BY DEF Unlink
<1>5. \A i \in 1 .. n - 1 : i \in 1 .. n /\ i + 1 \in 1 .. n
  BY <1>1
<1> DEFINE old(i) == IF i < k THEN i ELSE i + 1
<1>6. \A i \in 1 .. n - 1 : old(i) \in 1 .. n /\ old(i) # k /\ new[i] = list[old(i)]
  BY <1>1, <1>2, <1>5
<1>7. n - 1 \in Nat
  BY <1>1, <1>2
<1>8. new \in Seq(S) /\ Len(new) = n - 1 /\ DOMAIN new = 1 .. n - 1
  <2>1. new \in [1 .. n - 1 -> S]
    BY <1>3, <1>5
  <2>2. QED BY <1>7, <2>1
<1>9. \A i, j \in 1 .. n - 1 : /\ old(i) = old(j) => i = j
                               /\ old(i) > old(j) => i > j
  BY <1>1, <1>2
<1>10. \A m \in 1 .. n : m # k => \E i \in 1 .. n - 1 : old(i) = m
  <2>1. SUFFICES ASSUME NEW m \in 1 .. n, m # k
                 PROVE  \E i \in 1 .. n - 1 : old(i) = m
    OBVIOUS
  <2>2. CASE m < k
    BY <1>1, <1>2, <2>2
  <2>3. CASE m > k
    <3>1. m - 1 \in 1 .. n - 1 /\ old(m - 1) = m
      BY <1>1, <1>2, <2>3
    <3>2. QED BY <3>1
  <2>4. QED BY <1>1, <1>2, <2>1, <2>2, <2>3
<1> HIDE DEF new, old, k
<1>11. Distinct(new)
  BY <1>1, <1>6, <1>8, <1>9, SMTT(60) DEF Distinct
<1>12. Elements(new) = Elements(list) \ {q}
  <2>1. ASSUME NEW e \in Elements(new) PROVE e \in Elements(list) \ {q}
    <3>1. PICK i \in 1 .. n - 1 : new[i] = e
      BY <1>8 DEF Elements
    <3>2. e = list[old(i)] /\ old(i) \in DOMAIN list /\ old(i) # k
      BY <1>1, <1>6, <3>1
    <3>3. e # q
      BY <1>1, <1>2, <3>2 DEF Distinct
    <3>4. QED BY <3>2, <3>3 DEF Elements
  <2>2. ASSUME NEW e \in Elements(list) \ {q} PROVE e \in Elements(new)
    <3>1. PICK m \in 1 .. n : list[m] = e
      BY <1>1 DEF Elements
    <3>2. PICK i \in 1 .. n - 1 : old(i) = m
      BY <1>2, <1>10, <2>2, <3>1
    <3>3. QED BY <1>6, <1>8, <3>1, <3>2 DEF Elements
  <2>3. QED BY <2>1, <2>2
<1>13. ASSUME NEW p \in Elements(new)
       PROVE  Place(new, p) \in 1 .. n - 1 /\ old(Place(new, p)) = Place(list, p)
  <2>1. Place(new, p) \in 1 .. n - 1 /\ new[Place(new, p)] = p
    BY <1>8, PlaceFact
  <2>2. list[old(Place(new, p))] = p /\ old(Place(new, p)) \in 1 .. n
    BY <1>6, <2>1
  <2>3. QED BY <2>1, <2>2, PlaceIs
<1>14. ASSUME NEW p, NEW x, After(list, p, x), p # q, x # q
       PROVE  After(new, p, x)
  <2>1. p \in Elements(new) /\ x \in Elements(new) /\ Place(list, p) > Place(list, x)
    BY <1>12, <1>14 DEF After
  <2>2. QED BY <1>9, <1>13, <2>1 DEF After
<1>15. QED BY <1>4, <1>8, <1>11, <1>12, <1>14

LEMMA UnlinkLength ==
  ASSUME NEW S, NEW list \in Seq(S), Distinct(list), NEW q \in Elements(list)
  PROVE  Len(Unlink(list, q)) = Len(list) - 1
<1>1. Len(list) \in Nat /\ DOMAIN list = 1 .. Len(list) /\ \A i \in 1 .. Len(list) : list[i] \in S
  BY ListDomain
<1>2. Place(list, q) \in 1 .. Len(list)
  BY PlaceFact
<1>3. Unlink(list, q) \in [1 .. Len(list) - 1 -> S] /\ Len(list) - 1 \in Nat
  BY <1>1, <1>2 DEF Unlink
<1>4. QED BY <1>3

\* A set of numbers that is not empty has a least one.
LEMMA LeastNat ==
  ASSUME NEW T \in SUBSET Nat, T # {}
  PROVE  \E x \in T : \A y \in T : x <= y
<1>1. PICK n \in T : TRUE
  OBVIOUS
<1> DEFINE B == 1 .. n
           R == StrictSubsetOrdering(B)
           U == {1 .. m : m \in {k \in T : k <= n}}
<1>2. IsWellFoundedOn(R, SUBSET B)
  <2>1. IsFiniteSet(B)
    BY FS_Interval
  <2>2. FiniteSubsetsOf(B) = SUBSET B
    BY <2>1, FS_FiniteSubsetsOfFinite
  <2>3. IsWellFoundedOn(R, FiniteSubsetsOf(B))
    BY FS_StrictSubsetOrderingWellFounded
  <2>4. QED BY <2>2, <2>3
<1>3. U \subseteq SUBSET B /\ 1 .. n \in U
  OBVIOUS
<1>4. PICK x \in U : \A y \in U : ~ (<<y, x>> \in R)
  BY <1>2, <1>3, WFMin
<1>5. PICK m \in T : m <= n /\ x = 1 .. m
  BY <1>4
<1>6. \A y \in T : m <= y
  <2>1. SUFFICES ASSUME NEW y \in T, y < m PROVE FALSE
    OBVIOUS
  <2>2. 1 .. y \in U /\ 1 .. y \subseteq 1 .. m /\ 1 .. y # 1 .. m
    <3>1. y \in Nat /\ m \in Nat /\ y <= n /\ m \in 1 .. m /\ m \notin 1 .. y
      BY <1>5, <2>1
    <3>2. QED BY <3>1
  <2>3. <<1 .. y, 1 .. m>> \in R
    BY <1>3, <1>5, <2>2 DEF StrictSubsetOrdering
  <2>4. QED BY <1>4, <1>5, <2>2, <2>3
<1>7. QED BY <1>5, <1>6

\* Induction, for a set of numbers.
LEMMA NatSet ==
  ASSUME NEW T \in SUBSET Nat, 0 \in T, \A n \in T : n + 1 \in T
  PROVE  T = Nat
<1>1. SUFFICES ASSUME Nat \ T # {} PROVE FALSE
  OBVIOUS
<1>2. PICK x \in Nat \ T : \A y \in Nat \ T : x <= y
  BY <1>1, LeastNat
<1>3. x # 0
  OBVIOUS
<1>4. x - 1 \in Nat /\ x - 1 < x /\ (x - 1) + 1 = x
  BY <1>3
<1>5. x - 1 \in T
  BY <1>2, <1>4
<1>6. QED BY <1>4, <1>5

LEMMA AppendFact ==
  ASSUME NEW S, NEW list \in Seq(S), Distinct(list), NEW x \in S, x \notin Elements(list)
  PROVE  LET new == Append(list, x)
         IN  /\ new \in Seq(S) /\ new # << >> /\ Distinct(new)
             /\ Elements(new) = Elements(list) \cup {x}
<1> DEFINE new == Append(list, x)
           n == Len(list)
<1>1. n \in Nat /\ DOMAIN list = 1 .. n
  BY ListDomain
<1>2. /\ new \in Seq(S) /\ new # << >> /\ DOMAIN new = 1 .. n + 1
      /\ new[n + 1] = x /\ \A i \in 1 .. n : new[i] = list[i]
  BY <1>1
<1>3. \A i \in 1 .. n + 1 : i \in 1 .. n \/ i = n + 1
  BY <1>1
<1>4. \A i \in 1 .. n : list[i] # x /\ i \in 1 .. n + 1
  BY <1>1 DEF Elements
<1> HIDE DEF new, n
<1>5. Distinct(new)
  BY <1>1, <1>2, <1>3, <1>4 DEF Distinct
<1>6. Elements(new) = Elements(list) \cup {x}
  <2>1. n + 1 \in 1 .. n + 1
    BY <1>1
  <2>2. QED BY <1>1, <1>2, <1>3, <1>4, <2>1 DEF Elements
<1>7. QED BY <1>2, <1>5, <1>6 DEF new

\* The recursive function by which Keep is defined.
KeptTo(list, T, n, f) ==
  f = [i \in 0 .. n |->
        IF i = 0 THEN << >>
        ELSE IF list[i] \in T THEN Append(f[i - 1], list[i]) ELSE f[i - 1]]

LEMMA KeptToExists ==
  ASSUME NEW S, NEW list \in Seq(S), NEW T
  PROVE  \E f : KeptTo(list, T, Len(list), f)
<1> DEFINE P == {n \in Nat : \E f : KeptTo(list, T, n, f)}
<1>1. 0 \in P
  <2> DEFINE f == [i \in 0 .. 0 |-> << >>]
  <2>1. \A i \in 0 .. 0 : i = 0
    OBVIOUS
  <2>2. f = [i \in 0 .. 0 |->
              IF i = 0 THEN << >>
              ELSE IF list[i] \in T THEN Append(f[i - 1], list[i]) ELSE f[i - 1]]
    BY <2>1
  <2>3. KeptTo(list, T, 0, f)
    BY <2>2 DEF KeptTo
  <2>4. QED BY <2>3
<1>2. ASSUME NEW n \in P PROVE n + 1 \in P
  <2>1. PICK f : KeptTo(list, T, n, f)
    OBVIOUS
  <2> DEFINE last == IF list[n + 1] \in T THEN Append(f[n], list[n + 1]) ELSE f[n]
             g == [i \in 0 .. n + 1 |-> IF i = n + 1 THEN last ELSE f[i]]
  <2>2. ASSUME NEW i \in 0 .. n + 1
        PROVE g[i] = IF i = 0 THEN << >>
                     ELSE IF list[i] \in T THEN Append(g[i - 1], list[i]) ELSE g[i - 1]
    <3>1. CASE i = n + 1
      <4>1. i # 0 /\ i - 1 \in 0 .. n + 1 /\ i - 1 # n + 1 /\ i - 1 = n
        BY <3>1
      <4>2. g[i] = last /\ g[i - 1] = f[n]
        BY <3>1, <4>1
      <4>3. QED BY <3>1, <4>1, <4>2
    <3>2. CASE i = 0
      <4>1. 0 \in 0 .. n /\ 0 # n + 1
        OBVIOUS
      <4>2. f[0] = << >>
        BY <2>1, <4>1 DEF KeptTo
      <4>3. QED BY <3>2, <4>1, <4>2
    <3>3. CASE i # 0 /\ i # n + 1
      <4>1. i \in 0 .. n /\ i - 1 \in 0 .. n /\ i - 1 \in 0 .. n + 1 /\ i - 1 # n + 1
        BY <3>3
      <4>2. f[i] = IF list[i] \in T THEN Append(f[i - 1], list[i]) ELSE f[i - 1]
        BY <2>1, <3>3, <4>1 DEF KeptTo
      <4>3. g[i] = f[i] /\ g[i - 1] = f[i - 1]
        BY <3>3, <4>1
      <4>4. QED BY <3>3, <4>2, <4>3
    <3>4. QED BY <3>1, <3>2, <3>3
  <2>3. g = [i \in 0 .. n + 1 |-> g[i]]
    OBVIOUS
  <2>4. KeptTo(list, T, n + 1, g)
    <3> HIDE DEF g
    <3>1. QED BY <2>2, <2>3 DEF KeptTo
  <2>5. QED BY <2>4
<1>3. P = Nat
  <2> HIDE DEF P
  <2>1. P \in SUBSET Nat
    BY DEF P
  <2>2. QED BY <1>1, <1>2, <2>1, NatSet
<1>4. QED BY <1>3, ListDomain

\* What Keep keeps.
LEMMA KeepFact ==
  ASSUME NEW S, NEW list \in Seq(S), Distinct(list), NEW T
  PROVE  LET new == Keep(list, T)
         IN  new \in Seq(S) /\ Distinct(new) /\ Elements(new) = Elements(list) \cap T
<1> DEFINE N == Len(list)
           f == CHOOSE g : KeptTo(list, T, N, g)
           P == {n \in Nat : n <= N =>
                   /\ f[n] \in Seq(S) /\ Distinct(f[n])
                   /\ Elements(f[n]) = {list[i] : i \in 1 .. n} \cap T}
<1>1. KeptTo(list, T, N, f)
  BY KeptToExists
<1>2. Keep(list, T) = f[N]
  BY DEF Keep, KeptTo
<1>3. N \in Nat /\ DOMAIN list = 1 .. N
  BY ListDomain
<1> HIDE DEF f, N
<1>4. 0 \in P
  <2>1. f[0] = << >>
    BY <1>1, <1>3 DEF KeptTo
  <2>2. << >> \in Seq(S) /\ Distinct(<< >>) /\ Elements(<< >>) = {}
    BY DEF Distinct, Elements
  <2>3. {list[i] : i \in 1 .. 0} = {}
    OBVIOUS
  <2>4. QED BY <2>1, <2>2, <2>3
<1>5. ASSUME NEW n \in P PROVE n + 1 \in P
  <2>1. SUFFICES ASSUME n + 1 <= N
        PROVE  /\ f[n + 1] \in Seq(S) /\ Distinct(f[n + 1])
               /\ Elements(f[n + 1]) = {list[i] : i \in 1 .. n + 1} \cap T
    OBVIOUS
  <2>2. /\ n \in Nat /\ n + 1 \in 1 .. N /\ n + 1 \in 0 .. N /\ n + 1 # 0 /\ (n + 1) - 1 = n
        /\ 1 .. n + 1 = 1 .. n \cup {n + 1}
    BY <1>3, <2>1
  <2>3. /\ f[n] \in Seq(S) /\ Distinct(f[n])
        /\ Elements(f[n]) = {list[i] : i \in 1 .. n} \cap T
    BY <1>3, <2>1
  <2>4. f[n + 1] = IF list[n + 1] \in T THEN Append(f[n], list[n + 1]) ELSE f[n]
    BY <1>1, <2>2 DEF KeptTo
  <2>5. {list[i] : i \in 1 .. n + 1} = {list[i] : i \in 1 .. n} \cup {list[n + 1]}
    BY <2>2
  <2>6. list[n + 1] \notin {list[i] : i \in 1 .. n} /\ list[n + 1] \in S
    <3>1. ASSUME NEW i \in 1 .. n PROVE list[i] # list[n + 1]
      <4>1. i \in 1 .. N /\ i # n + 1
        BY <1>3, <2>2
      <4>2. QED BY <1>3, <2>2, <4>1 DEF Distinct
    <3>2. QED BY <1>3, <2>2, <3>1
  <2>7. CASE list[n + 1] \in T
    <3>1. list[n + 1] \notin Elements(f[n])
      BY <2>3, <2>6
    <3>2. /\ f[n + 1] \in Seq(S) /\ Distinct(f[n + 1])
          /\ Elements(f[n + 1]) = Elements(f[n]) \cup {list[n + 1]}
      BY <2>3, <2>4, <2>6, <2>7, <3>1, AppendFact
    <3>3. QED BY <2>3, <2>5, <2>7, <3>2
  <2>8. CASE list[n + 1] \notin T
    BY <2>3, <2>4, <2>5, <2>8
  <2>9. QED BY <2>7, <2>8
<1>6. P = Nat
  <2> HIDE DEF P
  <2>1. P \in SUBSET Nat
    BY DEF P
  <2>2. QED BY <1>4, <1>5, <2>1, NatSet
<1>7. {list[i] : i \in 1 .. N} = Elements(list)
  BY <1>3 DEF Elements
<1>8. N \in P
  BY <1>3, <1>6
<1>9. QED BY <1>2, <1>3, <1>7, <1>8

LEMMA ConcatFact ==
  ASSUME NEW S, NEW front \in Seq(S), NEW back \in Seq(S), Distinct(front), Distinct(back),
         Elements(front) \cap Elements(back) = {}
  PROVE  LET new == front \o back
         IN  /\ new \in Seq(S) /\ Distinct(new)
             /\ Elements(new) = Elements(front) \cup Elements(back)
<1> DEFINE new == front \o back
           m == Len(front)
           n == Len(back)
<1>1. /\ m \in Nat /\ n \in Nat
      /\ DOMAIN front = 1 .. m /\ DOMAIN back = 1 .. n
  BY ListDomain
<1>2. /\ new \in Seq(S) /\ Len(new) = m + n
      /\ \A i \in 1 .. m + n : new[i] = IF i <= m THEN front[i] ELSE back[i - m]
  OBVIOUS
<1> HIDE DEF new, m, n
<1>3. DOMAIN new = 1 .. m + n
  BY <1>2
<1>4. \A i \in 1 .. m, j \in 1 .. n : front[i] # back[j]
  BY <1>1 DEF Elements
<1>5. ASSUME NEW i \in 1 .. m + n
      PROVE  \/ i \in 1 .. m /\ new[i] = front[i]
             \/ i - m \in 1 .. n /\ new[i] = back[i - m]
  BY <1>1, <1>2
<1>6. Distinct(new)
  <2>1. SUFFICES ASSUME NEW i \in 1 .. m + n, NEW j \in 1 .. m + n, new[i] = new[j]
                 PROVE  i = j
    BY <1>3 DEF Distinct
  <2>2. CASE i \in 1 .. m /\ j \in 1 .. m /\ new[i] = front[i] /\ new[j] = front[j]
    BY <1>1, <2>1, <2>2 DEF Distinct
  <2>3. CASE i - m \in 1 .. n /\ j - m \in 1 .. n /\ new[i] = back[i - m] /\ new[j] = back[j - m]
    <3>1. i - m = j - m
      BY <1>1, <2>1, <2>3 DEF Distinct
    <3>2. QED BY <1>1, <3>1
  <2>4. QED BY <1>4, <1>5, <2>1, <2>2, <2>3
<1>7. Elements(new) = Elements(front) \cup Elements(back)
  <2>1. ASSUME NEW e \in Elements(new) PROVE e \in Elements(front) \cup Elements(back)
    BY <1>1, <1>3, <1>5 DEF Elements
  <2>2. ASSUME NEW e \in Elements(front) PROVE e \in Elements(new)
    <3>1. PICK i \in 1 .. m : front[i] = e
      BY <1>1 DEF Elements
    <3>2. i \in 1 .. m + n /\ new[i] = e
      BY <1>1, <1>2, <3>1
    <3>3. QED BY <1>3, <3>2 DEF Elements
  <2>3. ASSUME NEW e \in Elements(back) PROVE e \in Elements(new)
    <3>1. PICK j \in 1 .. n : back[j] = e
      BY <1>1 DEF Elements
    <3>2. m + j \in 1 .. m + n /\ ~ (m + j <= m) /\ (m + j) - m = j
      BY <1>1
    <3>3. m + j \in DOMAIN new /\ new[m + j] = e
      BY <1>2, <1>3, <3>1, <3>2
    <3>4. QED BY <3>3 DEF Elements
  <2>4. QED BY <2>1, <2>2, <2>3
<1>8. QED BY <1>2, <1>6, <1>7 DEF new

LEMMA BackwardsFact ==
  ASSUME NEW S, NEW list \in Seq(S), Distinct(list)
  PROVE  LET new == Backwards(list)
         IN  new \in Seq(S) /\ Distinct(new) /\ Elements(new) = Elements(list)
<1> DEFINE new == Backwards(list)
           n == Len(list)
<1>1. n \in Nat /\ DOMAIN list = 1 .. n /\ \A i \in 1 .. n : list[i] \in S
  BY ListDomain
<1>2. new = [i \in 1 .. n |-> list[n + 1 - i]]
  BY <1>1 DEF Backwards
<1> HIDE DEF new, n
<1>3. \A i \in 1 .. n : n + 1 - i \in 1 .. n /\ n + 1 - (n + 1 - i) = i
  BY <1>1
<1>4. new \in [1 .. n -> S]
  BY <1>1, <1>2, <1>3
<1>5. new \in Seq(S) /\ DOMAIN new = 1 .. n /\ \A i \in 1 .. n : new[i] = list[n + 1 - i]
  BY <1>1, <1>2, <1>4
<1>6. Distinct(new)
  <2>1. SUFFICES ASSUME NEW i \in 1 .. n, NEW j \in 1 .. n, new[i] = new[j] PROVE i = j
    BY <1>5 DEF Distinct
  <2>2. n + 1 - i = n + 1 - j
    BY <1>1, <1>3, <1>5, <2>1 DEF Distinct
  <2>3. QED BY <1>1, <2>2
<1>7. Elements(new) = Elements(list)
  <2>1. ASSUME NEW e \in Elements(new) PROVE e \in Elements(list)
    BY <1>1, <1>3, <1>5 DEF Elements
  <2>2. ASSUME NEW e \in Elements(list) PROVE e \in Elements(new)
    <3>1. PICK i \in 1 .. n : list[i] = e
      BY <1>1 DEF Elements
    <3>2. n + 1 - i \in 1 .. n /\ new[n + 1 - i] = e
      BY <1>3, <1>5, <3>1
    <3>3. QED BY <1>5, <3>2 DEF Elements
  <2>3. QED BY <2>1, <2>2
<1>8. QED BY <1>5, <1>6, <1>7 DEF new

\* The first n elements.
LEMMA FrontFact ==
  ASSUME NEW S, NEW list \in Seq(S), NEW n \in 0 .. Len(list)
  PROVE  LET new == SubSeq(list, 1, n)
         IN  /\ new \in Seq(S) /\ Len(new) = n
             /\ Elements(new) \subseteq Elements(list)
             /\ n = Len(list) => new = list
<1> DEFINE new == SubSeq(list, 1, n)
<1>1. /\ Len(list) \in Nat /\ DOMAIN list = 1 .. Len(list)
      /\ \A i \in 1 .. Len(list) : list[i] \in S
  BY ListDomain
<1>2. n \in Nat /\ n <= Len(list)
  BY <1>1
<1>3. /\ new \in Seq(S) /\ Len(new) = n
      /\ \A i \in 1 .. n : new[i] = list[i]
  BY <1>1, <1>2
<1> HIDE DEF new
<1>4. new \in Seq(S) /\ Len(new) = n /\ DOMAIN new = 1 .. n
  BY <1>2, <1>3
<1>5. Elements(new) \subseteq Elements(list)
  BY <1>1, <1>2, <1>3, <1>4 DEF Elements
<1>6. n = Len(list) => new = list
  BY <1>1, <1>2, <1>3, <1>4
<1>7. QED BY <1>4, <1>5, <1>6 DEF new

\* A list of the values that f gives to the elements of another.
Image(list, f) == [i \in DOMAIN list |-> f[list[i]]]

LEMMA ImageFact ==
  ASSUME NEW S, NEW list \in Seq(S), Distinct(list), NEW f, NEW B,
         \A x \in Elements(list) : f[x] \in B,
         \A x, y \in Elements(list) : f[x] = f[y] => x = y
  PROVE  /\ Image(list, f) \in Seq(B) /\ Distinct(Image(list, f))
         /\ Len(Image(list, f)) = Len(list)
         /\ Elements(Image(list, f)) = {f[x] : x \in Elements(list)}
<1> DEFINE n == Len(list)
           t == Image(list, f)
<1>1. n \in Nat /\ DOMAIN list = 1 .. n /\ \A i \in 1 .. n : list[i] \in Elements(list)
  BY ListDomain DEF Elements
<1>2. t = [i \in 1 .. n |-> f[list[i]]]
  BY <1>1 DEF Image
<1>3. t \in [1 .. n -> B] /\ DOMAIN t = 1 .. n /\ \A i \in 1 .. n : t[i] = f[list[i]]
  BY <1>1, <1>2
<1> HIDE DEF t
<1>4. t \in Seq(B) /\ Len(t) = n
  BY <1>1, <1>3
<1>5. Distinct(t)
  BY <1>1, <1>3 DEF Distinct
<1>6. Elements(t) = {f[x] : x \in Elements(list)}
  <2>1. ASSUME NEW y \in Elements(t) PROVE y \in {f[x] : x \in Elements(list)}
    <3>1. PICK i \in 1 .. n : y = t[i]
      BY <1>3 DEF Elements
    <3>2. QED BY <1>1, <1>3, <3>1
  <2>2. ASSUME NEW x \in Elements(list) PROVE f[x] \in Elements(t)
    <3>1. PICK i \in 1 .. n : x = list[i]
      BY <1>1 DEF Elements
    <3>2. QED BY <1>3, <3>1 DEF Elements
  <2>3. QED BY <2>1, <2>2
<1>7. QED BY <1>4, <1>5, <1>6 DEF t

LEMMA ImageUnlink ==
  ASSUME NEW S, NEW list \in Seq(S), Distinct(list), NEW f, NEW B,
         \A x \in Elements(list) : f[x] \in B,
         \A x, y \in Elements(list) : f[x] = f[y] => x = y,
         NEW x \in Elements(list)
  PROVE  Unlink(Image(list, f), f[x]) = Image(Unlink(list, x), f)
<1> DEFINE n == Len(list)
           t == Image(list, f)
           i == Place(list, x)
           u == Unlink(list, x)
<1>1. n \in Nat /\ DOMAIN list = 1 .. n
  BY ListDomain
<1>2. t \in Seq(B) /\ Distinct(t) /\ Len(t) = n
  BY ImageFact
<1>3. \A j \in 1 .. n : t[j] = f[list[j]]
  BY <1>1 DEF Image
<1>4. i \in 1 .. n /\ list[i] = x
  BY PlaceFact
<1>5. Place(t, f[x]) = i
  <2>1. t[i] = f[x] /\ i \in 1 .. Len(t)
    BY <1>2, <1>3, <1>4
  <2> HIDE DEF t, i
  <2>2. QED BY <1>2, <2>1, PlaceIs
<1>6. Unlink(t, f[x]) = [j \in 1 .. n - 1 |-> IF j < i THEN t[j] ELSE t[j + 1]]
  <2> HIDE DEF t, i, n
  <2>1. QED BY <1>2, <1>5 DEF Unlink
<1>7. u = [j \in 1 .. n - 1 |-> IF j < i THEN list[j] ELSE list[j + 1]]
  BY DEF Unlink
<1>8. Image(u, f) = [j \in 1 .. n - 1 |-> f[u[j]]]
  <2> HIDE DEF u
  <2>1. DOMAIN u = 1 .. n - 1
    BY <1>7
  <2>2. QED BY <2>1 DEF Image
<1>9. ASSUME NEW j \in 1 .. n - 1 PROVE f[u[j]] = IF j < i THEN t[j] ELSE t[j + 1]
  <2> HIDE DEF u, t, i
  <2>1. j \in 1 .. n /\ j + 1 \in 1 .. n
    BY <1>1
  <2>2. u[j] = IF j < i THEN list[j] ELSE list[j + 1]
    BY <1>7
  <2>3. QED BY <1>3, <2>1, <2>2
<1> HIDE DEF u, t, i, n
<1>10. QED BY <1>6, <1>8, <1>9 DEF u, t

LEMMA ImageAppend ==
  ASSUME NEW S, NEW list \in Seq(S), NEW x \in S, NEW f
  PROVE  Image(Append(list, x), f) = Append(Image(list, f), f[x])
<1> DEFINE n == Len(list)
           t == Append(list, x)
           u == Image(list, f)
           B == {f[y] : y \in S}
<1>1. /\ n \in Nat /\ DOMAIN list = 1 .. n /\ \A i \in 1 .. n : list[i] \in S
  BY ListDomain
<1>2. /\ DOMAIN t = 1 .. n + 1 /\ t[n + 1] = x /\ \A i \in 1 .. n : t[i] = list[i]
  BY <1>1
<1>3. u \in [1 .. n -> B] /\ \A i \in 1 .. n : u[i] = f[list[i]]
  BY <1>1 DEF Image
<1>4. u \in Seq(B) /\ Len(u) = n
  BY <1>1, <1>3
<1>5. /\ Append(u, f[x]) \in Seq(B) /\ Len(Append(u, f[x])) = n + 1
      /\ Append(u, f[x])[n + 1] = f[x] /\ \A i \in 1 .. n : Append(u, f[x])[i] = u[i]
  <2> HIDE DEF u, n
  <2>1. f[x] \in B
    OBVIOUS
  <2> HIDE DEF B
  <2>2. QED BY <1>1, <1>4, <2>1
<1>6. Image(t, f) = [i \in 1 .. n + 1 |-> f[t[i]]]
  BY <1>2 DEF Image
<1> DEFINE v == Append(u, f[x])
<1>7. DOMAIN v = 1 .. n + 1 /\ v = [i \in 1 .. n + 1 |-> v[i]]
  <2> HIDE DEF v, u, n, B
  <2>1. v \in Seq(B) /\ Len(v) = n + 1
    BY <1>5 DEF v
  <2>2. QED BY <2>1
<1> HIDE DEF t, u, v, n, B
<1>8. ASSUME NEW i \in 1 .. n + 1 PROVE f[t[i]] = v[i]
  <2>1. CASE i = n + 1
    BY <1>2, <1>5, <2>1 DEF v
  <2>2. CASE i \in 1 .. n
    BY <1>2, <1>3, <1>5, <2>2 DEF v
  <2>3. QED BY <1>1, <2>1, <2>2
<1>9. QED BY <1>6, <1>7, <1>8 DEF t, u, v

LEMMA ImageSame ==
  ASSUME NEW list, NEW f, NEW g, \A x \in Elements(list) : f[x] = g[x]
  PROVE  Image(list, f) = Image(list, g)
<1>1. \A i \in DOMAIN list : f[list[i]] = g[list[i]]
  BY DEF Elements
<1>2. QED BY <1>1 DEF Image

-----------------------------------------------------------------------------
(* Lists in memory *)

\* The element at place i of a list; after the last one comes NULL.
At(s, i) == IF i \in 1 .. Len(s) THEN s[i] ELSE End

\* The memory l holds the list s.
Links(l, s) ==
  /\ l = [head |-> l.head, next |-> l.next]
  /\ IsFiniteSet(DOMAIN l.next) /\ End \notin DOMAIN l.next
  /\ s \in Seq(DOMAIN l.next) /\ Distinct(s)
  /\ l.head = At(s, 1)
  /\ \A i \in 1 .. Len(s) : l.next[s[i]] = At(s, i + 1)

\* A list is no longer than there are elements.
LEMMA LengthBound ==
  ASSUME NEW D, IsFiniteSet(D), NEW s \in Seq(D), Distinct(s)
  PROVE  Cardinality(D) \in Nat /\ Len(s) <= Cardinality(D)
<1>1. Len(s) \in Nat /\ DOMAIN s = 1 .. Len(s) /\ s \in [1 .. Len(s) -> D]
  OBVIOUS
<1>2. s \in Injection(1 .. Len(s), D)
  BY <1>1 DEF Distinct, Injection, IsInjective
<1>3. IsFiniteSet(1 .. Len(s)) /\ Cardinality(1 .. Len(s)) = Len(s)
  BY <1>1, FS_Interval
<1>4. Cardinality(1 .. Len(s)) <= Cardinality(D)
  BY <1>2, FS_Injection
<1>5. QED BY <1>3, <1>4, FS_CardinalityType

\* What is reached from the head is the list.
LEMMA ChainIs ==
  ASSUME NEW l, NEW s, Links(l, s)
  PROVE  Chain(l) = s
<1> DEFINE C == Cardinality(DOMAIN l.next)
           Walk(f) == f = [n \in 0 .. C |->
                             IF n = 0 THEN l.head
                             ELSE IF f[n - 1] = End THEN End ELSE l.next[f[n - 1]]]
           g == [n \in 0 .. C |-> At(s, n + 1)]
           f == CHOOSE h : Walk(h)
<1>1. /\ C \in Nat /\ Len(s) \in Nat /\ Len(s) <= C
      /\ DOMAIN s = 1 .. Len(s) /\ \A i \in 1 .. Len(s) : s[i] # End
  BY LengthBound, ListDomain DEF Links
<1>2. ASSUME NEW n \in 1 .. C
      PROVE  At(s, n + 1) = IF At(s, n) = End THEN End ELSE l.next[At(s, n)]
  <2>1. CASE n \in 1 .. Len(s)
    BY <1>1, <2>1 DEF At, Links
  <2>2. CASE n \notin 1 .. Len(s)
    BY <1>1, <1>2, <2>2 DEF At
  <2>3. QED BY <2>1, <2>2
<1>3. Walk(g)
  <2>1. ASSUME NEW n \in 0 .. C, n # 0
        PROVE  g[n] = IF g[n - 1] = End THEN End ELSE l.next[g[n - 1]]
    <3>1. n \in 1 .. C /\ n - 1 \in 0 .. C /\ (n - 1) + 1 = n
      BY <1>1, <2>1
    <3>2. g[n - 1] = At(s, n) /\ g[n] = At(s, n + 1)
      BY <3>1
    <3>3. QED BY <1>2, <3>1, <3>2
  <2>2. g[0] = l.head /\ 0 \in 0 .. C
    BY <1>1 DEF Links
  <2> HIDE DEF g
  <2>3. \A n \in 0 .. C : g[n] = IF n = 0 THEN l.head
                                 ELSE IF g[n - 1] = End THEN End ELSE l.next[g[n - 1]]
    BY <2>1, <2>2
  <2>4. g = [n \in 0 .. C |-> g[n]]
    BY DEF g
  <2>5. QED BY <2>3, <2>4
<1>4. Walk(f)
  BY <1>3
<1>5. \A n \in 0 .. C : f[n] = At(s, n + 1)
  <2> DEFINE P == {n \in Nat : n <= C => f[n] = At(s, n + 1)}
  <2>1. \A n \in 0 .. C : f[n] = IF n = 0 THEN l.head
                                 ELSE IF f[n - 1] = End THEN End ELSE l.next[f[n - 1]]
    BY <1>4
  <2> HIDE DEF f
  <2>2. 0 \in P
    BY <1>1, <2>1 DEF Links
  <2>3. ASSUME NEW n \in P PROVE n + 1 \in P
    <3>1. SUFFICES ASSUME n + 1 <= C PROVE f[n + 1] = At(s, n + 2)
      OBVIOUS
    <3>2. n \in Nat /\ n + 1 \in 1 .. C /\ n + 1 \in 0 .. C /\ n + 1 # 0 /\ (n + 1) - 1 = n
      BY <1>1, <3>1
    <3>3. f[n] = At(s, n + 1)
      BY <1>1, <3>1, <3>2
    <3>4. f[n + 1] = IF f[n] = End THEN End ELSE l.next[f[n]]
      BY <2>1, <3>2
    <3>5. At(s, (n + 1) + 1) = IF At(s, n + 1) = End THEN End ELSE l.next[At(s, n + 1)]
      BY <1>2, <3>2
    <3>6. (n + 1) + 1 = n + 2
      BY <3>2
    <3>7. QED BY <3>3, <3>4, <3>5, <3>6
  <2> HIDE DEF P
  <2>4. P = Nat
    <3>1. P \subseteq Nat
      BY DEF P
    <3>2. QED BY <2>2, <2>3, <3>1, NatSet
  <2>5. QED BY <1>1, <2>4 DEF P
<1>6. DOMAIN f = 0 .. C
  BY <1>4
<1>7. Chain(l) = [i \in 1 .. Cardinality({n \in DOMAIN f : f[n] # End}) |-> f[i - 1]]
  BY DEF Chain
<1> HIDE DEF f, C
<1>8. {n \in DOMAIN f : f[n] # End} = 0 .. Len(s) - 1
  <2>1. \A n \in 0 .. C : f[n] # End <=> n \in 0 .. Len(s) - 1
    BY <1>1, <1>5 DEF At
  <2>2. \A n \in 0 .. Len(s) - 1 : n \in 0 .. C
    BY <1>1
  <2>3. QED BY <1>6, <2>1, <2>2
<1>9. Cardinality(0 .. Len(s) - 1) = Len(s)
  <2>1. 0 \in Int /\ Len(s) - 1 \in Int
    BY <1>1
  <2>2. Cardinality(0 .. Len(s) - 1) = IF 0 > Len(s) - 1 THEN 0 ELSE (Len(s) - 1) - 0 + 1
    BY <2>1, FS_Interval
  <2>3. QED BY <1>1, <2>2
<1>10. \A i \in 1 .. Len(s) : f[i - 1] = s[i]
  <2>1. SUFFICES ASSUME NEW i \in 1 .. Len(s) PROVE f[i - 1] = s[i]
    OBVIOUS
  <2>2. i - 1 \in 0 .. C /\ (i - 1) + 1 = i
    BY <1>1
  <2>3. QED BY <1>5, <2>1, <2>2 DEF At
<1>11. Chain(l) = [i \in 1 .. Len(s) |-> s[i]]
  BY <1>7, <1>8, <1>9, <1>10
<1>12. s = [i \in 1 .. Len(s) |-> s[i]]
  <2>1. \A D : s \in Seq(D) => s = [i \in 1 .. Len(s) |-> s[i]]
    OBVIOUS
  <2>2. QED BY <2>1 DEF Links
<1>13. QED BY <1>11, <1>12

LEMMA LinksFacts ==
  ASSUME NEW l, NEW s, Links(l, s)
  PROVE  /\ Len(s) \in Nat /\ DOMAIN s = 1 .. Len(s)
         /\ s = << >> <=> Len(s) = 0
         /\ \A i \in 1 .. Len(s) : s[i] \in DOMAIN l.next /\ s[i] # End
         /\ \A i, j \in 1 .. Len(s) : s[i] = s[j] => i = j
         /\ s # << >> => Head(s) = s[1] /\ l.head = s[1]
         /\ s = << >> => l.head = End
<1>1. s \in Seq(DOMAIN l.next)
  BY DEF Links
<1>2. Len(s) \in Nat /\ DOMAIN s = 1 .. Len(s) /\ (s = << >> <=> Len(s) = 0)
  BY <1>1, EmptySeq
<1>3. \A i \in 1 .. Len(s) : s[i] \in DOMAIN l.next /\ s[i] # End
  BY <1>1, <1>2 DEF Links
<1>4. \A i, j \in 1 .. Len(s) : s[i] = s[j] => i = j
  BY <1>2 DEF Links, Distinct
<1>5. s # << >> => Head(s) = s[1] /\ l.head = s[1]
  BY <1>2 DEF Links, At
<1>6. s = << >> => l.head = End
  BY <1>2 DEF Links, At
<1>7. QED BY <1>2, <1>3, <1>4, <1>5, <1>6

\* Pointers of other elements do not matter, nor does another list in the same memory.
LEMMA LinksElsewhere ==
  ASSUME NEW l, NEW s, Links(l, s), NEW m,
         m = [head |-> l.head, next |-> m.next], DOMAIN m.next = DOMAIN l.next,
         \A e \in Elements(s) : m.next[e] = l.next[e]
  PROVE  Links(m, s)
<1>1. DOMAIN s = 1 .. Len(s)
  BY LinksFacts
<1>2. \A i \in 1 .. Len(s) : s[i] \in Elements(s)
  BY <1>1 DEF Elements
<1>3. \A i \in 1 .. Len(s) : m.next[s[i]] = At(s, i + 1)
  BY <1>2 DEF Links
<1>4. QED BY <1>3 DEF Links

\* list_pop takes off the first element.
LEMMA PopLinks ==
  ASSUME NEW l, NEW s, Links(l, s), s # << >>
  PROVE  /\ Links(ListPop(l), Tail(s))
         /\ ListPop(l).next = l.next
<1> DEFINE n == Len(s)
           t == Tail(s)
           m == ListPop(l)
<1>1. /\ n \in Nat /\ n # 0 /\ DOMAIN s = 1 .. n
      /\ \A i \in 1 .. n : s[i] \in DOMAIN l.next /\ s[i] # End
      /\ \A i, j \in 1 .. n : s[i] = s[j] => i = j
      /\ l.head = s[1]
      /\ s \in Seq(DOMAIN l.next)
  BY LinksFacts DEF Links
<1>2. /\ t \in Seq(DOMAIN l.next) /\ Len(t) = n - 1 /\ DOMAIN t = 1 .. n - 1
      /\ \A i \in 1 .. n - 1 : t[i] = s[i + 1]
  BY <1>1
<1>3. m = [head |-> l.next[l.head], next |-> l.next]
  <2>1. m = [l EXCEPT !.head = l.next[@]]
    BY <1>1 DEF ListPop
  <2>2. l = [head |-> l.head, next |-> l.next]
    BY DEF Links
  <2>3. [[head |-> l.head, next |-> l.next] EXCEPT !.head = l.next[@]] = [head |-> l.next[l.head], next |-> l.next]
    OBVIOUS
  <2>4. QED BY <2>1, <2>2, <2>3
<1>4. m = [head |-> m.head, next |-> m.next] /\ m.next = l.next
  BY <1>3
<1>5. m.head = At(s, 2)
  BY <1>1, <1>3 DEF Links
<1> HIDE DEF t, m, n
<1>6. \A i \in 0 .. n - 1 : At(t, i + 1) = At(s, i + 2)
  BY <1>1, <1>2 DEF At, n
<1>7. Distinct(t)
  BY <1>1, <1>2 DEF Distinct
<1>8. m.head = At(t, 1)
  BY <1>1, <1>5, <1>6
<1>9. \A i \in 1 .. n - 1 : m.next[t[i]] = At(t, i + 1)
  <2>1. SUFFICES ASSUME NEW i \in 1 .. n - 1 PROVE m.next[t[i]] = At(t, i + 1)
    OBVIOUS
  <2>2. i + 1 \in 1 .. n /\ i \in 0 .. n - 1 /\ (i + 1) + 1 = i + 2
    BY <1>1
  <2>3. m.next[t[i]] = At(s, i + 2)
    BY <1>2, <1>4, <2>2 DEF Links, n
  <2>4. QED BY <1>6, <2>2, <2>3
<1>10. QED BY <1>2, <1>4, <1>7, <1>8, <1>9 DEF Links, t, m

\* list_remove takes an element out, whatever its place.
LEMMA RemoveLinks ==
  ASSUME NEW l, NEW s, Links(l, s), NEW x \in Elements(s)
  PROVE  LET m == ListRemove(l, x)
         IN  /\ Links(m, Unlink(s, x))
             /\ DOMAIN m.next = DOMAIN l.next
             /\ \A e \in DOMAIN l.next \ Elements(s) : m.next[e] = l.next[e]
<1> DEFINE D == DOMAIN l.next
           n == Len(s)
           i == Place(s, x)
           t == Unlink(s, x)
           m == ListRemove(l, x)
<1>1. /\ n \in Nat /\ DOMAIN s = 1 .. n
      /\ \A j \in 1 .. n : s[j] \in D
      /\ \A j, k \in 1 .. n : s[j] = s[k] => j = k
      /\ \A j \in 1 .. n : l.next[s[j]] = At(s, j + 1)
      /\ l.head = At(s, 1) /\ s \in Seq(D) /\ Distinct(s)
  BY LinksFacts DEF Links
<1>2. i \in 1 .. n /\ s[i] = x
  BY <1>1, PlaceFact
<1>3. /\ t \in Seq(D) /\ Distinct(t) /\ Len(t) = n - 1 /\ DOMAIN t = 1 .. n - 1
      /\ \A j \in 1 .. n - 1 : t[j] = IF j < i THEN s[j] ELSE s[j + 1]
  <2>1. t \in Seq(D) /\ Distinct(t)
    BY <1>1, UnlinkFact
  <2>2. t = [j \in 1 .. n - 1 |-> IF j < i THEN s[j] ELSE s[j + 1]]
    BY DEF Unlink
  <2>3. DOMAIN t = 1 .. n - 1 /\ \A j \in 1 .. n - 1 : t[j] = IF j < i THEN s[j] ELSE s[j + 1]
    BY <2>2
  <2>4. Len(t) = n - 1
    <3>1. n - 1 \in Nat /\ t \in [1 .. n - 1 -> D]
      BY <1>1, <1>2, <2>2
    <3>2. QED BY <3>1
  <2>5. QED BY <2>1, <2>3, <2>4
<1>4. m = [head |-> IF i = 1 THEN l.next[x] ELSE l.head,
           next |-> [e \in D |-> IF e = x THEN End
                                 ELSE IF i > 1 /\ e = s[i - 1] THEN l.next[x]
                                 ELSE l.next[e]]]
  <2> DEFINE Removed(c) ==
        [head |-> IF Place(c, x) = 1 THEN l.next[x] ELSE l.head,
         next |-> [e \in D |-> IF e = x THEN End
                               ELSE IF Place(c, x) > 1 /\ e = c[Place(c, x) - 1] THEN l.next[x]
                               ELSE l.next[e]]]
  <2>1. m = IF x \notin Elements(Chain(l)) THEN l ELSE Removed(Chain(l))
    BY Zenon DEF ListRemove
  <2> HIDE DEF Removed, m
  <2>2. Chain(l) = s
    BY ChainIs
  <2>3. m = Removed(s)
    BY <2>1, <2>2
  <2>4. QED BY <2>3 DEF Removed
<1> HIDE DEF t, m, i, n, D
<1>5. /\ m = [head |-> m.head, next |-> m.next]
      /\ DOMAIN m.next = D
      /\ m.head = IF i = 1 THEN l.next[x] ELSE l.head
      /\ \A e \in D : m.next[e] = IF e = x THEN End
                                  ELSE IF i > 1 /\ e = s[i - 1] THEN l.next[x]
                                  ELSE l.next[e]
  BY <1>4
<1>6. \A j \in 1 .. n : j < i => At(t, j) = At(s, j)
  BY <1>1, <1>2, <1>3 DEF At, n
<1>7. \A j \in 1 .. n : j >= i => At(t, j) = At(s, j + 1)
  BY <1>1, <1>2, <1>3 DEF At, n
<1>8. m.head = At(t, 1)
  <2>1. CASE i = 1
    <3>1. l.next[x] = At(s, 2) /\ At(t, 1) = At(s, 2)
      BY <1>1, <1>2, <1>7, <2>1
    <3>2. QED BY <1>5, <2>1, <3>1
  <2>2. CASE i # 1
    BY <1>1, <1>2, <1>5, <1>6, <2>2
  <2>3. QED BY <2>1, <2>2
<1>9. ASSUME NEW j \in 1 .. n - 1 PROVE m.next[t[j]] = At(t, j + 1)
  <2>0. j \in 1 .. n /\ j + 1 \in 1 .. n /\ (j + 1) + 1 = j + 2
    BY <1>1
  <2>1. CASE j + 1 < i
    <3>1. t[j] = s[j] /\ s[j] \in D /\ s[j] # x /\ s[j] # s[i - 1]
      BY <1>1, <1>2, <1>3, <2>0, <2>1
    <3>2. m.next[t[j]] = At(s, j + 1)
      BY <1>1, <1>5, <2>0, <3>1
    <3>3. QED BY <1>6, <2>0, <2>1, <3>2
  <2>2. CASE j + 1 = i
    <3>1. t[j] = s[i - 1] /\ s[i - 1] \in D /\ s[i - 1] # x /\ i > 1
      BY <1>1, <1>2, <1>3, <2>0, <2>2
    <3>2. m.next[t[j]] = At(s, i + 1)
      BY <1>1, <1>2, <1>5, <3>1
    <3>3. QED BY <1>2, <1>7, <2>2, <3>2
  <2>3. CASE j + 1 > i
    <3>1. t[j] = s[j + 1] /\ s[j + 1] \in D /\ s[j + 1] # x
      BY <1>1, <1>2, <1>3, <2>0, <2>3
    <3>2. i > 1 => s[j + 1] # s[i - 1]
      BY <1>1, <1>2, <2>0, <2>3
    <3>3. m.next[t[j]] = At(s, j + 2)
      BY <1>1, <1>5, <2>0, <3>1, <3>2
    <3>4. At(t, j + 1) = At(s, j + 2)
      BY <1>7, <1>2, <1>1, <2>0, <2>3
    <3>5. QED BY <3>3, <3>4
  <2>4. QED BY <1>1, <1>2, <2>0, <2>1, <2>2, <2>3
<1>10. Links(m, t)
  BY <1>3, <1>5, <1>8, <1>9 DEF Links, D
<1>11. ASSUME NEW e \in D \ Elements(s) PROVE m.next[e] = l.next[e]
  <2>1. e # x /\ (i > 1 => e # s[i - 1])
    BY <1>1, <1>2 DEF Elements
  <2>2. QED BY <1>5, <2>1
<1>12. QED BY <1>5, <1>10, <1>11 DEF m, t, D

\* list_add puts an element at the end, whatever pointer it came with.
LEMMA AddLinks ==
  ASSUME NEW l, NEW s, Links(l, s), NEW x \in DOMAIN l.next, x \notin Elements(s)
  PROVE  LET m == ListAdd(l, x)
         IN  /\ Links(m, Append(s, x))
             /\ DOMAIN m.next = DOMAIN l.next
             /\ \A e \in DOMAIN l.next \ Elements(s) : e # x => m.next[e] = l.next[e]
<1> DEFINE D == DOMAIN l.next
           n == Len(s)
           t == Append(s, x)
           next == Ended(l.next, x)
           old == [l EXCEPT !.next = next]
           m == ListAdd(l, x)
<1>1. /\ n \in Nat /\ DOMAIN s = 1 .. n /\ (s = << >> <=> n = 0)
      /\ \A j \in 1 .. n : s[j] \in D
      /\ \A j, k \in 1 .. n : s[j] = s[k] => j = k
      /\ \A j \in 1 .. n : l.next[s[j]] = At(s, j + 1)
      /\ l.head = At(s, 1) /\ s \in Seq(D) /\ Distinct(s)
      /\ l = [head |-> l.head, next |-> l.next]
  BY LinksFacts DEF Links
<1>2. \A j \in 1 .. n : s[j] # x
  BY <1>1 DEF Elements
<1>3. ListRemove(l, x) = l
  BY ChainIs DEF ListRemove
<1>4. DOMAIN next = D /\ next[x] = End /\ \A e \in D : e # x => next[e] = l.next[e]
  BY DEF Ended
<1>5. old = [head |-> l.head, next |-> next]
  <2>1. [[head |-> l.head, next |-> l.next] EXCEPT !.next = next] = [head |-> l.head, next |-> next]
    OBVIOUS
  <2>2. QED BY <1>1, <2>1
<1>6. Chain(old) = s
  <2>1. DOMAIN old.next = D /\ old.head = l.head /\ old.next = next
    BY <1>4, <1>5
  <2>2. \A e \in Elements(s) : old.next[e] = l.next[e]
    BY <1>1, <1>2, <1>4, <2>1 DEF Elements
  <2>3. Links(old, s)
    BY <1>5, <2>1, <2>2, LinksElsewhere
  <2>4. QED BY <2>3, ChainIs
<1>7. m = IF s = << >> THEN [head |-> x, next |-> next]
          ELSE [head |-> l.head, next |-> [next EXCEPT ![s[n]] = x]]
  BY <1>3, <1>6, Zenon DEF ListAdd
<1> HIDE DEF next, old, m
<1>8. /\ t \in Seq(D) /\ Distinct(t) /\ Len(t) = n + 1 /\ DOMAIN t = 1 .. n + 1
      /\ t[n + 1] = x /\ \A j \in 1 .. n : t[j] = s[j]
  <2>1. t \in Seq(D) /\ Distinct(t)
    BY <1>1, AppendFact
  <2>2. QED BY <1>1, <2>1
<1> HIDE DEF t
<1>9. /\ m = [head |-> m.head, next |-> m.next] /\ DOMAIN m.next = D
      /\ m.head = At(t, 1)
      /\ \A e \in D : m.next[e] = IF s # << >> /\ e = s[n] THEN x
                                  ELSE IF e = x THEN End ELSE l.next[e]
  <2>1. CASE s = << >>
    BY <1>1, <1>4, <1>7, <1>8, <2>1 DEF At
  <2>2. CASE s # << >>
    <3>1. n \in 1 .. n /\ s[n] \in D /\ s[n] # x /\ 1 \in 1 .. n
      BY <1>1, <1>2, <2>2
    <3>2. m = [head |-> l.head, next |-> [next EXCEPT ![s[n]] = x]]
      BY <1>7, <2>2
    <3>3. m = [head |-> m.head, next |-> m.next] /\ m.head = l.head
          /\ m.next = [next EXCEPT ![s[n]] = x]
      BY <3>2
    <3>4. l.head = At(t, 1)
      BY <1>1, <1>8, <3>1 DEF At
    <3>5. QED BY <1>4, <2>2, <3>1, <3>3, <3>4
  <2>3. QED BY <2>1, <2>2
<1>10. ASSUME NEW j \in 1 .. n + 1 PROVE m.next[t[j]] = At(t, j + 1)
  <2>1. CASE j = n + 1
    <3>1. t[j] = x /\ x \in D
      BY <1>8, <2>1
    <3>2. s # << >> => x # s[n]
      BY <1>1, <1>2
    <3>3. m.next[t[j]] = End
      BY <1>9, <3>1, <3>2
    <3>4. At(t, j + 1) = End
      BY <1>1, <1>8, <2>1 DEF At
    <3>5. QED BY <3>3, <3>4
  <2>2. CASE j = n
    <3>1. t[j] = s[n] /\ s[n] \in D /\ s # << >> /\ At(t, j + 1) = x
      BY <1>1, <1>8, <2>2 DEF At
    <3>2. QED BY <1>9, <3>1
  <2>3. CASE j < n
    <3>1. j \in 1 .. n /\ j + 1 \in 1 .. n /\ n \in 1 .. n /\ j # n
      BY <1>1, <2>3
    <3>2. t[j] = s[j] /\ s[j] \in D /\ s[j] # s[n] /\ s[j] # x
      BY <1>1, <1>2, <1>8, <3>1
    <3>3. m.next[t[j]] = s[j + 1]
      BY <1>1, <1>9, <3>1, <3>2 DEF At
    <3>4. QED BY <1>1, <1>8, <3>1, <3>3 DEF At
  <2>4. QED BY <1>1, <2>1, <2>2, <2>3
<1>11. Links(m, t)
  BY <1>8, <1>9, <1>10 DEF Links
<1>12. ASSUME NEW e \in D \ Elements(s), e # x PROVE m.next[e] = l.next[e]
  <2>1. s # << >> => e # s[n]
    BY <1>1, <1>12 DEF Elements
  <2>2. QED BY <1>9, <1>12, <2>1
<1>13. QED BY <1>9, <1>11, <1>12 DEF m, t

-----------------------------------------------------------------------------
(* Blocks of memory *)

\* memb_alloc returns the first block that is free.
LEMMA FreeBlockFact ==
  ASSUME NEW counts, DOMAIN counts \subseteq Nat, \E b \in DOMAIN counts : counts[b] = 0
  PROVE  /\ FreeBlock(counts) \in DOMAIN counts
         /\ counts[FreeBlock(counts)] = 0
         /\ \A c \in DOMAIN counts : counts[c] = 0 => FreeBlock(counts) <= c
<1> DEFINE free == {b \in DOMAIN counts : counts[b] = 0}
<1>1. free \in SUBSET Nat /\ free # {}
  OBVIOUS
<1>2. PICK m \in free : \A c \in free : m <= c
  BY <1>1, LeastNat
<1>3. \E b \in DOMAIN counts :
        counts[b] = 0 /\ \A c \in DOMAIN counts : counts[c] = 0 => b <= c
  BY <1>2
<1>4. FreeBlock(counts) =
        CHOOSE b \in DOMAIN counts :
          counts[b] = 0 /\ \A c \in DOMAIN counts : counts[c] = 0 => b <= c
  BY DEF FreeBlock
<1>5. QED BY <1>3, <1>4
=============================================================================
