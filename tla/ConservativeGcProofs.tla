------------------------- MODULE ConservativeGcProofs -------------------------
(***************************************************************************)
(* Proofs of the safety properties of the conservative collector, for any  *)
(* heap, any sizes asked for and any variables.                            *)
(*                                                                         *)
(* The invariant names the blocks of both lists as sets, F and U, and says *)
(* of each that its links make a circle in the order of a key: the address *)
(* for the free list, and for the used list how late a block was added.    *)
(***************************************************************************)
EXTENDS ConservativeGc, FiniteSetTheorems, WellFoundedInduction, TLAPS

(* The links nx lead from each block of S to the one with the next greater *)
(* key, and from the greatest to the least.                                *)
Circle(S, key, nx) ==
  \A x \in S :
    /\ nx[x] \in S
    /\ \/ /\ key[x] < key[nx[x]]
          /\ \A y \in S : key[y] <= key[x] \/ key[nx[x]] <= key[y]
       \/ /\ \A y \in S : key[y] <= key[x]
          /\ \A y \in S : key[nx[x]] <= key[y]

(* No two blocks of S have the same key. *)
Keyed(S, key) ==
  /\ \A x \in S : key[x] \in Nat
  /\ \A x, y \in S : key[x] = key[y] => x = y

Address == [u \in Units |-> u]

(* The blocks of T, with sizes s, divide the units below top. *)
Tiles(T, s, top) ==
  /\ \A b \in T : b \in Nat \ {0} /\ s[b] \in Nat \ {0} /\ b + s[b] <= top
  /\ \A b, c \in T : b < c => b + s[b] <= c
  /\ \A u \in 1..top - 1 : \E b \in T : b <= u /\ u < b + s[b]
-----------------------------------------------------------------------------
(* Least and greatest *)

LEMMA LeastIsMin ==
  ASSUME NEW S, S \subseteq Nat, S # {}
  PROVE  Min(S) \in S /\ \A y \in S : Min(S) <= y
<1> DEFINE R == OpToRel(<, Nat)
<1>1. \A i, j \in Nat : i < j => <<i, j>> \in R
  BY DEF OpToRel
<1>2. PICK m \in S : \A y \in S : ~(<<y, m>> \in R)
  <2>1. IsWellFoundedOn(R, Nat)
    BY NatLessThanWellFounded
  <2> HIDE DEF R
  <2> QED BY <2>1, WFMin, Zenon
<1> HIDE DEF R
<1>3. \A y \in S : m <= y
  <2> SUFFICES ASSUME NEW y \in S PROVE m <= y
    OBVIOUS
  <2>1. m \in Nat /\ y \in Nat
    OBVIOUS
  <2>2. ~(y < m)
    BY <2>1, <1>1, <1>2
  <2> QED BY <2>1, <2>2
<1> QED BY <1>3 DEF Min

LEMMA LeastExists ==
  ASSUME NEW S, S \subseteq Nat, S # {}
  PROVE  \E m \in S : \A y \in S : m <= y
BY LeastIsMin, Zenon

(* Of blocks with bounded keys one has the greatest. *)
LEMMA GreatestExists ==
  ASSUME NEW S, S # {}, NEW key, NEW B \in Nat,
         \A x \in S : key[x] \in Nat /\ key[x] <= B
  PROVE  \E m \in S : \A y \in S : key[y] <= key[m]
<1> DEFINE D == {B - key[x] : x \in S}
<1>1. D \subseteq Nat /\ D # {}
  OBVIOUS
<1>2. PICK d \in D : \A e \in D : d <= e
  <2> HIDE DEF D
  <2> QED BY <1>1, LeastExists
<1>3. PICK m \in S : d = B - key[m]
  OBVIOUS
<1>4. ASSUME NEW y \in S PROVE key[y] <= key[m]
  <2>1. B - key[m] <= B - key[y]
    BY <1>2, <1>3
  <2> QED BY <2>1
<1> QED BY <1>4

(* Induction, as a minimal counterexample: what holds of 0, and of n + 1   *)
(* when it holds of n, holds of every number.                              *)
LEMMA NumbersAreInductive ==
  ASSUME NEW S, 0 \in S, \A n \in Nat : n \in S => n + 1 \in S
  PROVE  Nat \subseteq S
<1> SUFFICES ASSUME NEW k \in Nat, k \notin S PROVE FALSE
  OBVIOUS
<1> DEFINE T == {n \in Nat : n \notin S}
<1>1. PICK m \in T : \A y \in T : m <= y
  <2>1. T \subseteq Nat /\ T # {}
    OBVIOUS
  <2> HIDE DEF T
  <2> QED BY <2>1, LeastExists
<1>2. m # 0 /\ m \in Nat
  OBVIOUS
<1>3. m - 1 \in Nat /\ m - 1 \in S
  BY <1>1, <1>2
<1>4. m - 1 + 1 \in S
  BY <1>3
<1> QED BY <1>2, <1>4
-----------------------------------------------------------------------------
(* Walks round a circle *)

(* A part of a circle that its links do not leave is the whole circle. *)
LEMMA ClosedPart ==
  ASSUME NEW S, NEW key, NEW nx, NEW B \in Nat,
         Circle(S, key, nx), Keyed(S, key), \A x \in S : key[x] <= B,
         NEW V, V \subseteq S, V # {}, \A x \in V : nx[x] \in V
  PROVE  V = S
<1> SUFFICES ASSUME NEW y \in S, y \notin V PROVE FALSE
  OBVIOUS
<1>1. \A x \in S : key[x] \in Nat /\ key[x] <= B
  BY DEF Keyed
<1>2. PICK m \in V : \A x \in V : key[x] <= key[m]
  <2>1. \A x \in V : key[x] \in Nat /\ key[x] <= B
    BY <1>1
  <2> QED BY <2>1, GreatestExists
<1>3. nx[m] \in V /\ m \in S /\ nx[m] \in S
  OBVIOUS
<1>4. \A x \in S : key[nx[m]] <= key[x]
  BY <1>1, <1>2, <1>3 DEF Circle
<1> DEFINE W == {x \in V : key[x] < key[y]}
<1>5. nx[m] \in W
  <2>1. key[nx[m]] # key[y]
    BY <1>3 DEF Keyed
  <2> QED BY <1>1, <1>3, <1>4, <2>1
<1>6. PICK w \in W : \A x \in W : key[x] <= key[w]
  <2>1. \A x \in W : key[x] \in Nat /\ key[x] <= B
    BY <1>1
  <2>2. W # {}
    BY <1>5
  <2> HIDE DEF W
  <2> QED BY <2>1, <2>2, GreatestExists
<1>7. w \in V /\ w \in S /\ nx[w] \in V /\ nx[w] \in S /\ key[w] < key[y]
  OBVIOUS
<1>8. key[w] < key[nx[w]] /\ key[nx[w]] <= key[y]
  BY <1>1, <1>7 DEF Circle
<1>9. key[nx[w]] # key[y]
  BY <1>7 DEF Keyed
<1>10. nx[w] \in W
  BY <1>1, <1>7, <1>8, <1>9
<1> QED BY <1>1, <1>6, <1>7, <1>8, <1>10

(* The walk from x0 along nx, as ConservativeGc's FreeAt and UsedAt are    *)
(* defined.                                                                *)
IsWalk(f, x0, nx) == f = [i \in Nat |-> IF i = 0 THEN x0 ELSE nx[f[i - 1]]]

Walk(x0, nx) == CHOOSE f : IsWalk(f, x0, nx)

Covers(f, S) == (\A i \in Nat : f[i] \in S) /\ {f[i] : i \in Units} = S

(* Its first n steps. *)
Prefixes(n, S, x0, nx) ==
  {a \in [0..n -> S] : a[0] = x0 /\ \A i \in 1..n : a[i] = nx[a[i - 1]]}

LEMMA PrefixesExist ==
  ASSUME NEW S, NEW x0 \in S, NEW nx, \A x \in S : nx[x] \in S
  PROVE  \A n \in Nat : Prefixes(n, S, x0, nx) # {}
<1> DEFINE G == {n \in Nat : Prefixes(n, S, x0, nx) # {}}
<1>1. 0 \in G
  <2>1. [i \in 0..0 |-> x0] \in Prefixes(0, S, x0, nx)
    BY DEF Prefixes
  <2> QED BY <2>1
<1>2. ASSUME NEW n \in Nat, n \in G PROVE n + 1 \in G
  <2>1. PICK a : a \in Prefixes(n, S, x0, nx)
    BY <1>2
  <2> DEFINE b == [i \in 0..n + 1 |-> IF i = n + 1 THEN nx[a[n]] ELSE a[i]]
  <2>2. a \in [0..n -> S] /\ a[0] = x0 /\ \A i \in 1..n : a[i] = nx[a[i - 1]]
    BY <2>1 DEF Prefixes
  <2>3. \A i \in 0..n : b[i] = a[i] /\ a[i] \in S
    BY <2>2
  <2>4. b[n + 1] = nx[a[n]] /\ nx[a[n]] \in S
    BY <2>2
  <2>5. b \in [0..n + 1 -> S]
    BY <2>2, <2>4
  <2>6. ASSUME NEW i \in 1..n + 1 PROVE b[i] = nx[b[i - 1]]
    <3>1. CASE i = n + 1
      BY <3>1, <2>3, <2>4
    <3>2. CASE i # n + 1
      <4>1. i \in 1..n /\ i \in 0..n /\ i - 1 \in 0..n
        BY <3>2
      <4> HIDE DEF b
      <4> QED BY <4>1, <2>2, <2>3
    <3> QED BY <3>1, <3>2
  <2>7. b[0] = x0
    BY <2>2, <2>3
  <2> HIDE DEF b
  <2>8. b \in Prefixes(n + 1, S, x0, nx)
    BY <2>5, <2>6, <2>7 DEF Prefixes
  <2> QED BY <2>8
<1>3. Nat \subseteq G
  <2> HIDE DEF G
  <2> QED BY <1>1, <1>2, NumbersAreInductive
<1> QED BY <1>3

LEMMA PrefixesAgree ==
  ASSUME NEW S, NEW x0, NEW nx, NEW n \in Nat, NEW m \in Nat,
         NEW a \in Prefixes(n, S, x0, nx), NEW b \in Prefixes(m, S, x0, nx)
  PROVE  \A i \in Nat : i <= n /\ i <= m => a[i] = b[i]
<1> DEFINE G == {i \in Nat : i <= n /\ i <= m => a[i] = b[i]}
<1>1. a[0] = x0 /\ \A i \in 1..n : a[i] = nx[a[i - 1]]
  BY DEF Prefixes
<1>2. b[0] = x0 /\ \A i \in 1..m : b[i] = nx[b[i - 1]]
  BY DEF Prefixes
<1>3. 0 \in G
  BY <1>1, <1>2
<1>4. ASSUME NEW i \in Nat, i \in G PROVE i + 1 \in G
  <2> SUFFICES ASSUME i + 1 <= n, i + 1 <= m PROVE a[i + 1] = b[i + 1]
    OBVIOUS
  <2>1. a[i] = b[i]
    BY <1>4
  <2>2. i + 1 \in 1..n /\ i + 1 \in 1..m /\ i + 1 - 1 = i
    OBVIOUS
  <2>3. a[i + 1] = nx[a[i]] /\ b[i + 1] = nx[b[i]]
    BY <2>2, <1>1, <1>2
  <2> QED BY <2>1, <2>3
<1>5. Nat \subseteq G
  <2> HIDE DEF G
  <2> QED BY <1>3, <1>4, NumbersAreInductive
<1> QED BY <1>5

LEMMA WalkExists ==
  ASSUME NEW S, NEW x0 \in S, NEW nx, \A x \in S : nx[x] \in S
  PROVE  \E f : IsWalk(f, x0, nx)
<1> DEFINE P(n) == Prefixes(n, S, x0, nx)
           A(n) == CHOOSE a : a \in P(n)
           f == [n \in Nat |-> A(n)[n]]
<1>1. \A n \in Nat : A(n) \in P(n)
  <2>1. \A n \in Nat : P(n) # {}
    BY PrefixesExist
  <2> HIDE DEF P
  <2> QED BY <2>1
<1>2. f[0] = x0
  <2>1. f[0] = A(0)[0] /\ A(0) \in P(0)
    BY <1>1
  <2> HIDE DEF A, f
  <2> QED BY <2>1 DEF Prefixes
<1>3. ASSUME NEW i \in Nat, i # 0 PROVE f[i] = nx[f[i - 1]]
  <2>1. i - 1 \in Nat /\ i - 1 <= i /\ i - 1 <= i - 1 /\ i \in 1..i
    BY <1>3
  <2>2. A(i) \in P(i) /\ A(i - 1) \in P(i - 1) /\ f[i] = A(i)[i] /\ f[i - 1] = A(i - 1)[i - 1]
    BY <2>1, <1>1
  <2> HIDE DEF A, f
  <2>3. A(i)[i - 1] = A(i - 1)[i - 1]
    BY <2>1, <2>2, PrefixesAgree
  <2>4. A(i)[i] = nx[A(i)[i - 1]]
    BY <2>1, <2>2 DEF Prefixes
  <2> QED BY <2>2, <2>3, <2>4
<1>4. f = [i \in Nat |-> IF i = 0 THEN x0 ELSE nx[f[i - 1]]]
  <2> DEFINE g == [i \in Nat |-> IF i = 0 THEN x0 ELSE nx[f[i - 1]]]
  <2>1. \A i \in Nat : f[i] = g[i]
    <3> HIDE DEF f
    <3> QED BY <1>2, <1>3
  <2> QED BY <2>1
<1> HIDE DEF f
<1> QED BY <1>4 DEF IsWalk

Roams(f, nx) == \A i \in Nat : f[i] \in Units /\ f[i + 1] = nx[f[i]]

Returned(f) == \E i \in Units : f[HeapMax + 1] = f[i]

(* Among the units a walk comes back to a place it was at, and goes on     *)
(* from there as before.                                                   *)
LEMMA WalkRepeats ==
  ASSUME NEW f, NEW nx, Roams(f, nx)
  PROVE  Returned(f)
<1> USE DEF Roams, Returned
<1>1. HeapMax \in Nat /\ Base = 0
  BY SizesAssumption DEF Base
<1> DEFINE I == 0..HeapMax + 1
           g == [i \in I |-> f[i]]
<1>2. PICK a, b \in I : a # b /\ g[a] = g[b]
  <2>1. g \in [I -> Units]
    BY <1>1
  <2>2. IsFiniteSet(I) /\ Cardinality(I) = HeapMax + 2
    <3>1. HeapMax + 1 \in Int /\ 0 <= HeapMax + 1
      BY <1>1
    <3>2. Cardinality(0..HeapMax + 1) = HeapMax + 1 - 0 + 1 /\ IsFiniteSet(0..HeapMax + 1)
      BY <3>1, <1>1, FS_Interval
    <3> QED BY <3>2, <1>1
  <2>3. IsFiniteSet(Units) /\ Cardinality(Units) = HeapMax + 1
    <3>1. IsFiniteSet(0..HeapMax) /\ Cardinality(0..HeapMax) = HeapMax - 0 + 1
      BY <1>1, FS_Interval
    <3> QED BY <3>1, <1>1 DEF Units
  <2>4. Cardinality(Units) < Cardinality(I)
    BY <1>1, <2>2, <2>3
  <2> HIDE DEF I, g
  <2> QED BY <2>1, <2>2, <2>3, <2>4, FS_PigeonHole
<1>3. PICK j, k \in I : j < k /\ f[j] = f[k]
  <2>1. f[a] = f[b]
    BY <1>2
  <2>2. a < b \/ b < a
    BY <1>1, <1>2
  <2> QED BY <2>1, <2>2
<1>4. j \in Nat /\ k \in Nat /\ k <= HeapMax + 1
  BY <1>1
<1> DEFINE G == {e \in Nat : f[j + e] = f[k + e]}
<1>5. 0 \in G
  BY <1>3, <1>4
<1>6. ASSUME NEW e \in Nat, e \in G PROVE e + 1 \in G
  <2>1. f[j + e] = f[k + e] /\ j + e \in Nat /\ k + e \in Nat
    BY <1>4, <1>6
  <2>2. f[j + e + 1] = f[k + e + 1]
    BY <2>1
  <2>3. j + e + 1 = j + (e + 1) /\ k + e + 1 = k + (e + 1)
    BY <1>4
  <2> QED BY <2>2, <2>3
<1>7. Nat \subseteq G
  <2> HIDE DEF G
  <2> QED BY <1>5, <1>6, NumbersAreInductive
<1> DEFINE e == HeapMax + 1 - k
<1>8. e \in Nat /\ k + e = HeapMax + 1 /\ j + e \in 0..HeapMax
  BY <1>1, <1>3, <1>4
<1>9. f[j + e] = f[k + e]
  BY <1>7, <1>8
<1>10. j + e \in Units
  BY <1>1, <1>8 DEF Units
<1> HIDE DEF e
<1> QED BY <1>8, <1>9, <1>10

(* A walk round a circle of units is over all of it after HeapMax links.   *)
LEMMA WalkCovers ==
  ASSUME NEW S, S \subseteq Units, NEW key, NEW nx, NEW B \in Nat,
         Circle(S, key, nx), Keyed(S, key), \A x \in S : key[x] <= B,
         NEW x0 \in S, NEW f, f = Walk(x0, nx)
  PROVE  Covers(f, S)
<1> USE DEF Covers
<1>1. HeapMax \in Nat /\ Base = 0 /\ Units \subseteq Nat
  BY SizesAssumption DEF Base, Units
<1>2. \A x \in S : nx[x] \in S
  BY DEF Circle
<1>3. IsWalk(f, x0, nx)
  BY <1>2, WalkExists DEF Walk
<1>4. f[0] = x0 /\ \A i \in Nat : f[i + 1] = nx[f[i]]
  <2>1. \A i \in Nat : f[i] = IF i = 0 THEN x0 ELSE nx[f[i - 1]]
    BY <1>3 DEF IsWalk
  <2>2. ASSUME NEW i \in Nat PROVE f[i + 1] = nx[f[i]]
    <3>1. i + 1 \in Nat /\ i + 1 # 0 /\ i + 1 - 1 = i
      OBVIOUS
    <3> QED BY <2>1, <3>1
  <2> QED BY <2>1, <2>2
<1>5. \A i \in Nat : f[i] \in S
  <2> DEFINE G == {i \in Nat : f[i] \in S}
  <2>1. 0 \in G /\ \A i \in Nat : i \in G => i + 1 \in G
    BY <1>2, <1>4
  <2>2. Nat \subseteq G
    <3> HIDE DEF G
    <3> QED BY <2>1, NumbersAreInductive
  <2> QED BY <2>2
<1> DEFINE V == {f[i] : i \in Units}
<1>6. V \subseteq S /\ V # {}
  <2>1. 0 \in Units
    BY <1>1 DEF Units
  <2> QED BY <1>1, <1>5, <2>1
<1>7. \E i \in Units : f[HeapMax + 1] = f[i]
  <2>1. Roams(f, nx)
    BY <1>4, <1>5 DEF Roams
  <2> QED BY <2>1, WalkRepeats DEF Returned
<1>8. ASSUME NEW x \in V PROVE nx[x] \in V
  <2>1. PICK i \in Units : x = f[i]
    OBVIOUS
  <2>2. i \in Nat /\ nx[x] = f[i + 1]
    BY <1>1, <1>4, <2>1
  <2>3. CASE i = HeapMax
    BY <1>7, <2>2, <2>3
  <2>4. CASE i # HeapMax
    <3>1. i + 1 \in Units
      BY <1>1, <2>4 DEF Units
    <3> QED BY <2>2, <3>1
  <2> QED BY <2>3, <2>4
<1>9. V = S
  <2> HIDE DEF V
  <2> QED BY <1>6, <1>8, ClosedPart
<1> QED BY <1>5, <1>9
-----------------------------------------------------------------------------
(* Circles: a block added or taken out *)

LEMMA CircleOfSame ==
  ASSUME NEW S, NEW key, NEW nx, NEW ny, Circle(S, key, nx), \A x \in S : ny[x] = nx[x]
  PROVE  Circle(S, key, ny)
BY DEF Circle

(* Linked in behind q, whose key is the last before its own or, if it has  *)
(* the least key of all or the greatest, behind the greatest.              *)
LEMMA CircleAdds ==
  ASSUME NEW S, NEW key, NEW nx, NEW ny, NEW q \in S, NEW b, b \notin S,
         Keyed(S \cup {b}, key), Circle(S, key, nx),
         \/ key[q] < key[b] /\ key[b] < key[nx[q]]
         \/ key[nx[q]] <= key[q] /\ (key[q] < key[b] \/ key[b] < key[nx[q]]),
         ny[b] = nx[q], ny[q] = b, \A x \in S : x # q => ny[x] = nx[x]
  PROVE  Circle(S \cup {b}, key, ny)
<1>1. \A x \in S \cup {b} : key[x] \in Nat
  BY DEF Keyed
<1>2. \A x, y \in S \cup {b} : key[x] = key[y] => x = y
  BY DEF Keyed
<1>3. \A x \in S : nx[x] \in S
  BY DEF Circle
<1> DEFINE T == S \cup {b}
           Links(x) == /\ ny[x] \in T
                       /\ \/ /\ key[x] < key[ny[x]]
                             /\ \A y \in T : key[y] <= key[x] \/ key[ny[x]] <= key[y]
                          \/ /\ \A y \in T : key[y] <= key[x]
                             /\ \A y \in T : key[ny[x]] <= key[y]
<1>4. Links(q)
  BY <1>1, <1>2, <1>3 DEF Circle
<1>5. Links(b)
  BY <1>1, <1>2, <1>3 DEF Circle
<1>6. ASSUME NEW x \in S, x # q PROVE Links(x)
  BY <1>1, <1>2, <1>3, <1>6 DEF Circle
<1> QED BY <1>4, <1>5, <1>6 DEF Circle

LEMMA CircleDrops ==
  ASSUME NEW S, NEW key, NEW nx, NEW ny, NEW q \in S, NEW r \in S, r # q, nx[q] = r,
         Keyed(S, key), Circle(S, key, nx),
         ny[q] = nx[r], \A x \in S : x # q /\ x # r => ny[x] = nx[x]
  PROVE  Circle(S \ {r}, key, ny)
<1>1. \A x \in S : key[x] \in Nat /\ nx[x] \in S
  BY DEF Keyed, Circle
<1>2. \A x, y \in S : key[x] = key[y] => x = y
  BY DEF Keyed
<1> DEFINE T == S \ {r}
           Links(x) == /\ ny[x] \in T
                       /\ \/ /\ key[x] < key[ny[x]]
                             /\ \A y \in T : key[y] <= key[x] \/ key[ny[x]] <= key[y]
                          \/ /\ \A y \in T : key[y] <= key[x]
                             /\ \A y \in T : key[ny[x]] <= key[y]
<1>3. nx[r] # r
  <2> SUFFICES ASSUME nx[r] = r PROVE FALSE
    OBVIOUS
  <2>1. key[q] <= key[r] /\ key[r] <= key[q]
    BY <1>1 DEF Circle
  <2>2. key[q] = key[r]
    BY <1>1, <2>1
  <2> QED BY <1>2, <2>2
<1>4. Links(q)
  <2>1. ny[q] \in T
    BY <1>1, <1>3
  <2>2. CASE key[q] < key[r] /\ \A y \in S : key[y] <= key[q] \/ key[r] <= key[y]
    <3>1. CASE key[r] < key[nx[r]] /\ \A y \in S : key[y] <= key[r] \/ key[nx[r]] <= key[y]
      <4>1. key[q] < key[ny[q]]
        BY <1>1, <2>1, <2>2, <3>1
      <4>2. ASSUME NEW y \in T PROVE key[y] <= key[q] \/ key[ny[q]] <= key[y]
        <5>1. key[y] # key[r]
          BY <1>2
        <5> QED BY <1>1, <2>2, <3>1, <5>1
      <4> QED BY <2>1, <4>1, <4>2
    <3>2. CASE (\A y \in S : key[y] <= key[r]) /\ \A y \in S : key[nx[r]] <= key[y]
      <4>1. ASSUME NEW y \in T PROVE key[y] <= key[q] /\ key[ny[q]] <= key[y]
        <5>1. key[y] # key[r]
          BY <1>2
        <5> QED BY <1>1, <2>2, <3>2, <5>1
      <4> QED BY <2>1, <4>1
    <3> QED BY <3>1, <3>2 DEF Circle
  <2>3. CASE (\A y \in S : key[y] <= key[q]) /\ \A y \in S : key[r] <= key[y]
    <3>1. CASE key[r] < key[nx[r]] /\ \A y \in S : key[y] <= key[r] \/ key[nx[r]] <= key[y]
      <4>1. ASSUME NEW y \in T PROVE key[y] <= key[q] /\ key[ny[q]] <= key[y]
        <5>1. key[y] # key[r]
          BY <1>2
        <5> QED BY <1>1, <2>3, <3>1, <5>1
      <4> QED BY <2>1, <4>1
    <3>2. CASE \A y \in S : key[y] <= key[r]
      <4>1. key[q] = key[r]
        BY <1>1, <2>3, <3>2
      <4> QED BY <1>2, <4>1
    <3> QED BY <3>1, <3>2 DEF Circle
  <2> QED BY <2>2, <2>3 DEF Circle
<1>5. ASSUME NEW x \in S, x # q, x # r PROVE Links(x)
  <2>1. nx[x] # r
    BY <1>1, <1>2, <1>5 DEF Circle
  <2> QED BY <1>1, <1>2, <1>5, <2>1 DEF Circle
<1> QED BY <1>4, <1>5 DEF Circle
-----------------------------------------------------------------------------
(* Tilings: blocks joined, cut and added *)

LEMMA TilesOfSame ==
  ASSUME NEW T, NEW s, NEW s2, NEW top, Tiles(T, s, top), \A x \in T : s2[x] = s[x]
  PROVE  Tiles(T, s2, top)
BY DEF Tiles

LEMMA TilesJoined ==
  ASSUME NEW T, NEW s, NEW s2, NEW top \in Nat, Tiles(T, s, top),
         NEW x \in T, NEW r \in T, x + s[x] = r,
         s2[x] = s[x] + s[r], \A y \in T : y # x /\ y # r => s2[y] = s[y]
  PROVE  Tiles(T \ {r}, s2, top)
<1>1. \A b \in T : b \in Nat \ {0} /\ s[b] \in Nat \ {0} /\ b + s[b] <= top
  BY DEF Tiles
<1>2. \A b, c \in T : b < c => b + s[b] <= c
  BY DEF Tiles
<1>3. x # r
  BY <1>1
<1>4. \A b \in T \ {r} : b \in Nat \ {0} /\ s2[b] \in Nat \ {0} /\ b + s2[b] <= top
  BY <1>1
<1>5. ASSUME NEW b \in T \ {r}, NEW c \in T \ {r}, b < c PROVE b + s2[b] <= c
  <2>1. CASE b = x
    <3>1. r <= c
      BY <1>1, <1>2, <1>5, <2>1
    <3>2. r + s[r] <= c
      BY <1>1, <1>2, <3>1
    <3> QED BY <1>1, <2>1, <3>2
  <2>2. CASE b # x
    BY <1>2, <1>5, <2>2
  <2> QED BY <2>1, <2>2
<1>6. ASSUME NEW u \in 1..top - 1 PROVE \E b \in T \ {r} : b <= u /\ u < b + s2[b]
  <2>1. PICK b \in T : b <= u /\ u < b + s[b]
    BY DEF Tiles
  <2>2. CASE b = r
    BY <1>1, <1>3, <2>1, <2>2
  <2>3. CASE b = x
    BY <1>1, <1>3, <2>1, <2>3
  <2>4. CASE b # x /\ b # r
    BY <2>1, <2>4
  <2> QED BY <2>2, <2>3, <2>4
<1> QED BY <1>4, <1>5, <1>6 DEF Tiles

LEMMA TilesCut ==
  ASSUME NEW T, NEW s, NEW s2, NEW top \in Nat, Tiles(T, s, top),
         NEW x \in T, NEW n \in Nat \ {0}, n < s[x], NEW b, b = x + s[x] - n,
         s2[x] = s[x] - n, s2[b] = n, \A y \in T : y # x => s2[y] = s[y]
  PROVE  b \notin T /\ Tiles(T \cup {b}, s2, top)
<1>1. \A c \in T : c \in Nat \ {0} /\ s[c] \in Nat \ {0} /\ c + s[c] <= top
  BY DEF Tiles
<1>2. \A c, d \in T : c < d => c + s[c] <= d
  BY DEF Tiles
<1>3. b \in Nat /\ x < b /\ b < x + s[x] /\ b + n = x + s[x] /\ x + s2[x] = b
  BY <1>1
<1>4. b \notin T
  BY <1>1, <1>2, <1>3
<1>5. \A c \in T \cup {b} : c \in Nat \ {0} /\ s2[c] \in Nat \ {0} /\ c + s2[c] <= top
  BY <1>1, <1>3
<1>6. ASSUME NEW c \in T \cup {b}, NEW d \in T \cup {b}, c < d PROVE c + s2[c] <= d
  <2>1. CASE c = b
    <3>1. d \in T /\ x < d
      BY <1>1, <1>3, <1>6, <2>1
    <3> QED BY <1>1, <1>2, <1>3, <2>1, <3>1
  <2>2. CASE c = x
    <3>1. CASE d = b
      BY <1>3, <2>2, <3>1
    <3>2. CASE d \in T
      BY <1>1, <1>2, <1>3, <1>6, <2>2, <3>2
    <3> QED BY <3>1, <3>2
  <2>3. CASE c \in T /\ c # x
    <3>1. CASE d = b
      <4>1. ~(x < c)
        BY <1>1, <1>2, <1>3, <1>6, <2>3, <3>1
      <4>2. c + s[c] <= x
        BY <1>1, <1>2, <2>3, <4>1
      <4> QED BY <1>1, <1>3, <2>3, <3>1, <4>2
    <3>2. CASE d \in T
      BY <1>2, <1>6, <2>3, <3>2
    <3> QED BY <3>1, <3>2
  <2> QED BY <2>1, <2>2, <2>3
<1>7. ASSUME NEW u \in 1..top - 1 PROVE \E c \in T \cup {b} : c <= u /\ u < c + s2[c]
  <2>1. PICK c \in T : c <= u /\ u < c + s[c]
    BY DEF Tiles
  <2>2. CASE c = x /\ u < b
    BY <1>1, <1>3, <2>1, <2>2
  <2>3. CASE c = x /\ b <= u
    BY <1>1, <1>3, <2>1, <2>3
  <2>4. CASE c # x
    BY <2>1, <2>4
  <2> QED BY <1>3, <2>2, <2>3, <2>4
<1> QED BY <1>4, <1>5, <1>6, <1>7 DEF Tiles

LEMMA TilesExtended ==
  ASSUME NEW T, NEW s, NEW s2, NEW top \in Nat \ {0}, Tiles(T, s, top),
         NEW n \in Nat \ {0}, s2[top] = n, \A y \in T : s2[y] = s[y]
  PROVE  top \notin T /\ Tiles(T \cup {top}, s2, top + n)
<1>1. \A c \in T : c \in Nat \ {0} /\ s[c] \in Nat \ {0} /\ c + s[c] <= top
  BY DEF Tiles
<1>2. top \notin T
  BY <1>1
<1>3. \A c \in T \cup {top} : c \in Nat \ {0} /\ s2[c] \in Nat \ {0} /\ c + s2[c] <= top + n
  BY <1>1
<1>4. ASSUME NEW c \in T \cup {top}, NEW d \in T \cup {top}, c < d PROVE c + s2[c] <= d
  <2>1. c \in T
    BY <1>1, <1>4
  <2> QED BY <1>1, <1>4, <2>1 DEF Tiles
<1>5. ASSUME NEW u \in 1..top + n - 1 PROVE \E c \in T \cup {top} : c <= u /\ u < c + s2[c]
  <2>1. CASE u \in 1..top - 1
    <3>1. PICK c \in T : c <= u /\ u < c + s[c]
      BY <2>1 DEF Tiles
    <3> QED BY <3>1
  <2>2. CASE u >= top
    BY <2>2
  <2> QED BY <2>1, <2>2
<1> QED BY <1>2, <1>3, <1>4, <1>5 DEF Tiles
-----------------------------------------------------------------------------
(* The free list *)

(* F are the blocks of a free list in the memory s, nx below top, and H    *)
(* those the client holds: they tile the heap, the links are in the order  *)
(* of addresses, and no two blocks of F touch.                             *)
FreeList(F, H, s, nx, top) ==
  /\ F \subseteq Units /\ Base \in F
  /\ H \subseteq 1..HeapMax /\ F \cap H = {}
  /\ s \in [Units -> Nat] /\ s[Base] = 0
  /\ nx \in [Units -> Int]
  /\ top \in 1..HeapMax + 1
  /\ Tiles((F \ {Base}) \cup H, s, top)
  /\ Circle(F, Address, nx)
  /\ \A b \in F \ {Base} : b + s[b] \notin F

LEMMA AddressIsKey ==
  /\ HeapMax \in Nat \ {0} /\ Base = 0 /\ Units = 0..HeapMax
  /\ \A u \in Units : Address[u] = u /\ u \in Nat /\ u <= HeapMax
  /\ \A S \in SUBSET Units : Keyed(S, Address)
<1>1. HeapMax \in Nat \ {0} /\ Base = 0 /\ Units = 0..HeapMax
  BY SizesAssumption DEF Base, Units
<1>2. \A u \in Units : Address[u] = u /\ u \in Nat /\ u <= HeapMax
  BY <1>1 DEF Address
<1> QED BY <1>1, <1>2 DEF Keyed

(* What the order of addresses says of a link. *)
LEMMA AddressOrder ==
  ASSUME NEW F \in SUBSET Units, NEW nx, Circle(F, Address, nx), NEW x \in F
  PROVE  /\ nx[x] \in F
         /\ \/ x < nx[x] /\ \A y \in F : y <= x \/ nx[x] <= y
            \/ (\A y \in F : y <= x) /\ \A y \in F : nx[x] <= y
<1>1. \A y \in F : Address[y] = y
  BY AddressIsKey
<1>2. nx[x] \in F
  BY DEF Circle
<1>3. \/ /\ Address[x] < Address[nx[x]]
         /\ \A y \in F : Address[y] <= Address[x] \/ Address[nx[x]] <= Address[y]
      \/ /\ \A y \in F : Address[y] <= Address[x]
         /\ \A y \in F : Address[nx[x]] <= Address[y]
  BY DEF Circle
<1> QED BY <1>1, <1>2, <1>3

LEMMA FreeWalk ==
  ASSUME NEW F \in SUBSET Units, Circle(F, Address, next), freep \in F
  PROVE  FreeBlocks = F /\ \A i \in Nat : FreeAt[i] \in F
<1>1. FreeAt = Walk(freep, next)
  BY DEF FreeAt, Walk, IsWalk
<1>2. Keyed(F, Address) /\ HeapMax \in Nat /\ \A x \in F : Address[x] <= HeapMax
  BY AddressIsKey
<1>3. Covers(FreeAt, F)
  BY <1>1, <1>2, WalkCovers
<1> QED BY <1>3 DEF FreeBlocks, Covers

(* The loop of add_to_free_list stops, at the block before b. *)
LEMMA PlaceFits ==
  ASSUME NEW F \in SUBSET Units, Base \in F, Circle(F, Address, next), freep \in F,
         NEW b \in 1..HeapMax, b \notin F
  PROVE  Place(b) \in F /\ StopsAt(Place(b), b)
<1>1. \A u \in Units : Address[u] = u /\ u \in Nat /\ u <= HeapMax
  BY AddressIsKey
<1>2. Base = 0 /\ Units \subseteq Nat /\ HeapMax \in Nat
  BY AddressIsKey
<1>3. PICK q \in F : q < b /\ \A y \in F : y < b => y <= q
  <2> DEFINE L == {y \in F : y < b}
  <2>1. L # {}
    BY <1>2
  <2>2. \A x \in L : Address[x] \in Nat /\ Address[x] <= HeapMax
    BY <1>1
  <2>3. PICK m \in L : \A y \in L : Address[y] <= Address[m]
    <3> HIDE DEF L
    <3> QED BY <1>2, <2>1, <2>2, GreatestExists
  <2> QED BY <1>1, <2>3
<1>4. StopsAt(q, b)
  <2>1. /\ next[q] \in F
        /\ \/ q < next[q] /\ \A y \in F : y <= q \/ next[q] <= y
           \/ (\A y \in F : y <= q) /\ \A y \in F : next[q] <= y
    BY AddressOrder
  <2>2. next[q] # b /\ next[q] \in Nat /\ q \in Nat
    BY <1>2, <2>1
  <2>3. CASE q < next[q]
    <3>1. b < next[q]
      BY <1>3, <2>1, <2>2, <2>3
    <3> QED BY <1>3, <3>1 DEF StopsAt
  <2>4. CASE ~(q < next[q])
    BY <1>3, <2>2, <2>4 DEF StopsAt
  <2> QED BY <2>3, <2>4
<1> DEFINE I == {i \in Units : StopsAt(FreeAt[i], b)}
<1>5. FreeBlocks = F /\ \A i \in Nat : FreeAt[i] \in F
  BY FreeWalk
<1>6. I # {}
  <2>1. PICK i \in Units : q = FreeAt[i]
    BY <1>5 DEF FreeBlocks
  <2> QED BY <1>4, <2>1
<1>7. Min(I) \in I
  <2>1. I \subseteq Nat
    BY <1>2
  <2> HIDE DEF I
  <2> QED BY <1>6, <2>1, LeastIsMin
<1> QED BY <1>2, <1>5, <1>7 DEF Place

LEMMA PlaceIsBefore ==
  ASSUME NEW F \in SUBSET Units, Base \in F, Circle(F, Address, next), freep \in F,
         NEW b \in 1..HeapMax, b \notin F, NEW q, q = Place(b)
  PROVE  /\ q \in F /\ next[q] \in F /\ q < b /\ \A y \in F : y <= q \/ b < y
         /\ \/ b < next[q] /\ \A y \in F : y <= q \/ next[q] <= y
            \/ next[q] = Base /\ \A y \in F : y <= q
         /\ \/ Address[q] < Address[b] /\ Address[b] < Address[next[q]]
            \/ Address[next[q]] <= Address[q] /\ Address[q] < Address[b]
<1>1. \A u \in Units : Address[u] = u /\ u \in Nat /\ u <= HeapMax
  BY AddressIsKey
<1>2. Base = 0 /\ b \in Units /\ b \in Nat
  BY AddressIsKey
<1>3. q \in F /\ StopsAt(q, b)
  BY PlaceFits
<1>4. /\ next[q] \in F
      /\ \/ q < next[q] /\ \A y \in F : y <= q \/ next[q] <= y
         \/ (\A y \in F : y <= q) /\ \A y \in F : next[q] <= y
  BY <1>3, AddressOrder
<1>5. q \in Units /\ next[q] \in Units /\ q \in Nat /\ next[q] \in Nat
  BY <1>1, <1>3, <1>4
<1>6. CASE q < next[q] /\ \A y \in F : y <= q \/ next[q] <= y
  <2>1. q < b /\ b < next[q]
    BY <1>2, <1>3, <1>5, <1>6 DEF StopsAt
  <2>2. \A y \in F : y <= q \/ b < y
    <3> SUFFICES ASSUME NEW y \in F PROVE y <= q \/ b < y
      OBVIOUS
    <3>1. y \in Nat
      BY <1>1
    <3> QED BY <1>2, <1>5, <1>6, <2>1, <3>1
  <2> QED BY <1>1, <1>2, <1>3, <1>4, <1>5, <1>6, <2>1, <2>2
<1>7. CASE (\A y \in F : y <= q) /\ \A y \in F : next[q] <= y
  <2>1. next[q] = Base
    BY <1>2, <1>5, <1>7
  <2>2. q < b
    BY <1>2, <1>3, <1>5, <2>1 DEF StopsAt
  <2>3. Address[next[q]] <= Address[q] /\ Address[q] < Address[b]
    BY <1>1, <1>2, <1>5, <2>1, <2>2
  <2> QED BY <1>3, <1>4, <1>7, <2>1, <2>2, <2>3
<1> QED BY <1>4, <1>6, <1>7

(* The block to add and those in use, once b is one of n units. *)
Cover(F, H, b) == (F \ {Base}) \cup H \cup {b}

(* What holds when a block b of n units is given to add_to_free_list. *)
Adding(F, H, b, n, top) ==
  /\ F \in SUBSET Units /\ Base \in F /\ freep \in F
  /\ Circle(F, Address, next)
  /\ size \in [Units -> Nat] /\ size[Base] = 0 /\ next \in [Units -> Int]
  /\ H \in SUBSET (1..HeapMax) /\ F \cap H = {} /\ top \in 1..HeapMax + 1
  /\ b \in 1..HeapMax /\ b \notin F /\ b \notin H /\ n \in Nat \ {0}
  /\ Tiles(Cover(F, H, b), [size EXCEPT ![b] = n], top)
  /\ \A x \in F \ {Base} : x + size[x] \notin F

(* Before any joining: the blocks no join can surprise. *)
LEMMA AddedNeighbours ==
  ASSUME NEW F, NEW H, NEW b, NEW n, NEW top, Adding(F, H, b, n, top),
         NEW q, q = Place(b), NEW r, r = next[q],
         NEW total, total = IF b + n = r THEN n + size[r] ELSE n
  PROVE  /\ b + n = r => r \in F \ {Base} /\ r # q
         /\ q + size[q] = b => q \in F \ {Base}
         /\ \A x \in F \ {Base} : x # q => x + size[x] # b
         /\ total \in Nat \ {0} /\ b + total \notin F \cup {b}
<1>0. /\ F \in SUBSET Units /\ Base \in F /\ freep \in F
      /\ Circle(F, Address, next)
      /\ size \in [Units -> Nat] /\ size[Base] = 0 /\ next \in [Units -> Int]
      /\ H \in SUBSET (1..HeapMax) /\ F \cap H = {} /\ top \in 1..HeapMax + 1
      /\ b \in 1..HeapMax /\ b \notin F /\ b \notin H /\ n \in Nat \ {0}
      /\ Tiles(Cover(F, H, b), [size EXCEPT ![b] = n], top)
      /\ \A x \in F \ {Base} : x + size[x] \notin F
  BY DEF Adding
<1> DEFINE s == [size EXCEPT ![b] = n]
<1>1. Base = 0 /\ Units \subseteq Nat /\ b \in Units /\ b \in Nat
  BY <1>0, AddressIsKey
<1>2. /\ q \in F /\ r \in F /\ q < b /\ \A y \in F : y <= q \/ b < y
      /\ \/ b < r /\ \A y \in F : y <= q \/ r <= y
         \/ r = Base /\ \A y \in F : y <= q
  BY <1>0, PlaceIsBefore
<1>3. s[b] = n /\ \A x \in F : s[x] = size[x] /\ size[x] \in Nat
  BY <1>0, <1>1
<1>4. \A x \in Cover(F, H, b), y \in Cover(F, H, b) : x < y => x + s[x] <= y
  <2> HIDE DEF s
  <2> QED BY <1>0 DEF Tiles, s
<1>5. b \in Cover(F, H, b) /\ \A x \in F \ {Base} : x \in Cover(F, H, b)
  BY <1>0 DEF Cover
<1>6. q \in Nat /\ r \in Nat /\ size[q] \in Nat /\ size[r] \in Nat
  BY <1>0, <1>1, <1>2, <1>3
<1> HIDE DEF s
<1>7. b + n = r => r \in F \ {Base} /\ r # q
  BY <1>0, <1>1, <1>2, <1>6
<1>8. q + size[q] = b => q \in F \ {Base}
  BY <1>0, <1>1, <1>2
<1>9. ASSUME NEW x \in F \ {Base}, x # q PROVE x + size[x] # b
  <2>1. x \in Nat /\ x # 0 /\ size[x] \in Nat
    BY <1>0, <1>1, <1>3
  <2>2. CASE x < q
    <3>1. q \in F \ {Base}
      BY <1>0, <1>1, <1>2, <1>6, <2>1, <2>2
    <3>2. x + s[x] <= q
      BY <1>0, <1>4, <1>5, <2>2, <3>1
    <3> QED BY <1>0, <1>1, <1>2, <1>3, <1>6, <2>1, <3>2
  <2>3. CASE b < x
    BY <1>0, <1>1, <2>1, <2>3
  <2> QED BY <1>0, <1>2, <1>6, <1>9, <2>1, <2>2, <2>3
<1>10. total \in Nat \ {0}
  BY <1>0, <1>6
<1>11. b + total \notin F
  <2>1. CASE b + n = r
    <3>1. b + total = r + size[r]
      BY <1>0, <1>1, <1>6, <2>1
    <3> QED BY <1>0, <1>7, <2>1, <3>1
  <2>2. CASE b + n # r
    <3> SUFFICES ASSUME b + n \in F PROVE FALSE
      BY <1>0, <2>2
    <3>1. b + n \in Nat /\ b < b + n /\ ~(b + n <= q)
      BY <1>0, <1>1, <1>2, <1>6
    <3>2. b < r /\ r <= b + n
      BY <1>0, <1>2, <3>1
    <3>3. r \in F \ {Base}
      BY <1>0, <1>1, <1>2, <3>2
    <3>4. b + n <= r
      BY <1>0, <1>3, <1>4, <1>5, <3>2, <3>3
    <3> QED BY <1>0, <1>6, <2>2, <3>1, <3>2, <3>4
  <2> QED BY <1>0, <2>1, <2>2
<1> QED BY <1>0, <1>1, <1>7, <1>8, <1>9, <1>10, <1>11

(* Joined with the block after it. *)
LEMMA AddedBefore ==
  ASSUME NEW F, NEW H, NEW b, NEW n, NEW top, Adding(F, H, b, n, top),
         NEW q, q = Place(b), NEW r, r = next[q],
         NEW total, total = IF b + n = r THEN n + size[r] ELSE n,
         NEW after, after = IF b + n = r THEN next[r] ELSE r,
         NEW F1, F1 = IF b + n = r THEN (F \cup {b}) \ {r} ELSE F \cup {b}
  PROVE  /\ Tiles((F1 \ {Base}) \cup H, [size EXCEPT ![b] = total], top)
         /\ Circle(F1, Address, [next EXCEPT ![b] = after, ![q] = b])
         /\ q \in F1 /\ b \in F1
<1>0. /\ F \in SUBSET Units /\ Base \in F /\ freep \in F
      /\ Circle(F, Address, next)
      /\ size \in [Units -> Nat] /\ size[Base] = 0 /\ next \in [Units -> Int]
      /\ H \in SUBSET (1..HeapMax) /\ F \cap H = {} /\ top \in 1..HeapMax + 1
      /\ b \in 1..HeapMax /\ b \notin F /\ b \notin H /\ n \in Nat \ {0}
      /\ Tiles(Cover(F, H, b), [size EXCEPT ![b] = n], top)
      /\ \A x \in F \ {Base} : x + size[x] \notin F
  BY DEF Adding
<1> DEFINE s == [size EXCEPT ![b] = n]
           s1 == [size EXCEPT ![b] = total]
           nx1 == [next EXCEPT ![b] = after, ![q] = b]
           nxm == [next EXCEPT ![b] = r, ![q] = b]
<1>1. Base = 0 /\ Units \subseteq Nat /\ b \in Units /\ b \in Nat /\ b # Base
  BY <1>0, AddressIsKey
<1>2. /\ q \in F /\ r \in F /\ q < b
      /\ \/ Address[q] < Address[b] /\ Address[b] < Address[r]
         \/ Address[r] <= Address[q] /\ Address[q] < Address[b]
  BY <1>0, PlaceIsBefore
<1>3. b + n = r => r \in F \ {Base} /\ r # q
  BY AddedNeighbours
<1>4. Circle(F \cup {b}, Address, nxm)
  <2>1. nxm[b] = next[q] /\ nxm[q] = b /\ \A x \in F : x # q => nxm[x] = next[x]
    BY <1>0, <1>1, <1>2
  <2>2. F \cup {b} \in SUBSET Units
    BY <1>0, <1>1
  <2>3. Keyed(F \cup {b}, Address)
    BY <1>0, <2>2, AddressIsKey
  <2>4. \/ Address[q] < Address[b] /\ Address[b] < Address[next[q]]
        \/ Address[next[q]] <= Address[q] /\ (Address[q] < Address[b] \/ Address[b] < Address[next[q]])
    BY <1>0, <1>2
  <2> HIDE DEF nxm
  <2> QED BY <1>0, <1>2, <2>1, <2>3, <2>4, CircleAdds
<1>5. CASE b + n = r
  <2>1. r \in F /\ r # Base /\ r # q /\ r # b
    BY <1>0, <1>3, <1>5
  <2>2. Circle((F \cup {b}) \ {r}, Address, nx1)
    <3>1. nxm[b] = r /\ nx1[b] = nxm[r]
      BY <1>0, <1>1, <1>2, <1>5, <2>1
    <3>2. \A x \in F \cup {b} : x # b /\ x # r => nx1[x] = nxm[x]
      BY <1>0, <1>1, <1>2
    <3>3. F \cup {b} \in SUBSET Units
      BY <1>0, <1>1
    <3>4. Keyed(F \cup {b}, Address)
      BY <1>0, <3>3, AddressIsKey
    <3>5. b \in F \cup {b} /\ r \in F \cup {b}
      BY <1>0, <2>1
    <3> HIDE DEF nxm, nx1
    <3> QED BY <1>0, <1>4, <2>1, <3>1, <3>2, <3>4, <3>5, CircleDrops
  <2>3. Tiles(Cover(F, H, b) \ {r}, s1, top)
    <3>1. b \in Cover(F, H, b) /\ r \in Cover(F, H, b)
      BY <1>0, <2>1 DEF Cover
    <3>2. \A x \in Cover(F, H, b) : x \in Units
      BY <1>0, <1>1, AddressIsKey DEF Cover
    <3>3. b + s[b] = r /\ s1[b] = s[b] + s[r]
      BY <1>0, <1>1, <1>5, <2>1
    <3>4. \A x \in Cover(F, H, b) : x # b /\ x # r => s1[x] = s[x]
      BY <1>0, <3>2
    <3>5. top \in Nat
      BY <1>0, AddressIsKey
    <3> HIDE DEF s, s1
    <3>6. Tiles(Cover(F, H, b), s, top)
      BY <1>0 DEF s
    <3> QED BY <1>0, <3>1, <3>3, <3>4, <3>5, <3>6, TilesJoined
  <2>4. (F1 \ {Base}) \cup H = Cover(F, H, b) \ {r}
    BY <1>0, <1>1, <1>5, <2>1 DEF Cover
  <2> QED BY <1>0, <1>2, <1>5, <2>1, <2>2, <2>3, <2>4
<1>6. CASE b + n # r
  <2>1. nx1 = nxm /\ s1 = s
    BY <1>0, <1>6
  <2>2. (F1 \ {Base}) \cup H = Cover(F, H, b)
    BY <1>0, <1>1, <1>6 DEF Cover
  <2> QED BY <1>0, <1>2, <1>4, <1>6, <2>1, <2>2
<1> QED BY <1>0, <1>5, <1>6

(* What memory a leaves alone: all but the blocks of S. *)
Elsewhere(S, s, nx) == \A x \in Units : x \notin S => s[x] = size[x] /\ nx[x] = next[x]

(* What add_to_free_list leaves: a free list that may have b in it. *)
AddedTo(F, H, b, top, a) ==
  \E F2 \in SUBSET (F \cup {b}) :
    /\ FreeList(F2, H, a.size, a.next, top)
    /\ a.freep \in F2
    /\ Elsewhere(F \cup {b}, a.size, a.next)

(* Joined with the block before it too. *)
LEMMA AddedKeeps ==
  ASSUME NEW F, NEW H, NEW b, NEW n, NEW top, Adding(F, H, b, n, top),
         NEW a, a = Added(b, n)
  PROVE  AddedTo(F, H, b, top, a)
<1> USE DEF AddedTo
<1>0. /\ F \in SUBSET Units /\ Base \in F /\ freep \in F
      /\ Circle(F, Address, next)
      /\ size \in [Units -> Nat] /\ size[Base] = 0 /\ next \in [Units -> Int]
      /\ H \in SUBSET (1..HeapMax) /\ F \cap H = {} /\ top \in 1..HeapMax + 1
      /\ b \in 1..HeapMax /\ b \notin F /\ b \notin H /\ n \in Nat \ {0}
      /\ Tiles(Cover(F, H, b), [size EXCEPT ![b] = n], top)
      /\ \A x \in F \ {Base} : x + size[x] \notin F
  BY DEF Adding
<1>1. Base = 0 /\ Units \subseteq Nat /\ b \in Units /\ b \in Nat /\ b # Base /\ top \in Nat
      /\ Units \subseteq Int
  BY <1>0, AddressIsKey
<1>2. PICK q : q = Place(b)
  OBVIOUS
<1>3. PICK r : r = next[q]
  OBVIOUS
<1>4. PICK total : total = IF b + n = r THEN n + size[r] ELSE n
  OBVIOUS
<1>5. PICK after : after = IF b + n = r THEN next[r] ELSE r
  OBVIOUS
<1>6. PICK F1 : F1 = IF b + n = r THEN (F \cup {b}) \ {r} ELSE F \cup {b}
  OBVIOUS
<1>7. /\ b + n = r => r \in F \ {Base} /\ r # q
      /\ q + size[q] = b => q \in F \ {Base}
      /\ \A x \in F \ {Base} : x # q => x + size[x] # b
      /\ total \in Nat \ {0} /\ b + total \notin F \cup {b}
  BY <1>2, <1>3, <1>4, AddedNeighbours
<1> DEFINE s1 == [size EXCEPT ![b] = total]
           nx1 == [next EXCEPT ![b] = after, ![q] = b]
<1>8. /\ Tiles((F1 \ {Base}) \cup H, s1, top)
      /\ Circle(F1, Address, nx1)
      /\ q \in F1 /\ b \in F1
  BY <1>2, <1>3, <1>4, <1>5, <1>6, AddedBefore
<1>9. q \in F /\ r \in F /\ q < b /\ q \in Units /\ q \in Nat
  BY <1>0, <1>1, <1>2, <1>3, PlaceIsBefore
<1>10. after \in Int /\ next[r] \in F
  <2>1. next[r] \in F
    BY <1>0, <1>9 DEF Circle
  <2> QED BY <1>0, <1>1, <1>5, <1>9, <2>1
<1>11. F1 \subseteq F \cup {b} /\ F1 \subseteq Units /\ Base \in F1 /\ F1 \cap H = {}
  BY <1>0, <1>1, <1>6, <1>7
<1>12. CASE q + size[q] # b
  <2>1. a.size = s1 /\ a.next = nx1 /\ a.freep = q
    BY <1>2, <1>3, <1>4, <1>5, <1>12 DEF Added
  <2>2. s1 \in [Units -> Nat] /\ s1[Base] = 0 /\ nx1 \in [Units -> Int]
    BY <1>0, <1>1, <1>7, <1>9, <1>10
  <2>3. ASSUME NEW x \in F1 \ {Base} PROVE x + s1[x] \notin F1
    <3>1. CASE x = b
      BY <1>0, <1>1, <1>7, <1>11, <3>1
    <3>2. CASE x # b
      <4>1. x \in F \ {Base} /\ s1[x] = size[x]
        BY <1>0, <1>11, <3>2
      <4>2. x + size[x] \notin F /\ x + size[x] # b
        BY <1>0, <1>7, <1>12, <4>1
      <4> QED BY <1>11, <4>1, <4>2
    <3> QED BY <3>1, <3>2
  <2>4. FreeList(F1, H, s1, nx1, top)
    BY <1>0, <1>8, <1>11, <2>2, <2>3 DEF FreeList
  <2>5. Elsewhere(F \cup {b}, s1, nx1)
    BY <1>0, <1>9 DEF Elsewhere
  <2> QED BY <1>8, <1>11, <2>1, <2>4, <2>5
<1>13. CASE q + size[q] = b
  <2> DEFINE s2 == [size EXCEPT ![q] = @ + total, ![b] = total]
             nx2 == [next EXCEPT ![b] = after, ![q] = after]
             F2 == F1 \ {b}
  <2>1. a.size = s2 /\ a.next = nx2 /\ a.freep = q
    BY <1>2, <1>3, <1>4, <1>5, <1>13 DEF Added
  <2>2. s2[q] = size[q] + total /\ s2[b] = total /\ \A x \in Units : x # q /\ x # b => s2[x] = size[x]
    BY <1>0, <1>1, <1>9
  <2>3. s1[q] = size[q] /\ s1[b] = total /\ \A x \in Units : x # b => s1[x] = size[x]
    BY <1>0, <1>1, <1>9
  <2>4. size[q] \in Nat /\ q \in F \ {Base} /\ q # b
    BY <1>0, <1>7, <1>9, <1>13
  <2>5. s2 \in [Units -> Nat] /\ s2[Base] = 0
    BY <1>0, <1>1, <1>7, <2>4
  <2>6. nx2 \in [Units -> Int]
    BY <1>0, <1>10
  <2>7. Circle(F2, Address, nx2)
    <3>1. nx1[q] = b /\ nx2[q] = nx1[b]
      BY <1>0, <1>1, <1>9
    <3>2. \A x \in F1 : x # q /\ x # b => nx2[x] = nx1[x]
      BY <1>0, <1>11
    <3>3. Keyed(F1, Address)
      BY <1>11, AddressIsKey
    <3> HIDE DEF nx1, nx2
    <3> QED BY <1>8, <2>4, <3>1, <3>2, <3>3, CircleDrops
  <2>8. Tiles((F2 \ {Base}) \cup H, s2, top)
    <3> DEFINE T == (F1 \ {Base}) \cup H
    <3>1. q \in T /\ b \in T
      BY <1>1, <1>8, <2>4
    <3>2. q + s1[q] = b /\ s2[q] = s1[q] + s1[b]
      BY <1>13, <2>2, <2>3
    <3>3. \A x \in T : x \in Units
      BY <1>0, <1>11, AddressIsKey
    <3>4. \A x \in T : x # q /\ x # b => s2[x] = s1[x]
      BY <2>2, <2>3, <3>3
    <3>5. (F2 \ {Base}) \cup H = T \ {b}
      BY <1>0, <1>1
    <3>6. Tiles(T, s1, top)
      BY <1>8
    <3> HIDE DEF s1, s2, T
    <3>7. Tiles(T \ {b}, s2, top)
      BY <1>1, <3>1, <3>2, <3>4, <3>6, TilesJoined
    <3> QED BY <3>5, <3>7
  <2>9. ASSUME NEW x \in F2 \ {Base} PROVE x + s2[x] \notin F2
    <3>1. F2 \subseteq F /\ x \in F \ {Base} /\ x \in Units /\ x # b
      BY <1>0, <1>11
    <3>2. CASE x = q
      <4>1. x + s2[x] = b + total
        BY <1>1, <1>7, <1>9, <1>13, <2>2, <2>4, <3>2
      <4> QED BY <1>7, <3>1, <4>1
    <3>3. CASE x # q
      BY <1>0, <2>2, <3>1, <3>3
    <3> QED BY <3>2, <3>3
  <2>10. F2 \subseteq Units /\ Base \in F2 /\ F2 \cap H = {} /\ F2 \in SUBSET (F \cup {b}) /\ q \in F2
    BY <1>1, <1>8, <1>11, <2>4
  <2>11. Elsewhere(F \cup {b}, s2, nx2)
    <3>1. ASSUME NEW x \in Units, x \notin F \cup {b} PROVE nx2[x] = next[x]
      BY <1>0, <1>9, <3>1
    <3>2. ASSUME NEW x \in Units, x \notin F \cup {b} PROVE s2[x] = size[x]
      BY <1>9, <2>2, <3>2
    <3> HIDE DEF s2, nx2
    <3> QED BY <3>1, <3>2 DEF Elsewhere
  <2> HIDE DEF s2, nx2, F2
  <2>12. FreeList(F2, H, s2, nx2, top)
    BY <1>0, <2>5, <2>6, <2>7, <2>8, <2>9, <2>10 DEF FreeList
  <2> QED BY <2>1, <2>10, <2>11, <2>12
<1> QED BY <1>12, <1>13

LEMMA FreeListOfSame ==
  ASSUME NEW F, NEW H, NEW s, NEW nx, NEW top, FreeList(F, H, s, nx, top),
         NEW ny \in [Units -> Int], \A x \in F : ny[x] = nx[x]
  PROVE  FreeList(F, H, s, ny, top)
<1>1. Circle(F, Address, ny)
  BY CircleOfSame DEF FreeList
<1> QED BY <1>1 DEF FreeList
-----------------------------------------------------------------------------
(* The used list *)

(* U are the blocks of the used list that begins with up, by the links nx, *)
(* of the blocks H the client holds.  Its first block has the greatest     *)
(* key: the last to be met by a scan or a sweep.                           *)
UsedList(U, key, H, nx, up) ==
  /\ U \subseteq H /\ key \in [Units -> Nat] /\ Keyed(U, key)
  /\ Circle(U, key, nx)
  /\ IF up = NULL THEN U = {} ELSE up \in U /\ \A x \in U : key[x] <= key[up]

LEMMA UsedListOfSame ==
  ASSUME NEW U, NEW key, NEW H, NEW nx, NEW up, UsedList(U, key, H, nx, up),
         NEW ny, \A x \in U : ny[x] = nx[x]
  PROVE  UsedList(U, key, H, ny, up)
<1>1. Circle(U, key, ny)
  BY CircleOfSame DEF UsedList
<1> QED BY <1>1 DEF UsedList

LEMMA UsedCovers ==
  ASSUME NEW U, NEW key, NEW H, NEW nx, NEW up, UsedList(U, key, H, nx, up),
         H \subseteq 1..HeapMax, up # NULL
  PROVE  Covers(Walk(up, nx), U)
<1>1. U \subseteq Units
  BY AddressIsKey DEF UsedList
<1>2. up \in U /\ key[up] \in Nat
  BY <1>1 DEF UsedList
<1>3. Circle(U, key, nx) /\ Keyed(U, key) /\ \A x \in U : key[x] <= key[up]
  BY DEF UsedList
<1> QED BY <1>1, <1>2, <1>3, WalkCovers

LEMMA UsedWalk ==
  ASSUME NEW U, NEW key, UsedList(U, key, held, next, usedp), held \subseteq 1..HeapMax
  PROVE  UsedBlocks = U
<1>1. CASE usedp = NULL
  BY <1>1 DEF UsedList, UsedBlocks
<1>2. CASE usedp # NULL
  <2>1. UsedAt = Walk(usedp, next)
    BY DEF UsedAt, Walk, IsWalk
  <2>2. Covers(UsedAt, U)
    BY <1>2, <2>1, UsedCovers
  <2> QED BY <1>2, <2>2 DEF UsedBlocks, Covers
<1> QED BY <1>1, <1>2

(* A new block is second in the list: its key is the least. *)
Aged(key, b) == [x \in Units |-> IF x = b THEN 0 ELSE key[x] + 1]

LEMMA UsedAdds ==
  ASSUME NEW U, NEW key, NEW H \in SUBSET Units, NEW nx, NEW up,
         UsedList(U, key, H, nx, up), up # NULL, NEW b \in Units, b \notin H,
         NEW ny, ny[b] = nx[up], ny[up] = b, \A x \in U : x # up => ny[x] = nx[x]
  PROVE  UsedList(U \cup {b}, Aged(key, b), H \cup {b}, ny, up)
<1> DEFINE k2 == Aged(key, b)
<1>1. U \subseteq Units /\ b \notin U /\ up \in U
  BY DEF UsedList
<1>2. \A x \in U : key[x] \in Nat /\ nx[x] \in U /\ key[x] <= key[up]
  BY DEF UsedList, Keyed, Circle
<1>3. k2 \in [Units -> Nat] /\ k2[b] = 0 /\ \A x \in U : k2[x] = key[x] + 1
  BY <1>1 DEF Aged, UsedList
<1> HIDE DEF k2
<1>4. Circle(U, k2, nx)
  <2>1. Circle(U, key, nx)
    BY DEF UsedList
  <2> SUFFICES ASSUME NEW x \in U
               PROVE  \/ /\ k2[x] < k2[nx[x]]
                         /\ \A y \in U : k2[y] <= k2[x] \/ k2[nx[x]] <= k2[y]
                      \/ /\ \A y \in U : k2[y] <= k2[x]
                         /\ \A y \in U : k2[nx[x]] <= k2[y]
    BY <1>2 DEF Circle
  <2>2. k2[x] = key[x] + 1 /\ k2[nx[x]] = key[nx[x]] + 1
    BY <1>2, <1>3
  <2>3. CASE key[x] < key[nx[x]] /\ \A y \in U : key[y] <= key[x] \/ key[nx[x]] <= key[y]
    BY <1>2, <1>3, <2>2, <2>3
  <2>4. CASE (\A y \in U : key[y] <= key[x]) /\ \A y \in U : key[nx[x]] <= key[y]
    BY <1>2, <1>3, <2>2, <2>4
  <2> QED BY <2>1, <2>3, <2>4 DEF Circle
<1>5. Keyed(U \cup {b}, k2)
  <2>1. \A x, y \in U : key[x] = key[y] => x = y
    BY DEF UsedList, Keyed
  <2>2. \A x, y \in U \cup {b} : k2[x] = k2[y] => x = y
    BY <1>2, <1>3, <2>1
  <2> QED BY <1>2, <1>3, <2>2 DEF Keyed
<1>6. k2[nx[up]] <= k2[up] /\ k2[b] < k2[nx[up]]
  BY <1>1, <1>2, <1>3
<1>7. Circle(U \cup {b}, k2, ny)
  BY <1>1, <1>4, <1>5, <1>6, CircleAdds
<1>8. \A x \in U \cup {b} : k2[x] <= k2[up]
  BY <1>1, <1>2, <1>3
<1> QED BY <1>1, <1>3, <1>5, <1>7, <1>8 DEF UsedList, k2

LEMMA UsedBegins ==
  ASSUME NEW U, NEW key, NEW H \in SUBSET Units, NEW nx, UsedList(U, key, H, nx, NULL),
         NEW b \in Units, NEW ny, ny[b] = b
  PROVE  UsedList(U \cup {b}, key, H \cup {b}, ny, b)
<1>1. U = {} /\ key \in [Units -> Nat] /\ key[b] \in Nat
  BY DEF UsedList
<1>2. b # NULL
  BY AddressIsKey DEF NULL
<1>3. Keyed({b}, key) /\ Circle({b}, key, ny)
  BY <1>1 DEF Keyed, Circle
<1> QED BY <1>1, <1>2, <1>3 DEF UsedList

(* The sweep takes out the block behind q, which is not the first. *)
LEMMA UsedDrops ==
  ASSUME NEW U, NEW key, NEW H, NEW nx, NEW up, UsedList(U, key, H, nx, up), up # NULL,
         NEW q \in U, NEW r \in U, nx[q] = r, r # up,
         NEW ny, ny[q] = nx[r], \A x \in U : x # q /\ x # r => ny[x] = nx[x]
  PROVE  UsedList(U \ {r}, key, H \ {r}, ny, up) /\ r # q
<1>1. Circle(U, key, nx) /\ Keyed(U, key) /\ up \in U /\ \A x \in U : key[x] <= key[up]
  BY DEF UsedList
<1>2. r # q
  <2> SUFFICES ASSUME r = q PROVE FALSE
    OBVIOUS
  <2>1. \A y \in U : key[y] \in Nat
    BY <1>1 DEF Keyed
  <2>2. \A y \in U : key[y] <= key[r]
    BY <1>1, <2>1 DEF Circle
  <2>3. key[up] = key[r]
    BY <1>1, <2>1, <2>2
  <2> QED BY <1>1, <2>3 DEF Keyed
<1>3. Circle(U \ {r}, key, ny)
  BY <1>1, <1>2, CircleDrops
<1> QED BY <1>1, <1>2, <1>3 DEF UsedList, Keyed
-----------------------------------------------------------------------------
(* The invariant *)

GcTypes ==
  /\ units \in Nat
  /\ var \in [Vars -> Int]
  /\ pc \in {"run", "search", "scan", "sweep"}

FreeShape(F) == FreeList(F, held, size, next, brk) /\ freep \in F

UsedShape(U, key) == UsedList(U, key, held, next, usedp)

(* The cursor of GC_malloc's search. *)
SearchShape(F) ==
  pc = "search" => units >= 1 /\ p \in F /\ prevp \in F /\ next[prevp] = p

(* The cursor of a scan or a sweep, and the marks, all before it in a      *)
(* sweep.                                                                  *)
MarkShape(U, key) ==
  /\ tagged \subseteq U
  /\ pc \notin {"scan", "sweep"} => tagged = {}
  /\ pc \in {"scan", "sweep"} => usedp # NULL /\ p \in U
  /\ pc = "sweep" =>
       /\ prevp \in U /\ next[prevp] = p
       /\ \A x \in tagged : key[p] <= key[x]

Points(b, c) == \E u \in Payload(b) : next[u] = c + 1

IsRoot(b) == \E x \in Vars : var[x] = b + 1

(* A used block that a variable points to is marked until the sweep is     *)
(* past it, and what it points to from when the scan was there.            *)
RootShape(U, key) ==
  \A b \in U : IsRoot(b) =>
    /\ pc = "scan" => b \in tagged
    /\ pc = "sweep" /\ key[p] <= key[b] => b \in tagged
    /\ b # usedp => \A c \in U : Points(b, c) =>
         /\ pc = "scan" /\ key[b] < key[p] => c \in tagged
         /\ pc = "sweep" /\ key[p] <= key[c] => c \in tagged

GcShape(F, U, key) ==
  /\ GcTypes /\ FreeShape(F) /\ UsedShape(U, key)
  /\ SearchShape(F) /\ MarkShape(U, key) /\ RootShape(U, key)

GcInv ==
  \E F, U \in SUBSET Units : \E key \in [Units -> Nat] : GcShape(F, U, key)

(* The invariant again, and only the first block's end loses used blocks. *)
Kept(U) ==
  \E F2, U2 \in SUBSET Units : \E k2 \in [Units -> Nat] :
    GcShape(F2, U2, k2)' /\ (usedp' # NULL => U \cap held' \subseteq U2)

(* What the shapes say, in the terms the steps need. *)
LEMMA ShapeFacts ==
  ASSUME NEW F, NEW U, NEW key, GcShape(F, U, key)
  PROVE  /\ F \subseteq Units /\ Base \in F /\ freep \in F /\ \A x \in F : next[x] \in F
         /\ held \subseteq 1..HeapMax /\ held \subseteq Units /\ U \subseteq held /\ U \subseteq Units
         /\ F \cap held = {} /\ F \cap U = {}
         /\ size \in [Units -> Nat] /\ size[Base] = 0 /\ next \in [Units -> Int]
         /\ \A x \in U : next[x] \in U
         /\ key \in [Units -> Nat] /\ \A x \in U : key[x] \in Nat
         /\ Base = 0 /\ Units = 0..HeapMax /\ HeapMax \in Nat /\ brk \in 1..HeapMax + 1
         /\ UsedBlocks = U
         /\ F \in SUBSET Units /\ U \in SUBSET Units
<1>1. FreeList(F, held, size, next, brk) /\ freep \in F /\ UsedList(U, key, held, next, usedp)
  BY DEF GcShape, FreeShape, UsedShape
<1>2. Base = 0 /\ Units = 0..HeapMax /\ HeapMax \in Nat
  BY AddressIsKey
<1>3. /\ F \subseteq Units /\ Base \in F /\ freep \in F /\ \A x \in F : next[x] \in F
      /\ held \subseteq 1..HeapMax /\ F \cap held = {} /\ brk \in 1..HeapMax + 1
      /\ size \in [Units -> Nat] /\ size[Base] = 0 /\ next \in [Units -> Int]
  BY <1>1 DEF FreeList, Circle
<1>4. /\ U \subseteq held /\ \A x \in U : next[x] \in U
      /\ key \in [Units -> Nat] /\ \A x \in U : key[x] \in Nat
  BY <1>1 DEF UsedList, Keyed, Circle
<1>5. held \subseteq Units
  BY <1>2, <1>3
<1>6. UsedBlocks = U
  BY <1>1, <1>3, UsedWalk
<1> QED BY <1>2, <1>3, <1>4, <1>5, <1>6

LEMMA BlockFacts ==
  ASSUME NEW F, NEW U, NEW key, GcShape(F, U, key), NEW b \in held
  PROVE  /\ b \in Nat /\ size[b] \in Nat \ {0} /\ b + size[b] <= brk
         /\ \A u \in Payload(b) : u \in Units /\ u < brk /\ u \notin F /\ u \notin held
<1> DEFINE T == (F \ {Base}) \cup held
<1>1. Tiles(T, size, brk)
  BY DEF GcShape, FreeShape, FreeList
<1>2. Base = 0 /\ Units = 0..HeapMax /\ HeapMax \in Nat /\ brk \in 1..HeapMax + 1
  BY ShapeFacts
<1>3. b \in T
  OBVIOUS
<1> HIDE DEF T
<1>4. /\ \A c \in T : c \in Nat \ {0} /\ size[c] \in Nat \ {0} /\ c + size[c] <= brk
      /\ \A c, d \in T : c < d => c + size[c] <= d
  BY <1>1 DEF Tiles
<1>5. ASSUME NEW u \in Payload(b) PROVE u \in Units /\ u < brk /\ u \notin T /\ u # Base
  <2>1. u \in Nat /\ b < u /\ u < b + size[b]
    BY <1>3, <1>4 DEF Payload
  <2>2. u < brk /\ u \in Units /\ u # Base
    BY <1>2, <1>3, <1>4, <2>1
  <2>3. u \notin T
    BY <1>3, <1>4, <2>1
  <2> QED BY <2>2, <2>3
<1> QED BY <1>3, <1>4, <1>5 DEF T
-----------------------------------------------------------------------------
LEMMA InitShape == Init => GcInv
<1> SUFFICES ASSUME Init PROVE GcShape({Base}, {}, [u \in Units |-> 0])
  BY AddressIsKey DEF GcInv
<1>1. HeapMax \in Nat \ {0} /\ Base = 0 /\ Units = 0..HeapMax /\ Base \in Units
  BY AddressIsKey
<1>2. size \in [Units -> Nat] /\ size[Base] = 0 /\ next \in [Units -> Int] /\ next[Base] = Base
  BY <1>1 DEF Init, NULL
<1>3. Address[Base] = Base
  BY <1>1, AddressIsKey
<1>4. Circle({Base}, Address, next)
  BY <1>1, <1>2, <1>3 DEF Circle
<1>5. Tiles(({Base} \ {Base}) \cup held, size, brk)
  BY DEF Tiles, Init
<1>6. FreeShape({Base})
  BY <1>1, <1>2, <1>4, <1>5 DEF FreeShape, FreeList, Init
<1>7. UsedShape({}, [u \in Units |-> 0])
  BY DEF UsedShape, UsedList, Keyed, Circle, Init
<1>8. GcTypes
  BY DEF GcTypes, Init, NULL
<1> QED BY <1>6, <1>7, <1>8 DEF GcShape, SearchShape, MarkShape, RootShape, Init
-----------------------------------------------------------------------------
(* Steps that leave both lists as they are *)

LEMMA ListsStay ==
  ASSUME NEW F, NEW U, NEW key, GcShape(F, U, key), GcShape(F, U, key)'
  PROVE  Kept(U)
<1>1. F \in SUBSET Units /\ U \in SUBSET Units /\ key \in [Units -> Nat]
  BY ShapeFacts
<1> QED BY <1>1 DEF Kept

LEMMA MallocKeeps ==
  ASSUME NEW F, NEW U, NEW key, GcShape(F, U, key), NEW bytes \in AllocSizes, Malloc(bytes)
  PROVE  GcShape(F, U, key)'
<1>1. units' \in Nat /\ units' >= 1
  <2>1. bytes \in Nat /\ HeaderSize \in Nat \ {0}
    BY SizesAssumption
  <2>2. (bytes + HeaderSize - 1) \div HeaderSize \in Nat
    BY <2>1
  <2> QED BY <2>2 DEF Malloc
<1>2. GcTypes'
  BY <1>1 DEF GcShape, GcTypes, Malloc
<1>3. FreeShape(F)' /\ UsedShape(U, key)'
  BY DEF GcShape, FreeShape, UsedShape, Malloc
<1>4. SearchShape(F)'
  BY <1>1, ShapeFacts DEF SearchShape, Malloc
<1>5. MarkShape(U, key)' /\ RootShape(U, key)'
  BY DEF GcShape, MarkShape, RootShape, Malloc
<1> QED BY <1>2, <1>3, <1>4, <1>5 DEF GcShape

LEMMA SearchOnKeeps ==
  ASSUME NEW F, NEW U, NEW key, GcShape(F, U, key), SearchOn
  PROVE  GcShape(F, U, key)'
<1>1. GcTypes'
  BY DEF GcShape, GcTypes, SearchOn
<1>2. FreeShape(F)' /\ UsedShape(U, key)'
  BY DEF GcShape, FreeShape, UsedShape, SearchOn
<1>3. SearchShape(F)'
  <2>1. \A x \in F : next[x] \in F
    BY ShapeFacts
  <2> QED BY <2>1 DEF GcShape, SearchShape, SearchOn
<1>4. MarkShape(U, key)' /\ RootShape(U, key)'
  BY DEF GcShape, MarkShape, RootShape, SearchOn
<1> QED BY <1>1, <1>2, <1>3, <1>4 DEF GcShape

LEMMA OutOfMemoryKeeps ==
  ASSUME NEW F, NEW U, NEW key, GcShape(F, U, key), NEW x \in Vars, OutOfMemory(x)
  PROVE  GcShape(F, U, key)'
<1>1. GcTypes'
  BY DEF GcShape, GcTypes, OutOfMemory, Returns, NULL
<1>2. FreeShape(F)' /\ UsedShape(U, key)'
  BY DEF GcShape, FreeShape, UsedShape, OutOfMemory
<1>3. SearchShape(F)' /\ MarkShape(U, key)' /\ RootShape(U, key)'
  BY DEF GcShape, SearchShape, MarkShape, RootShape, OutOfMemory, Returns
<1> QED BY <1>1, <1>2, <1>3 DEF GcShape

LEMMA StoreKeeps ==
  ASSUME NEW F, NEW U, NEW key, GcShape(F, U, key), NEW x \in Vars, NEW y \in Vars, Store(x, y)
  PROVE  GcShape(F, U, key)'
<1> DEFINE b == var[x] - 1
<1>1. b \in held /\ pc = "run"
  BY DEF Store, Holds
<1>2. PICK u \in Payload(b) : next' = [next EXCEPT ![u] = var[y]]
  BY DEF Store
<1>3. u \in Units /\ u \notin F /\ u \notin held
  <2> HIDE DEF b
  <2> QED BY <1>1, BlockFacts
<1>4. var[y] \in Int
  BY DEF GcShape, GcTypes
<1>5. U \subseteq held /\ next \in [Units -> Int]
  BY ShapeFacts
<1>6. next' \in [Units -> Int] /\ (\A z \in F : next'[z] = next[z]) /\ \A z \in U : next'[z] = next[z]
  BY <1>2, <1>3, <1>4, <1>5
<1>7. FreeShape(F)'
  <2>1. FreeList(F, held, size, next', brk)
    BY <1>6, FreeListOfSame DEF GcShape, FreeShape
  <2>2. freep \in F
    BY ShapeFacts
  <2> QED BY <2>1, <2>2 DEF FreeShape, Store
<1>8. UsedShape(U, key)'
  <2>1. UsedList(U, key, held, next', usedp)
    BY <1>6, UsedListOfSame DEF GcShape, UsedShape
  <2> QED BY <2>1 DEF UsedShape, Store
<1>9. GcTypes'
  BY DEF GcShape, GcTypes, Store
<1>10. SearchShape(F)' /\ MarkShape(U, key)' /\ RootShape(U, key)'
  BY DEF GcShape, SearchShape, MarkShape, RootShape, Store
<1> QED BY <1>7, <1>8, <1>9, <1>10 DEF GcShape

LEMMA LoadKeeps ==
  ASSUME NEW F, NEW U, NEW key, GcShape(F, U, key), NEW x \in Vars, NEW y \in Vars, Load(x, y)
  PROVE  GcShape(F, U, key)'
<1> DEFINE b == var[y] - 1
<1>1. b \in held /\ pc = "run"
  BY DEF Load, Holds
<1>2. PICK u \in Payload(b) : var' = [var EXCEPT ![x] = next[u]]
  BY DEF Load
<1>3. next[u] \in Int
  <2>1. u \in Units
    <3> HIDE DEF b
    <3> QED BY <1>1, BlockFacts
  <2> QED BY <2>1, ShapeFacts
<1>4. GcTypes'
  BY <1>2, <1>3 DEF GcShape, GcTypes, Load
<1>5. FreeShape(F)' /\ UsedShape(U, key)'
  BY DEF GcShape, FreeShape, UsedShape, Load
<1>6. SearchShape(F)' /\ MarkShape(U, key)' /\ RootShape(U, key)'
  BY DEF GcShape, SearchShape, MarkShape, RootShape, Load
<1> QED BY <1>4, <1>5, <1>6 DEF GcShape

LEMMA ForgetKeeps ==
  ASSUME NEW F, NEW U, NEW key, GcShape(F, U, key), NEW x \in Vars, Forget(x)
  PROVE  GcShape(F, U, key)'
<1>1. GcTypes'
  BY DEF GcShape, GcTypes, Forget, NULL
<1>2. FreeShape(F)' /\ UsedShape(U, key)'
  BY DEF GcShape, FreeShape, UsedShape, Forget
<1>3. SearchShape(F)' /\ MarkShape(U, key)' /\ RootShape(U, key)'
  BY DEF GcShape, SearchShape, MarkShape, RootShape, Forget
<1> QED BY <1>1, <1>2, <1>3 DEF GcShape
-----------------------------------------------------------------------------
(* Marking *)

LEMMA CollectKeeps ==
  ASSUME NEW F, NEW U, NEW key, GcShape(F, U, key), Collect
  PROVE  GcShape(F, U, key)'
<1>1. pc = "run" /\ pc' = "scan" /\ usedp # NULL /\ tagged = {}
  BY DEF Collect, GcShape, MarkShape
<1>2. UsedBlocks = U /\ U \subseteq held /\ \A x \in U : next[x] \in U /\ key[x] \in Nat
  <2>1. UsedBlocks = U /\ U \subseteq held
    BY ShapeFacts
  <2>2. \A x \in U : next[x] \in U /\ key[x] \in Nat
    BY ShapeFacts
  <2> QED BY <2>1, <2>2
<1>3. GcTypes'
  BY DEF GcShape, GcTypes, Collect
<1>4. FreeShape(F)' /\ UsedShape(U, key)'
  BY DEF GcShape, FreeShape, UsedShape, Collect
<1>5. SearchShape(F)'
  BY <1>1 DEF SearchShape
<1>6. UsedList(U, key, held, next, usedp)
  BY DEF GcShape, UsedShape
<1>7. usedp \in U /\ Circle(U, key, next) /\ \A x \in U : key[x] <= key[usedp]
  BY <1>1, <1>6 DEF UsedList
<1>8. MarkShape(U, key)'
  BY <1>1, <1>2, <1>7 DEF MarkShape, Collect, MarkedBy
<1>9. \A x \in U : key[next[usedp]] <= key[x]
  BY <1>2, <1>7 DEF Circle
<1>10. ASSUME NEW b \in U, IsRoot(b)' PROVE b \in tagged'
  <2>1. PICK x \in Vars : var[x] = b + 1
    BY <1>10 DEF IsRoot, Collect
  <2>2. b \in Nat /\ size[b] \in Nat \ {0}
    BY <1>2, BlockFacts
  <2>3. b + 1 \in Marking(b)
    BY <2>2 DEF Marking
  <2>4. b \in MarkedBy(Statics \cup {var[z] : z \in Vars})
    BY <1>2, <2>1, <2>3 DEF MarkedBy
  <2> QED BY <2>4 DEF Collect
<1>11. RootShape(U, key)'
  <2>1. \A b \in U : ~(key[b] < key[p'])
    <3>1. p' = next[usedp] /\ p' \in U
      BY <1>2, <1>7 DEF Collect
    <3> QED BY <1>2, <1>9, <3>1
  <2>2. pc' # "sweep"
    BY <1>1
  <2> QED BY <1>10, <2>1, <2>2 DEF RootShape
<1> QED BY <1>3, <1>4, <1>5, <1>8, <1>11 DEF GcShape

LEMMA ScanHeapKeeps ==
  ASSUME NEW F, NEW U, NEW key, GcShape(F, U, key), ScanHeap
  PROVE  GcShape(F, U, key)'
<1>1. pc = "scan" /\ pc' = "scan" /\ p # usedp /\ p' = next[p]
  BY DEF ScanHeap
<1>2. p \in U /\ usedp # NULL /\ tagged \subseteq U
  BY <1>1 DEF GcShape, MarkShape
<1>3. UsedBlocks = U /\ U \subseteq held /\ \A x \in U : next[x] \in U /\ key[x] \in Nat
  <2>1. UsedBlocks = U /\ U \subseteq held
    BY ShapeFacts
  <2>2. \A x \in U : next[x] \in U /\ key[x] \in Nat
    BY ShapeFacts
  <2> QED BY <2>1, <2>2
<1>4. GcTypes'
  BY DEF GcShape, GcTypes, ScanHeap
<1>5. FreeShape(F)' /\ UsedShape(U, key)'
  BY DEF GcShape, FreeShape, UsedShape, ScanHeap
<1>6. SearchShape(F)'
  BY <1>1 DEF SearchShape
<1>7. tagged \subseteq tagged' /\ tagged' \subseteq U
  BY <1>2, <1>3 DEF ScanHeap, MarkedBy
<1>8. MarkShape(U, key)'
  BY <1>1, <1>2, <1>3, <1>7 DEF MarkShape, ScanHeap
<1>9. \A b \in U : IsRoot(b)' => b \in tagged
  <2>1. \A b : IsRoot(b)' => IsRoot(b)
    BY DEF IsRoot, ScanHeap
  <2> QED BY <1>1, <2>1 DEF GcShape, RootShape
<1>10. ASSUME NEW b \in U, IsRoot(b)', b # usedp', NEW c \in U, Points(b, c)', key[b] < key[p']
       PROVE  c \in tagged'
  <2>1. Points(b, c) /\ IsRoot(b) /\ b # usedp
    BY <1>10 DEF Points, Payload, IsRoot, ScanHeap
  <2>2. CASE key[b] < key[p]
    <3>1. c \in tagged
      BY <1>1, <2>1, <2>2 DEF GcShape, RootShape
    <3> QED BY <1>7, <3>1
  <2>3. CASE ~(key[b] < key[p])
    <3>1. b = p
      <4>1. UsedList(U, key, held, next, usedp)
        BY DEF GcShape, UsedShape
      <4>2. Circle(U, key, next) /\ Keyed(U, key)
        BY <4>1 DEF UsedList
      <4>3. key[b] <= key[p]
        BY <1>1, <1>2, <1>3, <1>10, <4>2 DEF Circle
      <4>4. key[b] = key[p]
        BY <1>2, <1>3, <2>3, <4>3
      <4> QED BY <1>2, <4>2, <4>4 DEF Keyed
    <3>2. p \in tagged
      BY <1>9, <1>10, <3>1
    <3>3. PICK u \in Payload(p) : next[u] = c + 1
      BY <2>1, <3>1 DEF Points
    <3>4. u \in Marking(p) /\ u < brk
      <4>1. p \in held /\ p \in Nat /\ size[p] \in Nat
        BY <1>2, <1>3, BlockFacts
      <4>2. u < brk
        BY <4>1, BlockFacts
      <4> QED BY <4>1, <4>2 DEF Payload, Marking
    <3>5. c + 1 \in Words(p)
      BY <3>3, <3>4 DEF Words
    <3>6. c + 1 \in Marking(c)
      <4>1. c \in Nat /\ size[c] \in Nat \ {0}
        BY <1>3, BlockFacts
      <4> QED BY <4>1 DEF Marking
    <3>7. c \in MarkedBy(Words(p))
      BY <1>3, <3>5, <3>6 DEF MarkedBy
    <3> QED BY <3>2, <3>7 DEF ScanHeap
  <2> QED BY <2>2, <2>3
<1>11. RootShape(U, key)'
  <2>1. pc' # "sweep"
    BY <1>1
  <2>2. \A b \in U : IsRoot(b)' => b \in tagged'
    BY <1>7, <1>9
  <2> QED BY <1>10, <2>1, <2>2 DEF RootShape
<1> QED BY <1>4, <1>5, <1>6, <1>8, <1>11 DEF GcShape

LEMMA ScanEndsKeeps ==
  ASSUME NEW F, NEW U, NEW key, GcShape(F, U, key), ScanEnds
  PROVE  GcShape(F, U, key)'
<1>1. pc = "scan" /\ pc' = "sweep" /\ p = usedp /\ prevp' = usedp /\ p' = next[usedp]
  BY DEF ScanEnds
<1>2. p \in U /\ usedp # NULL /\ tagged \subseteq U
  BY <1>1 DEF GcShape, MarkShape
<1>3. \A x \in U : next[x] \in U /\ key[x] \in Nat
  BY ShapeFacts
<1>4. GcTypes'
  BY DEF GcShape, GcTypes, ScanEnds
<1>5. FreeShape(F)' /\ UsedShape(U, key)'
  BY DEF GcShape, FreeShape, UsedShape, ScanEnds
<1>6. SearchShape(F)'
  BY <1>1 DEF SearchShape
<1>7. UsedList(U, key, held, next, usedp)
  BY DEF GcShape, UsedShape
<1>8. usedp \in U /\ Circle(U, key, next) /\ Keyed(U, key) /\ \A x \in U : key[x] <= key[usedp]
  BY <1>2, <1>7 DEF UsedList
<1>9. \A x \in U : key[next[usedp]] <= key[x]
  BY <1>3, <1>8 DEF Circle
<1>10. MarkShape(U, key)'
  BY <1>1, <1>2, <1>3, <1>8, <1>9 DEF MarkShape, ScanEnds
<1>11. RootShape(U, key)'
  <2>1. ASSUME NEW b \in U, IsRoot(b)'
        PROVE  b \in tagged' /\ (b # usedp' => \A c \in U : Points(b, c)' => c \in tagged')
    <3>1. IsRoot(b) /\ tagged' = tagged /\ usedp' = usedp
      BY <2>1 DEF IsRoot, ScanEnds
    <3>2. \A c \in U : Points(b, c)' => Points(b, c)
      BY DEF Points, Payload, ScanEnds
    <3>3. b # usedp => key[b] < key[p]
      <4>1. b # usedp => key[b] # key[usedp]
        BY <1>8 DEF Keyed
      <4> QED BY <1>1, <1>3, <1>8, <4>1
    <3> QED BY <1>1, <3>1, <3>2, <3>3 DEF GcShape, RootShape
  <2>2. pc' # "scan"
    BY <1>1
  <2> QED BY <2>1, <2>2 DEF RootShape
<1> QED BY <1>4, <1>5, <1>6, <1>10, <1>11 DEF GcShape
-----------------------------------------------------------------------------
(* Sweeping *)

(* Behind the cursor the keys are smaller, before it they are greater. *)
LEMMA CursorMoves ==
  ASSUME NEW U, NEW key, NEW H, NEW nx, NEW up, UsedList(U, key, H, nx, up),
         up # NULL, NEW x \in U, x # up
  PROVE  key[x] < key[nx[x]] /\ \A y \in U : y # x /\ key[x] <= key[y] => key[nx[x]] <= key[y]
<1>1. up \in U /\ Circle(U, key, nx) /\ Keyed(U, key) /\ \A y \in U : key[y] <= key[up]
  BY DEF UsedList
<1>2. \A y \in U : key[y] \in Nat /\ nx[y] \in U
  BY <1>1 DEF Keyed, Circle
<1>3. \A y \in U : y # x => key[y] # key[x]
  BY <1>1 DEF Keyed
<1>4. key[x] < key[up]
  <2>1. key[x] <= key[up] /\ key[x] # key[up]
    BY <1>1, <1>3
  <2> QED BY <1>1, <1>2, <2>1
<1>5. key[x] < key[nx[x]] /\ \A y \in U : key[y] <= key[x] \/ key[nx[x]] <= key[y]
  <2>1. ~(key[up] <= key[x])
    BY <1>1, <1>2, <1>4
  <2> QED BY <1>1, <2>1 DEF Circle
<1>6. ASSUME NEW y \in U, y # x, key[x] <= key[y] PROVE key[nx[x]] <= key[y]
  <2>1. key[y] # key[x] /\ key[y] \in Nat /\ key[x] \in Nat
    BY <1>2, <1>3, <1>6
  <2>2. ~(key[y] <= key[x])
    BY <1>6, <2>1
  <2> QED BY <1>5, <2>2
<1> QED BY <1>5, <1>6

LEMMA KeepKeeps ==
  ASSUME NEW F, NEW U, NEW key, GcShape(F, U, key), Keep
  PROVE  GcShape(F, U, key)'
<1>1. pc = "sweep" /\ p \in tagged /\ tagged' = tagged \ {p}
  BY DEF Keep
<1>2. /\ p \in U /\ usedp # NULL /\ tagged \subseteq U /\ next[prevp] = p /\ prevp \in U
      /\ \A x \in tagged : key[p] <= key[x]
  BY <1>1 DEF GcShape, MarkShape
<1>3. \A x \in U : next[x] \in U /\ key[x] \in Nat
  BY ShapeFacts
<1>4. UsedList(U, key, held, next, usedp)
  BY DEF GcShape, UsedShape
<1>5. FreeShape(F)' /\ UsedShape(U, key)'
  BY DEF GcShape, FreeShape, UsedShape, Keep
<1>6. CASE p = usedp
  <2>1. pc' = "run" /\ units' = 0
    BY <1>6 DEF Keep, Returns
  <2>2. tagged' = {}
    <3>1. Keyed(U, key) /\ \A x \in U : key[x] <= key[p]
      BY <1>2, <1>4, <1>6 DEF UsedList
    <3>2. ASSUME NEW x \in tagged PROVE x = p
      <4>1. x \in U /\ key[x] = key[p]
        BY <1>2, <1>3, <3>1
      <4> QED BY <1>2, <3>1, <4>1 DEF Keyed
    <3> QED BY <1>1, <3>2
  <2>3. GcTypes'
    BY <2>1 DEF GcShape, GcTypes, Keep
  <2> QED BY <1>5, <2>1, <2>2, <2>3 DEF GcShape, SearchShape, MarkShape, RootShape
<1>7. CASE p # usedp
  <2>1. pc' = "sweep" /\ prevp' = p /\ p' = next[p]
    BY <1>1, <1>7 DEF Keep
  <2>2. key[p] < key[next[p]] /\ \A y \in U : y # p /\ key[p] <= key[y] => key[next[p]] <= key[y]
    BY <1>2, <1>4, <1>7, CursorMoves
  <2>3. GcTypes'
    BY <1>7 DEF GcShape, GcTypes, Keep
  <2>4. MarkShape(U, key)'
    BY <1>1, <1>2, <1>3, <2>1, <2>2 DEF MarkShape, Keep
  <2>5. ASSUME NEW x \in U, key[p'] <= key[x] PROVE key[p] <= key[x] /\ x # p
    BY <1>2, <1>3, <2>1, <2>2, <2>5
  <2>6. RootShape(U, key)'
    <3>1. ASSUME NEW b \in U, IsRoot(b)'
          PROVE  /\ key[p'] <= key[b] => b \in tagged'
                 /\ b # usedp' => \A c \in U : Points(b, c)' /\ key[p'] <= key[c] => c \in tagged'
      <4>1. IsRoot(b) /\ usedp' = usedp
        BY <3>1 DEF IsRoot, Keep
      <4>2. \A c \in U : Points(b, c)' => Points(b, c)
        BY DEF Points, Payload, Keep
      <4>3. key[p] <= key[b] => b \in tagged
        BY <1>1, <4>1 DEF GcShape, RootShape
      <4>4. b # usedp => \A c \in U : Points(b, c) /\ key[p] <= key[c] => c \in tagged
        BY <1>1, <4>1 DEF GcShape, RootShape
      <4> QED BY <1>1, <2>5, <4>1, <4>2, <4>3, <4>4
    <3>2. pc' # "scan"
      BY <2>1
    <3> QED BY <3>1, <3>2 DEF RootShape
  <2>7. SearchShape(F)'
    BY <2>1 DEF SearchShape
  <2> QED BY <1>5, <2>3, <2>4, <2>6, <2>7 DEF GcShape
<1> QED BY <1>6, <1>7
-----------------------------------------------------------------------------
(* Steps that change the free list *)

LEMMA MoreCoreKeeps ==
  ASSUME NEW F, NEW U, NEW key, GcShape(F, U, key), MoreCore
  PROVE  Kept(U)
<1>1. FreeList(F, held, size, next, brk) /\ freep \in F
  BY DEF GcShape, FreeShape
<1>2. Base = 0 /\ Units = 0..HeapMax /\ HeapMax \in Nat \ {0}
  BY AddressIsKey
<1>3. Chunk \in Nat \ {0} /\ units >= 1 /\ pc = "search"
  <2>1. units \in Nat /\ units >= 1 /\ pc = "search"
    BY DEF GcShape, GcTypes, SearchShape, MoreCore
  <2>2. MinAllocSize \in Nat /\ HeaderSize \in Nat \ {0} /\ MinAllocSize >= HeaderSize
    BY SizesAssumption
  <2>3. MinAllocSize \div HeaderSize \in Nat \ {0}
    BY <2>2
  <2> QED BY <2>1, <2>3 DEF Chunk
<1>4. brk \in Nat \ {0} /\ brk <= HeapMax /\ brk + Chunk <= HeapMax + 1
  <2>1. brk \in 1..HeapMax + 1
    BY <1>1 DEF FreeList
  <2>2. brk + Chunk - 1 <= HeapMax
    BY DEF MoreCore
  <2> QED BY <1>2, <1>3, <2>1, <2>2
<1> DEFINE n == Chunk
           T == (F \ {Base}) \cup held
           s == [size EXCEPT ![brk] = n]
<1>5. brk \notin F /\ brk \notin held /\ Tiles(Cover(F, held, brk), s, brk + n)
  <2>1. Tiles(T, size, brk)
    BY <1>1 DEF FreeList
  <2>2. \A x \in T : x \in Nat /\ x < brk
    BY <1>4, <2>1 DEF Tiles
  <2>3. brk \in Units /\ brk # Base /\ size \in [Units -> Nat]
    BY <1>1, <1>2, <1>4 DEF FreeList
  <2>4. s[brk] = n /\ \A x \in T : s[x] = size[x]
    <3>1. \A x \in T : x \in Units /\ x # brk
      BY <1>2, <1>4, <2>2
    <3> HIDE DEF T
    <3> QED BY <2>3, <3>1
  <2>5. Tiles(T \cup {brk}, s, brk + n)
    <3> HIDE DEF T, s, n
    <3> QED BY <1>3, <1>4, <2>1, <2>4, TilesExtended DEF n
  <2>6. brk \notin T
    BY <1>4, <2>2
  <2>7. Cover(F, held, brk) = T \cup {brk}
    BY DEF Cover
  <2> QED BY <2>3, <2>5, <2>6, <2>7
<1>6. Adding(F, held, brk, n, brk + n)
  <2>1. brk + n \in 1..HeapMax + 1 /\ brk \in 1..HeapMax
    BY <1>2, <1>3, <1>4
  <2> QED BY <1>1, <1>3, <1>5, <2>1 DEF Adding, FreeList
<1> DEFINE a == Added(brk, n)
<1>7. PICK F2 \in SUBSET (F \cup {brk}) :
        FreeList(F2, held, a.size, a.next, brk + n) /\ a.freep \in F2 /\ Elsewhere(F \cup {brk}, a.size, a.next)
  <2>1. AddedTo(F, held, brk, brk + n, a)
    <3> HIDE DEF n
    <3> QED BY <1>6, AddedKeeps
  <2> HIDE DEF a, n
  <2> QED BY <2>1 DEF AddedTo
<1>8. size' = a.size /\ next' = a.next /\ freep' = a.freep /\ brk' = brk + n
      /\ prevp' = freep' /\ p' = next'[freep']
  BY DEF MoreCore
<1>9. UNCHANGED <<tagged, usedp, var, pc, units, held>>
  BY DEF MoreCore
<1> HIDE DEF a, n
<1>10. FreeShape(F2)' /\ F2 \in SUBSET Units
  BY <1>7, <1>8, <1>9 DEF FreeShape, FreeList
<1>11. UsedShape(U, key)'
  <2>1. \A x \in U : next'[x] = next[x]
    <3>1. ASSUME NEW x \in U PROVE x \in Units /\ x \notin F \cup {brk}
      <4>1. U \subseteq held /\ U \subseteq Units /\ F \cap U = {}
        BY ShapeFacts
      <4> QED BY <1>5, <4>1
    <3> QED BY <1>7, <1>8, <3>1 DEF Elsewhere
  <2>2. UsedList(U, key, held, next', usedp)
    BY <2>1, UsedListOfSame DEF GcShape, UsedShape
  <2> QED BY <1>9, <2>2 DEF UsedShape
<1>12. SearchShape(F2)'
  <2>1. next'[freep'] \in F2 /\ freep' \in F2
    BY <1>7, <1>8 DEF FreeList, Circle
  <2> QED BY <1>3, <1>8, <1>9, <2>1 DEF SearchShape
<1>13. GcTypes'
  BY <1>9 DEF GcShape, GcTypes
<1>14. MarkShape(U, key)' /\ RootShape(U, key)'
  BY <1>3, <1>9 DEF GcShape, MarkShape, RootShape
<1>15. GcShape(F2, U, key)'
  BY <1>10, <1>11, <1>12, <1>13, <1>14 DEF GcShape
<1> QED
  <2>1. U \in SUBSET Units /\ key \in [Units -> Nat]
    BY ShapeFacts
  <2> QED BY <1>10, <1>15, <2>1 DEF Kept

(* The links once GC_malloc has taken b, before it is in the used list. *)
Unlinked(b) == IF b = p THEN [next EXCEPT ![prevp] = next[p]] ELSE next

CutSize(b) == IF b = p THEN size ELSE [size EXCEPT ![p] = @ - units, ![b] = units]

(* The free list that is left: the block taken is the client's. *)
TakenFrom(F, b) ==
  \E F2 \in SUBSET F :
    /\ FreeList(F2, held \cup {b}, CutSize(b), Unlinked(b), brk)
    /\ prevp \in F2 /\ b \in Units /\ b \notin held /\ b \notin F2

LEMMA TakenWhole ==
  ASSUME NEW F, NEW U, NEW key, GcShape(F, U, key), pc = "search", size[p] = units
  PROVE  TakenFrom(F, p)
<1>1. FreeList(F, held, size, next, brk)
  BY DEF GcShape, FreeShape
<1>2. units \in Nat /\ units >= 1 /\ p \in F /\ prevp \in F /\ next[prevp] = p
  BY DEF GcShape, GcTypes, SearchShape
<1>3. /\ F \in SUBSET Units /\ Base \in F /\ held \subseteq 1..HeapMax /\ F \cap held = {}
      /\ size \in [Units -> Nat] /\ size[Base] = 0 /\ next \in [Units -> Int] /\ brk \in 1..HeapMax + 1
      /\ Circle(F, Address, next) /\ Tiles((F \ {Base}) \cup held, size, brk)
      /\ \A x \in F \ {Base} : x + size[x] \notin F
  BY <1>1 DEF FreeList
<1>4. Base = 0 /\ Units = 0..HeapMax /\ HeapMax \in Nat
  BY AddressIsKey
<1>5. p # Base /\ p \in 1..HeapMax /\ p \in Units
  BY <1>2, <1>3, <1>4
<1>6. prevp # p
  <2> SUFFICES ASSUME prevp = p PROVE FALSE
    OBVIOUS
  <2>1. next[p] = p
    BY <1>2
  <2>2. \/ p < next[p]
        \/ \A y \in F : next[p] <= y
    BY <1>2, <1>3, AddressOrder
  <2>3. next[p] <= Base
    BY <1>3, <1>4, <1>5, <2>1, <2>2
  <2> QED BY <1>4, <1>5, <2>1, <2>3
<1> DEFINE F2 == F \ {p}
           nx == [next EXCEPT ![prevp] = next[p]]
<1>7. Unlinked(p) = nx /\ CutSize(p) = size
  BY DEF Unlinked, CutSize
<1>8. nx \in [Units -> Int]
  BY <1>3, <1>5
<1>9. Circle(F2, Address, nx)
  <2>1. nx[prevp] = next[p] /\ \A x \in F : x # prevp /\ x # p => nx[x] = next[x]
    BY <1>2, <1>3
  <2>2. Keyed(F, Address)
    BY <1>3, AddressIsKey
  <2> HIDE DEF nx
  <2> QED BY <1>2, <1>3, <1>6, <2>1, <2>2, CircleDrops
<1>10. (F2 \ {Base}) \cup (held \cup {p}) = (F \ {Base}) \cup held
  BY <1>2, <1>5
<1>11. FreeList(F2, held \cup {p}, size, nx, brk)
  <2>1. F2 \subseteq Units /\ Base \in F2 /\ held \cup {p} \subseteq 1..HeapMax /\ F2 \cap (held \cup {p}) = {}
    BY <1>3, <1>5
  <2>2. \A x \in F2 \ {Base} : x + size[x] \notin F2
    BY <1>3
  <2> HIDE DEF F2, nx
  <2> QED BY <1>3, <1>8, <1>9, <1>10, <2>1, <2>2 DEF FreeList
<1>12. prevp \in F2 /\ p \notin held /\ p \notin F2 /\ F2 \in SUBSET F
  BY <1>2, <1>3, <1>6
<1> QED BY <1>5, <1>7, <1>11, <1>12 DEF TakenFrom

LEMMA TakenPart ==
  ASSUME NEW F, NEW U, NEW key, GcShape(F, U, key), pc = "search", size[p] > units,
         NEW b, b = p + size[p] - units
  PROVE  TakenFrom(F, b)
<1>1. FreeList(F, held, size, next, brk)
  BY DEF GcShape, FreeShape
<1>2. units \in Nat \ {0} /\ p \in F /\ prevp \in F
  BY DEF GcShape, GcTypes, SearchShape
<1>3. /\ F \in SUBSET Units /\ Base \in F /\ held \subseteq 1..HeapMax /\ F \cap held = {}
      /\ size \in [Units -> Nat] /\ size[Base] = 0 /\ next \in [Units -> Int] /\ brk \in 1..HeapMax + 1
      /\ Circle(F, Address, next) /\ Tiles((F \ {Base}) \cup held, size, brk)
      /\ \A x \in F \ {Base} : x + size[x] \notin F
  BY <1>1 DEF FreeList
<1>4. Base = 0 /\ Units = 0..HeapMax /\ HeapMax \in Nat
  BY AddressIsKey
<1>5. p # Base /\ p \in 1..HeapMax /\ p \in Units /\ p \in Nat /\ size[p] \in Nat
  BY <1>2, <1>3, <1>4
<1> DEFINE T == (F \ {Base}) \cup held
           s == [size EXCEPT ![p] = size[p] - units, ![b] = units]
<1>6. p \in T /\ p + size[p] <= brk
  BY <1>2, <1>3, <1>5 DEF Tiles
<1>7. b \in 1..HeapMax /\ p < b /\ b \in Units /\ b # Base
  <2>1. brk \in Nat /\ brk <= HeapMax + 1
    BY <1>3, <1>4
  <2>2. b \in Int /\ p < b
    BY <1>2, <1>5
  <2>3. b < brk
    BY <1>2, <1>5, <1>6, <2>1
  <2>4. 1 <= b /\ b <= HeapMax
    BY <1>4, <1>5, <2>1, <2>2, <2>3
  <2> QED BY <1>4, <2>2, <2>4
<1>8. CutSize(b) = s /\ Unlinked(b) = next
  BY <1>5, <1>7 DEF CutSize, Unlinked
<1>9. s \in [Units -> Nat] /\ s[Base] = 0 /\ s[p] = size[p] - units /\ s[b] = units
      /\ \A x \in Units : x # p /\ x # b => s[x] = size[x]
  BY <1>2, <1>3, <1>5, <1>7
<1>10. b \notin T /\ Tiles(T \cup {b}, s, brk)
  <2>1. \A x \in T : x # p => x # b
    <3> SUFFICES ASSUME NEW x \in T, x = b PROVE FALSE
      OBVIOUS
    <3>1. p + size[p] <= b
      BY <1>3, <1>6, <1>7 DEF Tiles
    <3> QED BY <1>2, <1>5, <3>1
  <2>2. \A x \in T : x # p => s[x] = size[x]
    <3>1. \A x \in T : x \in Units
      BY <1>3, <1>4
    <3> HIDE DEF T, s
    <3> QED BY <1>9, <2>1, <3>1
  <2>3. brk \in Nat /\ units < size[p] /\ Tiles(T, size, brk)
    BY <1>2, <1>3, <1>4, <1>5
  <2> HIDE DEF T, s
  <2> QED BY <1>2, <1>6, <1>9, <2>2, <2>3, TilesCut
<1>11. ASSUME NEW x \in F \ {Base} PROVE x + s[x] \notin F
  <2>1. CASE x = p
    <3>1. x + s[x] = b
      BY <1>2, <1>5, <1>9, <2>1
    <3> QED BY <1>7, <1>10, <3>1
  <2>2. CASE x # p
    <3>1. s[x] = size[x]
      BY <1>3, <1>9, <1>10, <2>2
    <3> QED BY <1>3, <3>1
  <2> QED BY <2>1, <2>2
<1>12. b \notin F /\ b \notin held
  BY <1>7, <1>10
<1>13. (F \ {Base}) \cup (held \cup {b}) = T \cup {b}
  OBVIOUS
<1> HIDE DEF T, s
<1>14. FreeList(F, held \cup {b}, s, next, brk)
  <2>1. held \cup {b} \subseteq 1..HeapMax /\ F \cap (held \cup {b}) = {}
    BY <1>3, <1>7, <1>12
  <2> QED BY <1>3, <1>9, <1>10, <1>11, <1>13, <2>1 DEF FreeList
<1> QED BY <1>2, <1>7, <1>8, <1>12, <1>14 DEF TakenFrom

LEMMA FoundKeeps ==
  ASSUME NEW F, NEW U, NEW key, GcShape(F, U, key), NEW x \in Vars, Found(x)
  PROVE  Kept(U)
<1>0. PICK b : b = Taken
  OBVIOUS
<1>1. pc = "search" /\ size[p] >= units /\ units \in Nat /\ size[p] \in Nat
  <2>1. pc = "search" /\ size[p] >= units
    BY DEF Found
  <2>2. p \in F /\ units \in Nat
    BY <2>1 DEF GcShape, GcTypes, SearchShape
  <2>3. F \subseteq Units /\ size \in [Units -> Nat]
    BY ShapeFacts
  <2> QED BY <2>1, <2>2, <2>3
<1>2. TakenFrom(F, b)
  <2>1. CASE size[p] = units
    BY <1>0, <1>1, <2>1, TakenWhole DEF Taken
  <2>2. CASE size[p] # units
    <3>1. size[p] > units /\ b = p + size[p] - units
      BY <1>0, <1>1, <2>2 DEF Taken
    <3> QED BY <1>1, <3>1, TakenPart
  <2> QED BY <2>1, <2>2
<1>3. /\ size' = CutSize(b) /\ freep' = prevp /\ held' = held \cup {b}
      /\ var' = [var EXCEPT ![x] = b + 1] /\ pc' = "run" /\ units' = 0
      /\ UNCHANGED <<tagged, brk>>
  BY <1>0 DEF Found, CutSize, Returns
<1>4. IF usedp = NULL
      THEN usedp' = b /\ next' = [Unlinked(b) EXCEPT ![b] = b]
      ELSE usedp' = usedp /\ next' = [Unlinked(b) EXCEPT ![b] = next[usedp], ![usedp] = b]
  BY <1>0 DEF Found, Unlinked
<1>5. PICK F2 \in SUBSET F :
        /\ FreeList(F2, held \cup {b}, CutSize(b), Unlinked(b), brk)
        /\ prevp \in F2 /\ b \in Units /\ b \notin held /\ b \notin F2
  BY <1>2 DEF TakenFrom
<1>6. /\ U \subseteq held /\ held \in SUBSET Units /\ F \in SUBSET Units /\ F \cap U = {}
      /\ U \in SUBSET Units /\ key \in [Units -> Nat] /\ next \in [Units -> Int]
  BY ShapeFacts
<1>7. UsedList(U, key, held, next, usedp)
  BY DEF GcShape, UsedShape
<1>8. usedp # NULL => usedp \in U /\ next[usedp] \in Int
  BY <1>6, <1>7 DEF UsedList
<1>9. b \in Nat /\ b \notin U /\ Unlinked(b) \in [Units -> Int]
  <2>1. b \in Nat
    BY <1>5, AddressIsKey
  <2> QED BY <1>5, <1>6, <2>1 DEF FreeList
<1>10. \A z \in U : Unlinked(b)[z] = next[z]
  <2>1. prevp \notin U
    BY <1>5, <1>6
  <2> QED BY <1>6, <2>1 DEF Unlinked
<1>11. next' \in [Units -> Int] /\ \A z \in F2 : next'[z] = Unlinked(b)[z]
  <2>1. CASE usedp = NULL
    BY <1>4, <1>5, <1>6, <1>9, <2>1
  <2>2. CASE usedp # NULL
    <3>1. usedp \notin F2
      BY <1>6, <1>8, <2>2
    <3> QED BY <1>4, <1>5, <1>6, <1>8, <1>9, <2>2, <3>1
  <2> QED BY <2>1, <2>2
<1>12. FreeShape(F2)'
  <2>1. FreeList(F2, held \cup {b}, CutSize(b), next', brk)
    BY <1>5, <1>11, FreeListOfSame
  <2> QED BY <1>3, <1>5, <2>1 DEF FreeShape
<1>13. \E k2 \in [Units -> Nat] : UsedList(U \cup {b}, k2, held \cup {b}, next', usedp')
  <2>1. CASE usedp = NULL
    <3>1. next'[b] = b /\ usedp' = b
      BY <1>4, <1>5, <1>9, <2>1
    <3>2. UsedList(U \cup {b}, key, held \cup {b}, next', b)
      BY <1>5, <1>6, <1>7, <2>1, <3>1, UsedBegins
    <3> QED BY <1>6, <3>1, <3>2
  <2>2. CASE usedp # NULL
    <3>1. usedp' = usedp /\ next' = [Unlinked(b) EXCEPT ![b] = next[usedp], ![usedp] = b]
      BY <1>4, <2>2
    <3>2. usedp \in U /\ usedp \in Units /\ usedp # b
      BY <1>6, <1>8, <1>9, <2>2
    <3>3. next'[b] = next[usedp] /\ next'[usedp] = b
      BY <1>5, <1>9, <3>1, <3>2
    <3>4. \A z \in U : z # usedp => next'[z] = next[z]
      <4>1. \A z \in U : z # usedp => next'[z] = Unlinked(b)[z]
        BY <1>6, <1>9, <3>1
      <4> QED BY <1>10, <4>1
    <3>5. UsedList(U \cup {b}, Aged(key, b), held \cup {b}, next', usedp)
      BY <1>5, <1>6, <1>7, <2>2, <3>3, <3>4, UsedAdds
    <3>6. Aged(key, b) \in [Units -> Nat]
      BY <3>5 DEF UsedList
    <3> QED BY <3>1, <3>5, <3>6
  <2> QED BY <2>1, <2>2
<1>14. PICK k2 \in [Units -> Nat] : UsedList(U \cup {b}, k2, held \cup {b}, next', usedp')
  BY <1>13
<1>15. UsedShape(U \cup {b}, k2)'
  BY <1>3, <1>14 DEF UsedShape
<1>16. tagged' = {}
  BY <1>1, <1>3 DEF GcShape, MarkShape
<1>17. GcTypes'
  BY <1>3, <1>9 DEF GcShape, GcTypes
<1>18. SearchShape(F2)' /\ MarkShape(U \cup {b}, k2)' /\ RootShape(U \cup {b}, k2)'
  BY <1>3, <1>16 DEF SearchShape, MarkShape, RootShape
<1>19. GcShape(F2, U \cup {b}, k2)'
  BY <1>12, <1>15, <1>17, <1>18 DEF GcShape
<1> QED
  <2>1. F2 \in SUBSET Units /\ U \cup {b} \in SUBSET Units
    BY <1>5, <1>6
  <2> QED BY <1>19, <2>1 DEF Kept

LEMMA FreeAdds ==
  ASSUME NEW F, NEW U, NEW key, GcShape(F, U, key), Free
  PROVE  Adding(F, held \ {p}, p, size[p], brk)
<1>1. FreeList(F, held, size, next, brk) /\ freep \in F
  BY DEF GcShape, FreeShape
<1>2. p \in held
  <2>1. p \in U
    BY DEF GcShape, MarkShape, Free
  <2> QED BY <2>1, ShapeFacts
<1>3. size[p] \in Nat \ {0}
  BY <1>2, BlockFacts
<1>4. [size EXCEPT ![p] = size[p]] = size
  BY <1>1 DEF FreeList
<1>5. Cover(F, held \ {p}, p) = (F \ {Base}) \cup held
  BY <1>2 DEF Cover
<1>6. Tiles(Cover(F, held \ {p}, p), [size EXCEPT ![p] = size[p]], brk)
  BY <1>1, <1>4, <1>5 DEF FreeList
<1> QED BY <1>1, <1>2, <1>3, <1>6 DEF Adding, FreeList

LEMMA FreeKeeps ==
  ASSUME NEW F, NEW U, NEW key, GcShape(F, U, key), Free
  PROVE  Kept(U)
<1>0. PICK r : r = p
  OBVIOUS
<1>1. pc = "sweep" /\ r \notin tagged /\ held' = held \ {r} /\ UNCHANGED <<tagged, brk, var>>
  BY <1>0 DEF Free
<1>2. /\ r \in U /\ usedp # NULL /\ tagged \subseteq U /\ next[prevp] = r /\ prevp \in U
      /\ \A x \in tagged : key[r] <= key[x]
  BY <1>0, <1>1 DEF GcShape, MarkShape
<1>3. /\ U \subseteq held /\ held \subseteq Units /\ F \in SUBSET Units /\ F \cap held = {}
      /\ U \in SUBSET Units /\ key \in [Units -> Nat] /\ next \in [Units -> Int]
  BY ShapeFacts
<1>4. \A x \in U : next[x] \in U /\ key[x] \in Nat
  BY ShapeFacts
<1>5. UsedList(U, key, held, next, usedp)
  BY DEF GcShape, UsedShape
<1>6. PICK a : a = Added(r, size[r])
  OBVIOUS
<1>7. PICK F2 \in SUBSET (F \cup {r}) :
        /\ FreeList(F2, held \ {r}, a.size, a.next, brk)
        /\ a.freep \in F2
        /\ Elsewhere(F \cup {r}, a.size, a.next)
  <2>1. Adding(F, held \ {r}, r, size[r], brk)
    BY <1>0, FreeAdds
  <2>2. AddedTo(F, held \ {r}, r, brk, a)
    BY <1>6, <2>1, AddedKeeps
  <2> QED BY <2>2 DEF AddedTo
<1>8. size' = a.size /\ freep' = a.freep
  BY <1>0, <1>6 DEF Free
<1>9. F2 \in SUBSET Units
  BY <1>7 DEF FreeList
<1>10. CASE r = usedp
  <2>1. usedp' = NULL /\ next' = a.next /\ pc' = "run" /\ units' = 0
    BY <1>0, <1>6, <1>10 DEF Free, Returns
  <2>2. tagged' = {}
    <3>1. Keyed(U, key) /\ \A x \in U : key[x] <= key[r]
      BY <1>2, <1>5, <1>10 DEF UsedList
    <3>2. ASSUME NEW x \in tagged PROVE FALSE
      <4>1. x \in U /\ key[x] = key[r]
        BY <1>2, <1>4, <3>1
      <4>2. x = r
        BY <1>2, <3>1, <4>1 DEF Keyed
      <4> QED BY <1>1, <4>2
    <3> QED BY <1>1, <3>2
  <2>3. FreeShape(F2)'
    BY <1>1, <1>7, <1>8, <2>1 DEF FreeShape
  <2>4. UsedShape({}, key)'
    BY <1>3, <2>1 DEF UsedShape, UsedList, Keyed, Circle
  <2>5. GcTypes'
    BY <1>1, <2>1 DEF GcShape, GcTypes
  <2>6. GcShape(F2, {}, key)'
    BY <2>1, <2>2, <2>3, <2>4, <2>5 DEF GcShape, SearchShape, MarkShape, RootShape
  <2>7. {} \in SUBSET Units
    OBVIOUS
  <2> QED BY <1>3, <1>9, <2>1, <2>6, <2>7 DEF Kept
<1>11. CASE r # usedp
  <2>1. /\ next' = [a.next EXCEPT ![prevp] = next[r]] /\ p' = next[r]
        /\ UNCHANGED <<usedp, pc, prevp, units>>
    BY <1>0, <1>6, <1>11 DEF Free
  <2>2. a.next \in [Units -> Int]
    BY <1>7 DEF FreeList
  <2>3. \A z \in Units : z \notin F /\ z # r => a.next[z] = next[z] /\ a.size[z] = size[z]
    BY <1>7 DEF Elsewhere
  <2>4. prevp \in Units /\ next'[prevp] = next[r]
        /\ \A z \in Units : z # prevp => next'[z] = a.next[z]
    BY <1>2, <1>3, <2>1, <2>2
  <2>5. UsedList(U \ {r}, key, held \ {r}, next', usedp) /\ r # prevp
    <3>1. \A z \in U : z # prevp /\ z # r => next'[z] = next[z]
      BY <1>3, <2>3, <2>4
    <3> QED BY <1>2, <1>5, <1>11, <2>4, <3>1, UsedDrops
  <2>6. FreeShape(F2)'
    <3>1. prevp \in held \ {r}
      BY <1>2, <1>3, <2>5
    <3>2. prevp \notin F2
      BY <1>7, <3>1 DEF FreeList
    <3>3. next' \in [Units -> Int] /\ \A z \in F2 : next'[z] = a.next[z]
      <4>1. next[r] \in Int
        BY <1>2, <1>3
      <4>2. next' \in [Units -> Int]
        BY <2>1, <2>2, <4>1
      <4> QED BY <1>9, <2>4, <3>2, <4>2
    <3>4. FreeList(F2, held \ {r}, a.size, next', brk)
      BY <1>7, <3>3, FreeListOfSame
    <3> QED BY <1>1, <1>7, <1>8, <3>4 DEF FreeShape
  <2>7. UsedShape(U \ {r}, key)'
    BY <1>1, <2>1, <2>5 DEF UsedShape
  <2>8. key[r] < key[next[r]] /\ \A y \in U : y # r /\ key[r] <= key[y] => key[next[r]] <= key[y]
    BY <1>2, <1>5, <1>11, CursorMoves
  <2>9. next[r] \in U \ {r}
    BY <1>2, <1>4, <2>8
  <2>10. MarkShape(U \ {r}, key)'
    <3>1. \A x \in tagged : x # r /\ key[next[r]] <= key[x]
      BY <1>1, <1>2, <2>8
    <3> QED BY <1>1, <1>2, <2>1, <2>4, <2>5, <2>9, <3>1 DEF MarkShape
  <2>11. ASSUME NEW b \in U \ {r}, NEW c, Points(b, c)' PROVE Points(b, c)
    <3>1. b \in held /\ b \in Units /\ b \notin F /\ b # r
      BY <1>3
    <3>2. size'[b] = size[b]
      BY <1>8, <2>3, <3>1
    <3>3. Payload(b)' = Payload(b)
      BY <3>2 DEF Payload
    <3>4. PICK u \in Payload(b) : next'[u] = c + 1
      BY <2>11, <3>3 DEF Points
    <3>5. u \in Units /\ u \notin F /\ u \notin held
      BY <3>1, BlockFacts
    <3>6. next'[u] = next[u]
      BY <1>2, <1>3, <2>3, <2>4, <3>5
    <3> QED BY <3>4, <3>6 DEF Points
  <2>12. RootShape(U \ {r}, key)'
    <3>1. ASSUME NEW b \in U \ {r}, IsRoot(b)'
          PROVE  /\ key[p'] <= key[b] => b \in tagged'
                 /\ b # usedp' => \A c \in U \ {r} : Points(b, c)' /\ key[p'] <= key[c] => c \in tagged'
      <4>1. IsRoot(b)
        BY <1>1, <3>1 DEF IsRoot
      <4>2. key[r] <= key[b] => b \in tagged
        BY <1>0, <1>1, <4>1 DEF GcShape, RootShape
      <4>3. b # usedp => \A c \in U : Points(b, c) /\ key[r] <= key[c] => c \in tagged
        BY <1>0, <1>1, <4>1 DEF GcShape, RootShape
      <4>4. \A c \in U : key[p'] <= key[c] => key[r] <= key[c]
        BY <1>2, <1>4, <2>1, <2>8
      <4> QED BY <1>1, <2>1, <2>11, <4>2, <4>3, <4>4
    <3>2. pc' # "scan"
      BY <1>1, <2>1
    <3> QED BY <3>1, <3>2 DEF RootShape
  <2>13. GcTypes' /\ SearchShape(F2)'
    BY <1>1, <2>1 DEF GcShape, GcTypes, SearchShape
  <2>14. GcShape(F2, U \ {r}, key)'
    BY <2>6, <2>7, <2>10, <2>12, <2>13 DEF GcShape
  <2>15. U \ {r} \in SUBSET Units /\ U \cap held' \subseteq U \ {r}
    BY <1>1, <1>3
  <2> QED BY <1>3, <1>9, <2>14, <2>15 DEF Kept
<1> QED BY <1>10, <1>11

LEMMA FreeIsUnrooted ==
  ASSUME NEW F, NEW U, NEW key, GcShape(F, U, key), Free
  PROVE  KeepsRooted
<1>1. pc = "sweep" /\ p \notin tagged /\ held' = held \ {p}
  BY DEF Free
<1>2. p \in U
  BY <1>1 DEF GcShape, MarkShape
<1>3. UsedBlocks = U /\ U \subseteq held /\ next \in [Units -> Int] /\ held \subseteq Units /\ Units = 0..HeapMax
  BY ShapeFacts
<1>4. key[p] <= key[p] /\ p \in Int
  <2>1. key[p] \in Nat
    BY <1>2, ShapeFacts
  <2> QED BY <1>2, <1>3, <2>1
<1> SUFFICES ASSUME NEW x \in Vars, Holds(x),
                    NEW b, b = var[x] - 1
             PROVE  /\ b \in held'
                    /\ b \in UsedBlocks \ {usedp} =>
                         {next[u] - 1 : u \in Payload(b)} \cap held \subseteq held'
  BY DEF KeepsRooted
<1>5. b \in held /\ var[x] \in Int
  BY DEF Holds, GcShape, GcTypes
<1>6. IsRoot(b)
  <2>1. var[x] = b + 1
    BY <1>5
  <2> QED BY <2>1 DEF IsRoot
<1>7. b # p
  <2> SUFFICES ASSUME b = p PROVE FALSE
    OBVIOUS
  <2>1. p \in tagged
    BY <1>1, <1>2, <1>4, <1>6 DEF GcShape, RootShape
  <2> QED BY <1>1, <2>1
<1>8. ASSUME NEW u \in Payload(b), next[u] - 1 \in held \ held', b \in U, b # usedp PROVE FALSE
  <2>1. next[u] - 1 = p
    BY <1>1, <1>8
  <2>2. u \in Units
    BY <1>5, BlockFacts
  <2>3. next[u] = p + 1
    BY <1>3, <1>4, <2>1, <2>2
  <2>4. Points(b, p)
    BY <2>3 DEF Points
  <2>5. p \in tagged
    BY <1>1, <1>2, <1>4, <1>6, <1>8, <2>4 DEF GcShape, RootShape
  <2> QED BY <1>1, <2>5
<1> QED BY <1>1, <1>3, <1>5, <1>7, <1>8
-----------------------------------------------------------------------------
(* All steps *)

LEMMA StepsKeep ==
  ASSUME NEW F, NEW U, NEW key, GcShape(F, U, key), Next
  PROVE  Kept(U)
<1>1. ASSUME NEW bytes \in AllocSizes, Malloc(bytes) PROVE Kept(U)
  BY <1>1, MallocKeeps, ListsStay
<1>2. ASSUME NEW x \in Vars, NEW y \in Vars, Store(x, y) PROVE Kept(U)
  BY <1>2, StoreKeeps, ListsStay
<1>3. ASSUME NEW x \in Vars, NEW y \in Vars, Load(x, y) PROVE Kept(U)
  BY <1>3, LoadKeeps, ListsStay
<1>4. ASSUME NEW x \in Vars, Forget(x) PROVE Kept(U)
  BY <1>4, ForgetKeeps, ListsStay
<1>5. CASE Collect
  BY <1>5, CollectKeeps, ListsStay
<1>6. ASSUME NEW x \in Vars, Found(x) PROVE Kept(U)
  BY <1>6, FoundKeeps
<1>7. ASSUME NEW x \in Vars, OutOfMemory(x) PROVE Kept(U)
  BY <1>7, OutOfMemoryKeeps, ListsStay
<1>8. CASE SearchOn
  BY <1>8, SearchOnKeeps, ListsStay
<1>9. CASE MoreCore
  BY <1>9, MoreCoreKeeps
<1>10. CASE ScanHeap
  BY <1>10, ScanHeapKeeps, ListsStay
<1>11. CASE ScanEnds
  BY <1>11, ScanEndsKeeps, ListsStay
<1>12. CASE Free
  BY <1>12, FreeKeeps
<1>13. CASE Keep
  BY <1>13, KeepKeeps, ListsStay
<1> QED
  BY <1>1, <1>2, <1>3, <1>4, <1>5, <1>6, <1>7, <1>8, <1>9, <1>10, <1>11, <1>12, <1>13
     DEF Next, Step

LEMMA StutterKeeps ==
  ASSUME NEW F, NEW U, NEW key, GcShape(F, U, key), UNCHANGED vars
  PROVE  GcShape(F, U, key)'
<1>1. FreeShape(F)' /\ UsedShape(U, key)'
  BY DEF GcShape, FreeShape, UsedShape, vars
<1>2. GcTypes' /\ SearchShape(F)' /\ MarkShape(U, key)'
  BY DEF GcShape, GcTypes, SearchShape, MarkShape, vars
<1>3. RootShape(U, key)'
  BY DEF GcShape, RootShape, IsRoot, Points, Payload, vars
<1> QED BY <1>1, <1>2, <1>3 DEF GcShape

LEMMA GcInvHolds == Spec => []GcInv
<1>1. GcInv /\ [Next]_vars => GcInv'
  <2> SUFFICES ASSUME GcInv, [Next]_vars PROVE GcInv'
    OBVIOUS
  <2>1. PICK F \in SUBSET Units, U \in SUBSET Units : \E key \in [Units -> Nat] : GcShape(F, U, key)
    BY DEF GcInv
  <2>2. PICK key \in [Units -> Nat] : GcShape(F, U, key)
    BY <2>1
  <2>3. CASE Next
    <3>1. Kept(U)
      BY <2>2, <2>3, StepsKeep
    <3>2. PICK F2 \in SUBSET Units, U2 \in SUBSET Units :
            \E k2 \in [Units -> Nat] : GcShape(F2, U2, k2)'
      BY <3>1 DEF Kept
    <3> QED BY <3>2, AddressIsKey DEF GcInv
  <2>4. CASE UNCHANGED vars
    <3>1. GcShape(F, U, key)'
      BY <2>2, <2>4, StutterKeeps
    <3> QED BY <3>1 DEF GcInv
  <2> QED BY <2>3, <2>4
<1> QED BY <1>1, InitShape, PTL DEF Spec

(* GC_malloc and add_to_free_list (main.c:67, main.c:17): blocks cut from  *)
(* the free list and joined in it never overlap those the client holds,    *)
(* in the used list or lost from it, and no unit below the break is ever   *)
(* in neither.                                                             *)
THEOREM HeapStaysTiled == Spec => []HeapIsTiled
<1>1. GcInv => HeapIsTiled
  <2> SUFFICES ASSUME GcInv PROVE HeapIsTiled
    OBVIOUS
  <2>1. PICK F \in SUBSET Units : FreeList(F, held, size, next, brk) /\ freep \in F
    BY DEF GcInv, GcShape, FreeShape
  <2> DEFINE T == (F \ {Base}) \cup held
  <2>2. FreeBlocks = F
    BY <2>1, FreeWalk DEF FreeList
  <2>3. Tiles(T, size, brk) /\ F \cap held = {} /\ brk \in Nat
    BY <2>1, AddressIsKey DEF FreeList
  <2> HIDE DEF T
  <2>4. \A b \in T : b \in Nat \ {0} /\ size[b] \in Nat \ {0} /\ b + size[b] <= brk
    BY <2>3 DEF Tiles
  <2>5. UNION {Extent(b) : b \in T} = 1..brk - 1
    <3>1. ASSUME NEW b \in T, NEW u \in Extent(b) PROVE u \in 1..brk - 1
      BY <2>3, <2>4 DEF Extent
    <3>2. ASSUME NEW u \in 1..brk - 1 PROVE \E b \in T : u \in Extent(b)
      <4>1. PICK b \in T : b <= u /\ u < b + size[b]
        BY <2>3 DEF Tiles
      <4> QED BY <2>4, <4>1 DEF Extent
    <3> QED BY <3>1, <3>2
  <2>6. ASSUME NEW b \in T, NEW c \in T, b # c PROVE Extent(b) \cap Extent(c) = {}
    <3>1. b < c \/ c < b
      BY <2>4, <2>6
    <3>2. b + size[b] <= c \/ c + size[c] <= b
      BY <2>3, <3>1 DEF Tiles
    <3> QED BY <2>4, <3>2 DEF Extent
  <2> QED BY <2>2, <2>3, <2>5, <2>6 DEF HeapIsTiled, T
<1> QED BY <1>1, GcInvHolds, PTL

(* add_to_free_list (main.c:17) inserts in address order and joins what    *)
(* touches, whichever block the search of GC_malloc left freep at.         *)
THEOREM FreeListStaysSorted == Spec => []FreeListIsSorted
<1>1. GcInv => FreeListIsSorted
  <2> SUFFICES ASSUME GcInv PROVE FreeListIsSorted
    OBVIOUS
  <2>1. PICK F \in SUBSET Units : FreeList(F, held, size, next, brk) /\ freep \in F
    BY DEF GcInv, GcShape, FreeShape
  <2>2. /\ Base \in F /\ Circle(F, Address, next)
        /\ \A b \in F \ {Base} : b + size[b] \notin F
    BY <2>1 DEF FreeList
  <2>3. FreeBlocks = F
    BY <2>1, <2>2, FreeWalk
  <2>4. ASSUME NEW b \in F PROVE (next[b] > b \/ next[b] = Base) /\ next[b] \in F
    <3>1. next[b] \in F /\ (b < next[b] \/ next[b] <= Base)
      BY <2>2, AddressOrder
    <3>2. next[b] \in Nat /\ Base = 0 /\ b \in Nat
      BY <3>1, AddressIsKey
    <3> QED BY <3>1, <3>2
  <2> QED BY <2>2, <2>3, <2>4 DEF FreeListIsSorted
<1> QED BY <1>1, GcInvHolds, PTL

(* GC_collect (main.c:190): every mark is met by the sweep, also by one    *)
(* that gives the used list up, so none stays on a block.                  *)
THEOREM MarksAreCleared == Spec => []TagsCleared
<1>1. GcInv => TagsCleared
  BY DEF GcInv, GcShape, MarkShape, TagsCleared
<1> QED BY <1>1, GcInvHolds, PTL

(* GC_malloc and GC_collect: a block that is held leaves the used list     *)
(* only when the sweep frees the first one and sets usedp to NULL          *)
(* (main.c:220).                                                           *)
THEOREM BlocksAreLostWithFirst == Spec => LostOnlyWithFirst
<1>1. GcInv /\ [Next]_vars => [LosesOnlyWithFirst]_vars
  <2> SUFFICES ASSUME GcInv, Next PROVE LosesOnlyWithFirst
    OBVIOUS
  <2>1. PICK F \in SUBSET Units, U \in SUBSET Units : \E key \in [Units -> Nat] : GcShape(F, U, key)
    BY DEF GcInv
  <2>2. PICK key \in [Units -> Nat] : GcShape(F, U, key)
    BY <2>1
  <2>3. Kept(U) /\ UsedBlocks = U
    BY <2>2, StepsKeep, ShapeFacts
  <2>4. PICK F2 \in SUBSET Units, U2 \in SUBSET Units :
          \E k2 \in [Units -> Nat] : GcShape(F2, U2, k2)' /\ (usedp' # NULL => U \cap held' \subseteq U2)
    BY <2>3 DEF Kept
  <2>5. PICK k2 \in [Units -> Nat] : GcShape(F2, U2, k2)' /\ (usedp' # NULL => U \cap held' \subseteq U2)
    BY <2>4
  <2>6. ASSUME usedp' # NULL PROVE UsedBlocks' = U2
    <3>1. UsedList(U2, k2, held', next', usedp') /\ held' \subseteq 1..HeapMax
      BY <2>5 DEF GcShape, UsedShape, FreeShape, FreeList
    <3>2. UsedAt' = Walk(usedp', next')
      BY DEF UsedAt, Walk, IsWalk
    <3>3. Covers(UsedAt', U2)
      BY <2>6, <3>1, <3>2, UsedCovers
    <3> QED BY <2>6, <3>3 DEF UsedBlocks, Covers
  <2> QED BY <2>3, <2>5, <2>6 DEF LosesOnlyWithFirst
<1> QED BY <1>1, GcInvHolds, PTL DEF Spec, LostOnlyWithFirst

(* scan_region, scan_heap and the sweep (main.c:112, main.c:133,           *)
(* main.c:206): a block a variable points to stays, and if it is in the    *)
(* used list and not the first there, so does what it points to.  What a   *)
(* block that dropped out of the list points to may be freed.              *)
THEOREM RootedBlocksStay == Spec => RootedStay
<1>1. GcInv /\ [Next]_vars => [KeepsRooted]_vars
  <2> SUFFICES ASSUME GcInv, Next PROVE KeepsRooted
    OBVIOUS
  <2>1. PICK F \in SUBSET Units, U \in SUBSET Units : \E key \in [Units -> Nat] : GcShape(F, U, key)
    BY DEF GcInv
  <2>2. PICK key \in [Units -> Nat] : GcShape(F, U, key)
    BY <2>1
  <2>3. CASE Free
    BY <2>2, <2>3, FreeIsUnrooted
  <2>4. CASE ~Free
    <3>1. held \subseteq held'
      BY <2>4 DEF Next, Step, Malloc, Store, Load, Forget, Collect, Found, OutOfMemory,
                  SearchOn, MoreCore, ScanHeap, ScanEnds, Keep
    <3> QED BY <3>1 DEF KeepsRooted, Holds
  <2> QED BY <2>3, <2>4
<1> QED BY <1>1, GcInvHolds, PTL DEF Spec, RootedStay
=============================================================================
