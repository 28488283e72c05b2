--------------------------- MODULE ArithmeticProofs ---------------------------
(***************************************************************************)
(* The pure algorithms compute what they are to, for every file, chunk     *)
(* length, header and year; and the lemmas about induction and about sums  *)
(* over finite sets that this and UploadProofs need.                       *)
(***************************************************************************)
EXTENDS Arithmetic, FiniteSetTheorems, SequenceTheorems, TLAPS

-------------------------------------------------------------------------------
\* Induction.  The provers cannot apply an induction theorem that has a predicate
\* as parameter, but can take a smallest counterexample out of a set.

LEMMA Least ==
  ASSUME NEW S, S \subseteq Nat, S # {}
  PROVE  \E n \in S : \A m \in S : n <= m
<1> DEFINE R == OpToRel(<, Nat)
<1>1. IsWellFoundedOn(R, Nat)
  BY NatLessThanWellFounded
<1>2. \A x, y \in Nat : x < y => <<x, y>> \in R
  BY DEF OpToRel
<1> HIDE DEF R
<1>3. PICK x \in S : \A y \in S : ~(<<y, x>> \in R)
  BY <1>1, WFMin
<1>4. ASSUME NEW y \in S PROVE x <= y
  <2>1. x \in Nat /\ y \in Nat
    OBVIOUS
  <2>2. ~(y < x)
    BY <1>2, <1>3, <2>1
  <2> QED  BY <2>1, <2>2
<1> QED  BY <1>4

\* What holds of 0, and of n + 1 whenever of n, up to a bound, holds up to it.
LEMMA Induction ==
  ASSUME NEW S, NEW N \in Nat, 0 \in S, \A n \in 0 .. N - 1 : n \in S => n + 1 \in S
  PROVE  0 .. N \subseteq S
<1> DEFINE F == (0 .. N) \ S
<1> SUFFICES ASSUME F # {} PROVE FALSE
  OBVIOUS
<1>1. F \subseteq Nat
  OBVIOUS
<1>2. PICK n \in F : \A m \in F : n <= m
  BY <1>1, Least
<1>3. n \in 1 .. N
  OBVIOUS
<1>4. n - 1 \in 0 .. N - 1 /\ n - 1 \notin F
  BY <1>1, <1>2, <1>3
<1>5. n - 1 \in S
  BY <1>4
<1>6. (n - 1) + 1 \in S
  BY <1>4, <1>5
<1> QED  BY <1>3, <1>6

LEMMA SmallestSet ==
  ASSUME NEW F, F # {}, \A s \in F : IsFiniteSet(s)
  PROVE  \E s \in F : \A x \in s : s \ {x} \notin F
<1> DEFINE Counts == {Cardinality(s) : s \in F}
<1>1. Counts \subseteq Nat /\ Counts # {}
  BY FS_CardinalityType
<1>2. PICK n \in Counts : \A m \in Counts : n <= m
  BY <1>1, Least
<1>3. PICK s \in F : Cardinality(s) = n
  BY <1>2
<1>4. ASSUME NEW x \in s, s \ {x} \in F PROVE FALSE
  <2>1. Cardinality(s \ {x}) = n - 1 /\ n \in Nat
    BY <1>3, FS_RemoveElement, FS_CardinalityType
  <2>2. n <= n - 1
    BY <1>2, <1>4, <2>1
  <2> QED  BY <2>1, <2>2
<1> QED  BY <1>4

-------------------------------------------------------------------------------
\* Sums.

\* What MapThenSumSet takes out of a set first, and the equation that its
\* partial sums solve.
Taken(s) == CHOOSE x \in s : TRUE

SumsOf(g, h, S) ==
  g = [s \in SUBSET S |-> IF s = {} THEN 0 ELSE h[Taken(s)] + g[s \ {Taken(s)}]]

Total(h, S) == MapThenSumSet(LAMBDA x : h[x], S)

LEMMA TotalIs ==
  ASSUME NEW h, NEW S
  PROVE  Total(h, S) = (CHOOSE g : SumsOf(g, h, S))[S]
BY DEF Total, MapThenSumSet, MapThenFoldSet, SumsOf, Taken

LEMMA SumsAgree ==
  ASSUME NEW S, NEW g, NEW h, SumsOf(g, h, S), NEW T, NEW k, NEW j, SumsOf(k, j, T),
         NEW U, U \subseteq S, U \subseteq T, IsFiniteSet(U), \A x \in U : h[x] = j[x]
  PROVE  \A s \in SUBSET U : g[s] = k[s]
<1> DEFINE F == {s \in SUBSET U : g[s] # k[s]}
<1> SUFFICES ASSUME F # {} PROVE FALSE
  OBVIOUS
<1>1. \A s \in F : IsFiniteSet(s)
  BY FS_Subset
<1>2. PICK s \in F : \A x \in s : s \ {x} \notin F
  BY <1>1, SmallestSet
<1>3. s # {} /\ Taken(s) \in s
  BY DEF SumsOf, Taken
<1>4. /\ g[s] = h[Taken(s)] + g[s \ {Taken(s)}]
      /\ k[s] = j[Taken(s)] + k[s \ {Taken(s)}]
  BY <1>3 DEF SumsOf
<1> QED  BY <1>2, <1>3, <1>4

\* The equation has a solution: the sums of T are those of what is left when one
\* element is taken out.
LEMMA SumsExist ==
  ASSUME NEW S, IsFiniteSet(S), NEW h
  PROVE  \E g : SumsOf(g, h, S)
<1> DEFINE F == {T \in SUBSET S : ~\E g : SumsOf(g, h, T)}
<1> SUFFICES ASSUME F # {} PROVE FALSE
  OBVIOUS
<1>1. \A T \in F : IsFiniteSet(T)
  BY FS_Subset
<1>2. PICK T \in F : \A x \in T : T \ {x} \notin F
  BY <1>1, SmallestSet
<1>3. T \in SUBSET S /\ IsFiniteSet(T)
  BY <1>1
<1>4. \A x \in T : \E g : SumsOf(g, h, T \ {x})
  BY <1>2, <1>3
<1>5. PICK G : \A x \in T : SumsOf(G[x], h, T \ {x})
  <2>1. \A x \in T : SumsOf(CHOOSE g : SumsOf(g, h, T \ {x}), h, T \ {x})
    BY <1>4
  <2>2. \A x \in T : [y \in T |-> CHOOSE g : SumsOf(g, h, T \ {y})][x]
                       = CHOOSE g : SumsOf(g, h, T \ {x})
    OBVIOUS
  <2>3. \A x \in T : SumsOf([y \in T |-> CHOOSE g : SumsOf(g, h, T \ {y})][x], h, T \ {x})
    BY <2>1, <2>2
  <2> QED  BY <2>3
<1>6. ASSUME NEW x \in T, NEW y \in T, NEW s, s \subseteq T \ {x}, s \subseteq T \ {y}
      PROVE  G[x][s] = G[y][s]
  <2>1. PICK U : U = (T \ {x}) \intersect (T \ {y})
    OBVIOUS
  <2>2. IsFiniteSet(U) /\ U \subseteq T \ {x} /\ U \subseteq T \ {y} /\ s \in SUBSET U
    BY <1>3, <1>6, <2>1, FS_Subset
  <2>3. SumsOf(G[x], h, T \ {x}) /\ SumsOf(G[y], h, T \ {y})
    BY <1>5
  <2> QED  BY <2>2, <2>3, SumsAgree
<1> DEFINE val(s) == IF s = {} THEN 0
                     ELSE IF s = T THEN h[Taken(T)] + G[Taken(T)][T \ {Taken(T)}]
                     ELSE G[Taken(T \ s)][s]
           g == [s \in SUBSET T |-> val(s)]
<1>7. \A s \in SUBSET T : s # {} => Taken(s) \in s
  BY DEF Taken
<1>8. ASSUME NEW s \in SUBSET T, NEW x \in T, x \notin s PROVE val(s) = G[x][s]
  <2>1. SumsOf(G[x], h, T \ {x}) /\ s \in SUBSET (T \ {x})
    BY <1>5, <1>8
  <2>2. CASE s = {}
    BY <2>1, <2>2 DEF SumsOf
  <2>3. CASE s # {}
    <3>1. s # T /\ Taken(T \ s) \in T \ s
      BY <1>7, <1>8
    <3>2. G[Taken(T \ s)][s] = G[x][s]
      BY <1>6, <1>8, <3>1
    <3> QED  BY <2>3, <3>1, <3>2
  <2> QED  BY <2>2, <2>3
<1>9. ASSUME NEW s \in SUBSET T, s # {}
      PROVE  val(s) = h[Taken(s)] + val(s \ {Taken(s)})
  <2>1. Taken(s) \in s /\ s \ {Taken(s)} \in SUBSET T /\ Taken(s) \notin s \ {Taken(s)}
    BY <1>7, <1>9
  <2>2. CASE s = T
    BY <1>8, <1>9, <2>1, <2>2
  <2>3. CASE s # T
    <3>1. PICK x \in T : x \notin s
      BY <2>3
    <3>2. val(s) = G[x][s] /\ val(s \ {Taken(s)}) = G[x][s \ {Taken(s)}]
      BY <1>8, <2>1, <3>1
    <3>3. SumsOf(G[x], h, T \ {x}) /\ s \in SUBSET (T \ {x})
      BY <1>5, <3>1
    <3>4. G[x][s] = h[Taken(s)] + G[x][s \ {Taken(s)}]
      BY <1>9, <3>3 DEF SumsOf
    <3> QED  BY <3>2, <3>4
  <2> QED  BY <2>2, <2>3
<1>10. SumsOf(g, h, T)
  <2>1. \A s \in SUBSET T : s \ {Taken(s)} \in SUBSET T
    OBVIOUS
  <2>2. val({}) = 0
    OBVIOUS
  <2> HIDE DEF val
  <2>3. \A s \in SUBSET T :
          val(s) = IF s = {} THEN 0 ELSE h[Taken(s)] + g[s \ {Taken(s)}]
    BY <1>9, <2>1, <2>2
  <2> QED  BY <2>3 DEF SumsOf
<1> HIDE DEF g
<1> QED  BY <1>10

\* Partial sums are numbers, and any element may be taken out first.
LEMMA SumsType ==
  ASSUME NEW S, IsFiniteSet(S), NEW h, \A x \in S : h[x] \in Int,
         NEW g, SumsOf(g, h, S)
  PROVE  \A s \in SUBSET S : g[s] \in Int
<1> DEFINE F == {s \in SUBSET S : g[s] \notin Int}
<1> SUFFICES ASSUME F # {} PROVE FALSE
  OBVIOUS
<1>1. \A s \in F : IsFiniteSet(s)
  BY FS_Subset
<1>2. PICK s \in F : \A x \in s : s \ {x} \notin F
  BY <1>1, SmallestSet
<1>3. s # {} /\ Taken(s) \in s
  BY DEF SumsOf, Taken
<1>4. PICK a, b : a = h[Taken(s)] /\ b = g[s \ {Taken(s)}]
  OBVIOUS
<1>5. g[s] = a + b
  BY <1>3, <1>4 DEF SumsOf
<1>6. a \in Int
  BY <1>3, <1>4
<1>7. b \in Int
  BY <1>2, <1>3, <1>4
<1> QED  BY <1>5, <1>6, <1>7

LEMMA SumsStep ==
  ASSUME NEW S, IsFiniteSet(S), NEW h, \A x \in S : h[x] \in Int,
         NEW g, SumsOf(g, h, S)
  PROVE  \A s \in SUBSET S : \A x \in s : g[s] = h[x] + g[s \ {x}]
<1> DEFINE F == {s \in SUBSET S : ~\A x \in s : g[s] = h[x] + g[s \ {x}]}
<1> SUFFICES ASSUME F # {} PROVE FALSE
  OBVIOUS
<1>1. \A s \in F : IsFiniteSet(s)
  BY FS_Subset
<1>2. PICK s \in F : \A x \in s : s \ {x} \notin F
  BY <1>1, SmallestSet
<1>3. s \in SUBSET S
  OBVIOUS
<1>4. PICK x \in s : g[s] # h[x] + g[s \ {x}]
  OBVIOUS
<1>5. PICK y \in s : y = Taken(s)
  BY DEF Taken
<1>6. g[s] = h[y] + g[s \ {y}]
  BY <1>5 DEF SumsOf
<1>7. x # y /\ (s \ {y}) \ {x} = (s \ {x}) \ {y} /\ y \in s \ {x} /\ x \in s \ {y}
  BY <1>4, <1>6
<1>8. PICK a, b, c, d, r : /\ a = h[x] /\ b = h[y] /\ c = g[s \ {x}] /\ d = g[s \ {y}]
                           /\ r = g[(s \ {x}) \ {y}]
  OBVIOUS
<1>9. a \in Int /\ b \in Int
  BY <1>8
<1>10. c \in Int /\ d \in Int /\ r \in Int
  <2>1. s \ {x} \in SUBSET S /\ s \ {y} \in SUBSET S /\ (s \ {x}) \ {y} \in SUBSET S
    OBVIOUS
  <2> QED  BY <1>8, <2>1, SumsType
<1>11. c = b + r
  <2>1. s \ {x} \in SUBSET S /\ s \ {x} \notin F
    BY <1>2
  <2> QED  BY <1>7, <1>8, <2>1
<1>12. d = a + r
  <2>1. s \ {y} \in SUBSET S /\ s \ {y} \notin F
    BY <1>2
  <2> QED  BY <1>7, <1>8, <2>1
<1>13. g[s] = b + d /\ g[s] # a + c
  BY <1>4, <1>6, <1>8
<1> HIDE DEF F
<1> QED  BY <1>9, <1>10, <1>11, <1>12, <1>13

-------------------------------------------------------------------------------
\* The sum over a finite set, by its equations.

LEMMA TotalEmpty ==
  ASSUME NEW h
  PROVE  Total(h, {}) = 0
<1>1. PICK g : SumsOf(g, h, {})
  BY FS_EmptySet, SumsExist
<1>2. SumsOf(CHOOSE j : SumsOf(j, h, {}), h, {})
  BY <1>1
<1> QED  BY <1>2, TotalIs DEF SumsOf

\* What the sum is: the value of any solution at the whole set.
LEMMA TotalAt ==
  ASSUME NEW S, IsFiniteSet(S), NEW h, NEW U, U \subseteq S, NEW g, SumsOf(g, h, S)
  PROVE  Total(h, U) = g[U]
<1>1. IsFiniteSet(U)
  BY FS_Subset
<1>2. SumsOf(CHOOSE j : SumsOf(j, h, U), h, U)
  BY <1>1, SumsExist
<1>3. PICK k : k = CHOOSE j : SumsOf(j, h, U)
  OBVIOUS
<1>4. SumsOf(k, h, U)
  BY <1>2, <1>3
<1>5. k[U] = g[U]
  BY <1>1, <1>4, SumsAgree
<1> QED  BY <1>3, <1>5, TotalIs

LEMMA TotalType ==
  ASSUME NEW S, IsFiniteSet(S), NEW h, \A x \in S : h[x] \in Int
  PROVE  Total(h, S) \in Int
<1>1. PICK g : SumsOf(g, h, S)
  BY SumsExist
<1>2. g[S] \in Int
  BY <1>1, SumsType
<1>3. Total(h, S) = g[S]
  BY <1>1, TotalAt
<1> QED  BY <1>2, <1>3

LEMMA TotalStep ==
  ASSUME NEW S, IsFiniteSet(S), NEW h, \A x \in S : h[x] \in Int, NEW x \in S
  PROVE  Total(h, S) = h[x] + Total(h, S \ {x})
<1>1. PICK g : SumsOf(g, h, S)
  BY SumsExist
<1>2. g[S] = h[x] + g[S \ {x}]
  BY <1>1, SumsStep
<1>3. Total(h, S) = g[S] /\ Total(h, S \ {x}) = g[S \ {x}]
  BY <1>1, TotalAt
<1> QED  BY <1>2, <1>3

LEMMA TotalNat ==
  ASSUME NEW S, IsFiniteSet(S), NEW h, \A x \in S : h[x] \in Nat
  PROVE  Total(h, S) \in Nat
<1> DEFINE F == {T \in SUBSET S : Total(h, T) \notin Nat}
<1> SUFFICES ASSUME F # {} PROVE FALSE
  OBVIOUS
<1>1. \A T \in F : IsFiniteSet(T)
  BY FS_Subset
<1>2. PICK T \in F : \A x \in T : T \ {x} \notin F
  BY <1>1, SmallestSet
<1>3. T \in SUBSET S /\ Total(h, T) \notin Nat /\ IsFiniteSet(T)
  BY <1>1
<1>4. PICK x \in T : TRUE
  BY <1>3, TotalEmpty
<1>5. PICK a, b : a = h[x] /\ b = Total(h, T \ {x})
  OBVIOUS
<1>6. Total(h, T) = a + b
  <2>1. \A y \in T : h[y] \in Int
    BY <1>3
  <2> QED  BY <1>3, <1>5, <2>1, TotalStep
<1>7. a \in Nat /\ b \in Nat
  BY <1>2, <1>3, <1>5
<1> QED  BY <1>3, <1>6, <1>7

\* A sum depends on the values over its set alone.
LEMMA TotalSame ==
  ASSUME NEW S, IsFiniteSet(S), NEW h, NEW j, \A x \in S : h[x] = j[x]
  PROVE  Total(h, S) = Total(j, S)
<1>1. PICK g : SumsOf(g, h, S)
  BY SumsExist
<1>2. PICK k : SumsOf(k, j, S)
  BY SumsExist
<1>3. g[S] = k[S]
  BY <1>1, <1>2, SumsAgree
<1> QED  BY <1>1, <1>2, <1>3, TotalAt
-------------------------------------------------------------------------------
\* Plans.

\* The plan of a file: its chunks lie end to end, and the last one ends it.
EndToEnd(size, cs, n) ==
  /\ n \in Nat \ {0}
  /\ \A i \in 0 .. n - 2 : SizeOf(size, cs, i) = cs
  /\ SizeOf(size, cs, n - 1) = size - (n - 1) * cs
  /\ size <= n * cs
  /\ size = 0 => n = 1
  /\ size # 0 => (n - 1) * cs < size

LEMMA PlanFacts ==
  ASSUME NEW size \in Nat, NEW cs \in Nat \ {0}
  PROVE  EndToEnd(size, cs, TotalChunks(size, cs))
<1> SUFFICES ASSUME NEW n, n = TotalChunks(size, cs) PROVE EndToEnd(size, cs, n)
  OBVIOUS
<1>1. CASE size = 0
  BY <1>1 DEF EndToEnd, TotalChunks, SizeOf, OffsetOf
<1>2. CASE size # 0
  <2>1. PICK a : a = size + cs - 1
    OBVIOUS
  <2>2. a \in Nat /\ n = a \div cs
    BY <1>2, <2>1 DEF TotalChunks
  <2>3. n \in Nat /\ a = cs * n + (a % cs) /\ a % cs \in 0 .. cs - 1
    BY <2>2
  <2>4. PICK r \in 0 .. cs - 1 : a = cs * n + r
    BY <2>3
  <2>5. n # 0
    BY <1>2, <2>1, <2>3, <2>4
  <2>6. (n - 1) * cs < size /\ size <= n * cs
    <3>1. cs * n = n * cs /\ (n - 1) * cs = n * cs - cs
      BY <2>3
    <3>2. n * cs \in Int
      BY <2>3
    <3> QED  BY <2>1, <2>4, <3>1, <3>2
  <2>7. \A i \in 0 .. n - 2 : SizeOf(size, cs, i) = cs
    BY <1>2, <2>3 DEF SizeOf
  <2>8. SizeOf(size, cs, n - 1) = size - (n - 1) * cs
    BY <1>2 DEF SizeOf, OffsetOf
  <2> QED  BY <1>2, <2>3, <2>5, <2>6, <2>7, <2>8 DEF EndToEnd
<1> QED  BY <1>1, <1>2

\* A sum of chunk lengths is a sum in the sense of the lemmas above.
SizesOf(g, size, cs, S) ==
  g = [s \in SUBSET S |->
         IF s = {} THEN 0 ELSE SizeOf(size, cs, Taken(s)) + g[s \ {Taken(s)}]]

LEMMA SizesTotal ==
  ASSUME NEW size, NEW cs, NEW S, IsFiniteSet(S)
  PROVE  MapThenSumSet(LAMBDA i : SizeOf(size, cs, i), S)
           = Total([i \in S |-> SizeOf(size, cs, i)], S)
<1> DEFINE h == [i \in S |-> SizeOf(size, cs, i)]
<1>1. ASSUME NEW g PROVE SizesOf(g, size, cs, S) <=> SumsOf(g, h, S)
  <2>1. \A s \in SUBSET S : s # {} => h[Taken(s)] = SizeOf(size, cs, Taken(s))
    BY DEF Taken
  <2>2. \A s \in SUBSET S :
          (IF s = {} THEN 0 ELSE SizeOf(size, cs, Taken(s)) + g[s \ {Taken(s)}])
          = (IF s = {} THEN 0 ELSE h[Taken(s)] + g[s \ {Taken(s)}])
    BY <2>1
  <2> HIDE DEF h
  <2> QED  BY <2>2 DEF SizesOf, SumsOf
<1>2. MapThenSumSet(LAMBDA i : SizeOf(size, cs, i), S)
        = (CHOOSE j : SizesOf(j, size, cs, S))[S]
  BY DEF MapThenSumSet, MapThenFoldSet, SizesOf, Taken
<1> HIDE DEF h
<1>3. PICK g : SumsOf(g, h, S)
  BY SumsExist
<1>4. SizesOf(CHOOSE j : SizesOf(j, size, cs, S), size, cs, S)
  BY <1>1, <1>3
<1>5. PICK k : k = CHOOSE j : SizesOf(j, size, cs, S)
  OBVIOUS
<1>6. SumsOf(k, h, S)
  BY <1>1, <1>4, <1>5
<1>7. Total(h, S) = k[S]
  BY <1>6, TotalAt
<1> QED  BY <1>2, <1>5, <1>7 DEF h

\* plan.validate() never raises.
LEMMA PlansValidate ==
  ASSUME NEW size \in Nat, NEW cs \in Nat \ {0}
  PROVE  Validates(size, cs)
<1>1. PICK n : n = TotalChunks(size, cs)
  OBVIOUS
<1>2. /\ n \in Nat \ {0}
      /\ \A i \in 0 .. n - 2 : SizeOf(size, cs, i) = cs
      /\ SizeOf(size, cs, n - 1) = size - (n - 1) * cs
  BY <1>1, PlanFacts DEF EndToEnd
<1>3. PICK h : h = [i \in 0 .. n - 1 |-> SizeOf(size, cs, i)]
  OBVIOUS
<1>4. (n - 1) * cs \in Int
  BY <1>2
<1>5. \A i \in 0 .. n - 1 : h[i] \in Int /\ (i # n - 1 => h[i] = cs)
  <2> TAKE i \in 0 .. n - 1
  <2>1. i = n - 1 \/ i \in 0 .. n - 2
    BY <1>2
  <2> QED  BY <1>2, <1>3, <1>4, <2>1
<1>6. ASSUME NEW k \in 0 .. n - 1
      PROVE  Total(h, 0 .. k) = h[k] + Total(h, 0 .. k - 1)
  <2>1. k \in 0 .. k /\ (0 .. k) \ {k} = 0 .. k - 1
    BY <1>2
  <2>2. IsFiniteSet(0 .. k)
    BY <1>2, FS_Interval
  <2>3. 0 .. k \subseteq 0 .. n - 1
    BY <1>2
  <2>4. \A i \in 0 .. k : h[i] \in Int
    BY <1>5, <2>3
  <2> QED  BY <2>1, <2>2, <2>4, TotalStep
<1> DEFINE S == {k \in Nat : Total(h, 0 .. k - 1) = k * cs}
<1>7. 0 .. n - 1 \subseteq S
  <2>1. 0 \in S
    <3>1. 0 .. 0 - 1 = {} /\ 0 * cs = 0
      OBVIOUS
    <3> QED  BY <3>1, TotalEmpty
  <2>2. ASSUME NEW k \in 0 .. (n - 1) - 1, k \in S PROVE k + 1 \in S
    <3>1. k \in 0 .. n - 1 /\ k # n - 1 /\ k + 1 \in Nat /\ (k + 1) - 1 = k
      BY <1>2
    <3>2. Total(h, 0 .. k) = cs + k * cs
      BY <1>5, <1>6, <2>2, <3>1
    <3>3. cs + k * cs = (k + 1) * cs
      BY <3>1
    <3> QED  BY <3>1, <3>2, <3>3
  <2>3. n - 1 \in Nat
    BY <1>2
  <2> HIDE DEF S
  <2> QED  BY <2>1, <2>2, <2>3, Induction
<1>8. Total(h, 0 .. n - 1) = size
  <2>1. n - 1 \in 0 .. n - 1 /\ n - 1 \in S
    BY <1>2, <1>7
  <2>2. Total(h, 0 .. n - 1) = (size - (n - 1) * cs) + (n - 1) * cs
    BY <1>2, <1>3, <1>6, <2>1
  <2> QED  BY <1>4, <2>2
<1>9. IsFiniteSet(0 .. n - 1)
  BY <1>2, FS_Interval
<1> QED  BY <1>1, <1>3, <1>8, <1>9, SizesTotal DEF Validates, Indices
\* Every chunk lies in the file, is no longer than a chunk, and no byte of
\* another is in it.
LEMMA ChunkFacts ==
  ASSUME NEW size \in Nat, NEW cs \in Nat \ {0}, NEW i \in Indices(size, cs)
  PROVE  /\ i \in Nat
         /\ SizeOf(size, cs, i) \in 0 .. cs
         /\ OffsetOf(i, cs) \in Nat
         /\ OffsetOf(i, cs) + SizeOf(size, cs, i) <= size
         /\ size # 0 => SizeOf(size, cs, i) > 0
<1>1. PICK n : n = TotalChunks(size, cs)
  OBVIOUS
<1>2. /\ n \in Nat \ {0}
      /\ \A j \in 0 .. n - 2 : SizeOf(size, cs, j) = cs
      /\ SizeOf(size, cs, n - 1) = size - (n - 1) * cs
      /\ size <= n * cs
      /\ size = 0 => n = 1
      /\ size # 0 => (n - 1) * cs < size
  BY <1>1, PlanFacts DEF EndToEnd
<1>3. i \in 0 .. n - 1
  BY <1>1 DEF Indices
<1>4. (n - 1) * cs \in Int /\ n * cs = (n - 1) * cs + cs
  BY <1>2
<1>5. CASE i = n - 1
  <2>1. i * cs \in Nat /\ OffsetOf(i, cs) = i * cs
    BY <1>3 DEF OffsetOf
  <2> QED  BY <1>2, <1>4, <1>5, <2>1
<1>6. CASE i # n - 1
  <2>1. i \in Nat /\ i \in 0 .. n - 2
    BY <1>2, <1>3, <1>6
  <2>2. i * cs + cs <= (n - 1) * cs
    <3>1. PICK d \in Nat : n - 1 = i + 1 + d
      <4>1. n - 1 - (i + 1) \in Nat /\ n - 1 = i + 1 + (n - 1 - (i + 1))
        BY <1>2, <2>1
      <4> QED  BY <4>1
    <3>2. (n - 1) * cs = (i * cs + cs) + d * cs /\ d * cs \in Nat /\ i * cs \in Nat
      BY <2>1, <3>1
    <3> QED  BY <3>2
  <2>3. i * cs \in Nat /\ OffsetOf(i, cs) = i * cs /\ SizeOf(size, cs, i) = cs
    BY <1>2, <2>1 DEF OffsetOf
  <2>4. size # 0
    BY <1>2, <1>3, <1>6
  <2> QED  BY <1>2, <1>4, <2>1, <2>2, <2>3, <2>4
<1> QED  BY <1>5, <1>6

\* The chunk that a byte is in, which stream computes by a division.
LEMMA ByteFacts ==
  ASSUME NEW size \in Nat, NEW cs \in Nat \ {0}, NEW b \in 0 .. size - 1
  PROVE  /\ b \div cs \in Indices(size, cs)
         /\ \A j \in Indices(size, cs) :
              b \in OffsetOf(j, cs) .. OffsetOf(j, cs) + SizeOf(size, cs, j) - 1
                <=> j = b \div cs
<1>1. PICK n : n = TotalChunks(size, cs)
  OBVIOUS
<1>2. /\ n \in Nat \ {0}
      /\ \A j \in 0 .. n - 2 : SizeOf(size, cs, j) = cs
      /\ SizeOf(size, cs, n - 1) = size - (n - 1) * cs
      /\ size <= n * cs
  BY <1>1, PlanFacts DEF EndToEnd
<1>3. b \in Nat /\ b < size
  OBVIOUS
<1>4. PICK i, r : i = b \div cs /\ r = b % cs
  OBVIOUS
<1>5. i \in Nat /\ r \in 0 .. cs - 1 /\ b = cs * i + r
  BY <1>3, <1>4
<1>6. i * cs \in Nat /\ b = i * cs + r
  BY <1>5
<1>7. i < n
  <2> SUFFICES ASSUME i >= n PROVE FALSE
    BY <1>2, <1>5
  <2>1. PICK d \in Nat : i = n + d
    <3>1. i - n \in Nat /\ i = n + (i - n)
      BY <1>2, <1>5
    <3> QED  BY <3>1
  <2>2. i * cs = n * cs + d * cs /\ d * cs \in Nat /\ n * cs \in Nat
    BY <1>2, <2>1
  <2> QED  BY <1>2, <1>3, <1>5, <1>6, <2>2
<1>8. i \in Indices(size, cs)
  BY <1>1, <1>2, <1>5, <1>7 DEF Indices
<1>9. b <= OffsetOf(i, cs) + SizeOf(size, cs, i) - 1
  <2>1. CASE i = n - 1
    <3>1. SizeOf(size, cs, i) = size - i * cs
      BY <1>2, <2>1
    <3> QED  BY <1>3, <1>6, <3>1 DEF OffsetOf
  <2>2. CASE i # n - 1
    <3>1. SizeOf(size, cs, i) = cs
      BY <1>2, <1>5, <1>7, <2>2
    <3> QED  BY <1>5, <1>6, <3>1 DEF OffsetOf
  <2> QED  BY <2>1, <2>2
<1>10. b >= OffsetOf(i, cs)
  BY <1>5, <1>6 DEF OffsetOf
<1>11. ASSUME NEW j \in Indices(size, cs),
              b \in OffsetOf(j, cs) .. OffsetOf(j, cs) + SizeOf(size, cs, j) - 1
       PROVE  j = i
  <2>1. PICK w : w = SizeOf(size, cs, j)
    OBVIOUS
  <2>2. j \in Nat /\ w \in 0 .. cs
    BY <2>1, ChunkFacts
  <2>3. cs * j <= b /\ b < cs * j + cs
    <3>1. j * cs = cs * j /\ cs * j \in Nat
      BY <2>2
    <3> QED  BY <1>3, <1>11, <2>1, <2>2, <3>1 DEF OffsetOf
  <2>4. b \div cs = j
    BY <1>3, <2>2, <2>3
  <2> QED  BY <1>4, <2>4
<1>12. OffsetOf(i, cs) \in Nat /\ SizeOf(size, cs, i) \in Nat
  BY <1>8, ChunkFacts
<1>13. b \in OffsetOf(i, cs) .. OffsetOf(i, cs) + SizeOf(size, cs, i) - 1
  BY <1>3, <1>9, <1>10, <1>12
<1> QED  BY <1>4, <1>8, <1>11, <1>13

\* Whatever its size and chunk length, a file's chunks partition it: plan.validate()
\* of services/upload.py never raises, put_chunk's bound on the length is met by
\* every chunk, and each byte is in exactly one.
THEOREM PlansPartition == case \in Plans => PlanPartitionsFile
<1> SUFFICES ASSUME case \in Plans PROVE PlanPartitionsFile
  OBVIOUS
<1>1. PICK size, cs : size = case.size /\ cs = case.chunkSize
  OBVIOUS
<1>2. size \in Nat /\ cs \in Nat \ {0}
  BY <1>1 DEF Plans
<1>3. Validates(size, cs)
  BY <1>2, PlansValidate
<1>4. ASSUME NEW b \in 0 .. size - 1
      PROVE  \E i \in Indices(size, cs) :
               b \in BytesOf(i) /\ \A j \in Indices(size, cs) : b \in BytesOf(j) => j = i
  <2>1. b \div cs \in Indices(size, cs)
    BY <1>2, ByteFacts
  <2>2. \A j \in Indices(size, cs) : b \in BytesOf(j) <=> j = b \div cs
    BY <1>1, <1>2, ByteFacts DEF BytesOf
  <2> QED  BY <2>1, <2>2
<1>5. ASSUME NEW i \in Indices(size, cs)
      PROVE  /\ BytesOf(i) \subseteq 0 .. size - 1
             /\ SizeOf(size, cs, i) <= cs
             /\ size > 0 => SizeOf(size, cs, i) > 0
  <2>1. PICK a, w : a = OffsetOf(i, cs) /\ w = SizeOf(size, cs, i)
    OBVIOUS
  <2>2. w \in 0 .. cs /\ a \in Nat /\ a + w <= size /\ (size # 0 => w > 0)
    BY <1>2, <2>1, ChunkFacts
  <2>3. BytesOf(i) = a .. a + w - 1
    BY <1>1, <2>1 DEF BytesOf
  <2> QED  BY <1>2, <2>1, <2>2, <2>3
<1> QED  BY <1>1, <1>3, <1>4, <1>5 DEF PlanPartitionsFile
-------------------------------------------------------------------------------
\* Ranges.

\* The body that goes from one byte to another.
AreBytes(a, s, e) ==
  /\ a \in Seq(Int)
  /\ Len(a) = e - s + 1
  /\ \A k \in 1 .. Len(a) : a[k] = s + k - 1

BytesFrom(s, e) == [k \in 1 .. e - s + 1 |-> s + k - 1]

LEMMA BytesAre ==
  ASSUME NEW s \in Int, NEW e \in Int, e >= s - 1
  PROVE  AreBytes(BytesFrom(s, e), s, e)
<1>1. BytesFrom(s, e) \in Seq(Int) /\ Len(BytesFrom(s, e)) = e - s + 1
  BY DEF BytesFrom
<1>2. \A k \in 1 .. e - s + 1 : BytesFrom(s, e)[k] = s + k - 1
  BY DEF BytesFrom
<1> QED  BY <1>1, <1>2 DEF AreBytes

LEMMA BytesAgree ==
  ASSUME NEW s \in Int, NEW e \in Int, NEW a, NEW b, AreBytes(a, s, e), AreBytes(b, s, e)
  PROVE  a = b
<1>1. /\ a \in Seq(Int) /\ b \in Seq(Int) /\ Len(a) = Len(b)
      /\ \A i \in 1 .. Len(a) : a[i] = b[i]
  BY DEF AreBytes
<1> QED  BY <1>1, SeqEqual

\* Bodies that lie end to end make one.
LEMMA BytesJoin ==
  ASSUME NEW s \in Int, NEW m \in Int, NEW e \in Int, s <= m, m <= e + 1,
         NEW a, NEW b, AreBytes(a, s, m - 1), AreBytes(b, m, e)
  PROVE  AreBytes(a \o b, s, e)
<1>1. /\ a \in Seq(Int) /\ b \in Seq(Int)
      /\ Len(a) = m - s /\ Len(b) = e - m + 1
      /\ \A k \in 1 .. Len(a) : a[k] = s + k - 1
      /\ \A k \in 1 .. Len(b) : b[k] = m + k - 1
  BY DEF AreBytes
<1>2. /\ a \o b \in Seq(Int)
      /\ Len(a \o b) = Len(a) + Len(b)
      /\ \A i \in 1 .. Len(a) + Len(b) :
           (a \o b)[i] = IF i <= Len(a) THEN a[i] ELSE b[i - Len(a)]
  BY <1>1, ConcatProperties
<1>3. PICK c : c = a \o b
  OBVIOUS
<1>4. ASSUME NEW k \in 1 .. Len(c) PROVE c[k] = s + k - 1
  <2>1. CASE k <= Len(a)
    BY <1>1, <1>2, <1>3, <2>1
  <2>2. CASE ~(k <= Len(a))
    <3>1. k - Len(a) \in 1 .. Len(b)
      BY <1>1, <1>2, <1>3, <2>2
    <3>2. c[k] = b[k - Len(a)]
      BY <1>1, <1>2, <1>3, <2>2
    <3> QED  BY <1>1, <3>1, <3>2
  <2> QED  BY <2>1, <2>2
<1>5. c \in Seq(Int) /\ Len(c) = e - s + 1
  BY <1>1, <1>2, <1>3
<1> QED  BY <1>3, <1>4, <1>5 DEF AreBytes

\* FlattenSeq is the fold that its name says: what begins with the first part and
\* goes on with the others is what it computes.
Flattens(g, parts, n) ==
  g = [i \in 1 .. n |-> IF i = 1 THEN parts[i] ELSE g[i - 1] \o parts[i]]

LEMMA FlattenIs ==
  ASSUME NEW n \in Nat \ {0}, NEW parts, Len(parts) = n, NEW g, Flattens(g, parts, n)
  PROVE  FlattenSeq(parts) = g[n]
<1>1. PICK f : f = CHOOSE f1 : Flattens(f1, parts, n)
  OBVIOUS
<1>2. FlattenSeq(parts) = f[n]
  BY <1>1 DEF FlattenSeq, Flattens
<1>3. Flattens(f, parts, n)
  BY <1>1
<1>4. \A i \in 1 .. n : /\ f[i] = IF i = 1 THEN parts[i] ELSE f[i - 1] \o parts[i]
                        /\ g[i] = IF i = 1 THEN parts[i] ELSE g[i - 1] \o parts[i]
  BY <1>3 DEF Flattens
<1> DEFINE S == {k \in Nat : f[k + 1] = g[k + 1]}
<1>5. 0 \in S
  BY <1>4
<1>6. ASSUME NEW k \in 0 .. (n - 1) - 1, k \in S PROVE k + 1 \in S
  <2>1. PICK i : i = k + 1
    OBVIOUS
  <2>2. i \in 1 .. n /\ i + 1 \in 1 .. n /\ i + 1 # 1 /\ (i + 1) - 1 = i /\ i \in Nat
    BY <2>1
  <2>3. f[i] = g[i]
    BY <1>6, <2>1
  <2>4. f[i + 1] = f[i] \o parts[i + 1] /\ g[i + 1] = g[i] \o parts[i + 1]
    BY <1>4, <2>2
  <2>5. f[i + 1] = g[i + 1]
    BY <2>3, <2>4
  <2> QED  BY <2>1, <2>2, <2>5
<1>7. n - 1 \in Nat /\ (n - 1) + 1 = n
  OBVIOUS
<1>8. 0 .. n - 1 \subseteq S
  <2> HIDE DEF S
  <2> QED  BY <1>5, <1>6, <1>7, Induction
<1>9. n - 1 \in S
  BY <1>7, <1>8
<1> QED  BY <1>2, <1>7, <1>9
\* What stream keeps of a chunk: from the later of the two starts to the earlier
\* of the two ends.
LEMMA TrimmedIs ==
  ASSUME NEW size \in Nat, NEW cs \in Nat \ {0}, NEW i \in Indices(size, cs),
         NEW s \in Nat, NEW e \in Nat, NEW lo \in Int, NEW hi \in Int, lo <= hi,
         lo = IF s > OffsetOf(i, cs) THEN s ELSE OffsetOf(i, cs),
         hi = IF e < OffsetOf(i, cs) + SizeOf(size, cs, i) - 1 THEN e
              ELSE OffsetOf(i, cs) + SizeOf(size, cs, i) - 1
  PROVE  AreBytes(Trimmed(ByteRange(s, e), size, cs, i), lo, hi)
<1>1. PICK a, w, t, c : /\ a = OffsetOf(i, cs) /\ w = SizeOf(size, cs, i)
                        /\ t = Trimmed(ByteRange(s, e), size, cs, i)
                        /\ c = Chunk(size, cs, i)
  OBVIOUS
<1>2. a \in Nat /\ w \in Nat
  BY <1>1, ChunkFacts
<1>3. t = SubSeq(c, lo - a + 1, hi - a + 1)
  BY <1>1 DEF Trimmed, ByteRange
<1>4. \A k \in 1 .. w : c[k] = a + k - 1
  BY <1>1 DEF Chunk
<1>5. 1 <= lo - a + 1 /\ hi - a + 1 <= w /\ lo - a + 1 \in Int /\ hi - a + 1 \in Int
  BY <1>1, <1>2
<1>6. \A k \in lo - a + 1 .. hi - a + 1 : c[k] = a + k - 1
  BY <1>2, <1>4, <1>5
<1>7. PICK m, n : m = lo - a + 1 /\ n = hi - a + 1
  OBVIOUS
<1>8. m \in Int /\ n \in Int /\ m <= n /\ n - m + 1 = hi - lo + 1 /\ a + m = lo + 1
  BY <1>2, <1>7
<1>9. \A k \in m .. n : c[k] \in Int /\ c[k] = a + k - 1
  BY <1>2, <1>6, <1>7, <1>8
<1>10. /\ t \in Seq(Int)
       /\ Len(t) = n - m + 1
       /\ \A k \in 1 .. n - m + 1 : t[k] = c[m + k - 1]
  <2>1. /\ SubSeq(c, m, n) \in Seq(Int)
        /\ Len(SubSeq(c, m, n)) = IF m <= n THEN n - m + 1 ELSE 0
        /\ \A k \in 1 .. n - m + 1 : SubSeq(c, m, n)[k] = c[m + k - 1]
    BY <1>8, <1>9, SubSeqProperties
  <2>2. t = SubSeq(c, m, n)
    BY <1>3, <1>7
  <2> QED  BY <1>8, <2>1, <2>2
<1>11. ASSUME NEW k \in 1 .. Len(t) PROVE t[k] = lo + k - 1
  <2>1. m + k - 1 \in m .. n /\ k \in 1 .. n - m + 1
    BY <1>8, <1>10
  <2>2. c[m + k - 1] = a + (m + k - 1) - 1
    BY <1>9, <2>1
  <2>3. t[k] = a + (m + k - 1) - 1
    BY <1>10, <2>1, <2>2
  <2>4. PICK z \in Int : z = a + (m + k - 1) - 1
    BY <1>2, <1>8, <2>1
  <2>5. k \in Int
    OBVIOUS
  <2>6. a \in Int /\ m \in Int /\ a + m = lo + 1
    BY <1>2, <1>8
  <2>7. z = (a + m) + k - 2
    BY <2>4, <2>5, <2>6
  <2>8. z = (lo + 1) + k - 2
    BY <2>6, <2>7
  <2>9. z = lo + k - 1
    BY <2>5, <2>8
  <2> QED  BY <2>3, <2>4, <2>9
<1> QED  BY <1>1, <1>8, <1>10, <1>11 DEF AreBytes

\* The bytes of a chunk that a range reaches, from both sides.
WindowPart(size, cs, s, e, i) ==
  /\ i \in Indices(size, cs)
  /\ i = s \div cs => OffsetOf(i, cs) <= s
  /\ i # s \div cs => s < OffsetOf(i, cs)
  /\ i = e \div cs => e <= OffsetOf(i, cs) + SizeOf(size, cs, i) - 1
  /\ i # e \div cs =>
       /\ OffsetOf(i, cs) + SizeOf(size, cs, i) - 1 = OffsetOf(i + 1, cs) - 1
       /\ OffsetOf(i + 1, cs) - 1 < e
  /\ OffsetOf(i, cs) <= e
  /\ OffsetOf(i, cs) \in Nat /\ SizeOf(size, cs, i) \in Nat
  /\ s <= OffsetOf(i, cs) + SizeOf(size, cs, i) - 1

LEMMA WindowFacts ==
  ASSUME NEW size \in Nat, NEW cs \in Nat \ {0}, NEW s \in Nat, NEW e \in 0 .. size - 1,
         s <= e, NEW i \in s \div cs .. e \div cs
  PROVE  WindowPart(size, cs, s, e, i)
<1>1. PICK p, q : p = s \div cs /\ q = e \div cs
  OBVIOUS
<1>2. s \in 0 .. size - 1
  OBVIOUS
<1>3. p \in Indices(size, cs) /\ q \in Indices(size, cs)
  BY <1>1, <1>2, ByteFacts
<1>4. i \in Indices(size, cs) /\ p <= i /\ i <= q /\ i \in Nat /\ p \in Nat /\ q \in Nat
  <2>1. p \in Nat /\ q \in Nat /\ q <= TotalChunks(size, cs) - 1 /\ i \in p .. q
    BY <1>1, <1>3 DEF Indices
  <2>2. TotalChunks(size, cs) \in Nat
    BY PlanFacts DEF EndToEnd
  <2> QED  BY <2>1, <2>2 DEF Indices
<1>5. PICK a, w : a = OffsetOf(i, cs) /\ w = SizeOf(size, cs, i)
  OBVIOUS
<1>6. a \in Nat /\ w \in Nat /\ a = i * cs
  BY <1>4, <1>5, ChunkFacts DEF OffsetOf
<1>7. p * cs <= s /\ s < (p + 1) * cs /\ q * cs <= e /\ e < (q + 1) * cs
  <2>1. PICK u, v : u = s % cs /\ v = e % cs
    OBVIOUS
  <2>2. s = cs * p + u /\ u \in 0 .. cs - 1 /\ e = cs * q + v /\ v \in 0 .. cs - 1
    BY <1>1, <2>1
  <2>3. cs * p = p * cs /\ cs * q = q * cs /\ (p + 1) * cs = p * cs + cs
        /\ (q + 1) * cs = q * cs + cs /\ p * cs \in Nat /\ q * cs \in Nat
    BY <1>4
  <2> QED  BY <2>2, <2>3
<1>8. \A x, y \in Nat : x <= y => x * cs <= y * cs
  <2> SUFFICES ASSUME NEW x \in Nat, NEW y \in Nat, x <= y PROVE x * cs <= y * cs
    OBVIOUS
  <2>1. PICK d \in Nat : y = x + d
    <3>1. y - x \in Nat /\ y = x + (y - x)
      OBVIOUS
    <3> QED  BY <3>1
  <2>2. y * cs = x * cs + d * cs /\ d * cs \in Nat /\ x * cs \in Nat
    BY <2>1
  <2> QED  BY <2>2
<1>9. i * cs \in Nat /\ p * cs \in Nat /\ q * cs \in Nat /\ (p + 1) * cs \in Nat
      /\ (i + 1) * cs \in Nat /\ (i + 1) * cs = i * cs + cs
  BY <1>4
<1>10. i = p => a <= s
  BY <1>6, <1>7
<1>11. i # p => s < a
  <2> SUFFICES ASSUME i # p PROVE s < a
    OBVIOUS
  <2>1. (p + 1) * cs <= i * cs
    BY <1>4, <1>8
  <2> QED  BY <1>6, <1>7, <1>9, <2>1
<1>12. i = q => e <= a + w - 1
  <2> SUFFICES ASSUME i = q PROVE e <= a + w - 1
    OBVIOUS
  <2>1. e \in a .. a + w - 1
    BY <1>1, <1>3, <1>5, ByteFacts
  <2> QED  BY <1>6, <2>1
<1>13. i # q => w = cs /\ (i + 1) * cs - 1 < e
  <2> SUFFICES ASSUME i # q PROVE w = cs /\ (i + 1) * cs - 1 < e
    OBVIOUS
  <2>1. (i + 1) * cs <= q * cs
    BY <1>4, <1>8
  <2>2. i \in 0 .. TotalChunks(size, cs) - 2
    BY <1>3, <1>4, PlanFacts DEF Indices, EndToEnd
  <2>3. w = cs
    BY <1>5, <2>2, PlanFacts DEF EndToEnd
  <2> QED  BY <1>7, <1>9, <2>1, <2>3
<1>14. a <= e
  <2>1. i * cs <= q * cs
    BY <1>4, <1>8
  <2> QED  BY <1>6, <1>7, <1>9, <2>1
<1>15. s <= a + w - 1
  <2>1. CASE i = q
    BY <1>6, <1>12, <2>1
  <2>2. CASE i # q
    <3>1. (p + 1) * cs <= (i + 1) * cs
      BY <1>4, <1>8
    <3> QED  BY <1>6, <1>7, <1>9, <1>13, <2>2, <3>1
  <2> QED  BY <2>1, <2>2
<1>16. OffsetOf(i + 1, cs) = (i + 1) * cs
  BY DEF OffsetOf
<1>17. i # q => a + w - 1 = (i + 1) * cs - 1
  BY <1>6, <1>9, <1>13
<1> QED
  BY <1>1, <1>4, <1>5, <1>6, <1>10, <1>11, <1>12, <1>13, <1>14, <1>15, <1>16, <1>17
     DEF WindowPart
\* Where a window's part of a chunk begins and ends: within the file, one part
\* begins where the one before it ends.
PartStart(s, cs, i) == IF i = s \div cs THEN s ELSE OffsetOf(i, cs)
PartEnd(e, cs, i) == IF i = e \div cs THEN e ELSE OffsetOf(i + 1, cs) - 1

LEMMA PartFacts ==
  ASSUME NEW size \in Nat, NEW cs \in Nat \ {0}, NEW s \in Nat, NEW e \in 0 .. size - 1,
         s <= e, NEW i \in s \div cs .. e \div cs
  PROVE  /\ PartStart(s, cs, i) \in Nat /\ PartEnd(e, cs, i) \in Int
         /\ s <= PartStart(s, cs, i) /\ PartStart(s, cs, i) <= PartEnd(e, cs, i)
         /\ AreBytes(Trimmed(ByteRange(s, e), size, cs, i),
                     PartStart(s, cs, i), PartEnd(e, cs, i))
<1>1. PICK p, q, a, w, b, lo, hi :
         /\ p = s \div cs /\ q = e \div cs
         /\ a = OffsetOf(i, cs) /\ w = SizeOf(size, cs, i) /\ b = OffsetOf(i + 1, cs)
         /\ lo = PartStart(s, cs, i) /\ hi = PartEnd(e, cs, i)
  OBVIOUS
<1>2. /\ i \in Indices(size, cs)
      /\ i = p => a <= s
      /\ i # p => s < a
      /\ i = q => e <= a + w - 1
      /\ i # q => a + w - 1 = b - 1 /\ b - 1 < e
      /\ a <= e /\ a \in Nat /\ w \in Nat
      /\ s <= a + w - 1
  <2>1. WindowPart(size, cs, s, e, i)
    BY WindowFacts
  <2> QED  BY <1>1, <2>1 DEF WindowPart
<1>3. lo = (IF i = p THEN s ELSE a) /\ hi = (IF i = q THEN e ELSE b - 1)
  BY <1>1 DEF PartStart, PartEnd
<1>4. lo \in Nat /\ s <= lo
  BY <1>2, <1>3
<1>5. hi = (IF e < a + w - 1 THEN e ELSE a + w - 1) /\ hi \in Int
  <2>1. CASE i = q
    BY <1>2, <1>3, <2>1
  <2>2. CASE i # q
    BY <1>2, <1>3, <2>2
  <2> QED  BY <2>1, <2>2
<1>6. lo = IF s > a THEN s ELSE a
  BY <1>2, <1>3
<1>7. a <= a + w - 1
  <2>1. size # 0
    OBVIOUS
  <2> QED  BY <1>1, <1>2, <2>1, ChunkFacts
<1>8. lo <= hi
  BY <1>2, <1>5, <1>6, <1>7
<1>9. AreBytes(Trimmed(ByteRange(s, e), size, cs, i), lo, hi)
  <2>1. /\ lo = IF s > OffsetOf(i, cs) THEN s ELSE OffsetOf(i, cs)
        /\ hi = IF e < OffsetOf(i, cs) + SizeOf(size, cs, i) - 1 THEN e
                ELSE OffsetOf(i, cs) + SizeOf(size, cs, i) - 1
    BY <1>1, <1>5, <1>6
  <2>2. lo \in Int /\ hi \in Int /\ e \in Nat
    BY <1>4, <1>5
  <2> QED  BY <1>2, <1>8, <2>1, <2>2, TrimmedIs
<1> QED  BY <1>1, <1>4, <1>5, <1>8, <1>9

LEMMA StreamIs ==
  ASSUME NEW size \in Nat, NEW cs \in Nat \ {0}, NEW s \in Nat, NEW e \in 0 .. size - 1,
         s <= e, NEW range, IF range = Whole THEN s = 0 /\ e = size - 1
                            ELSE range = ByteRange(s, e)
  PROVE  AreBytes(Stream(range, size, cs), s, e)
<1>1. PICK p, q : p = s \div cs /\ q = e \div cs
  OBVIOUS
<1>2. p \in Nat /\ q \in Nat /\ p <= q
  <2>1. s \in 0 .. size - 1
    OBVIOUS
  <2>2. PICK u, v : u = s % cs /\ v = e % cs
    OBVIOUS
  <2>3. /\ p \in Nat /\ s = cs * p + u /\ u \in 0 .. cs - 1
        /\ q \in Nat /\ e = cs * q + v /\ v \in 0 .. cs - 1
    BY <1>1, <2>2
  <2>4. ASSUME q < p PROVE FALSE
    <3>1. PICK d \in Nat : p = q + 1 + d
      <4>1. p - (q + 1) \in Nat /\ p = q + 1 + (p - (q + 1))
        BY <2>3, <2>4
      <4> QED  BY <4>1
    <3>2. cs * p = cs * q + cs + cs * d /\ cs * d \in Nat /\ cs * q \in Nat
      BY <2>3, <3>1
    <3> QED  BY <2>3, <3>2
  <2> QED  BY <2>3, <2>4
<1>3. PICK n : n = q - p + 1
  OBVIOUS
<1>4. n \in Nat \ {0}
  BY <1>2, <1>3
<1>5. PICK parts : parts = [k \in 1 .. n |-> Trimmed(ByteRange(s, e), size, cs, p + k - 1)]
  OBVIOUS
<1>6. PICK g : g = [k \in 1 .. n |-> BytesFrom(s, PartEnd(e, cs, p + k - 1))]
  OBVIOUS
<1>7. Stream(range, size, cs) = FlattenSeq(parts)
  <2>1. size # 0 /\ range # Whole => range = ByteRange(s, e)
    OBVIOUS
  <2>2. range = Whole => ByteRange(s, e) = ByteRange(0, size - 1)
    OBVIOUS
  <2>3. ByteRange(s, e).start = s /\ ByteRange(s, e).end = e
    BY DEF ByteRange
  <2>4. (IF range = Whole THEN ByteRange(0, size - 1) ELSE range) = ByteRange(s, e)
    BY <2>1, <2>2
  <2>5. FirstIndex(ByteRange(s, e), cs) = p /\ LastIndex(ByteRange(s, e), cs) = q
    BY <1>1, <2>3 DEF FirstIndex, LastIndex
  <2> QED  BY <1>3, <1>5, <2>1, <2>4, <2>5 DEF Stream
<1>8. Len(parts) = n
  BY <1>4, <1>5
<1>9. ASSUME NEW k \in 1 .. n
      PROVE  /\ AreBytes(parts[k], PartStart(s, cs, p + k - 1), PartEnd(e, cs, p + k - 1))
             /\ PartStart(s, cs, p + k - 1) \in Nat /\ PartEnd(e, cs, p + k - 1) \in Int
             /\ s <= PartStart(s, cs, p + k - 1)
             /\ PartStart(s, cs, p + k - 1) <= PartEnd(e, cs, p + k - 1)
  <2>1. p + k - 1 \in s \div cs .. e \div cs
    BY <1>1, <1>2, <1>3
  <2> QED  BY <1>5, <2>1, PartFacts
<1>10. ASSUME NEW k \in 1 .. n
       PROVE  AreBytes(g[k], s, PartEnd(e, cs, p + k - 1))
  <2>1. g[k] = BytesFrom(s, PartEnd(e, cs, p + k - 1))
    BY <1>6
  <2>2. PICK hi : hi = PartEnd(e, cs, p + k - 1)
    OBVIOUS
  <2>3. hi \in Int /\ hi >= s - 1
    BY <1>9, <2>2
  <2> QED  BY <2>1, <2>2, <2>3, BytesAre
<1>11. ASSUME NEW k \in 1 .. n
       PROVE  g[k] = IF k = 1 THEN parts[k] ELSE g[k - 1] \o parts[k]
  <2>1. PICK hi : hi = PartEnd(e, cs, p + k - 1)
    OBVIOUS
  <2>2. hi \in Int /\ AreBytes(g[k], s, hi)
    BY <1>9, <1>10, <2>1
  <2>3. CASE k = 1
    <3>1. p + k - 1 = p /\ PartStart(s, cs, p) = s
      BY <1>1, <1>2, <2>3 DEF PartStart
    <3>2. AreBytes(parts[k], s, hi)
      BY <1>9, <2>1, <3>1
    <3> QED  BY <2>2, <2>3, <3>2, BytesAgree
  <2>4. CASE k # 1
    <3>1. PICK j, i, m : j = k - 1 /\ i = p + k - 1 /\ m = OffsetOf(i, cs)
      OBVIOUS
    <3>2. j \in 1 .. n /\ p + j - 1 # q /\ (p + j - 1) + 1 = i /\ i # p
      BY <1>2, <1>3, <2>4, <3>1
    <3>3. PartEnd(e, cs, p + j - 1) = m - 1 /\ PartStart(s, cs, i) = m
      BY <1>1, <3>1, <3>2 DEF PartStart, PartEnd
    <3>4. AreBytes(g[j], s, m - 1)
      BY <1>10, <3>2, <3>3
    <3>5. AreBytes(parts[k], m, hi) /\ m \in Int /\ s <= m /\ m <= hi + 1
      BY <1>9, <2>1, <2>2, <3>1, <3>3
    <3>6. AreBytes(g[j] \o parts[k], s, hi)
      BY <2>2, <3>4, <3>5, BytesJoin
    <3>7. g[k] = g[j] \o parts[k]
      <4>1. PICK u, v : u = g[k] /\ v = g[j] \o parts[k]
        OBVIOUS
      <4>2. AreBytes(u, s, hi) /\ AreBytes(v, s, hi)
        BY <2>2, <3>6, <4>1
      <4>3. u = v
        BY <2>2, <4>2, BytesAgree
      <4> QED  BY <4>1, <4>3
    <3> QED  BY <2>4, <3>1, <3>7
  <2> QED  BY <2>3, <2>4
<1>12. Flattens(g, parts, n)
  <2>1. g = [k \in 1 .. n |-> g[k]]
    BY <1>6
  <2> QED  BY <1>11, <2>1 DEF Flattens
<1>13. FlattenSeq(parts) = g[n]
  BY <1>4, <1>8, <1>12, FlattenIs
<1>14. n \in 1 .. n /\ p + n - 1 = q /\ PartEnd(e, cs, q) = e
  BY <1>1, <1>2, <1>3, <1>4 DEF PartEnd
<1>15. AreBytes(g[n], s, e)
  BY <1>10, <1>14
<1> QED  BY <1>7, <1>13, <1>15
\* A header and its range: none at all, one that cannot be served, or one within
\* the file that has just the bytes that were asked for.
ServedAs(header, range, size) ==
  \/ header = Whole /\ range = Whole
  \/ header # Whole /\ range = Unsatisfiable /\ Requested(header) = {}
  \/ /\ header # Whole
     /\ \E s \in Nat, e \in 0 .. size - 1 :
          s <= e /\ range = ByteRange(s, e) /\ Requested(header) = s .. e

LEMMA ParseIs ==
  ASSUME case.size \in Nat, NEW header \in Headers(Int)
  PROVE  ServedAs(header, ParseRange(header, case.size), case.size)
<1>1. PICK size, range, file : /\ size = case.size /\ range = ParseRange(header, size)
                               /\ file = 0 .. size - 1
  OBVIOUS
<1>2. size \in Nat
  BY <1>1
<1> SUFFICES ServedAs(header, range, size)
  BY <1>1
<1>3. CASE header = Whole
  BY <1>1, <1>3 DEF ServedAs, ParseRange
<1>4. CASE header # Whole /\ (header = Junk \/ header.start = Junk \/ header.end = Junk)
  BY <1>1, <1>4 DEF ServedAs, ParseRange, Requested
<1>5. CASE header # Whole /\ ~(header = Junk \/ header.start = Junk \/ header.end = Junk)
  <2>1. /\ header.start = Blank \/ header.start \in Nat
        /\ header.end = Blank \/ header.end \in Int
    BY <1>5 DEF Headers
  <2>2. PICK from, to : from = header.start /\ to = header.end
    OBVIOUS
  <2>3. CASE from = Blank /\ to = Blank
    BY <1>1, <1>5, <2>2, <2>3 DEF ServedAs, ParseRange, Requested
  <2>4. CASE from = Blank /\ to # Blank
    <3>1. to \in Int /\ Requested(header) = {b \in file : b >= size - to}
      BY <1>1, <1>5, <2>1, <2>2, <2>4 DEF Requested
    <3>2. range = SuffixRange(to, size)
      BY <1>1, <1>5, <2>2, <2>4 DEF ParseRange
    <3>3. CASE to <= 0 \/ size = 0
      <4>1. range = Unsatisfiable
        BY <3>2, <3>3 DEF SuffixRange
      <4>2. Requested(header) = {}
        BY <1>1, <1>2, <3>1, <3>3
      <4> QED  BY <1>5, <4>1, <4>2 DEF ServedAs
    <3>4. CASE ~(to <= 0 \/ size = 0)
      <4>1. PICK s, e : s = (IF to > size THEN 0 ELSE size - to) /\ e = size - 1
        OBVIOUS
      <4>2. s \in Nat /\ e \in 0 .. size - 1 /\ s <= e
        BY <1>2, <3>1, <3>4, <4>1
      <4>3. range = ByteRange(s, e)
        BY <3>2, <3>4, <4>1 DEF SuffixRange
      <4>4. Requested(header) = s .. e
        BY <1>1, <1>2, <3>1, <3>4, <4>1
      <4> QED  BY <1>5, <4>2, <4>3, <4>4 DEF ServedAs
    <3> QED  BY <3>3, <3>4
  <2>5. CASE from # Blank
    <3>1. PICK e : e = LastByte(to, size)
      OBVIOUS
    <3>2. from \in Nat /\ e \in Int /\ e < size
      BY <1>2, <2>1, <2>2, <2>5, <3>1 DEF LastByte
    <3>3. Requested(header) = {b \in file : b >= from /\ (to = Blank \/ b <= to)}
      BY <1>1, <1>5, <2>2, <2>5 DEF Requested
    <3>4. Requested(header) = {b \in file : b >= from /\ b <= e}
      <4>1. \A b \in file : (to = Blank \/ b <= to) <=> b <= e
        BY <1>1, <1>2, <2>1, <2>2, <3>1 DEF LastByte
      <4> QED  BY <3>3, <4>1
    <3>5. range = IF from >= size \/ e < from THEN Unsatisfiable ELSE ByteRange(from, e)
      BY <1>1, <1>5, <2>2, <2>5, <3>1 DEF ParseRange
    <3>6. CASE from >= size \/ e < from
      <4>1. Requested(header) = {}
        BY <1>1, <1>2, <3>2, <3>4, <3>6
      <4> QED  BY <1>5, <3>5, <3>6, <4>1 DEF ServedAs
    <3>7. CASE ~(from >= size \/ e < from)
      <4>1. e \in 0 .. size - 1 /\ from <= e
        BY <1>2, <3>2, <3>7
      <4>2. Requested(header) = from .. e
        BY <1>1, <1>2, <3>2, <3>4, <4>1
      <4> QED  BY <1>5, <3>2, <3>5, <3>7, <4>1, <4>2 DEF ServedAs
    <3> QED  BY <3>6, <3>7
  <2> QED  BY <2>3, <2>4, <2>5
<1> QED  BY <1>3, <1>4, <1>5

\* What a body of consecutive bytes is to its client.
LEMMA BytesServe ==
  ASSUME NEW s \in Int, NEW e \in Int, s <= e, NEW body, AreBytes(body, s, e)
  PROVE  /\ ToSet(body) = s .. e
         /\ \A k \in DOMAIN body : k > 1 => body[k] > body[k - 1]
         /\ Len(body) = e - s + 1
<1>1. /\ DOMAIN body = 1 .. e - s + 1 /\ Len(body) = e - s + 1
      /\ \A k \in 1 .. e - s + 1 : body[k] = s + k - 1
  BY DEF AreBytes
<1>2. ASSUME NEW b \in s .. e PROVE \E k \in 1 .. e - s + 1 : body[k] = b
  <2>1. b - s + 1 \in 1 .. e - s + 1 /\ s + (b - s + 1) - 1 = b
    OBVIOUS
  <2> QED  BY <1>1, <2>1
<1>3. \A k \in 1 .. e - s + 1 : body[k] \in s .. e
  BY <1>1
<1>4. ToSet(body) = s .. e
  BY <1>1, <1>2, <1>3 DEF ToSet
<1>5. ASSUME NEW k \in DOMAIN body, k > 1 PROVE body[k] > body[k - 1]
  <2>1. k \in 1 .. e - s + 1 /\ k - 1 \in 1 .. e - s + 1
    BY <1>1, <1>5
  <2>2. body[k] = s + k - 1 /\ body[k - 1] = s + (k - 1) - 1
    BY <1>1, <2>1
  <2> QED  BY <2>1, <2>2
<1> QED  BY <1>1, <1>4, <1>5

\* Whatever the Range header, of whatever file: parse_range_header,
\* plan_chunk_window and the trims of stream serve the bytes that RFC 9110 says it
\* asks for, all of them, in order, under their number and the right status.
THEOREM RangesAreServed == case \in Plans => RangesServeTheirBytes
<1> SUFFICES ASSUME case \in Plans, NEW header \in Headers(-1 .. MaxSize + 1),
                    NEW r, r = Response(header, case.size, case.chunkSize)
             PROVE  /\ ToSet(r.body) = Requested(header)
                    /\ \A k \in DOMAIN r.body : k > 1 => r.body[k] > r.body[k - 1]
                    /\ r.length = Len(r.body)
                    /\ r.status = 416 <=> (Requested(header) = {} /\ header # Whole)
                    /\ r.status = 200 <=> header = Whole
  BY DEF RangesServeTheirBytes
<1>1. PICK size, cs, range : /\ size = case.size /\ cs = case.chunkSize
                             /\ range = ParseRange(header, size)
  OBVIOUS
<1>2. size \in Nat /\ cs \in Nat \ {0}
  BY <1>1 DEF Plans
<1>3. header \in Headers(Int)
  BY DEF Headers
<1>4. ServedAs(header, range, size)
  BY <1>1, <1>2, <1>3, ParseIs
<1>5. r = IF range = Unsatisfiable THEN [status |-> 416, length |-> 0, body |-> <<>>]
          ELSE [status |-> IF range = Whole THEN 200 ELSE 206,
                length |-> IF range = Whole THEN size ELSE range.end - range.start + 1,
                body |-> Stream(range, size, cs)]
  BY <1>1 DEF Response
<1>6. ToSet(<<>>) = {} /\ DOMAIN <<>> = {} /\ Len(<<>>) = 0
  BY DEF ToSet
<1>7. CASE header = Whole /\ range = Whole
  <2>1. r.status = 200 /\ r.length = size /\ r.body = Stream(Whole, size, cs)
    BY <1>5, <1>7, RangesAssumption
  <2>2. Requested(header) = 0 .. size - 1
    BY <1>1, <1>7 DEF Requested
  <2>3. CASE size = 0
    <3>1. r.body = <<>>
      BY <2>1, <2>3 DEF Stream
    <3> QED  BY <1>6, <1>7, <2>1, <2>2, <2>3, <3>1
  <2>4. CASE size # 0
    <3>1. 0 \in Nat /\ size - 1 \in 0 .. size - 1 /\ 0 <= size - 1
      BY <1>2, <2>4
    <3>2. AreBytes(r.body, 0, size - 1)
      BY <1>2, <2>1, <3>1, StreamIs
    <3>3. /\ ToSet(r.body) = 0 .. size - 1
          /\ \A k \in DOMAIN r.body : k > 1 => r.body[k] > r.body[k - 1]
          /\ Len(r.body) = (size - 1) - 0 + 1
      BY <3>1, <3>2, BytesServe
    <3> QED  BY <1>2, <1>7, <2>1, <2>2, <3>3
  <2> QED  BY <2>3, <2>4
<1>8. CASE header # Whole /\ range = Unsatisfiable /\ Requested(header) = {}
  <2>1. r.status = 416 /\ r.length = 0 /\ r.body = <<>>
    BY <1>5, <1>8
  <2> QED  BY <1>6, <1>8, <2>1
<1>9. ASSUME header # Whole, NEW s \in Nat, NEW e \in 0 .. size - 1, s <= e,
             range = ByteRange(s, e), Requested(header) = s .. e
      PROVE  /\ ToSet(r.body) = Requested(header)
             /\ \A k \in DOMAIN r.body : k > 1 => r.body[k] > r.body[k - 1]
             /\ r.length = Len(r.body)
             /\ r.status = 416 <=> (Requested(header) = {} /\ header # Whole)
             /\ r.status = 200 <=> header = Whole
  <2>1. range \in [start : Int, end : Int] /\ range.start = s /\ range.end = e
    BY <1>9 DEF ByteRange
  <2>2. range # Whole /\ range # Unsatisfiable
    BY <2>1, RangesAssumption
  <2>3. r.status = 206 /\ r.length = e - s + 1 /\ r.body = Stream(range, size, cs)
    BY <1>5, <2>1, <2>2
  <2>4. AreBytes(r.body, s, e)
    BY <1>2, <1>9, <2>2, <2>3, StreamIs
  <2>5. /\ ToSet(r.body) = s .. e
        /\ \A k \in DOMAIN r.body : k > 1 => r.body[k] > r.body[k - 1]
        /\ Len(r.body) = e - s + 1
    BY <1>9, <2>4, BytesServe
  <2>6. s \in s .. e
    BY <1>9
  <2> QED  BY <1>9, <2>3, <2>5, <2>6
<1> QED  BY <1>4, <1>7, <1>8, <1>9 DEF ServedAs
-------------------------------------------------------------------------------
\* The calendar.

\* The days before the year y, from the year 1 on.
DaysBeforeYear(y) == 365 * (y - 1) + (y - 1) \div 4 - (y - 1) \div 100 + (y - 1) \div 400

\* Days before the month m of the year y.
DaysBefore(y, m) == DaysBeforeMonth[m] + (IF m > 2 /\ IsGregorianLeap(y) THEN 1 ELSE 0)

LEMMA DaysBeforeType ==
  ASSUME NEW y \in Int, NEW m \in 1 .. 12
  PROVE  DaysBeforeMonth[m] \in Nat /\ DaysBefore(y, m) \in Nat /\ DaysBefore(y, 1) = 0
<1>1. DaysBeforeMonth[m] \in Nat /\ DaysBeforeMonth[1] = 0
  <2>1. m \in {1, 2, 3, 4, 5, 6, 7, 8, 9, 10, 11, 12}
    OBVIOUS
  <2> QED  BY <2>1 DEF DaysBeforeMonth
<1> QED  BY <1>1 DEF DaysBefore

LEMMA DayNumberIs ==
  ASSUME NEW y, NEW m, NEW d
  PROVE  DayNumber(<<y, m, d>>)
           = 365 * (y - 1) + (y - 1) \div 4 - (y - 1) \div 100 + (y - 1) \div 400
               + DaysBeforeMonth[m] + (IF m > 2 /\ IsGregorianLeap(y) THEN 1 ELSE 0) + d
BY DEF DayNumber

\* A day of the year has a month, and its date has its number.
LEMMA MonthIs ==
  ASSUME NEW y \in Int, NEW n \in Nat
  PROVE  \E m \in 1 .. 12, d \in Int :
           /\ GregorianMonth(y, n) = <<y, m, d>>
           /\ DayNumber(<<y, m, d>>) = DaysBeforeYear(y) + n + 1
<1> DEFINE Fits(m) == DaysBefore(y, m) <= n /\ \A k \in m + 1 .. 12 : n < DaysBefore(y, k)
<1>1. \E m \in 1 .. 12 : Fits(m)
  <2> DEFINE S == {j \in 0 .. 11 : DaysBefore(y, 12 - j) <= n}
  <2>1. 11 \in S
    BY DaysBeforeType
  <2>2. S \subseteq Nat /\ S # {}
    BY <2>1
  <2>3. PICK j \in S : \A i \in S : j <= i
    <3> HIDE DEF S
    <3> QED  BY <2>2, Least
  <2>4. PICK m : m = 12 - j
    OBVIOUS
  <2>5. m \in 1 .. 12 /\ DaysBefore(y, m) <= n
    BY <2>4
  <2>6. ASSUME NEW k \in m + 1 .. 12 PROVE n < DaysBefore(y, k)
    <3>1. 12 - k \in 0 .. 11 /\ 12 - k < j /\ 12 - (12 - k) = k /\ k \in 1 .. 12
      BY <2>4, <2>5
    <3>2. ~(DaysBefore(y, k) <= n)
      BY <2>3, <3>1
    <3>3. DaysBefore(y, k) \in Nat
      BY <3>1, DaysBeforeType
    <3> QED  BY <3>2, <3>3
  <2> QED  BY <2>5, <2>6
<1>2. PICK m : m = CHOOSE m1 \in 1 .. 12 : Fits(m1)
  OBVIOUS
<1>3. m \in 1 .. 12
  BY <1>1, <1>2
<1>4. GregorianMonth(y, n) = <<y, m, n - DaysBefore(y, m) + 1>>
  BY <1>2 DEF GregorianMonth, DaysBefore
<1>5. PICK b, d : b = DaysBefore(y, m) /\ d = n - b + 1
  OBVIOUS
<1> HIDE DEF Fits
<1>6. b \in Nat /\ d \in Int
  <2>1. DaysBefore(y, m) \in Nat
    BY <1>3, DaysBeforeType
  <2> QED  BY <1>5, <2>1
<1>7. DaysBeforeYear(y) \in Int
  BY DEF DaysBeforeYear
<1>8. DayNumber(<<y, m, d>>) = DaysBeforeYear(y) + b + d
  <2>1. PICK a, c, x : /\ a = DaysBeforeYear(y) /\ c = DaysBeforeMonth[m]
                       /\ x = IF m > 2 /\ IsGregorianLeap(y) THEN 1 ELSE 0
    OBVIOUS
  <2>2. a \in Int /\ c \in Int /\ x \in Int
    <3>1. DaysBeforeMonth[m] \in Nat
      BY <1>3, DaysBeforeType
    <3> QED  BY <1>7, <2>1, <3>1
  <2>3. b = c + x
    BY <1>5, <2>1 DEF DaysBefore
  <2>4. DayNumber(<<y, m, d>>) = a + c + x + d
    BY <2>1, DayNumberIs DEF DaysBeforeYear
  <2>5. a + c + x + d = a + (c + x) + d
    BY <1>6, <2>2
  <2> QED  BY <2>1, <2>3, <2>4, <2>5
<1>9. DaysBeforeYear(y) + b + d = DaysBeforeYear(y) + n + 1
  BY <1>5, <1>6, <1>7
<1> QED  BY <1>3, <1>4, <1>5, <1>6, <1>8, <1>9

\* The date of jalali_to_gregorian for a number of days since 1600.
YearOf(days) ==
  LET inEra == days % 146097
      inCentury == InCentury(inEra)
  IN 1600 + 400 * (days \div 146097)
       + (IF inEra > 36524 THEN 100 * ((inEra - 1) \div 36524) ELSE 0)
       + 4 * (inCentury \div 1461) + YearsIn(inCentury % 1461)

GregorianOf(days) ==
  GregorianMonth(YearOf(days), RestOfYear(InCentury(days % 146097) % 1461))

LEMMA ToGregorian ==
  ASSUME NEW date
  PROVE  JalaliToGregorian(date) = GregorianOf(JalaliDays(date))
BY DEF JalaliToGregorian, GregorianOf, YearOf

\* Four years of which the first is the long one.
LEMMA FourYears ==
  ASSUME NEW r \in Nat, r < 1461
  PROVE  /\ YearsIn(r) \in 0 .. 3 /\ RestOfYear(r) \in Nat /\ RestOfYear(r) <= 365
         /\ r = 365 * YearsIn(r) + (IF YearsIn(r) = 0 THEN 0 ELSE 1) + RestOfYear(r)
         /\ YearsIn(r) # 0 => RestOfYear(r) <= 364
<1>1. CASE r <= 365
  BY <1>1 DEF YearsIn, RestOfYear
<1>2. CASE r > 365
  <2>1. PICK k, n : k = (r - 1) \div 365 /\ n = (r - 1) % 365
    OBVIOUS
  <2>2. r - 1 = 365 * k + n /\ n \in Nat /\ n < 365 /\ k \in Int
    BY <2>1
  <2>3. k \in 1 .. 3
    BY <1>2, <2>2
  <2>4. YearsIn(r) = k /\ RestOfYear(r) = n
    BY <1>2, <2>1 DEF YearsIn, RestOfYear
  <2> QED  BY <2>2, <2>3, <2>4
<1> QED  BY <1>1, <1>2

\* A day of an era of 400 years has a century and a day in it.  A century but the
\* first has no day 365: it begins with a common year.
LEMMA EraIs ==
  ASSUME NEW e \in Nat, e < 146097, NEW c, c = IF e > 36524 THEN (e - 1) \div 36524 ELSE 0
  PROVE  /\ c \in 0 .. 3 /\ InCentury(e) \in Nat /\ InCentury(e) < 36525
         /\ c = 0 => InCentury(e) = e
         /\ c # 0 => \/ InCentury(e) <= 364 /\ e = 36524 * c + InCentury(e) + 1
                     \/ InCentury(e) >= 366 /\ e = 36524 * c + InCentury(e)
<1>1. CASE e <= 36524
  BY <1>1 DEF InCentury
<1>2. CASE e > 36524
  <2>1. PICK m : m = (e - 1) % 36524
    OBVIOUS
  <2>2. e - 1 = 36524 * c + m /\ m \in Nat /\ m < 36524 /\ c \in Int
    BY <1>2, <2>1
  <2>3. c \in 1 .. 3
    BY <1>2, <2>2
  <2>4. InCentury(e) = IF m >= 365 THEN m + 1 ELSE m
    BY <1>2, <2>1 DEF InCentury
  <2> QED  BY <2>2, <2>3, <2>4
<1> QED  BY <1>1, <1>2

\* The days before a year, by its era, century, four-year cycle and place in it.
LEMMA DaysBeforeYearIs ==
  ASSUME NEW q \in Nat, NEW c \in 0 .. 3, NEW f \in 0 .. 24, NEW k \in 0 .. 3,
         NEW y, y = 1600 + 400 * q + 100 * c + 4 * f + k
  PROVE  DaysBeforeYear(y)
           = 584022 + 146097 * q + 36524 * c + 1461 * f + 365 * k
               + (IF k = 0 THEN 0 ELSE 1)
               + (IF c # 0 /\ f = 0 /\ k = 0 THEN 1 ELSE 0)
<1>1. PICK x : x = y - 1
  OBVIOUS
<1>2. x \in Int /\ x = 1599 + 400 * q + 100 * c + 4 * f + k
  BY <1>1
<1>3. x \div 4 = 399 + 100 * q + 25 * c + f + (IF k = 0 THEN 0 ELSE 1)
  BY <1>2
<1>4. x \div 100 = 15 + 4 * q + c + (IF f = 0 /\ k = 0 THEN 0 ELSE 1)
  BY <1>2
<1>5. x \div 400 = 3 + q + (IF c = 0 /\ f = 0 /\ k = 0 THEN 0 ELSE 1)
  BY <1>2
<1>6. DaysBeforeYear(y) = 365 * x + x \div 4 - x \div 100 + x \div 400
  BY <1>1 DEF DaysBeforeYear
<1> QED  BY <1>2, <1>3, <1>4, <1>5, <1>6

\* The number of 1 January 1600.
DayZero == 584023

\* The date of a number of days since 1 January 1600 is the day of that number.
Follows(days, y, m, d) ==
  GregorianOf(days) = <<y, m, d>> /\ DayNumber(<<y, m, d>>) = days + DayZero

\* jalali_to_gregorian follows the days, from 1 January 1600 on.
LEMMA GregorianFollows ==
  ASSUME NEW days \in Nat
  PROVE  \E y \in Int, m \in 1 .. 12, d \in Int : Follows(days, y, m, d)
<1>1. PICK q, e : q = days \div 146097 /\ e = days % 146097
  OBVIOUS
<1>2. q \in Nat /\ e \in Nat /\ e < 146097 /\ days = 146097 * q + e
  BY <1>1
<1>3. PICK c, i : c = (IF e > 36524 THEN (e - 1) \div 36524 ELSE 0) /\ i = InCentury(e)
  OBVIOUS
<1>4. /\ c \in 0 .. 3 /\ i \in Nat /\ i < 36525
      /\ c = 0 => i = e
      /\ c # 0 => (i <= 364 /\ e = 36524 * c + i + 1) \/ (i >= 366 /\ e = 36524 * c + i)
  BY <1>2, <1>3, EraIs
<1>5. PICK f, r : f = i \div 1461 /\ r = i % 1461
  OBVIOUS
<1>6. f \in 0 .. 24 /\ r \in Nat /\ r < 1461 /\ i = 1461 * f + r
  BY <1>4, <1>5
<1>7. PICK k, n : k = YearsIn(r) /\ n = RestOfYear(r)
  OBVIOUS
<1>8. k \in 0 .. 3 /\ n \in Nat /\ n <= 365 /\ r = 365 * k + (IF k = 0 THEN 0 ELSE 1) + n
  BY <1>6, <1>7, FourYears
<1>9. PICK y : y = 1600 + 400 * q + 100 * c + 4 * f + k
  OBVIOUS
<1>10. GregorianOf(days) = GregorianMonth(y, n)
  <2>1. YearOf(days) = 1600 + 400 * q + (IF e > 36524 THEN 100 * ((e - 1) \div 36524) ELSE 0)
                         + 4 * f + k
    BY <1>1, <1>3, <1>5, <1>7 DEF YearOf
  <2>2. (IF e > 36524 THEN 100 * ((e - 1) \div 36524) ELSE 0) = 100 * c
    BY <1>3
  <2>3. YearOf(days) = y
    BY <1>9, <2>1, <2>2
  <2> QED  BY <1>1, <1>3, <1>5, <1>7, <2>3 DEF GregorianOf
<1>11. y \in Int /\ n \in Nat
  BY <1>2, <1>4, <1>6, <1>8, <1>9
<1>12. DaysBeforeYear(y) = 584022 + 146097 * q + 36524 * c + 1461 * f + 365 * k
                             + (IF k = 0 THEN 0 ELSE 1)
                             + (IF c # 0 /\ f = 0 /\ k = 0 THEN 1 ELSE 0)
  BY <1>2, <1>4, <1>6, <1>8, <1>9, DaysBeforeYearIs
<1>13. DaysBeforeYear(y) + n + 1 = days + 584023
  <2>1. CASE c = 0
    BY <1>2, <1>4, <1>6, <1>8, <1>12, <2>1
  <2>2. CASE c # 0 /\ f = 0 /\ k = 0
    <3>1. i <= 365
      BY <1>6, <1>8, <2>2
    <3> QED  BY <1>2, <1>4, <1>6, <1>8, <1>12, <2>2, <3>1
  <2>3. CASE c # 0 /\ ~(f = 0 /\ k = 0)
    <3>1. i >= 366
      BY <1>6, <1>8, <2>3
    <3> QED  BY <1>2, <1>4, <1>6, <1>8, <1>12, <2>3, <3>1
  <2> QED  BY <2>1, <2>2, <2>3
<1>14. PICK m \in 1 .. 12, d \in Int :
         /\ GregorianMonth(y, n) = <<y, m, d>>
         /\ DayNumber(<<y, m, d>>) = DaysBeforeYear(y) + n + 1
  BY <1>11, MonthIs
<1>15. Follows(days, y, m, d)
  BY <1>10, <1>13, <1>14 DEF Follows, DayZero
<1> QED  BY <1>11, <1>15

\* gregorian_to_jalali counts the days, but one too few for a year after each
\* 29 February.
DaysLost(date) == IF InLeapTail(date) THEN 1 ELSE 0

LEMMA LeapIs ==
  ASSUME NEW y \in Int
  PROVE  (IF IsGregorianLeap(y) THEN 1 ELSE 0)
           = (y \div 4 - (y - 1) \div 4) - (y \div 100 - (y - 1) \div 100)
               + (y \div 400 - (y - 1) \div 400)
<1>1. PICK a, b, c, a1, b1, c1 :
        /\ a = y \div 4 /\ b = y \div 100 /\ c = y \div 400
        /\ a1 = (y - 1) \div 4 /\ b1 = (y - 1) \div 100 /\ c1 = (y - 1) \div 400
  OBVIOUS
<1>2. /\ a \in Int /\ b \in Int /\ c \in Int
      /\ a1 \in Int /\ b1 \in Int /\ c1 \in Int
  BY <1>1
<1>3. a - a1 = IF y % 4 = 0 THEN 1 ELSE 0
  BY <1>1
<1>4. b - b1 = IF y % 100 = 0 THEN 1 ELSE 0
  BY <1>1
<1>5. c - c1 = IF y % 400 = 0 THEN 1 ELSE 0
  BY <1>1
<1>6. (y % 100 = 0 => y % 4 = 0) /\ (y % 400 = 0 => y % 100 = 0)
  OBVIOUS
<1>7. (IF IsGregorianLeap(y) THEN 1 ELSE 0) = (a - a1) - (b - b1) + (c - c1)
  BY <1>2, <1>3, <1>4, <1>5, <1>6 DEF IsGregorianLeap
<1> QED  BY <1>1, <1>7

LEMMA SinceIs ==
  ASSUME NEW y \in Int, NEW m \in 1 .. 12, NEW d \in Int
  PROVE  DaysSince1600(<<y, m, d>>) = DayNumber(<<y, m, d>>) - 584102 - DaysLost(<<y, m, d>>)
<1>1. PICK b : b = DaysBeforeMonth[m]
  OBVIOUS
<1>2. b \in Int
  <2>1. DaysBeforeMonth[m] \in Nat
    BY DaysBeforeType
  <2> QED  BY <1>1, <2>1
<1> DEFINE Since(x) == (x - 1597) \div 4 - (x - 1501) \div 100 + (x - 1201) \div 400
           Before(x) == x \div 4 - x \div 100 + x \div 400
<1>3. ASSUME NEW x \in Int PROVE Since(x) = Before(x - 1) - 387 /\ Before(x) \in Int
  <2>1. (x - 1597) \div 4 = (x - 1) \div 4 - 399
    OBVIOUS
  <2>2. (x - 1501) \div 100 = (x - 1) \div 100 - 15
    OBVIOUS
  <2>3. (x - 1201) \div 400 = (x - 1) \div 400 - 3
    OBVIOUS
  <2> QED  BY <2>1, <2>2, <2>3
<1>4. DayNumber(<<y, m, d>>)
        = 365 * (y - 1) + Before(y - 1) + b + (IF m > 2 /\ IsGregorianLeap(y) THEN 1 ELSE 0) + d
  <2>1. PICK u, v, w : u = (y - 1) \div 4 /\ v = (y - 1) \div 100 /\ w = (y - 1) \div 400
    OBVIOUS
  <2>2. u \in Int /\ v \in Int /\ w \in Int
    BY <2>1
  <2>3. DayNumber(<<y, m, d>>)
          = 365 * (y - 1) + u - v + w + b + (IF m > 2 /\ IsGregorianLeap(y) THEN 1 ELSE 0) + d
    BY <1>1, <2>1, DayNumberIs
  <2> QED  BY <1>2, <2>1, <2>2, <2>3
<1>5. CASE m > 2
  <2>1. DaysSince1600(<<y, m, d>>) = 365 * (y - 1600) + Since(y) - 80 + d + b
    <3>1. PICK z : z = y - 1600
      OBVIOUS
    <3>2. DaysSince1600(<<y, m, d>>)
            = 365 * z + (z + 3) \div 4 - (z + 99) \div 100 + (z + 399) \div 400 - 80 + d + b
      BY <1>1, <1>5, <3>1 DEF DaysSince1600
    <3>3. z + 3 = y - 1597 /\ z + 99 = y - 1501 /\ z + 399 = y - 1201
      BY <3>1
    <3> QED  BY <1>2, <3>1, <3>2, <3>3
  <2>2. DaysLost(<<y, m, d>>) = IF IsGregorianLeap(y) THEN 1 ELSE 0
    BY <1>5 DEF DaysLost, InLeapTail
  <2>3. Since(y) = Before(y - 1) - 387 /\ Before(y - 1) \in Int
    BY <1>3
  <2> HIDE DEF Since, Before
  <2> QED  BY <1>2, <1>4, <1>5, <2>1, <2>2, <2>3
<1>6. CASE ~(m > 2)
  <2>1. DaysSince1600(<<y, m, d>>) = 365 * (y - 1600) + Since(y - 1) - 80 + d + b
    <3>1. PICK z : z = y - 1601
      OBVIOUS
    <3>2. DaysSince1600(<<y, m, d>>)
            = 365 * (y - 1600) + (z + 3) \div 4 - (z + 99) \div 100 + (z + 399) \div 400
                - 80 + d + b
      BY <1>1, <1>6, <3>1 DEF DaysSince1600
    <3>3. z + 3 = (y - 1) - 1597 /\ z + 99 = (y - 1) - 1501 /\ z + 399 = (y - 1) - 1201
      BY <3>1
    <3> QED  BY <1>2, <3>1, <3>2, <3>3
  <2>2. DaysLost(<<y, m, d>>) = IF IsGregorianLeap(y - 1) THEN 1 ELSE 0
    BY <1>6 DEF DaysLost, InLeapTail
  <2>3. Since(y - 1) = Before(y - 2) - 387 /\ Before(y - 2) \in Int /\ Before(y - 1) \in Int
    <3>1. y - 1 \in Int /\ y - 2 \in Int /\ (y - 1) - 1 = y - 2
      OBVIOUS
    <3> HIDE DEF Since, Before
    <3> QED  BY <1>3, <3>1
  <2>4. (IF IsGregorianLeap(y - 1) THEN 1 ELSE 0) = Before(y - 1) - Before(y - 2)
    <3>1. PICK x : x = y - 1
      OBVIOUS
    <3>2. x \in Int /\ x - 1 = y - 2
      BY <3>1
    <3>3. (IF IsGregorianLeap(x) THEN 1 ELSE 0)
            = (x \div 4 - (x - 1) \div 4) - (x \div 100 - (x - 1) \div 100)
                + (x \div 400 - (x - 1) \div 400)
      BY <3>2, LeapIs
    <3>4. (IF IsGregorianLeap(x) THEN 1 ELSE 0) = Before(x) - Before(x - 1)
      BY <3>2, <3>3
    <3> QED  BY <3>1, <3>2, <3>4
  <2> HIDE DEF Since, Before
  <2> QED  BY <1>2, <1>4, <1>6, <2>1, <2>2, <2>3, <2>4
<1> QED  BY <1>5, <1>6

\* The Jalali calendar: the days before a year of it and of a date in its year,
\* and the date of gregorian_to_jalali for a number of days.
DaysBeforeJalali(jy) == 365 * jy + (jy \div 33) * 8 + ((jy % 33) + 3) \div 4

DayOfYear(m, d) == (IF m < 7 THEN (m - 1) * 31 ELSE (m - 7) * 30 + 186) + d - 1

JalaliOf(days) ==
  LET n == RestOfYear((days % 12053) % 1461)
  IN <<979 + 33 * (days \div 12053) + 4 * ((days % 12053) \div 1461)
         + YearsIn((days % 12053) % 1461),
       JalaliMonth(n), JalaliDay(n)>>

\* The years that the conversion makes 366 days long.
LongYear(y) == ((y - 979) % 33) % 4 = 0 /\ (y - 979) % 33 # 32

LEMMA FromGregorian ==
  ASSUME NEW date
  PROVE  GregorianToJalali(date) = JalaliOf(DaysSince1600(date))
BY DEF GregorianToJalali, JalaliOf

LEMMA JalaliDaysAre ==
  ASSUME NEW y \in Int, NEW m \in 1 .. 12, NEW d \in Int
  PROVE  /\ DaysBeforeJalali(y - 979) \in Int /\ DayOfYear(m, d) \in Int
         /\ JalaliDays(<<y, m, d>>) = DaysBeforeJalali(y - 979) + 79 + DayOfYear(m, d)
<1>1. PICK j, a : j = y - 979 /\ a = IF m < 7 THEN (m - 1) * 31 ELSE (m - 7) * 30 + 186
  OBVIOUS
<1>2. j \in Int /\ a \in Int
  BY <1>1
<1>3. PICK b, c : b = j \div 33 /\ c = ((j % 33) + 3) \div 4
  OBVIOUS
<1>4. b \in Int /\ c \in Int
  BY <1>2, <1>3
<1>5. JalaliDays(<<y, m, d>>) = 365 * j + b * 8 + c + 78 + d + a
  BY <1>1, <1>3 DEF JalaliDays
<1>6. DaysBeforeJalali(j) = 365 * j + b * 8 + c /\ DayOfYear(m, d) = a + d - 1
  BY <1>1, <1>3 DEF DaysBeforeJalali, DayOfYear
<1> QED  BY <1>1, <1>2, <1>4, <1>5, <1>6

\* 33 years are eight times four years that begin with a long one, and a common
\* one.
InPlace(j, q, f, k) ==
  DaysBeforeJalali(j) = 12053 * q + 1461 * f + 365 * k + (IF k = 0 THEN 0 ELSE 1)

LEMMA PlaceInCycle ==
  ASSUME NEW q \in Int, NEW f \in 0 .. 8, NEW k \in 0 .. 3, f = 8 => k = 0,
         NEW j, j = 33 * q + 4 * f + k
  PROVE  InPlace(j, q, f, k)
<1>1. j \in Int /\ j \div 33 = q /\ j % 33 = 4 * f + k
  OBVIOUS
<1>2. ((j % 33) + 3) \div 4 = f + (IF k = 0 THEN 0 ELSE 1)
  BY <1>1
<1>3. DaysBeforeJalali(j) = 365 * j + q * 8 + f + (IF k = 0 THEN 0 ELSE 1)
  BY <1>1, <1>2 DEF DaysBeforeJalali
<1> QED  BY <1>1, <1>3 DEF InPlace

\* A day of the year has a month and a day of the month, and back.
LEMMA JalaliMonthIs ==
  ASSUME NEW n \in Nat, n <= 365
  PROVE  /\ JalaliMonth(n) \in 1 .. 12 /\ JalaliDay(n) \in 1 .. 31
         /\ DayOfYear(JalaliMonth(n), JalaliDay(n)) = n
<1>1. CASE n < 186
  <2>1. PICK a, b : a = n \div 31 /\ b = n % 31
    OBVIOUS
  <2>2. a \in 0 .. 5 /\ b \in 0 .. 30 /\ n = 31 * a + b
    BY <1>1, <2>1
  <2>3. JalaliMonth(n) = 1 + a /\ JalaliDay(n) = 1 + b
    BY <1>1, <2>1 DEF JalaliMonth, JalaliDay
  <2> QED  BY <2>2, <2>3 DEF DayOfYear
<1>2. CASE n >= 186
  <2>1. PICK a, b : a = (n - 186) \div 30 /\ b = (n - 186) % 30
    OBVIOUS
  <2>2. a \in 0 .. 5 /\ b \in 0 .. 29 /\ n = 186 + 30 * a + b
    BY <1>2, <2>1
  <2>3. JalaliMonth(n) = 7 + a /\ JalaliDay(n) = 1 + b
    BY <1>2, <2>1 DEF JalaliMonth, JalaliDay
  <2> QED  BY <2>2, <2>3 DEF DayOfYear
<1> QED  BY <1>1, <1>2

LEMMA DayOfYearIs ==
  ASSUME NEW m \in 1 .. 12, NEW d \in 1 .. 31, m > 6 => d <= 30
  PROVE  /\ DayOfYear(m, d) \in Nat /\ DayOfYear(m, d) <= 365
         /\ m = 12 /\ d = 30 <=> DayOfYear(m, d) = 365
         /\ JalaliMonth(DayOfYear(m, d)) = m /\ JalaliDay(DayOfYear(m, d)) = d
<1>1. PICK n : n = DayOfYear(m, d)
  OBVIOUS
<1>2. CASE m < 7
  <2>1. n = 31 * (m - 1) + (d - 1)
    BY <1>1, <1>2 DEF DayOfYear
  <2>2. n \in Nat /\ n < 186 /\ n \div 31 = m - 1 /\ n % 31 = d - 1
    BY <1>2, <2>1
  <2> QED  BY <1>1, <1>2, <2>2 DEF JalaliMonth, JalaliDay
<1>3. CASE m >= 7
  <2>1. n = 186 + 30 * (m - 7) + (d - 1)
    BY <1>1, <1>3 DEF DayOfYear
  <2>2. /\ n \in Nat /\ n >= 186 /\ n <= 365 /\ (m = 12 /\ d = 30 <=> n = 365)
        /\ (n - 186) \div 30 = m - 7 /\ (n - 186) % 30 = d - 1
    BY <1>3, <2>1
  <2> QED  BY <1>1, <1>3, <2>2 DEF JalaliMonth, JalaliDay
<1> QED  BY <1>2, <1>3

\* gregorian_to_jalali gives the date of the day it counts.
LEMMA JalaliFollows ==
  ASSUME NEW days \in Int
  PROVE  \E y \in Int, m \in 1 .. 12, d \in 1 .. 31 :
           JalaliOf(days) = <<y, m, d>> /\ JalaliDays(<<y, m, d>>) = days + 79
<1>1. PICK q, e : q = days \div 12053 /\ e = days % 12053
  OBVIOUS
<1>2. q \in Int /\ e \in Nat /\ e < 12053 /\ days = 12053 * q + e
  BY <1>1
<1>3. PICK f, r : f = e \div 1461 /\ r = e % 1461
  OBVIOUS
<1>4. f \in 0 .. 8 /\ r \in Nat /\ r < 1461 /\ e = 1461 * f + r
  BY <1>2, <1>3
<1>5. PICK k, n : k = YearsIn(r) /\ n = RestOfYear(r)
  OBVIOUS
<1>6. /\ k \in 0 .. 3 /\ n \in Nat /\ n <= 365
      /\ r = 365 * k + (IF k = 0 THEN 0 ELSE 1) + n
  BY <1>4, <1>5, FourYears
<1>7. f = 8 => k = 0
  BY <1>2, <1>4, <1>6
<1>8. PICK y, j, m, d : j = 33 * q + 4 * f + k /\ y = 979 + j
                        /\ m = JalaliMonth(n) /\ d = JalaliDay(n)
  OBVIOUS
<1>9. y \in Int /\ j \in Int /\ j = y - 979
  BY <1>2, <1>4, <1>6, <1>8
<1>10. m \in 1 .. 12 /\ d \in 1 .. 31 /\ DayOfYear(m, d) = n
  BY <1>6, <1>8, JalaliMonthIs
<1>11. JalaliOf(days) = <<y, m, d>>
  <2>1. JalaliOf(days) = <<979 + 33 * q + 4 * f + k, m, d>>
    BY <1>1, <1>3, <1>5, <1>8 DEF JalaliOf
  <2>2. 979 + 33 * q + 4 * f + k = y
    BY <1>2, <1>4, <1>6, <1>8
  <2> QED  BY <2>1, <2>2
<1>12. InPlace(j, q, f, k)
  <2>1. q \in Int /\ f \in 0 .. 8 /\ k \in 0 .. 3 /\ j = 33 * q + 4 * f + k
    BY <1>2, <1>4, <1>6, <1>8
  <2> QED  BY <1>7, <2>1, PlaceInCycle
<1>13. JalaliDays(<<y, m, d>>) = DaysBeforeJalali(j) + 79 + n
  <2>1. d \in Int
    BY <1>10
  <2>2. JalaliDays(<<y, m, d>>) = DaysBeforeJalali(y - 979) + 79 + DayOfYear(m, d)
    BY <1>9, <1>10, <2>1, JalaliDaysAre
  <2> QED  BY <1>9, <1>10, <2>2
<1>14. JalaliDays(<<y, m, d>>) = days + 79
  BY <1>2, <1>4, <1>6, <1>12, <1>13 DEF InPlace
<1> QED  BY <1>9, <1>10, <1>11, <1>14

\* Every year has its place in the 33 years.
IsPlace(y, q, f, k) ==
  /\ y - 979 = 33 * q + 4 * f + k /\ (f = 8 => k = 0)
  /\ LongYear(y) <=> k = 0 /\ f # 8

LEMMA InCycle ==
  ASSUME NEW y \in Int
  PROVE  \E q \in Int, f \in 0 .. 8, k \in 0 .. 3 : IsPlace(y, q, f, k)
<1>1. PICK j, q, r : j = y - 979 /\ q = j \div 33 /\ r = j % 33
  OBVIOUS
<1>2. q \in Int /\ r \in 0 .. 32 /\ j = 33 * q + r
  BY <1>1
<1>3. PICK f, k : f = r \div 4 /\ k = r % 4
  OBVIOUS
<1>4. f \in 0 .. 8 /\ k \in 0 .. 3 /\ r = 4 * f + k /\ (f = 8 => k = 0)
  BY <1>2, <1>3
<1>5. y - 979 = 33 * q + 4 * f + k
  BY <1>1, <1>2, <1>4
<1>6. LongYear(y) <=> k = 0 /\ r # 32
  BY <1>1, <1>3 DEF LongYear
<1>7. r # 32 <=> ~(f = 8 /\ k = 0)
  BY <1>4
<1>8. IsPlace(y, q, f, k)
  BY <1>4, <1>5, <1>6, <1>7 DEF IsPlace
<1> QED  BY <1>2, <1>4, <1>8

\* A year has 366 days when it is long, and else 365.
LEMMA NextYear ==
  ASSUME NEW y \in Int
  PROVE  DaysBeforeJalali(y + 1 - 979)
           = DaysBeforeJalali(y - 979) + (IF LongYear(y) THEN 366 ELSE 365)
<1>1. PICK q \in Int, f \in 0 .. 8, k \in 0 .. 3 :
        /\ y - 979 = 33 * q + 4 * f + k /\ (f = 8 => k = 0)
        /\ LongYear(y) <=> k = 0 /\ f # 8
  BY InCycle DEF IsPlace
<1>2. PICK j : j = y - 979
  OBVIOUS
<1>3. j \in Int /\ j = 33 * q + 4 * f + k /\ y + 1 - 979 = j + 1
  BY <1>1, <1>2
<1>4. InPlace(j, q, f, k)
  <2>1. j = 33 * q + 4 * f + k /\ (f = 8 => k = 0)
    BY <1>1, <1>3
  <2> QED  BY <2>1, PlaceInCycle
<1>5. CASE k < 3 /\ f # 8
  <2>1. PICK k1 : k1 = k + 1
    OBVIOUS
  <2>2. k1 \in 0 .. 3 /\ j + 1 = 33 * q + 4 * f + k1 /\ (f = 8 => k1 = 0)
    BY <1>3, <1>5, <2>1
  <2>3. InPlace(j + 1, q, f, k1)
    BY <2>2, PlaceInCycle
  <2> QED  BY <1>1, <1>2, <1>3, <1>4, <1>5, <2>1, <2>3 DEF InPlace
<1>6. CASE k = 3
  <2>1. PICK f1 : f1 = f + 1
    OBVIOUS
  <2>2. f1 \in 0 .. 8 /\ j + 1 = 33 * q + 4 * f1 + 0
    BY <1>1, <1>3, <1>6, <2>1
  <2>3. InPlace(j + 1, q, f1, 0)
    <3>1. 0 \in 0 .. 3 /\ (f1 = 8 => 0 = 0)
      OBVIOUS
    <3> QED  BY <2>2, <3>1, PlaceInCycle
  <2> QED  BY <1>1, <1>2, <1>3, <1>4, <1>6, <2>1, <2>3 DEF InPlace
<1>7. CASE f = 8
  <2>1. PICK q1 : q1 = q + 1
    OBVIOUS
  <2>2. q1 \in Int /\ j + 1 = 33 * q1 + 4 * 0 + 0
    BY <1>1, <1>3, <1>7, <2>1
  <2>3. InPlace(j + 1, q1, 0, 0)
    <3>1. 0 \in 0 .. 3 /\ 0 \in 0 .. 8 /\ (0 = 8 => 0 = 0)
      OBVIOUS
    <3> QED  BY <2>2, <3>1, PlaceInCycle
  <2> QED  BY <1>1, <1>2, <1>3, <1>4, <1>7, <2>1, <2>3 DEF InPlace
<1> QED  BY <1>5, <1>6, <1>7

\* A date in a year that has it is the date of its day.
LEMMA JalaliAgain ==
  ASSUME NEW y \in Int, NEW m \in 1 .. 12, NEW d \in 1 .. 31, m > 6 => d <= 30,
         (m = 12 /\ d = 30) => LongYear(y)
  PROVE  JalaliOf(JalaliDays(<<y, m, d>>) - 79) = <<y, m, d>>
<1>1. PICK q \in Int, f \in 0 .. 8, k \in 0 .. 3 :
        /\ y - 979 = 33 * q + 4 * f + k /\ (f = 8 => k = 0)
        /\ LongYear(y) <=> k = 0 /\ f # 8
  BY InCycle DEF IsPlace
<1>2. PICK j, n, days : j = y - 979 /\ n = DayOfYear(m, d)
                        /\ days = JalaliDays(<<y, m, d>>) - 79
  OBVIOUS
<1>3. n \in Nat /\ n <= 365 /\ (n = 365 => k = 0 /\ f # 8)
      /\ JalaliMonth(n) = m /\ JalaliDay(n) = d
  <2>1. /\ DayOfYear(m, d) \in Nat /\ DayOfYear(m, d) <= 365
        /\ m = 12 /\ d = 30 <=> DayOfYear(m, d) = 365
        /\ JalaliMonth(DayOfYear(m, d)) = m /\ JalaliDay(DayOfYear(m, d)) = d
    BY DayOfYearIs
  <2> QED  BY <1>1, <1>2, <2>1
<1>4. InPlace(j, q, f, k)
  <2>1. j = 33 * q + 4 * f + k /\ (f = 8 => k = 0)
    BY <1>1, <1>2
  <2> QED  BY <2>1, PlaceInCycle
<1>5. JalaliDays(<<y, m, d>>) = DaysBeforeJalali(j) + 79 + n
  <2>1. d \in Int
    OBVIOUS
  <2>2. JalaliDays(<<y, m, d>>) = DaysBeforeJalali(y - 979) + 79 + DayOfYear(m, d)
    BY <2>1, JalaliDaysAre
  <2> QED  BY <1>2, <2>2
<1>6. PICK r, e : r = 365 * k + (IF k = 0 THEN 0 ELSE 1) + n /\ e = 1461 * f + r
  OBVIOUS
<1>7. r \in Nat /\ r < 1461 /\ e \in Nat /\ e < 12053
  BY <1>1, <1>3, <1>6
<1>8. days = 12053 * q + e
  BY <1>2, <1>3, <1>4, <1>5, <1>6 DEF InPlace
<1>9. days \div 12053 = q /\ days % 12053 = e
  BY <1>7, <1>8
<1>10. e \div 1461 = f /\ e % 1461 = r
  BY <1>6, <1>7
<1>11. YearsIn(r) = k /\ RestOfYear(r) = n
  <2>1. CASE k = 0
    BY <1>3, <1>6, <2>1 DEF YearsIn, RestOfYear
  <2>2. CASE k # 0
    <3>1. r - 1 = 365 * k + n /\ n < 365 /\ r > 365
      BY <1>3, <1>6, <2>2
    <3>2. (r - 1) \div 365 = k /\ (r - 1) % 365 = n
      BY <1>3, <1>7, <3>1
    <3> QED  BY <3>1, <3>2 DEF YearsIn, RestOfYear
  <2> QED  BY <2>1, <2>2
<1>12. JalaliOf(days) = <<979 + 33 * q + 4 * f + k, m, d>>
  BY <1>3, <1>9, <1>10, <1>11 DEF JalaliOf
<1>13. 979 + 33 * q + 4 * f + k = y
  BY <1>1
<1> QED  BY <1>2, <1>12, <1>13

\* A Jalali date after the year 979 has a day, and jalali_to_gregorian its date.
IsDated(date) ==
  /\ JalaliDays(date) \in Nat /\ JalaliDays(date) >= 79
  /\ DayNumber(JalaliToGregorian(date)) = JalaliDays(date) + DayZero
  /\ GregorianToJalali(JalaliToGregorian(date))
       = JalaliOf(JalaliDays(date) - 79 - DaysLost(JalaliToGregorian(date)))

LEMMA JalaliDateIs ==
  ASSUME NEW y \in Int, y > 979, NEW m \in 1 .. 12, NEW d \in 1 .. 31
  PROVE  IsDated(<<y, m, d>>)
<1>1. PICK N : N = JalaliDays(<<y, m, d>>)
  OBVIOUS
<1>2. N \in Nat /\ N >= 79
  <2>1. PICK j, a, b : j = y - 979 /\ a = DaysBeforeJalali(j) /\ b = DayOfYear(m, d)
    OBVIOUS
  <2>2. j \in Nat /\ j \div 33 >= 0 /\ ((j % 33) + 3) \div 4 >= 0
    BY <2>1
  <2>3. a \in Int /\ a >= 0
    BY <2>1, <2>2 DEF DaysBeforeJalali
  <2>4. b \in Int /\ b >= 0
    BY <2>1 DEF DayOfYear
  <2>5. d \in Int
    OBVIOUS
  <2>6. JalaliDays(<<y, m, d>>) = DaysBeforeJalali(y - 979) + 79 + DayOfYear(m, d)
    BY <2>5, JalaliDaysAre
  <2> QED  BY <1>1, <2>1, <2>3, <2>4, <2>6
<1>3. PICK gy \in Int, gm \in 1 .. 12, gd \in Int : Follows(N, gy, gm, gd)
  BY <1>2, GregorianFollows
<1>4. PICK g, n : g = <<gy, gm, gd>> /\ n = DayNumber(g)
  OBVIOUS
<1>5. JalaliToGregorian(<<y, m, d>>) = g /\ n = N + DayZero
  BY <1>1, <1>3, <1>4, ToGregorian DEF Follows
<1>6. DaysSince1600(g) = n - 584102 - DaysLost(g)
  <2>1. DaysSince1600(<<gy, gm, gd>>)
          = DayNumber(<<gy, gm, gd>>) - 584102 - DaysLost(<<gy, gm, gd>>)
    BY SinceIs
  <2> QED  BY <1>4, <2>1
<1>7. DaysSince1600(g) = N - 79 - DaysLost(g)
  BY <1>2, <1>5, <1>6 DEF DaysLost, DayZero
<1>8. GregorianToJalali(g) = JalaliOf(N - 79 - DaysLost(g))
  BY <1>7, FromGregorian
<1>9. DayNumber(JalaliToGregorian(<<y, m, d>>)) = JalaliDays(<<y, m, d>>) + DayZero
  BY <1>1, <1>2, <1>4, <1>5
<1>10. GregorianToJalali(JalaliToGregorian(<<y, m, d>>))
         = JalaliOf(JalaliDays(<<y, m, d>>) - 79 - DaysLost(JalaliToGregorian(<<y, m, d>>)))
  BY <1>1, <1>5, <1>8
<1>11. JalaliDays(<<y, m, d>>) \in Nat /\ JalaliDays(<<y, m, d>>) >= 79
  BY <1>1, <1>2
<1> QED  BY <1>9, <1>10, <1>11 DEF IsDated

\* is_jalali_leap_year is right about the long years, but takes one for a common
\* year when its 30 Esfand is in the year after a 29 February.
THEOREM JalaliLeapIs ==
  ASSUME NEW y \in Int, y > 979
  PROVE  IsJalaliLeap(y)
           <=> LongYear(y) /\ ~InLeapTail(JalaliToGregorian(<<y, 12, 30>>))
<1>1. PICK date, N, g : date = <<y, 12, 30>> /\ N = JalaliDays(date)
                        /\ g = JalaliToGregorian(date)
  OBVIOUS
<1>2. 12 \in 1 .. 12 /\ 30 \in 1 .. 31 /\ 1 \in 1 .. 12 /\ 1 \in 1 .. 31 /\ 30 \in Int
      /\ 1 \in Int /\ y + 1 \in Int /\ y + 1 > 979
  OBVIOUS
<1>3. /\ N \in Nat /\ N >= 79
      /\ GregorianToJalali(g) = JalaliOf(N - 79 - DaysLost(g))
  <2>1. IsDated(<<y, 12, 30>>)
    BY <1>2, JalaliDateIs
  <2>2. IsDated(date)
    BY <1>1, <2>1
  <2> QED  BY <1>1, <2>2 DEF IsDated
<1>4. CASE InLeapTail(g)
  <2>1. N - 80 \in Int /\ (N - 80) + 79 = N - 1 /\ N # N - 1
    BY <1>3
  <2>2. PICK y1 \in Int, m1 \in 1 .. 12, d1 \in 1 .. 31 :
          JalaliOf(N - 80) = <<y1, m1, d1>> /\ JalaliDays(<<y1, m1, d1>>) = (N - 80) + 79
    BY <2>1, JalaliFollows
  <2>3. GregorianToJalali(g) = JalaliOf(N - 80)
    <3>1. N - 79 - DaysLost(g) = N - 80
      BY <1>3, <1>4 DEF DaysLost
    <3> QED  BY <1>3, <3>1
  <2>4. GregorianToJalali(g) # date
    BY <1>1, <2>1, <2>2, <2>3
  <2> QED  BY <1>1, <1>4, <2>4 DEF IsJalaliLeap
<1>5. CASE ~InLeapTail(g)
  <2>1. GregorianToJalali(g) = JalaliOf(N - 79)
    <3>1. N - 79 - DaysLost(g) = N - 79
      BY <1>3, <1>5 DEF DaysLost
    <3> QED  BY <1>3, <3>1
  <2>2. CASE LongYear(y)
    <3>1. JalaliOf(N - 79) = date
      <4>1. JalaliOf(JalaliDays(<<y, 12, 30>>) - 79) = <<y, 12, 30>>
        <5>1. (12 > 6 => 30 <= 30) /\ ((12 = 12 /\ 30 = 30) => LongYear(y))
          BY <2>2
        <5> QED  BY <1>2, <5>1, JalaliAgain
      <4> QED  BY <1>1, <4>1
    <3> QED  BY <1>1, <1>5, <2>1, <2>2, <3>1 DEF IsJalaliLeap
  <2>3. CASE ~LongYear(y)
    <3>1. JalaliDays(<<y + 1, 1, 1>>) = N
      <4>1. PICK a, b : a = DaysBeforeJalali(y - 979) /\ b = DaysBeforeJalali(y + 1 - 979)
        OBVIOUS
      <4>2. a \in Int /\ N = a + 79 + DayOfYear(12, 30)
        BY <1>1, <1>2, <4>1, JalaliDaysAre
      <4>3. JalaliDays(<<y + 1, 1, 1>>) = b + 79 + DayOfYear(1, 1)
        BY <1>2, <4>1, JalaliDaysAre
      <4>4. b = a + 365
        BY <2>3, <4>1, NextYear
      <4> QED  BY <4>2, <4>3, <4>4 DEF DayOfYear
    <3>2. JalaliOf(N - 79) = <<y + 1, 1, 1>>
      <4>1. JalaliOf(JalaliDays(<<y + 1, 1, 1>>) - 79) = <<y + 1, 1, 1>>
        <5>1. (1 > 6 => 1 <= 30) /\ ~(1 = 12 /\ 1 = 30)
          OBVIOUS
        <5> QED  BY <1>2, <5>1, JalaliAgain
      <4> QED  BY <3>1, <4>1
    <3>3. <<y + 1, 1, 1>> # date
      BY <1>1
    <3> QED  BY <1>1, <1>5, <2>1, <2>3, <3>2, <3>3 DEF IsJalaliLeap
  <2> QED  BY <2>2, <2>3
<1> QED  BY <1>1, <1>2, <1>4, <1>5

\* What DaysInMonth says of a month that is looked at.
LEMMA MonthFacts ==
  ASSUME case \in Months
  PROVE  /\ case.kind = "month" /\ case.year \in Int /\ case.year > 979
         /\ case.month \in 1 .. 12
         /\ DaysInMonth(case.year, case.month) \in 29 .. 31
         /\ case.month > 6 => DaysInMonth(case.year, case.month) <= 30
         /\ case.month = 12 =>
              DaysInMonth(case.year, case.month) = IF IsJalaliLeap(case.year) THEN 30 ELSE 29
         /\ \A date \in Dates : \E d \in 1 .. 31 :
              /\ date = <<case.year, case.month, d>>
              /\ d <= DaysInMonth(case.year, case.month)
<1>1. /\ case.kind = "month" /\ case.year \in Int /\ case.year > 979
      /\ case.month \in 1 .. 12
  BY YearsAssumption DEF Months
<1>2. PICK n : n = DaysInMonth(case.year, case.month)
  OBVIOUS
<1>3. /\ n \in 29 .. 31 /\ (case.month > 6 => n <= 30)
      /\ case.month = 12 => n = IF IsJalaliLeap(case.year) THEN 30 ELSE 29
  BY <1>1, <1>2 DEF DaysInMonth
<1>4. \A date \in Dates : \E d \in 1 .. 31 : date = <<case.year, case.month, d>> /\ d <= n
  BY <1>2, <1>3 DEF Dates
<1> QED  BY <1>1, <1>2, <1>3, <1>4

\* gregorian_to_jalali takes back what jalali_to_gregorian gives or, for a year
\* after each 29 February, gives the day before, whatever the years looked at.
THEOREM DatesComeBack ==
  ASSUME case \in Months
  PROVE  DatesConvertBack
<1>1. /\ case.year \in Int /\ case.year > 979 /\ case.month \in 1 .. 12
      /\ case.month > 6 => DaysInMonth(case.year, case.month) <= 30
      /\ case.month = 12 =>
           DaysInMonth(case.year, case.month) = IF IsJalaliLeap(case.year) THEN 30 ELSE 29
      /\ DaysInMonth(case.year, case.month) \in 29 .. 31
  BY MonthFacts
<1>2. ASSUME NEW date \in Dates, NEW g, g = JalaliToGregorian(date),
             NEW back, back = GregorianToJalali(g)
      PROVE  IF InLeapTail(g)
               THEN DayNumber(JalaliToGregorian(back)) = DayNumber(g) - 1
               ELSE back = date
  <2>1. PICK d \in 1 .. 31 : /\ date = <<case.year, case.month, d>>
                             /\ d <= DaysInMonth(case.year, case.month)
    BY <1>2, MonthFacts
  <2>2. PICK N : N = JalaliDays(date)
    OBVIOUS
  <2>3. /\ N \in Nat /\ N >= 79 /\ DayNumber(g) = N + DayZero
        /\ back = JalaliOf(N - 79 - DaysLost(g))
    <3>1. IsDated(<<case.year, case.month, d>>)
      BY <1>1, JalaliDateIs
    <3>2. IsDated(date)
      BY <2>1, <3>1
    <3> QED  BY <1>2, <2>2, <3>2 DEF IsDated
  <2>4. CASE InLeapTail(g)
    <3>1. N - 80 \in Int /\ N - 79 - DaysLost(g) = N - 80 /\ (N - 80) + 79 = N - 1 /\ N - 1 \in Nat
      BY <2>3, <2>4 DEF DaysLost
    <3>2. PICK y \in Int, m \in 1 .. 12, e \in 1 .. 31 :
            JalaliOf(N - 80) = <<y, m, e>> /\ JalaliDays(<<y, m, e>>) = (N - 80) + 79
      BY <3>1, JalaliFollows
    <3>3. back = <<y, m, e>> /\ JalaliDays(back) = N - 1
      BY <2>3, <3>1, <3>2
    <3>4. PICK gy \in Int, gm \in 1 .. 12, gd \in Int : Follows(N - 1, gy, gm, gd)
      BY <3>1, GregorianFollows
    <3>5. JalaliToGregorian(back) = GregorianOf(N - 1)
      BY <3>3, ToGregorian
    <3>6. DayNumber(JalaliToGregorian(back)) = (N - 1) + DayZero
      BY <3>4, <3>5 DEF Follows
    <3>7. (N - 1) + DayZero = (N + DayZero) - 1
      BY <2>3 DEF DayZero
    <3> QED  BY <2>3, <2>4, <3>6, <3>7
  <2>5. CASE ~InLeapTail(g)
    <3>1. back = JalaliOf(N - 79)
      <4>1. N - 79 - DaysLost(g) = N - 79
        BY <2>3, <2>5 DEF DaysLost
      <4> QED  BY <2>3, <4>1
    <3>2. (case.month = 12 /\ d = 30) => LongYear(case.year)
      <4>1. SUFFICES ASSUME case.month = 12, d = 30 PROVE LongYear(case.year)
        OBVIOUS
      <4>2. IsJalaliLeap(case.year)
        BY <1>1, <2>1, <4>1
      <4> QED  BY <1>1, <4>2, JalaliLeapIs
    <3>3. case.month > 6 => d <= 30
      BY <1>1, <2>1
    <3>4. JalaliOf(JalaliDays(<<case.year, case.month, d>>) - 79)
            = <<case.year, case.month, d>>
      BY <1>1, <3>2, <3>3, JalaliAgain
    <3> QED  BY <2>1, <2>2, <2>5, <3>1, <3>4
  <2> QED  BY <2>4, <2>5
<1> QED  BY <1>2 DEF DatesConvertBack

\* The days of a Jalali month, and the first of the next, follow its first day.
LEMMA DayInMonth ==
  ASSUME NEW y \in Int, y > 979, NEW m \in 1 .. 12, NEW d \in 1 .. 31
  PROVE  /\ DayNumber(JalaliToGregorian(<<y, m, 1>>)) \in Int
         /\ DayNumber(JalaliToGregorian(<<y, m, d>>))
              = DayNumber(JalaliToGregorian(<<y, m, 1>>)) + d - 1
<1>1. 1 \in 1 .. 31 /\ 1 \in Int /\ d \in Int
  OBVIOUS
<1>2. PICK a, N, M : /\ a = DaysBeforeJalali(y - 979)
                     /\ N = JalaliDays(<<y, m, 1>>) /\ M = JalaliDays(<<y, m, d>>)
  OBVIOUS
<1>3. a \in Int /\ N = a + 79 + DayOfYear(m, 1) /\ M = a + 79 + DayOfYear(m, d)
  BY <1>1, <1>2, JalaliDaysAre
<1>4. N \in Int /\ M = N + d - 1
  BY <1>3 DEF DayOfYear
<1>5. IsDated(<<y, m, 1>>) /\ IsDated(<<y, m, d>>)
  BY <1>1, JalaliDateIs
<1>6. /\ DayNumber(JalaliToGregorian(<<y, m, 1>>)) = N + DayZero
      /\ DayNumber(JalaliToGregorian(<<y, m, d>>)) = M + DayZero
  BY <1>2, <1>5 DEF IsDated
<1>7. N + DayZero \in Int /\ M + DayZero = (N + DayZero) + d - 1
  BY <1>4 DEF DayZero
<1> QED  BY <1>6, <1>7

\* The month m of the year y has n days, and the month m1 of the year y1 is next.
IsNext(y, m, n, y1, m1) ==
  /\ n = IF m <= 6 THEN 31 ELSE IF m <= 11 \/ LongYear(y) THEN 30 ELSE 29
  /\ y1 = IF m = 12 THEN y + 1 ELSE y
  /\ m1 = IF m = 12 THEN 1 ELSE m + 1

StartsAfter(y, m, n, y1, m1) ==
  DayNumber(JalaliToGregorian(<<y1, m1, 1>>)) = DayNumber(JalaliToGregorian(<<y, m, 1>>)) + n

LEMMA NextMonth ==
  ASSUME NEW y \in Int, y > 979, NEW m \in 1 .. 12, NEW n, NEW y1, NEW m1,
         IsNext(y, m, n, y1, m1)
  PROVE  StartsAfter(y, m, n, y1, m1)
<1>1. /\ y1 \in Int /\ y1 > 979 /\ m1 \in 1 .. 12 /\ n \in Int
      /\ 1 \in 1 .. 31 /\ 1 \in Int
  BY DEF IsNext
<1>2. PICK a, b, N, M : /\ a = DaysBeforeJalali(y - 979) /\ b = DaysBeforeJalali(y1 - 979)
                        /\ N = JalaliDays(<<y, m, 1>>) /\ M = JalaliDays(<<y1, m1, 1>>)
  OBVIOUS
<1>3. /\ a \in Int /\ N = a + 79 + DayOfYear(m, 1)
      /\ b \in Int /\ M = b + 79 + DayOfYear(m1, 1)
  BY <1>1, <1>2, JalaliDaysAre
<1>4. b = IF m = 12 THEN a + (IF LongYear(y) THEN 366 ELSE 365) ELSE a
  <2>1. DaysBeforeJalali(y + 1 - 979)
          = DaysBeforeJalali(y - 979) + (IF LongYear(y) THEN 366 ELSE 365)
    BY NextYear
  <2> QED  BY <1>2, <2>1 DEF IsNext
<1>5. N \in Int /\ M = N + n
  BY <1>1, <1>3, <1>4 DEF DayOfYear, IsNext
<1>6. IsDated(<<y, m, 1>>) /\ IsDated(<<y1, m1, 1>>)
  BY <1>1, JalaliDateIs
<1>7. /\ DayNumber(JalaliToGregorian(<<y, m, 1>>)) = N + DayZero
      /\ DayNumber(JalaliToGregorian(<<y1, m1, 1>>)) = M + DayZero
  BY <1>2, <1>6 DEF IsDated
<1>8. M + DayZero = (N + DayZero) + n
  BY <1>1, <1>5 DEF DayZero
<1> QED  BY <1>7, <1>8 DEF StartsAfter

\* The calendar misses no day and shows none twice, in any year after 979: in
\* every month but Esfand, and in an Esfand when is_jalali_leap_year is right.
THEOREM MonthsFollow ==
  ASSUME case \in Months,
         case.month = 12 => (IsJalaliLeap(case.year) <=> LongYear(case.year))
  PROVE  MonthsFollowOneAnother
<1>1. /\ case.year \in Int /\ case.year > 979 /\ case.month \in 1 .. 12
      /\ DaysInMonth(case.year, case.month) \in 29 .. 31
  BY MonthFacts
<1>2. PICK y, m, n, first, y1, m1 :
        /\ y = case.year /\ m = case.month /\ n = DaysInMonth(y, m)
        /\ first = DayNumber(JalaliToGregorian(<<y, m, 1>>))
        /\ y1 = (IF m = 12 THEN y + 1 ELSE y) /\ m1 = (IF m = 12 THEN 1 ELSE m + 1)
  OBVIOUS
<1>3. /\ y \in Int /\ y > 979 /\ m \in 1 .. 12 /\ n \in 29 .. 31
      /\ 1 \in 1 .. 31
  BY <1>1, <1>2
<1>4. FirstOfNext = <<y1, m1, 1>>
  BY <1>2 DEF FirstOfNext
<1>5. ASSUME NEW date \in Dates
      PROVE  DayNumber(JalaliToGregorian(date)) = first + date[3] - 1
  <2>1. PICK d \in 1 .. 31 : date = <<y, m, d>>
    BY <1>2, <1>5, MonthFacts
  <2>2. DayNumber(JalaliToGregorian(<<y, m, d>>))
          = DayNumber(JalaliToGregorian(<<y, m, 1>>)) + d - 1
    BY <1>3, DayInMonth
  <2>3. date[3] = d
    BY <2>1
  <2> QED  BY <1>2, <2>1, <2>2, <2>3
<1>6. first \in Int
  <2>1. DayNumber(JalaliToGregorian(<<y, m, 1>>)) \in Int
    BY <1>3, DayInMonth
  <2> QED  BY <1>2, <2>1
<1>7. DayNumber(JalaliToGregorian(FirstOfNext)) = first + n
  <2>1. n = IF m <= 6 THEN 31 ELSE IF m <= 11 \/ LongYear(y) THEN 30 ELSE 29
    BY <1>2, <1>3 DEF DaysInMonth
  <2>2. StartsAfter(y, m, n, y1, m1)
    <3>1. y1 = (IF m = 12 THEN y + 1 ELSE y) /\ m1 = (IF m = 12 THEN 1 ELSE m + 1)
      BY <1>2
    <3>2. y \in Int /\ y > 979 /\ m \in 1 .. 12
      BY <1>3
    <3>3. IsNext(y, m, n, y1, m1)
      BY <2>1, <3>1 DEF IsNext
    <3> QED  BY <3>2, <3>3, NextMonth
  <2> QED  BY <1>2, <1>4, <2>2 DEF StartsAfter
<1>8. FirstWeekDay(FirstOfNext[1], FirstOfNext[2]) = (FirstWeekDay(y, m) + n) % 7
  <2>1. PICK next : next = first + n
    OBVIOUS
  <2>2. FirstWeekDay(y, m) = (((first + 6) % 7) + 2) % 7
    BY <1>2 DEF FirstWeekDay, WeekDay
  <2>3. FirstWeekDay(FirstOfNext[1], FirstOfNext[2]) = (((next + 6) % 7) + 2) % 7
    <3>1. FirstOfNext[1] = y1 /\ FirstOfNext[2] = m1
      BY <1>4
    <3>2. DayNumber(JalaliToGregorian(<<y1, m1, 1>>)) = next
      BY <1>4, <1>7, <2>1
    <3> QED  BY <3>1, <3>2 DEF FirstWeekDay, WeekDay
  <2>4. (((next + 6) % 7) + 2) % 7 = (((((first + 6) % 7) + 2) % 7) + n) % 7
    <3>1. PICK p : p = first + 6
      OBVIOUS
    <3>2. p \in Int /\ next + 6 = p + n
      BY <1>3, <1>6, <2>1, <3>1
    <3>3. ((p % 7) + 2) % 7 = (p + 2) % 7 /\ (((p + n) % 7) + 2) % 7 = (p + n + 2) % 7
      BY <1>3, <3>2
    <3>4. (((p + 2) % 7) + n) % 7 = (p + n + 2) % 7
      BY <1>3, <3>2
    <3> QED  BY <3>1, <3>2, <3>3, <3>4
  <2> QED  BY <2>2, <2>3, <2>4
<1> QED  BY <1>2, <1>5, <1>7, <1>8 DEF MonthsFollowOneAnother
===============================================================================
