----------------------- MODULE HouseholdBooks_proofs -----------------------
(***************************************************************************)
(* Proofs about HouseholdBooks: what the engine makes of the books is what *)
(* really happened, for any positions, amounts, rates and months, and any  *)
(* number of events.                                                       *)
(*                                                                         *)
(* The figures are sums, and a sum is a fold.  The first part proves what  *)
(* has to be known of sums over finite sets; the second takes the figures  *)
(* apart, position by position; the third shows that the reports of past   *)
(* months stay; the last follows the books through a month.                *)
(***************************************************************************)
EXTENDS HouseholdBooks, FiniteSetTheorems, WellFoundedInduction, TLAPS

----------------------------------------------------------------------------
(* Induction over finite sets *)

\* Of the subsets of a finite set that fail, one is smallest.
LEMMA LeastSet ==
  ASSUME NEW S, IsFiniteSet(S), NEW Bad \in SUBSET SUBSET S, Bad # {}
  PROVE  \E T \in Bad : \A U \in SUBSET T : U # T => U \notin Bad
<1>1. FiniteSubsetsOf(S) = SUBSET S  BY FS_FiniteSubsetsOfFinite
<1>2. IsWellFoundedOn(StrictSubsetOrdering(S), SUBSET S)
  BY <1>1, FS_StrictSubsetOrderingWellFounded
<1>3. PICK T \in Bad : \A U \in Bad : ~(<<U, T>> \in StrictSubsetOrdering(S))
  BY <1>2, WFMin
<1>4. ASSUME NEW U \in SUBSET T, U # T PROVE U \notin Bad
  BY <1>3, <1>4 DEF StrictSubsetOrdering
<1> QED  BY <1>3, <1>4

----------------------------------------------------------------------------
(* What a sum is: SumFunctionOnSet folds a function over a set, element by    *)
(* element, with a recursive function g that is here shown to exist.          *)

One(s) == CHOOSE x \in s : TRUE

\* g sums f over the subsets of S.
Sums(f, S, g) ==
  g = [s \in SUBSET S |-> IF s = {} THEN 0 ELSE f[One(s)] + g[s \ {One(s)}]]

LEMMA SumIs ==
  ASSUME NEW f, NEW S
  PROVE  SumFunctionOnSet(f, S) = (CHOOSE g : Sums(f, S, g))[S]
BY DEF SumFunctionOnSet, FoldFunctionOnSet, MapThenFoldSet, Sums, One

\* Two that do agree on the sets they have in common.
LEMMA SumsAgree ==
  ASSUME NEW f, NEW S, IsFiniteSet(S), NEW S2, S \subseteq S2,
         NEW g, Sums(f, S, g), NEW h, Sums(f, S2, h)
  PROVE  \A s \in SUBSET S : g[s] = h[s]
<1> DEFINE Bad == {s \in SUBSET S : g[s] # h[s]}
<1>1. SUFFICES ASSUME Bad # {} PROVE FALSE  OBVIOUS
<1>2. PICK s \in Bad : \A u \in SUBSET s : u # s => u \notin Bad
  <2>1. Bad \in SUBSET SUBSET S  OBVIOUS
  <2> HIDE DEF Bad
  <2> QED  BY <1>1, <2>1, LeastSet
<1>3. /\ g[s] = IF s = {} THEN 0 ELSE f[One(s)] + g[s \ {One(s)}]
      /\ h[s] = IF s = {} THEN 0 ELSE f[One(s)] + h[s \ {One(s)}]
  BY DEF Sums
<1>4. s # {} => One(s) \in s  BY DEF One
<1>5. s # {} => g[s \ {One(s)}] = h[s \ {One(s)}]
  BY <1>2, <1>4
<1> QED  BY <1>3, <1>5

\* The sum of a set in terms of the sum of a smaller one.
SumStep(f, S) ==
  SumFunctionOnSet(f, S) =
    IF S = {} THEN 0 ELSE f[One(S)] + SumFunctionOnSet(f, S \ {One(S)})

LEMMA SumUnfolds ==
  ASSUME NEW f, NEW S, IsFiniteSet(S)
  PROVE  SumStep(f, S)
<1> DEFINE Bad == {T \in SUBSET S : ~SumStep(f, T)}
<1>1. SUFFICES ASSUME Bad # {} PROVE FALSE  OBVIOUS
<1>2. PICK T \in Bad : \A U \in SUBSET T : U # T => U \notin Bad
  <2>1. Bad \in SUBSET SUBSET S  OBVIOUS
  <2> HIDE DEF Bad
  <2> QED  BY <1>1, <2>1, LeastSet
<1>3. IsFiniteSet(T)  BY FS_Subset
<1>4. \A U \in SUBSET T : U # T => SumStep(f, U)  BY <1>2
<1> DEFINE g == [s \in SUBSET T |->
                   IF s = {} THEN 0 ELSE f[One(s)] + SumFunctionOnSet(f, s \ {One(s)})]
<1>5. \A s \in SUBSET T : s # {} => One(s) \in s  BY DEF One
<1>6. \A s \in SUBSET T : s # {} => g[s \ {One(s)}] = SumFunctionOnSet(f, s \ {One(s)})
  <2> SUFFICES ASSUME NEW s \in SUBSET T, s # {} PROVE g[s \ {One(s)}] = SumFunctionOnSet(f, s \ {One(s)})
    OBVIOUS
  <2>1. s \ {One(s)} \in SUBSET T /\ s \ {One(s)} # T  BY <1>5
  <2>2. SumStep(f, s \ {One(s)})  BY <1>4, <2>1
  <2> QED  BY <2>1, <2>2 DEF SumStep
<1>7. Sums(f, T, g)  BY <1>6 DEF Sums
<1> DEFINE h == CHOOSE x : Sums(f, T, x)
<1> HIDE DEF g
<1>8. Sums(f, T, h)  BY <1>7
<1>9. SumFunctionOnSet(f, T) = h[T]  BY SumIs
<1>10. g[T] = h[T]
  <2> HIDE DEF h
  <2> QED  BY <1>3, <1>7, <1>8, SumsAgree
<1>11. g[T] = IF T = {} THEN 0 ELSE f[One(T)] + SumFunctionOnSet(f, T \ {One(T)})
  BY DEF g
<1>12. SumStep(f, T)  BY <1>9, <1>10, <1>11 DEF SumStep
<1> QED  BY <1>2, <1>12

IntsOn(f, S) == \A x \in S : f[x] \in Int

LEMMA SumOnInt ==
  ASSUME NEW S, IsFiniteSet(S), NEW f, IntsOn(f, S)
  PROVE  SumFunctionOnSet(f, S) \in Int
<1> DEFINE Bad == {T \in SUBSET S : SumFunctionOnSet(f, T) \notin Int}
<1>1. SUFFICES ASSUME Bad # {} PROVE FALSE  OBVIOUS
<1>2. PICK T \in Bad : \A U \in SUBSET T : U # T => U \notin Bad
  <2>1. Bad \in SUBSET SUBSET S  OBVIOUS
  <2> HIDE DEF Bad
  <2> QED  BY <1>1, <2>1, LeastSet
<1>3. IsFiniteSet(T)  BY FS_Subset
<1>4. SumStep(f, T)  BY <1>3, SumUnfolds
<1>5. T # {} => One(T) \in T  BY DEF One
<1>6. T # {} => SumFunctionOnSet(f, T \ {One(T)}) \in Int  BY <1>2, <1>5
<1> QED  BY <1>4, <1>5, <1>6 DEF SumStep, IntsOn

LEMMA SumOnSame ==
  ASSUME NEW S, IsFiniteSet(S), NEW f, NEW g, \A x \in S : f[x] = g[x]
  PROVE  SumFunctionOnSet(f, S) = SumFunctionOnSet(g, S)
<1> DEFINE Bad == {T \in SUBSET S : SumFunctionOnSet(f, T) # SumFunctionOnSet(g, T)}
<1>1. SUFFICES ASSUME Bad # {} PROVE FALSE  OBVIOUS
<1>2. PICK T \in Bad : \A U \in SUBSET T : U # T => U \notin Bad
  <2>1. Bad \in SUBSET SUBSET S  OBVIOUS
  <2> HIDE DEF Bad
  <2> QED  BY <1>1, <2>1, LeastSet
<1>3. IsFiniteSet(T)  BY FS_Subset
<1>4. SumStep(f, T) /\ SumStep(g, T)  BY <1>3, SumUnfolds
<1>5. T # {} => One(T) \in T  BY DEF One
<1>6. T # {} => SumFunctionOnSet(f, T \ {One(T)}) = SumFunctionOnSet(g, T \ {One(T)})
  BY <1>2, <1>5
<1> QED  BY <1>4, <1>5, <1>6 DEF SumStep

\* Any element may be the first.
LEMMA SumOnWithout ==
  ASSUME NEW S, IsFiniteSet(S), NEW f, IntsOn(f, S), NEW x \in S
  PROVE  SumFunctionOnSet(f, S) = f[x] + SumFunctionOnSet(f, S \ {x})
<1> DEFINE Bad == {T \in SUBSET S : \E y \in T :
                     SumFunctionOnSet(f, T) # f[y] + SumFunctionOnSet(f, T \ {y})}
<1>1. SUFFICES ASSUME Bad # {} PROVE FALSE  OBVIOUS
<1>2. PICK T \in Bad : \A U \in SUBSET T : U # T => U \notin Bad
  <2>1. Bad \in SUBSET SUBSET S  OBVIOUS
  <2> HIDE DEF Bad
  <2> QED  BY <1>1, <2>1, LeastSet
<1>3. PICK y \in T : SumFunctionOnSet(f, T) # f[y] + SumFunctionOnSet(f, T \ {y})
  BY <1>2
<1>4. IsFiniteSet(T) /\ IsFiniteSet(T \ {y})  BY FS_Subset
<1> DEFINE z == One(T)
<1>5. z \in T  BY DEF One
<1>6. SumFunctionOnSet(f, T) = f[z] + SumFunctionOnSet(f, T \ {z})
  BY <1>4, <1>5, SumUnfolds DEF SumStep
<1>7. y # z  BY <1>3, <1>6
<1>8. SumFunctionOnSet(f, T \ {z}) = f[y] + SumFunctionOnSet(f, (T \ {z}) \ {y})
  <2> HIDE DEF z
  <2>1. T \ {z} \in SUBSET T /\ T \ {z} # T /\ y \in T \ {z}  BY <1>5, <1>7
  <2> QED  BY <1>2, <2>1
<1>9. SumFunctionOnSet(f, T \ {y}) = f[z] + SumFunctionOnSet(f, (T \ {y}) \ {z})
  <2> HIDE DEF z
  <2>1. T \ {y} \in SUBSET T /\ T \ {y} # T /\ z \in T \ {y}  BY <1>5, <1>7
  <2> QED  BY <1>2, <2>1
<1>10. (T \ {y}) \ {z} = (T \ {z}) \ {y}  OBVIOUS
<1>11. SumFunctionOnSet(f, (T \ {z}) \ {y}) \in Int
  <2>1. IsFiniteSet((T \ {z}) \ {y})  BY <1>4, FS_Subset
  <2>2. IntsOn(f, (T \ {z}) \ {y})  BY DEF IntsOn
  <2> QED  BY <2>1, <2>2, SumOnInt
<1>12. f[y] \in Int /\ f[z] \in Int  BY <1>5 DEF IntsOn
<1>13. SumFunctionOnSet(f, T) = f[y] + SumFunctionOnSet(f, T \ {y})
  <2> DEFINE r == SumFunctionOnSet(f, (T \ {z}) \ {y})
  <2>1. SumFunctionOnSet(f, T) = f[z] + (f[y] + r)  BY <1>6, <1>8
  <2>2. f[y] + SumFunctionOnSet(f, T \ {y}) = f[y] + (f[z] + r)  BY <1>9, <1>10
  <2> HIDE DEF z, r
  <2>3. r \in Int  BY <1>11 DEF r
  <2> QED  BY <1>12, <2>1, <2>2, <2>3
<1> QED  BY <1>3, <1>13

----------------------------------------------------------------------------
(* Sums of the values of a function *)

\* A finite function to the integers.
Summable(f) == IsFiniteSet(DOMAIN f) /\ \A x \in DOMAIN f : f[x] \in Int

LEMMA SumInt ==
  ASSUME NEW f, Summable(f)
  PROVE  SumFunction(f) \in Int
BY SumOnInt DEF Summable, SumFunction, IntsOn

LEMMA SumEmpty ==
  ASSUME NEW f, DOMAIN f = {}
  PROVE  SumFunction(f) = 0
BY FS_EmptySet, SumUnfolds DEF SumFunction, SumStep

LEMMA SumSame ==
  ASSUME NEW f, NEW g, IsFiniteSet(DOMAIN f), DOMAIN g = DOMAIN f, \A x \in DOMAIN f : g[x] = f[x]
  PROVE  SumFunction(g) = SumFunction(f)
BY SumOnSame DEF SumFunction

\* One more value.
LEMMA SumMore ==
  ASSUME NEW f, NEW g, Summable(f), NEW x, x \notin DOMAIN f, DOMAIN g = DOMAIN f \cup {x},
         \A y \in DOMAIN f : g[y] = f[y], g[x] \in Int
  PROVE  Summable(g) /\ SumFunction(g) = SumFunction(f) + g[x]
<1>1. Summable(g)  BY FS_AddElement DEF Summable
<1>2. SumFunction(g) = g[x] + SumFunctionOnSet(g, DOMAIN g \ {x})
  BY <1>1, SumOnWithout DEF SumFunction, Summable, IntsOn
<1>3. DOMAIN g \ {x} = DOMAIN f  OBVIOUS
<1>4. SumFunctionOnSet(g, DOMAIN f) = SumFunction(f)
  BY SumOnSame DEF SumFunction, Summable
<1> QED  BY <1>1, <1>2, <1>3, <1>4, SumInt

\* Another value in its place.
LEMMA SumChanged ==
  ASSUME NEW f, NEW g, Summable(f), NEW x \in DOMAIN f, DOMAIN g = DOMAIN f,
         \A y \in DOMAIN f \ {x} : g[y] = f[y], g[x] \in Int
  PROVE  Summable(g) /\ SumFunction(g) = SumFunction(f) + (g[x] - f[x])
<1>1. Summable(g)  BY DEF Summable
<1>2. SumFunction(g) = g[x] + SumFunctionOnSet(g, DOMAIN f \ {x})
  BY <1>1, SumOnWithout DEF SumFunction, Summable, IntsOn
<1>3. SumFunction(f) = f[x] + SumFunctionOnSet(f, DOMAIN f \ {x})
  BY SumOnWithout DEF SumFunction, Summable, IntsOn
<1>4. SumFunctionOnSet(g, DOMAIN f \ {x}) = SumFunctionOnSet(f, DOMAIN f \ {x})
  BY FS_Subset, SumOnSame DEF Summable
<1>5. SumFunctionOnSet(f, DOMAIN f \ {x}) \in Int
  BY FS_Subset, SumOnInt DEF Summable, IntsOn
<1>6. f[x] \in Int  BY DEF Summable
<1> QED  BY <1>1, <1>2, <1>3, <1>4, <1>5, <1>6

\* What g has where f is not defined counts as new.
At(f, x) == IF x \in DOMAIN f THEN f[x] ELSE 0

LEMMA SumOne ==
  ASSUME NEW f, NEW g, Summable(f), NEW x, DOMAIN g = DOMAIN f \cup {x},
         \A y \in DOMAIN f : y # x => g[y] = f[y], g[x] \in Int
  PROVE  Summable(g) /\ SumFunction(g) = SumFunction(f) + (g[x] - At(f, x))
<1>1. CASE x \in DOMAIN f
  <2>1. DOMAIN g = DOMAIN f /\ \A y \in DOMAIN f \ {x} : g[y] = f[y]  BY <1>1
  <2>2. Summable(g) /\ SumFunction(g) = SumFunction(f) + (g[x] - f[x])
    BY <1>1, <2>1, SumChanged
  <2> QED  BY <1>1, <2>2 DEF At
<1>2. CASE x \notin DOMAIN f
  <2>1. \A y \in DOMAIN f : g[y] = f[y]  BY <1>2
  <2>2. Summable(g) /\ SumFunction(g) = SumFunction(f) + g[x]  BY <1>2, <2>1, SumMore
  <2> QED  BY <1>2, <2>2 DEF At
<1> QED  BY <1>1, <1>2

LEMMA SumTwo ==
  ASSUME NEW f, NEW g, Summable(f), NEW x, NEW y, x # y,
         DOMAIN g = DOMAIN f \cup {x, y},
         \A z \in DOMAIN f : z # x /\ z # y => g[z] = f[z], g[x] \in Int, g[y] \in Int
  PROVE  /\ Summable(g)
         /\ SumFunction(g) = SumFunction(f) + (g[x] - At(f, x)) + (g[y] - At(f, y))
<1> DEFINE h == [z \in DOMAIN f \cup {x} |-> IF z = x THEN g[x] ELSE f[z]]
<1>1. /\ DOMAIN h = DOMAIN f \cup {x} /\ h[x] = g[x]
      /\ \A z \in DOMAIN f : z # x => h[z] = f[z]
  OBVIOUS
<1>2. DOMAIN g = DOMAIN h \cup {y} /\ \A z \in DOMAIN h : z # y => g[z] = h[z]
  OBVIOUS
<1>3. At(h, y) = At(f, y)  BY DEF At
<1> HIDE DEF h
<1>4. Summable(h) /\ SumFunction(h) = SumFunction(f) + (h[x] - At(f, x))
  BY <1>1, SumOne
<1>5. Summable(g) /\ SumFunction(g) = SumFunction(h) + (g[y] - At(h, y))
  BY <1>2, <1>4, SumOne
<1> QED  BY <1>1, <1>3, <1>4, <1>5

LEMMA SumThree ==
  ASSUME NEW f, NEW g, Summable(f), NEW x, NEW y, NEW w, x # y, x # w, y # w,
         DOMAIN g = DOMAIN f \cup {x, y, w},
         \A z \in DOMAIN f : z # x /\ z # y /\ z # w => g[z] = f[z],
         g[x] \in Int, g[y] \in Int, g[w] \in Int
  PROVE  /\ Summable(g)
         /\ SumFunction(g) = SumFunction(f) + (g[x] - At(f, x)) + (g[y] - At(f, y))
                             + (g[w] - At(f, w))
<1> DEFINE h == [z \in DOMAIN f \cup {x, y} |-> IF z \in {x, y} THEN g[z] ELSE f[z]]
<1>1. /\ DOMAIN h = DOMAIN f \cup {x, y} /\ h[x] = g[x] /\ h[y] = g[y]
      /\ \A z \in DOMAIN f : z # x /\ z # y => h[z] = f[z]
  OBVIOUS
<1>2. DOMAIN g = DOMAIN h \cup {w} /\ \A z \in DOMAIN h : z # w => g[z] = h[z]
  OBVIOUS
<1>3. At(h, w) = At(f, w)  BY DEF At
<1> HIDE DEF h
<1>4. Summable(h) /\ SumFunction(h) = SumFunction(f) + (h[x] - At(f, x)) + (h[y] - At(f, y))
  BY <1>1, SumTwo
<1>5. Summable(g) /\ SumFunction(g) = SumFunction(h) + (g[w] - At(h, w))
  BY <1>2, <1>4, SumOne
<1> QED  BY <1>1, <1>3, <1>4, <1>5

\* Sums over the parts of a set are sums over the set that leave the rest out.
LEMMA SumWithin ==
  ASSUME NEW f, NEW g, Summable(f), IsFiniteSet(DOMAIN g), DOMAIN f \subseteq DOMAIN g,
         \A x \in DOMAIN g : g[x] = IF x \in DOMAIN f THEN f[x] ELSE 0
  PROVE  Summable(g) /\ SumFunction(g) = SumFunction(f)
<1> DEFINE S == DOMAIN f
           Bad == {T \in SUBSET (DOMAIN g \ S) : 
                    SumFunctionOnSet(g, S \cup T) # SumFunctionOnSet(g, S)}
<1>1. Summable(g)  BY DEF Summable
<1>2. SUFFICES ASSUME Bad # {} PROVE FALSE
  <2>1. SumFunctionOnSet(g, S \cup (DOMAIN g \ S)) = SumFunctionOnSet(g, S)
    BY <1>2
  <2>2. S \cup (DOMAIN g \ S) = DOMAIN g  OBVIOUS
  <2>3. SumFunctionOnSet(g, S) = SumFunctionOnSet(f, S)
    BY SumOnSame DEF Summable
  <2> QED  BY <1>1, <2>1, <2>2, <2>3 DEF SumFunction
<1>3. IsFiniteSet(DOMAIN g \ S)  BY FS_Subset
<1>4. PICK T \in Bad : \A U \in SUBSET T : U # T => U \notin Bad
  <2>1. Bad \in SUBSET SUBSET (DOMAIN g \ S)  OBVIOUS
  <2> HIDE DEF Bad
  <2> QED  BY <1>2, <1>3, <2>1, LeastSet
<1>5. T # {}
  <2>1. S \cup {} = S  OBVIOUS
  <2> QED  BY <1>4, <2>1
<1>6. PICK x \in T : TRUE  BY <1>5
<1>7. SumFunctionOnSet(g, S \cup (T \ {x})) = SumFunctionOnSet(g, S)
  <2>1. T \ {x} \in SUBSET T /\ T \ {x} # T  OBVIOUS
  <2> QED  BY <1>4, <2>1
<1>8. SumFunctionOnSet(g, S \cup T) = g[x] + SumFunctionOnSet(g, (S \cup T) \ {x})
  <2>1. S \cup T \subseteq DOMAIN g  OBVIOUS
  <2>2. IsFiniteSet(S \cup T)  BY <2>1, FS_Subset
  <2>3. IntsOn(g, S \cup T)  BY <1>1, <2>1 DEF IntsOn, Summable
  <2> QED  BY <1>6, <2>2, <2>3, SumOnWithout
<1>9. (S \cup T) \ {x} = S \cup (T \ {x}) /\ x \notin S /\ x \in DOMAIN g  BY <1>6
<1>10. g[x] = 0  BY <1>9
<1>11. SumFunctionOnSet(g, S) \in Int
  <2>1. IntsOn(g, S)  BY DEF IntsOn, Summable
  <2> QED  BY <2>1, SumOnInt DEF Summable
<1>12. SumFunctionOnSet(g, S \cup T) = SumFunctionOnSet(g, S)
  <2> HIDE DEF S, Bad
  <2> QED  BY <1>7, <1>8, <1>9, <1>10, <1>11
<1> QED  BY <1>4, <1>12

\* Sums are added term by term.
LEMMA SumPlus ==
  ASSUME NEW f, NEW g, NEW h, Summable(f), Summable(g), DOMAIN g = DOMAIN f, DOMAIN h = DOMAIN f,
         \A x \in DOMAIN f : h[x] = f[x] + g[x]
  PROVE  Summable(h) /\ SumFunction(h) = SumFunction(f) + SumFunction(g)
<1> DEFINE S == DOMAIN f
           Bad == {T \in SUBSET S : SumFunctionOnSet(h, T) #
                                     SumFunctionOnSet(f, T) + SumFunctionOnSet(g, T)}
<1>1. Summable(h)  BY DEF Summable
<1>2. SUFFICES ASSUME Bad # {} PROVE FALSE
  BY <1>1 DEF SumFunction
<1>3. PICK T \in Bad : \A U \in SUBSET T : U # T => U \notin Bad
  <2>1. Bad \in SUBSET SUBSET S  OBVIOUS
  <2> HIDE DEF Bad
  <2> QED  BY <1>2, <2>1, LeastSet DEF Summable
<1>4. IsFiniteSet(T) /\ IntsOn(f, T) /\ IntsOn(g, T) /\ IntsOn(h, T)
  BY <1>1, FS_Subset DEF Summable, IntsOn
<1>5. T # {}
  <2>1. \A e : SumFunctionOnSet(e, {}) = 0  BY FS_EmptySet, SumUnfolds DEF SumStep
  <2>2. SumFunctionOnSet(h, {}) = SumFunctionOnSet(f, {}) + SumFunctionOnSet(g, {})
    BY <2>1
  <2> QED  BY <1>3, <2>2
<1>6. PICK x \in T : TRUE  BY <1>5
<1> DEFINE U == T \ {x}
<1>7. SumFunctionOnSet(h, U) = SumFunctionOnSet(f, U) + SumFunctionOnSet(g, U)
  <2>1. T \ {x} \in SUBSET T /\ T \ {x} # T  OBVIOUS
  <2> QED  BY <1>3, <2>1
<1>8. /\ SumFunctionOnSet(f, T) = f[x] + SumFunctionOnSet(f, U)
      /\ SumFunctionOnSet(g, T) = g[x] + SumFunctionOnSet(g, U)
      /\ SumFunctionOnSet(h, T) = h[x] + SumFunctionOnSet(h, U)
  BY <1>4, SumOnWithout
<1>9. IsFiniteSet(U) /\ IntsOn(f, U) /\ IntsOn(g, U)
  BY <1>4, FS_Subset DEF IntsOn
<1>10. SumFunctionOnSet(f, U) \in Int /\ SumFunctionOnSet(g, U) \in Int
  <2> HIDE DEF U
  <2> QED  BY <1>9, SumOnInt
<1>11. f[x] \in Int /\ g[x] \in Int /\ h[x] = f[x] + g[x]  BY <1>4, <1>6 DEF IntsOn
<1> HIDE DEF U
<1>12. SumFunctionOnSet(h, T) = SumFunctionOnSet(f, T) + SumFunctionOnSet(g, T)
  BY <1>7, <1>8, <1>10, <1>11
<1> QED  BY <1>3, <1>12

----------------------------------------------------------------------------
(* The figures of the engine, position by position *)

Groups == {"asset", "liability", "receivable", "investment"}

\* What the engine is given: a household's books in which every amount it
\* takes up for month m is an integer.
Sane(b, m) ==
  /\ IsFiniteSet(DOMAIN b.position)
  /\ \A p \in DOMAIN b.position :
       /\ b.position[p].group \in Groups
       /\ IsCarried(b, p, m) => Carried(b, p, m) \in Int
       /\ IsCarried(b, p, m - 1) => Carried(b, p, m - 1) \in Int
       /\ Flow(b, p, m) \in Int
  /\ EarnedIncome(b, m) \in Int

Marked(b, m) ==
  {p \in InGroup(b, "asset") : /\ ~TerminatedByEndOf(b, p, m)
                               /\ b.position[p].subtype \in {"property", "vehicle"}
                               /\ IsMoving(b, p, m)}

Leaving(b, m) == {p \in Departing(b, m) : IsMoving(b, p, m)}

ValueOf(b, p, m) == IF p \in Contributes(b, m) THEN SignedForNW(b, p, Carried(b, p, m)) ELSE 0

GainOf(b, p, m) == IF p \in Returning(b, m) THEN Movement(b, p, m) + Flow(b, p, m) ELSE 0

MarkOf(b, p, m) == IF p \in Marked(b, m) THEN Movement(b, p, m) ELSE 0

LossOf(b, p, m) == IF p \in WrittenOff(b, m) THEN SignedForNW(b, p, Movement(b, p, m)) ELSE 0

LeaveOf(b, p, m) == IF p \in Leaving(b, m) THEN SignedForNW(b, p, Movement(b, p, m)) ELSE 0

ArriveOf(b, p, m) == IF p \in Arriving(b, m) THEN SignedForNW(b, p, Carried(b, p, m)) ELSE 0

\* What is left of the change of a position when it has been accounted for: the
\* money that went into it.
CashOf(b, p, m) ==
  ValueOf(b, p, m) - ValueOf(b, p, m - 1)
  - GainOf(b, p, m) - MarkOf(b, p, m) - LossOf(b, p, m) - LeaveOf(b, p, m) - ArriveOf(b, p, m)

LEMMA ReturnIs ==
  ASSUME NEW b, NEW m, Sane(b, m)
  PROVE  /\ Summable([p \in DOMAIN b.position |-> GainOf(b, p, m)])
         /\ InvestmentReturn(b, m) = SumFunction([p \in DOMAIN b.position |-> GainOf(b, p, m)])
<1> DEFINE D == DOMAIN b.position
           S == Returning(b, m)
           f == [p \in S |-> Movement(b, p, m) + Flow(b, p, m)]
           g == [p \in D |-> GainOf(b, p, m)]
<1>1. S \subseteq D  BY DEF Returning, InGroup
<1>2. IsFiniteSet(D) /\ IsFiniteSet(S)  BY <1>1, FS_Subset DEF Sane
<1>3. \A p \in S : Movement(b, p, m) + Flow(b, p, m) \in Int
  BY <1>1 DEF Sane, Returning, IsMoving, Movement
<1>4. Summable(f)  BY <1>2, <1>3 DEF Summable
<1>5. \A p \in D : g[p] = IF p \in S THEN f[p] ELSE 0  BY DEF GainOf
<1>6. DOMAIN f = S /\ DOMAIN g = D  OBVIOUS
<1>7. InvestmentReturn(b, m) = SumFunction(f)  BY DEF InvestmentReturn, SumOver
<1> HIDE DEF D, S, f, g
<1>8. Summable(g) /\ SumFunction(g) = SumFunction(f)
  BY <1>1, <1>2, <1>4, <1>5, <1>6, SumWithin
<1> QED  BY <1>7, <1>8 DEF g, D

LEMMA MarksAre ==
  ASSUME NEW b, NEW m, Sane(b, m)
  PROVE  /\ Summable([p \in DOMAIN b.position |-> MarkOf(b, p, m)])
         /\ AssetValueChange(b, m) = SumFunction([p \in DOMAIN b.position |-> MarkOf(b, p, m)])
<1> DEFINE D == DOMAIN b.position
           S == Marked(b, m)
           f == [p \in S |-> Movement(b, p, m)]
           g == [p \in D |-> MarkOf(b, p, m)]
<1>1. S \subseteq D  BY DEF Marked, InGroup
<1>2. IsFiniteSet(D) /\ IsFiniteSet(S)  BY <1>1, FS_Subset DEF Sane
<1>3. \A p \in S : Movement(b, p, m) \in Int
  BY <1>1 DEF Sane, Marked, IsMoving, Movement
<1>4. Summable(f)  BY <1>2, <1>3 DEF Summable
<1>5. \A p \in D : g[p] = IF p \in S THEN f[p] ELSE 0  BY DEF MarkOf
<1>6. DOMAIN f = S /\ DOMAIN g = D  OBVIOUS
<1>7. AssetValueChange(b, m) = SumFunction(f)  BY DEF AssetValueChange, SumOver, Marked
<1> HIDE DEF D, S, f, g
<1>8. Summable(g) /\ SumFunction(g) = SumFunction(f)
  BY <1>1, <1>2, <1>4, <1>5, <1>6, SumWithin
<1> QED  BY <1>7, <1>8 DEF g, D

LEMMA LossesAre ==
  ASSUME NEW b, NEW m, Sane(b, m)
  PROVE  /\ Summable([p \in DOMAIN b.position |-> LossOf(b, p, m)])
         /\ WriteOffs(b, m) = SumFunction([p \in DOMAIN b.position |-> LossOf(b, p, m)])
<1> DEFINE D == DOMAIN b.position
           S == WrittenOff(b, m)
           f == [p \in S |-> SignedForNW(b, p, Movement(b, p, m))]
           g == [p \in D |-> LossOf(b, p, m)]
<1>1. S \subseteq D  BY DEF WrittenOff
<1>2. IsFiniteSet(D) /\ IsFiniteSet(S)  BY <1>1, FS_Subset DEF Sane
<1>3. \A p \in S : SignedForNW(b, p, Movement(b, p, m)) \in Int
  BY <1>1 DEF Sane, WrittenOff, IsMoving, Movement, SignedForNW
<1>4. Summable(f)  BY <1>2, <1>3 DEF Summable
<1>5. \A p \in D : g[p] = IF p \in S THEN f[p] ELSE 0  BY DEF LossOf
<1>6. DOMAIN f = S /\ DOMAIN g = D  OBVIOUS
<1>7. WriteOffs(b, m) = SumFunction(f)  BY DEF WriteOffs, SumOver
<1> HIDE DEF D, S, f, g
<1>8. Summable(g) /\ SumFunction(g) = SumFunction(f)
  BY <1>1, <1>2, <1>4, <1>5, <1>6, SumWithin
<1> QED  BY <1>7, <1>8 DEF g, D

LEMMA ChangesAre ==
  ASSUME NEW b, NEW m, Sane(b, m)
  PROVE  /\ Summable([p \in DOMAIN b.position |-> LeaveOf(b, p, m)])
         /\ Summable([p \in DOMAIN b.position |-> ArriveOf(b, p, m)])
         /\ TrackingChanges(b, m) =
              SumFunction([p \in DOMAIN b.position |-> LeaveOf(b, p, m)])
              + SumFunction([p \in DOMAIN b.position |-> ArriveOf(b, p, m)])
<1> DEFINE D == DOMAIN b.position
           S == Leaving(b, m)
           T == Arriving(b, m)
           f == [p \in S |-> SignedForNW(b, p, Movement(b, p, m))]
           g == [p \in D |-> LeaveOf(b, p, m)]
           h == [p \in T |-> SignedForNW(b, p, Carried(b, p, m))]
           k == [p \in D |-> ArriveOf(b, p, m)]
<1>1. S \subseteq D /\ T \subseteq D  BY DEF Leaving, Departing, Arriving
<1>2. IsFiniteSet(D) /\ IsFiniteSet(S) /\ IsFiniteSet(T)  BY <1>1, FS_Subset DEF Sane
<1>3. \A p \in S : SignedForNW(b, p, Movement(b, p, m)) \in Int
  BY <1>1 DEF Sane, Leaving, IsMoving, Movement, SignedForNW
<1>4. \A p \in T : SignedForNW(b, p, Carried(b, p, m)) \in Int
  BY <1>1 DEF Sane, Arriving, SignedForNW
<1>5. Summable(f) /\ Summable(h)  BY <1>2, <1>3, <1>4 DEF Summable
<1>6. \A p \in D : /\ g[p] = IF p \in S THEN f[p] ELSE 0
                   /\ k[p] = IF p \in T THEN h[p] ELSE 0
  BY DEF LeaveOf, ArriveOf
<1>7. DOMAIN f = S /\ DOMAIN g = D /\ DOMAIN h = T /\ DOMAIN k = D  OBVIOUS
<1>8. TrackingChanges(b, m) = SumFunction(f) + SumFunction(h)
  BY DEF TrackingChanges, SumOver, Leaving
<1> HIDE DEF D, S, T, f, g, h, k
<1>9. Summable(g) /\ SumFunction(g) = SumFunction(f)
  BY <1>1, <1>2, <1>5, <1>6, <1>7, SumWithin
<1>10. Summable(k) /\ SumFunction(k) = SumFunction(h)
  BY <1>1, <1>2, <1>5, <1>6, <1>7, SumWithin
<1> QED  BY <1>8, <1>9, <1>10 DEF g, k, D

\* The part a group has in a position's value.
PartOf(b, group, p, m) ==
  IF p \in Contributes(b, m) \cap InGroup(b, group) THEN Carried(b, p, m) ELSE 0

LEMMA GroupIs ==
  ASSUME NEW b, NEW m, IsFiniteSet(DOMAIN b.position), NEW group,
         \A p \in DOMAIN b.position : IsCarried(b, p, m) => Carried(b, p, m) \in Int
  PROVE  /\ Summable([p \in DOMAIN b.position |-> PartOf(b, group, p, m)])
         /\ GroupWorth(b, group, m) =
              SumFunction([p \in DOMAIN b.position |-> PartOf(b, group, p, m)])
<1> DEFINE D == DOMAIN b.position
           S == Contributes(b, m) \cap InGroup(b, group)
           f == [p \in S |-> Carried(b, p, m)]
           g == [p \in D |-> PartOf(b, group, p, m)]
<1>1. S \subseteq D  BY DEF Contributes
<1>2. IsFiniteSet(D) /\ IsFiniteSet(S)  BY <1>1, FS_Subset
<1>3. \A p \in S : Carried(b, p, m) \in Int  BY <1>1 DEF Contributes
<1>4. Summable(f)  BY <1>2, <1>3 DEF Summable
<1>5. \A p \in D : g[p] = IF p \in S THEN f[p] ELSE 0  BY DEF PartOf
<1>6. DOMAIN f = S /\ DOMAIN g = D  OBVIOUS
<1>7. GroupWorth(b, group, m) = SumFunction(f)  BY DEF GroupWorth, SumOver
<1> HIDE DEF D, S, f, g
<1>8. Summable(g) /\ SumFunction(g) = SumFunction(f)
  BY <1>1, <1>2, <1>4, <1>5, <1>6, SumWithin
<1> QED  BY <1>7, <1>8 DEF g, D

LEMMA NetWorthIs ==
  ASSUME NEW b, NEW m, IsFiniteSet(DOMAIN b.position),
         \A p \in DOMAIN b.position :
           b.position[p].group \in Groups /\ (IsCarried(b, p, m) => Carried(b, p, m) \in Int)
  PROVE  /\ Summable([p \in DOMAIN b.position |-> ValueOf(b, p, m)])
         /\ NetWorth(b, m) = SumFunction([p \in DOMAIN b.position |-> ValueOf(b, p, m)])
<1> DEFINE D == DOMAIN b.position
           a == [p \in D |-> PartOf(b, "asset", p, m)]
           l == [p \in D |-> PartOf(b, "liability", p, m)]
           r == [p \in D |-> PartOf(b, "receivable", p, m)]
           i == [p \in D |-> PartOf(b, "investment", p, m)]
           v == [p \in D |-> ValueOf(b, p, m)]
           ar == [p \in D |-> a[p] + r[p]]
           ari == [p \in D |-> ar[p] + i[p]]
<1>1. /\ Summable(a) /\ GroupWorth(b, "asset", m) = SumFunction(a)
      /\ Summable(l) /\ GroupWorth(b, "liability", m) = SumFunction(l)
      /\ Summable(r) /\ GroupWorth(b, "receivable", m) = SumFunction(r)
      /\ Summable(i) /\ GroupWorth(b, "investment", m) = SumFunction(i)
  BY GroupIs
<1>2. /\ DOMAIN a = D /\ DOMAIN l = D /\ DOMAIN r = D /\ DOMAIN i = D /\ DOMAIN v = D
      /\ DOMAIN ar = D /\ DOMAIN ari = D
  OBVIOUS
<1>3. \A p \in D : ar[p] = a[p] + r[p] /\ ari[p] = ar[p] + i[p]  OBVIOUS
<1>4. \A p \in D : v[p] \in Int /\ ari[p] = v[p] + l[p]
  <2> SUFFICES ASSUME NEW p \in D PROVE v[p] \in Int /\ a[p] + r[p] + i[p] = v[p] + l[p]
    BY <1>3
  <2>1. CASE p \in Contributes(b, m)
    <3>1. Carried(b, p, m) \in Int  BY <2>1 DEF Contributes
    <3> DEFINE w == Carried(b, p, m)
    <3>2. /\ a[p] = IF b.position[p].group = "asset" THEN w ELSE 0
          /\ r[p] = IF b.position[p].group = "receivable" THEN w ELSE 0
          /\ i[p] = IF b.position[p].group = "investment" THEN w ELSE 0
          /\ l[p] = IF b.position[p].group = "liability" THEN w ELSE 0
      BY <2>1 DEF PartOf, InGroup
    <3>3. v[p] = IF b.position[p].group = "liability" THEN -w ELSE w
      BY <2>1 DEF ValueOf, SignedForNW
    <3>4. b.position[p].group \in Groups  OBVIOUS
    <3> HIDE DEF a, r, i, l, v, w
    <3>5. w \in Int  BY <3>1 DEF w
    <3> QED  BY <3>2, <3>3, <3>4, <3>5 DEF Groups
  <2>2. CASE p \notin Contributes(b, m)
    BY <2>2 DEF PartOf, ValueOf
  <2> QED  BY <2>1, <2>2
<1>5. NetWorth(b, m) = SumFunction(a) + SumFunction(r) + SumFunction(i) - SumFunction(l)
  BY <1>1 DEF NetWorth
<1>6. IsFiniteSet(D)  OBVIOUS
<1> HIDE DEF D, a, l, r, i, v, ar, ari
<1>7. Summable(v)  BY <1>2, <1>4, <1>6 DEF Summable
<1>8. Summable(ar) /\ SumFunction(ar) = SumFunction(a) + SumFunction(r)
  BY <1>1, <1>2, <1>3, SumPlus
<1>9. Summable(ari) /\ SumFunction(ari) = SumFunction(ar) + SumFunction(i)
  BY <1>1, <1>2, <1>3, <1>8, SumPlus
<1>10. SumFunction(ari) = SumFunction(v) + SumFunction(l)
  BY <1>1, <1>2, <1>4, <1>7, SumPlus
<1>11. /\ SumFunction(a) \in Int /\ SumFunction(r) \in Int /\ SumFunction(i) \in Int
       /\ SumFunction(l) \in Int /\ SumFunction(v) \in Int
  BY <1>1, <1>7, SumInt
<1> DEFINE sa == SumFunction(a)  sr == SumFunction(r)  si == SumFunction(i)
           sl == SumFunction(l)  sv == SumFunction(v)  nw == NetWorth(b, m)
<1>12. nw = sa + sr + si - sl /\ (sa + sr) + si = sv + sl
  BY <1>5, <1>8, <1>9, <1>10
<1>13. sa \in Int /\ sr \in Int /\ si \in Int /\ sl \in Int /\ sv \in Int  BY <1>11
<1> HIDE DEF sa, sr, si, sl, sv, nw
<1>14. nw = sv  BY <1>12, <1>13
<1> QED  BY <1>7, <1>14 DEF v, D, nw, sv

\* Living expenses are what was earned less the money that went into positions.
LEMMA LivingIs ==
  ASSUME NEW b, NEW m, m \in Int, Sane(b, m)
  PROVE  /\ Summable([p \in DOMAIN b.position |-> CashOf(b, p, m)])
         /\ LivingExpenses(b, m) =
              EarnedIncome(b, m) - SumFunction([p \in DOMAIN b.position |-> CashOf(b, p, m)])
<1> DEFINE D == DOMAIN b.position
           c == [p \in D |-> CashOf(b, p, m)]
           v == [p \in D |-> ValueOf(b, p, m)]
           w == [p \in D |-> ValueOf(b, p, m - 1)]
           g == [p \in D |-> GainOf(b, p, m)]
           k == [p \in D |-> MarkOf(b, p, m)]
           l == [p \in D |-> LossOf(b, p, m)]
           e == [p \in D |-> LeaveOf(b, p, m)]
           a == [p \in D |-> ArriveOf(b, p, m)]
<1>1. /\ Summable(v) /\ NetWorth(b, m) = SumFunction(v)
      /\ Summable(w) /\ NetWorth(b, m - 1) = SumFunction(w)
  BY NetWorthIs DEF Sane
<1>2. /\ Summable(g) /\ InvestmentReturn(b, m) = SumFunction(g)
      /\ Summable(k) /\ AssetValueChange(b, m) = SumFunction(k)
      /\ Summable(l) /\ WriteOffs(b, m) = SumFunction(l)
      /\ Summable(e) /\ Summable(a)
      /\ TrackingChanges(b, m) = SumFunction(e) + SumFunction(a)
  BY ReturnIs, MarksAre, LossesAre, ChangesAre
<1>3. /\ DOMAIN c = D /\ DOMAIN v = D /\ DOMAIN w = D /\ DOMAIN g = D /\ DOMAIN k = D
      /\ DOMAIN l = D /\ DOMAIN e = D /\ DOMAIN a = D
  OBVIOUS
<1>4. \A p \in D : c[p] = v[p] - w[p] - g[p] - k[p] - l[p] - e[p] - a[p]
  BY DEF CashOf
<1> DEFINE s1 == [p \in D |-> c[p] + w[p]]
           s2 == [p \in D |-> s1[p] + g[p]]
           s3 == [p \in D |-> s2[p] + k[p]]
           s4 == [p \in D |-> s3[p] + l[p]]
           s5 == [p \in D |-> s4[p] + e[p]]
<1>5. /\ DOMAIN s1 = D /\ DOMAIN s2 = D /\ DOMAIN s3 = D /\ DOMAIN s4 = D /\ DOMAIN s5 = D
      /\ \A p \in D : /\ s1[p] = c[p] + w[p] /\ s2[p] = s1[p] + g[p] /\ s3[p] = s2[p] + k[p]
                      /\ s4[p] = s3[p] + l[p] /\ s5[p] = s4[p] + e[p]
  OBVIOUS
<1>6. IsFiniteSet(D)  BY DEF Sane
<1>7. EarnedIncome(b, m) \in Int  BY DEF Sane
<1> HIDE DEF D, c, v, w, g, k, l, e, a, s1, s2, s3, s4, s5
<1>8. \A p \in D : /\ v[p] \in Int /\ w[p] \in Int /\ g[p] \in Int /\ k[p] \in Int
                   /\ l[p] \in Int /\ e[p] \in Int /\ a[p] \in Int
  BY <1>1, <1>2, <1>3 DEF Summable
<1>9. \A p \in D : c[p] \in Int /\ v[p] = s5[p] + a[p]
  <2> SUFFICES ASSUME NEW p \in D PROVE c[p] \in Int /\ v[p] = s5[p] + a[p]  OBVIOUS
  <2>1. /\ s1[p] = c[p] + w[p] /\ s2[p] = s1[p] + g[p] /\ s3[p] = s2[p] + k[p]
        /\ s4[p] = s3[p] + l[p] /\ s5[p] = s4[p] + e[p]
    BY <1>5
  <2>2. /\ v[p] \in Int /\ w[p] \in Int /\ g[p] \in Int /\ k[p] \in Int
        /\ l[p] \in Int /\ e[p] \in Int /\ a[p] \in Int
    BY <1>8
  <2>3. c[p] = v[p] - w[p] - g[p] - k[p] - l[p] - e[p] - a[p]  BY <1>4
  <2> QED  BY <2>1, <2>2, <2>3
<1>10. Summable(c)  BY <1>3, <1>6, <1>9 DEF Summable
<1>11. Summable(s1) /\ SumFunction(s1) = SumFunction(c) + SumFunction(w)
  BY <1>1, <1>3, <1>5, <1>10, SumPlus
<1>12. Summable(s2) /\ SumFunction(s2) = SumFunction(s1) + SumFunction(g)
  BY <1>2, <1>3, <1>5, <1>11, SumPlus
<1>13. Summable(s3) /\ SumFunction(s3) = SumFunction(s2) + SumFunction(k)
  BY <1>2, <1>3, <1>5, <1>12, SumPlus
<1>14. Summable(s4) /\ SumFunction(s4) = SumFunction(s3) + SumFunction(l)
  BY <1>2, <1>3, <1>5, <1>13, SumPlus
<1>15. Summable(s5) /\ SumFunction(s5) = SumFunction(s4) + SumFunction(e)
  BY <1>2, <1>3, <1>5, <1>14, SumPlus
<1>16. SumFunction(v) = SumFunction(s5) + SumFunction(a)
  BY <1>2, <1>3, <1>5, <1>9, <1>15, SumPlus
<1> DEFINE sc == SumFunction(c)  sv == SumFunction(v)  sw == SumFunction(w)
           sg == SumFunction(g)  sk == SumFunction(k)  sl == SumFunction(l)
           se == SumFunction(e)  sa == SumFunction(a)  in == EarnedIncome(b, m)
           lv == LivingExpenses(b, m)
<1>17. sv = sc + sw + sg + sk + sl + se + sa
  BY <1>11, <1>12, <1>13, <1>14, <1>15, <1>16
<1>18. /\ sc \in Int /\ sv \in Int /\ sw \in Int /\ sg \in Int /\ sk \in Int /\ sl \in Int
       /\ se \in Int /\ sa \in Int /\ in \in Int
  BY <1>1, <1>2, <1>7, <1>10, SumInt
<1>19. lv = in + sg + sk + sl + (se + sa) - (sv - sw)
  BY <1>1, <1>2 DEF LivingExpenses
<1> HIDE DEF sc, sv, sw, sg, sk, sl, se, sa, in, lv
<1>20. lv = in - sc  BY <1>17, <1>18, <1>19
<1> QED  BY <1>10, <1>20 DEF lv, in, sc, c, D

----------------------------------------------------------------------------
(* Series of months *)

\* A bounded set of months has a last one.
LEMMA LastOf ==
  ASSUME NEW S, S \subseteq Int, S # {}, NEW u \in Int, \A n \in S : n <= u
  PROVE  Max(S) \in S /\ \A n \in S : n <= Max(S)
<1> DEFINE D == {u - n : n \in S}
<1>1. D \subseteq Nat /\ D # {}
  <2>1. \A n \in S : n \in Int /\ n <= u  OBVIOUS
  <2>2. \A n \in S : u - n \in Nat  BY <2>1
  <2> QED  BY <2>2
<1>2. PICK d \in D : \A e \in D : <<e, d>> \notin OpToRel(<, Nat)
  <2> HIDE DEF D
  <2>1. IsWellFoundedOn(OpToRel(<, Nat), Nat)  BY NatLessThanWellFounded
  <2> QED  BY <1>1, <2>1, WFMin
<1>3. PICK x \in S : d = u - x  OBVIOUS
<1>4. ASSUME NEW n \in S PROVE n <= x
  <2>1. u - n \in D /\ u - n \in Nat /\ d \in Nat  BY <1>1
  <2>2. ~(u - n < d)  BY <1>2, <2>1 DEF OpToRel
  <2> QED  BY <1>3, <2>1, <2>2
<1>5. \E y \in S : \A n \in S : y >= n  BY <1>4
<1>6. Max(S) \in S /\ \A n \in S : Max(S) >= n  BY <1>5 DEF Max
<1> QED  BY <1>6

LEMMA LastIs ==
  ASSUME NEW S, S \subseteq Int, NEW x \in S, \A n \in S : n <= x
  PROVE  Max(S) = x
<1> DEFINE y == Max(S)
<1>1. y \in S /\ \A n \in S : n <= y  BY LastOf
<1> HIDE DEF y
<1>2. y \in Int /\ x \in Int /\ y <= x /\ x <= y  BY <1>1
<1>3. y = x  BY <1>2
<1> QED  BY <1>3 DEF y

LEMMA FirstIs ==
  ASSUME NEW S, S \subseteq Int, NEW x \in S, \A n \in S : x <= n
  PROVE  Min(S) = x
<1>1. \E y \in S : \A n \in S : y <= n  OBVIOUS
<1> DEFINE z == Min(S)
<1>2. z \in S /\ \A n \in S : z <= n  BY <1>1 DEF Min
<1> HIDE DEF z
<1>3. z \in Int /\ x \in Int /\ z <= x /\ x <= z  BY <1>2
<1>4. z = x  BY <1>3
<1> QED  BY <1>4 DEF z

\* To have its first element in m is to have m and nothing before it.
LEMMA FirstAt ==
  ASSUME NEW X, NEW v \in Int, X \subseteq 1 .. v, NEW m \in Int
  PROVE  (X # {} /\ Min(X) = m) <=> (m \in X /\ \A n \in X : m <= n)
<1>1. ASSUME X # {} PROVE Min(X) \in X /\ \A n \in X : Min(X) <= n
  <2> DEFINE Y == {0 - n : n \in X}
  <2>1. \A n \in X : n \in Int /\ 1 <= n /\ 0 - n \in Int /\ 0 - n <= 0  OBVIOUS
  <2>2. Y \subseteq Int /\ Y # {} /\ \A n \in Y : n <= 0  BY <1>1, <2>1
  <2> HIDE DEF Y
  <2>3. Max(Y) \in Y /\ \A n \in Y : n <= Max(Y)
    <3>1. \E w \in Int : \A n \in Y : n <= w  BY <2>2
    <3> QED  BY <2>2, <3>1, LastOf
  <2>4. PICK x \in X : Max(Y) = 0 - x  BY <2>3 DEF Y
  <2>5. ASSUME NEW n \in X PROVE x <= n
    <3>1. 0 - n \in Y  BY DEF Y
    <3>2. 0 - n <= 0 - x  BY <2>3, <2>4, <3>1
    <3> QED  BY <2>1, <3>2
  <2>6. \E y \in X : \A n \in X : y <= n  BY <2>5
  <2> QED  BY <2>6 DEF Min
<1>2. ASSUME m \in X, \A n \in X : m <= n PROVE Min(X) = m
  <2>1. X \subseteq Int  OBVIOUS
  <2> QED  BY <1>2, <2>1, FirstIs
<1> QED  BY <1>1, <1>2

\* A series is read at the last month not after the one asked for.
LEMMA LatestIn ==
  ASSUME NEW s, DOMAIN s \subseteq Int, NEW m \in Int, Latest(s, m) # {}
  PROVE  /\ Max(Latest(s, m)) \in DOMAIN s /\ Max(Latest(s, m)) <= m
         /\ \A n \in DOMAIN s : n <= m => n <= Max(Latest(s, m))
BY LastOf DEF Latest

LEMMA LatestIs ==
  ASSUME NEW s, DOMAIN s \subseteq Int, NEW m \in Int, NEW n \in DOMAIN s, n <= m,
         \A k \in DOMAIN s : k <= m => k <= n
  PROVE  Latest(s, m) # {} /\ Max(Latest(s, m)) = n /\ LatestAtOrBefore(s, m) = s[n]
<1>1. Max(Latest(s, m)) = n
  <2>1. Latest(s, m) \subseteq Int /\ n \in Latest(s, m)  BY DEF Latest
  <2>2. \A k \in Latest(s, m) : k <= n  BY DEF Latest
  <2> QED  BY <2>1, <2>2, LastIs
<1> QED  BY <1>1 DEF Latest, LatestAtOrBefore

\* Two series that cannot be told apart up to month m.
SameUpTo(r, s, m) ==
  \A n \in Int : n <= m => /\ n \in DOMAIN r <=> n \in DOMAIN s
                           /\ n \in DOMAIN r => s[n] = r[n]

LEMMA SameLatest ==
  ASSUME NEW r, NEW s, DOMAIN r \subseteq Int, DOMAIN s \subseteq Int, NEW m \in Int,
         SameUpTo(r, s, m), NEW k \in Int, k <= m
  PROVE  /\ Latest(s, k) = Latest(r, k)
         /\ Latest(r, k) # {} => LatestAtOrBefore(s, k) = LatestAtOrBefore(r, k)
<1>1. Latest(s, k) = Latest(r, k)
  <2>1. ASSUME NEW n \in Int PROVE n \in Latest(s, k) <=> n \in Latest(r, k)
    BY <2>1 DEF SameUpTo, Latest
  <2>2. Latest(s, k) \subseteq Int /\ Latest(r, k) \subseteq Int  BY DEF Latest
  <2> QED  BY <2>1, <2>2
<1>2. Latest(r, k) # {} => LatestAtOrBefore(s, k) = LatestAtOrBefore(r, k)
  <2> SUFFICES ASSUME Latest(r, k) # {} PROVE LatestAtOrBefore(s, k) = LatestAtOrBefore(r, k)
    OBVIOUS
  <2> DEFINE n == Max(Latest(r, k))
  <2>1. n \in DOMAIN r /\ n <= k  BY LatestIn
  <2> HIDE DEF n
  <2>2. s[n] = r[n]  BY <2>1 DEF SameUpTo
  <2> QED  BY <1>1, <2>2 DEF LatestAtOrBefore, n
<1> QED  BY <1>1, <1>2

----------------------------------------------------------------------------
(* Books as the household keeps them *)

Fields == {"position", "snapshot", "transaction", "income", "rate", "multi"}

Statuses == {"active", "sold", "matured", "paid_off", "collected", "untracked", "disposed",
             "forgiven", "written_off"}

Rows == [group: Groups, subtype: {Kind[p] : p \in Position}, status: Statuses,
         entry: {"acquired", "newly_tracked"}, owner: {"joint"}, end: Int \cup {None},
         principal: Int \cup {None}, placed: Int \cup {None}, from: Position \cup {None},
         paysOut: BOOLEAN, currency: {Home, Other}]

Txns == [of: Position, month: Int,
         type: {"buy", "sell", "coupon", "dividend", "fee", "maturity"},
         amount: Int, units: {FALSE}, principal: Int, interest: Int,
         rolled: SUBSET {"principal", "interest"}, currency: {Home, Other}, no: Nat]

Incomes == [month: Int, amount: Int, currency: {Home}, owner: {"joint"}, no: Nat]

\* The rows and the snapshots s of position p in month t.
RowOK(p, row, t) ==
  /\ row \in Rows /\ row.group = GroupOf(p) /\ row.subtype = Kind[p] /\ row.currency = Currency[p]
  /\ row.principal # None <=> Kind[p] = "time_deposit"
  /\ row.principal # None => row.placed \in Int /\ row.placed <= t
  /\ row.principal = None => row.placed = None
  /\ row.end # None => row.end <= t

\* What is held has not been recorded this month; what has ended was recorded
\* before, and last, at its end, as nothing.
SeriesOK(p, row, s, t) ==
  /\ DOMAIN s \subseteq 1 .. t
  /\ \A n \in DOMAIN s : s[n].amount \in Int /\ s[n].currency = Currency[p]
  /\ row.end = None => \A n \in DOMAIN s : n < t
  /\ row.end # None => /\ row.end \in DOMAIN s /\ s[row.end].amount = 0
                       /\ \A n \in DOMAIN s : n <= row.end
                       /\ \E n \in DOMAIN s : n < row.end
  /\ row.principal # None => \A n \in DOMAIN s : row.placed <= n

PositionsOK(b, t) ==
  /\ IsFiniteSet(DOMAIN b.position) /\ DOMAIN b.position \subseteq Position
  /\ DOMAIN b.snapshot = DOMAIN b.position
  /\ \A p \in DOMAIN b.position : /\ RowOK(p, b.position[p], t)
                                  /\ SeriesOK(p, b.position[p], b.snapshot[p], t)

BankOK(b, t) ==
  /\ Bank \in DOMAIN b.position /\ b.position[Bank].end = None
  /\ t > 1 => 1 \in DOMAIN b.snapshot[Bank]

RatesOK(b, t) ==
  /\ b.multi = TRUE /\ DOMAIN b.rate = {Other}
  /\ 1 \in DOMAIN b.rate[Other] /\ DOMAIN b.rate[Other] \subseteq 1 .. t
  /\ \A n \in DOMAIN b.rate[Other] : b.rate[Other][n] \in Int

\* A deposit matures when it ends.
TxnsOK(b, t) ==
  /\ IsFiniteSet(b.transaction)
  /\ \A x \in b.transaction :
       /\ x \in Txns /\ x.of \in DOMAIN b.position /\ x.month \in 1 .. t
       /\ x.no < Cardinality(b.transaction)
       /\ x.type = "maturity" => b.position[x.of].end # None

IncomeOK(b, t) ==
  /\ IsFiniteSet(b.income)
  /\ \A i \in b.income : i \in Incomes /\ i.month \in 1 .. t /\ i.no < Cardinality(b.income)

\* A deposit is rolled over when it ends, and recorded from then on.
RollsOK(b) ==
  \A q \in DOMAIN b.position : b.position[q].from # None =>
    LET p == b.position[q].from
    IN  /\ p \in DOMAIN b.position /\ b.position[p].end # None
        /\ \A x \in b.transaction : x.of = p /\ x.type = "maturity" =>
             \A n \in DOMAIN b.snapshot[q] : x.month <= n

\* What an investment that ended came to is on the books.
SettledOK(b) ==
  \A p \in DOMAIN b.position :
    (/\ b.position[p].group = "investment" /\ b.position[p].end # None
     /\ b.position[p].status # "untracked")
    => \E x \in b.transaction : /\ x.of = p /\ x.month = b.position[p].end
                                /\ x.type \in {"sell", "maturity"}

BooksOK(b, t) ==
  /\ DOMAIN b = Fields
  /\ PositionsOK(b, t) /\ BankOK(b, t) /\ RatesOK(b, t) /\ TxnsOK(b, t) /\ IncomeOK(b, t)
  /\ RollsOK(b) /\ SettledOK(b)

----------------------------------------------------------------------------
(* What amounts and positions come to *)

RateAt(b, m) == LatestAtOrBefore(b.rate[Other], m)

PriceOf(b, currency, m) == IF currency = Home THEN 1 ELSE RateAt(b, m)

LEMMA PriceIs ==
  ASSUME NEW b, NEW t, RatesOK(b, t), NEW m \in Int, 1 <= m,
         NEW currency \in {Home, Other}
  PROVE  /\ Convertible(b, currency, m) /\ PriceOf(b, currency, m) \in Int
         /\ \A a \in Int : /\ Convert(b, a, currency, m) \in Int
                           /\ Convert(b, a, currency, m) = a * PriceOf(b, currency, m)
<1>1. /\ Latest(b.rate[Other], m) # {} /\ DOMAIN b.rate[Other] \subseteq Int
  BY DEF RatesOK, Latest
<1>2. RateAt(b, m) \in Int
  <2>1. Max(Latest(b.rate[Other], m)) \in DOMAIN b.rate[Other]  BY <1>1, LatestIn
  <2> QED  BY <2>1 DEF RateAt, LatestAtOrBefore, RatesOK
<1>3. Home # Other  BY BooksAssumption
<1>4. CASE currency = Home
  BY <1>4 DEF Convertible, Foreign, Convert, PriceOf
<1>5. CASE currency = Other
  <2>1. \A a : Convert(b, a, currency, m) = a * RateAt(b, m)
    BY <1>3, <1>5 DEF Foreign, Convert, RateAt, RatesOK
  <2>2. PriceOf(b, currency, m) = RateAt(b, m)  BY <1>3, <1>5 DEF PriceOf
  <2>3. Convertible(b, currency, m)  BY <1>1, <1>5 DEF Convertible
  <2>4. \A a \in Int, r \in Int : a * r \in Int  OBVIOUS
  <2> QED  BY <1>2, <2>1, <2>2, <2>3, <2>4
<1> QED  BY <1>4, <1>5

LEMMA CarriedIs ==
  ASSUME NEW b, NEW t \in Int, PositionsOK(b, t), RatesOK(b, t), NEW p \in DOMAIN b.position,
         NEW m \in Int, 1 <= m
  PROVE  /\ IsCarried(b, p, m) <=> Latest(b.snapshot[p], m) # {}
         /\ IsCarried(b, p, m) =>
              /\ Carried(b, p, m) \in Int
              /\ LatestAtOrBefore(b.snapshot[p], m).amount \in Int
              /\ Carried(b, p, m) =
                   LatestAtOrBefore(b.snapshot[p], m).amount * PriceOf(b, Currency[p], m)
<1> DEFINE s == b.snapshot[p]
           x == LatestAtOrBefore(s, m)
<1>1. /\ DOMAIN s \subseteq Int
      /\ \A n \in DOMAIN s : s[n].amount \in Int /\ s[n].currency = Currency[p]
  BY DEF PositionsOK, SeriesOK
<1>2. Currency[p] \in {Home, Other}  BY BooksAssumption DEF PositionsOK
<1>3. Latest(s, m) # {} => x.amount \in Int /\ x.currency = Currency[p]
  BY <1>1, LatestIn DEF LatestAtOrBefore
<1>4. IsCarried(b, p, m) <=> Latest(s, m) # {}
  BY <1>2, <1>3, PriceIs DEF IsCarried
<1>5. Carried(b, p, m) = Convert(b, x.amount, x.currency, m)  BY DEF Carried
<1> HIDE DEF s, x
<1>6. Latest(s, m) # {} => /\ Carried(b, p, m) \in Int
                           /\ Carried(b, p, m) = x.amount * PriceOf(b, Currency[p], m)
  BY <1>2, <1>3, <1>5, PriceIs
<1> QED  BY <1>3, <1>4, <1>6 DEF s, x

LEMMA BookedIs ==
  ASSUME NEW b, NEW t \in Int, TxnsOK(b, t), RatesOK(b, t), NEW m \in Int, 1 <= m
  PROVE  /\ Booked(b, m) = {x \in b.transaction : x.month = m}
         /\ IsFiniteSet(Booked(b, m))
         /\ \A x \in Booked(b, m) :
              /\ x.currency \in {Home, Other} /\ x.amount \in Int
              /\ x.principal \in Int /\ x.interest \in Int
              /\ CashOut(x) \in Int /\ CashIn(x) \in Int
              /\ \A parts : Part(x, parts) \in Int
<1>1. \A x \in b.transaction : /\ x.currency \in {Home, Other} /\ x.amount \in Int
                               /\ x.principal \in Int /\ x.interest \in Int
  BY DEF TxnsOK, Txns
<1>2. Booked(b, m) = {x \in b.transaction : x.month = m}
  BY <1>1, PriceIs DEF Booked
<1>3. IsFiniteSet(Booked(b, m))  BY <1>2, FS_Subset DEF TxnsOK
<1>4. \A x \in Booked(b, m) : CashOut(x) \in Int /\ CashIn(x) \in Int
  <2> SUFFICES ASSUME NEW x \in Booked(b, m) PROVE CashOut(x) \in Int /\ CashIn(x) \in Int
    OBVIOUS
  <2>1. x.amount \in Int /\ x.principal \in Int /\ x.interest \in Int  BY <1>1, <1>2
  <2>2. CASE x.type \in {"sell", "coupon", "dividend", "distribution"}
    BY <2>1, <2>2 DEF CashOut, CashIn
  <2>3. CASE x.type = "maturity"  BY <2>1, <2>3 DEF CashOut, CashIn
  <2>4. CASE x.type \notin {"sell", "coupon", "dividend", "distribution", "maturity"}
    BY <2>1, <2>4 DEF CashOut, CashIn
  <2> QED  BY <2>2, <2>3, <2>4
<1>5. \A x \in Booked(b, m) : \A parts : Part(x, parts) \in Int
  BY <1>1, <1>2 DEF Part
<1> QED  BY <1>1, <1>2, <1>3, <1>4, <1>5

LEMMA EarnedIs ==
  ASSUME NEW b, NEW t \in Int, IncomeOK(b, t), RatesOK(b, t), NEW m \in Int, 1 <= m
  PROVE  /\ EarnedIncome(b, m) = SumOver({i \in b.income : i.month = m}, LAMBDA i : i.amount)
         /\ EarnedIncome(b, m) \in Int
<1> DEFINE S == {i \in b.income : i.month = m}
           f == [i \in S |-> i.amount]
<1>1. \A i \in b.income : i.currency = Home /\ i.amount \in Int  BY DEF IncomeOK, Incomes
<1>2. \A i \in b.income : /\ Convertible(b, i.currency, m)
                          /\ Convert(b, i.amount, i.currency, m) = i.amount
  BY <1>1 DEF Convertible, Foreign, Convert
<1>3. S = {i \in b.income : i.month = m /\ Convertible(b, i.currency, m)}  BY <1>2
<1>4. f = [i \in S |-> Convert(b, i.amount, i.currency, m)]  BY <1>2
<1>5. EarnedIncome(b, m) = SumFunction(f)  BY <1>3, <1>4 DEF EarnedIncome, SumOver
<1>6. IsFiniteSet(S)  BY FS_Subset DEF IncomeOK
<1>7. Summable(f)  BY <1>1, <1>6 DEF Summable
<1>8. SumFunction(f) \in Int  BY <1>7, SumInt
<1> QED  BY <1>5, <1>8 DEF SumOver

\* The cash flows of p itself in month m.
OwnOf(b, p, m) ==
  SumOver({x \in Booked(b, m) : x.of = p},
          LAMBDA x : Convert(b, CashOut(x) - CashIn(x), x.currency, m))

LEMMA OwnIs ==
  ASSUME NEW b, NEW t \in Int, TxnsOK(b, t), RatesOK(b, t), NEW m \in Int, 1 <= m, NEW p
  PROVE  /\ Summable([x \in {y \in Booked(b, m) : y.of = p} |->
                        Convert(b, CashOut(x) - CashIn(x), x.currency, m)])
         /\ OwnOf(b, p, m) \in Int
<1> DEFINE S == {y \in Booked(b, m) : y.of = p}
           f == [x \in S |-> Convert(b, CashOut(x) - CashIn(x), x.currency, m)]
<1>1. IsFiniteSet(S)  BY BookedIs, FS_Subset
<1>2. \A x \in S : Convert(b, CashOut(x) - CashIn(x), x.currency, m) \in Int
  <2> SUFFICES ASSUME NEW x \in S
               PROVE  Convert(b, CashOut(x) - CashIn(x), x.currency, m) \in Int
    OBVIOUS
  <2>1. CashOut(x) \in Int /\ CashIn(x) \in Int /\ x.currency \in {Home, Other}  BY BookedIs
  <2>2. CashOut(x) - CashIn(x) \in Int  BY <2>1
  <2> QED  BY <2>1, <2>2, PriceIs
<1>3. Summable(f)  BY <1>1, <1>2 DEF Summable
<1>4. SumFunction(f) \in Int  BY <1>3, SumInt
<1> QED  BY <1>3, <1>4 DEF OwnOf, SumOver

LEMMA RolledIs ==
  ASSUME NEW b, NEW t \in Int, TxnsOK(b, t), RatesOK(b, t), NEW m \in Int, 1 <= m, NEW p
  PROVE  RolledInto(b, p, m) \in Int
<1> DEFINE S == {x \in Booked(b, m) : x.type = "maturity" /\ SuccessorOf(b, x.of) = p}
           f == [x \in S |-> Convert(b, Part(x, x.rolled), x.currency, m)]
<1>1. IsFiniteSet(S)  BY BookedIs, FS_Subset
<1>2. \A x \in S : Convert(b, Part(x, x.rolled), x.currency, m) \in Int
  <2> SUFFICES ASSUME NEW x \in S PROVE Convert(b, Part(x, x.rolled), x.currency, m) \in Int
    OBVIOUS
  <2>1. Part(x, x.rolled) \in Int /\ x.currency \in {Home, Other}  BY BookedIs
  <2> QED  BY <2>1, PriceIs
<1>3. Summable(f)  BY <1>1, <1>2 DEF Summable
<1> QED  BY <1>3, SumInt DEF RolledInto, SumOver

LEMMA FreshIs ==
  ASSUME NEW b, NEW t \in Int, PositionsOK(b, t), RatesOK(b, t), NEW m \in Int, 1 <= m
  PROVE  /\ FreshPlacements(b, m) =
              {p \in DOMAIN b.position : /\ b.position[p].from = None
                                         /\ b.position[p].principal # None
                                         /\ b.position[p].placed = m}
         /\ IsFiniteSet(FreshPlacements(b, m))
         /\ \A p \in FreshPlacements(b, m) :
              /\ PlacementOf(b, p, m) \in Int
              /\ PlacementOf(b, p, m) = b.position[p].principal * PriceOf(b, Currency[p], m)
<1>1. \A p \in DOMAIN b.position : b.position[p].currency = Currency[p]
                                   /\ Currency[p] \in {Home, Other}
  BY BooksAssumption DEF PositionsOK, RowOK
<1>2. FreshPlacements(b, m) =
        {p \in DOMAIN b.position : /\ b.position[p].from = None
                                   /\ b.position[p].principal # None
                                   /\ b.position[p].placed = m}
  BY <1>1, PriceIs DEF FreshPlacements
<1>3. IsFiniteSet(FreshPlacements(b, m))  BY <1>2, FS_Subset DEF PositionsOK
<1>4. ASSUME NEW p \in FreshPlacements(b, m)
      PROVE  /\ PlacementOf(b, p, m) \in Int
             /\ PlacementOf(b, p, m) = b.position[p].principal * PriceOf(b, Currency[p], m)
  <2>1. p \in DOMAIN b.position /\ b.position[p].principal # None  BY <1>2
  <2>2. b.position[p].principal \in Int  BY <2>1 DEF PositionsOK, RowOK, Rows
  <2> QED  BY <1>1, <2>1, <2>2, PriceIs DEF PlacementOf
<1> QED  BY <1>2, <1>3, <1>4

LEMMA FlowIs ==
  ASSUME NEW b, NEW t \in Int, PositionsOK(b, t), TxnsOK(b, t), RatesOK(b, t),
         NEW m \in Int, 1 <= m, NEW p
  PROVE  /\ Flow(b, p, m) \in Int
         /\ Flow(b, p, m) = OwnOf(b, p, m)
              - (IF p \in FreshPlacements(b, m) THEN PlacementOf(b, p, m) ELSE 0)
              - RolledInto(b, p, m)
<1> DEFINE o == OwnOf(b, p, m)
           a == IF p \in FreshPlacements(b, m) THEN PlacementOf(b, p, m) ELSE 0
           r == RolledInto(b, p, m)
<1>1. o \in Int  BY OwnIs
<1>2. a \in Int  BY FreshIs
<1>3. r \in Int  BY RolledIs
<1>4. Flow(b, p, m) = o - a - r  BY DEF Flow, OwnOf
<1> HIDE DEF o, a, r
<1>5. Flow(b, p, m) \in Int  BY <1>1, <1>2, <1>3, <1>4
<1> QED  BY <1>4, <1>5 DEF o, a, r

LEMMA SaneBooks ==
  ASSUME NEW b, NEW t \in Int, BooksOK(b, t), NEW m \in Int, 1 < m
  PROVE  Sane(b, m)
<1>1. PositionsOK(b, t) /\ TxnsOK(b, t) /\ RatesOK(b, t) /\ IncomeOK(b, t)  BY DEF BooksOK
<1>2. 1 <= m /\ m - 1 \in Int /\ 1 <= m - 1  OBVIOUS
<1>3. ASSUME NEW p \in DOMAIN b.position
      PROVE  /\ b.position[p].group \in Groups
             /\ IsCarried(b, p, m) => Carried(b, p, m) \in Int
             /\ IsCarried(b, p, m - 1) => Carried(b, p, m - 1) \in Int
             /\ Flow(b, p, m) \in Int
  <2>1. b.position[p].group \in Groups  BY <1>1 DEF PositionsOK, RowOK, Rows
  <2>2. IsCarried(b, p, m) => Carried(b, p, m) \in Int  BY <1>1, <1>2, CarriedIs
  <2>3. IsCarried(b, p, m - 1) => Carried(b, p, m - 1) \in Int  BY <1>1, <1>2, CarriedIs
  <2>4. Flow(b, p, m) \in Int  BY <1>1, <1>2, FlowIs
  <2> QED  BY <2>1, <2>2, <2>3, <2>4
<1>4. EarnedIncome(b, m) \in Int  BY <1>1, <1>2, EarnedIs
<1>5. IsFiniteSet(DOMAIN b.position)  BY <1>1 DEF PositionsOK
<1> QED  BY <1>3, <1>4, <1>5 DEF Sane

----------------------------------------------------------------------------
(* What a later entry leaves alone: books c go on from books b without touching *)
(* what the report of month m is made of.                                       *)

Agree(b, c, m) ==
  /\ SameUpTo(b.rate[Other], c.rate[Other], m)
  /\ DOMAIN b.position \subseteq DOMAIN c.position
  /\ \A p \in DOMAIN b.position :
       /\ SameUpTo(b.snapshot[p], c.snapshot[p], m)
       /\ c.position[p].group = b.position[p].group
       /\ c.position[p].subtype = b.position[p].subtype
       /\ c.position[p].entry = b.position[p].entry
       /\ c.position[p].principal = b.position[p].principal
       /\ c.position[p].placed = b.position[p].placed
       /\ c.position[p].from = b.position[p].from
       /\ c.position[p].paysOut = b.position[p].paysOut
       /\ \/ c.position[p] = b.position[p]
          \/ b.position[p].end = None /\ c.position[p].end \in Int /\ c.position[p].end > m
  /\ \A q \in DOMAIN c.position \ DOMAIN b.position :
       /\ Latest(c.snapshot[q], m) = {}
       /\ c.position[q].principal # None => c.position[q].placed > m
       /\ c.position[q].from # None =>
            \A x \in b.transaction : x.of = c.position[q].from => x.type # "maturity"
       /\ c.position[q].end = None
  /\ \A x : (x \in c.transaction /\ x.month <= m) <=> (x \in b.transaction /\ x.month <= m)
  /\ \A i : (i \in c.income /\ i.month <= m) <=> (i \in b.income /\ i.month <= m)

Alike(b, t, c, u, m) ==
  /\ t \in Int /\ BooksOK(b, t) /\ u \in Int /\ BooksOK(c, u)
  /\ m \in Int /\ 1 <= m /\ m < t
  /\ Agree(b, c, m)

LEMMA AlikeBefore ==
  ASSUME NEW b, NEW t, NEW c, NEW u, NEW m, Alike(b, t, c, u, m), 1 < m
  PROVE  Alike(b, t, c, u, m - 1)
<1>1. /\ t \in Int /\ u \in Int /\ m \in Int /\ m - 1 \in Int /\ 1 <= m - 1 /\ m - 1 < t
      /\ \A n \in Int : (n <= m - 1 => n <= m) /\ (n > m => n > m - 1)
  BY DEF Alike
<1>2. BooksOK(b, t) /\ BooksOK(c, u) /\ Agree(b, c, m)  BY DEF Alike
<1>3. \A r, s : SameUpTo(r, s, m) => SameUpTo(r, s, m - 1)
  BY <1>1 DEF SameUpTo
<1>4. /\ \A q \in DOMAIN c.position : DOMAIN c.snapshot[q] \subseteq Int
      /\ \A q \in DOMAIN c.position :
           c.position[q].principal # None => c.position[q].placed \in Int
      /\ \A x \in b.transaction : x.month \in Int
      /\ \A x \in c.transaction : x.month \in Int
      /\ \A x \in b.income : x.month \in Int
      /\ \A x \in c.income : x.month \in Int
  <2>1. PositionsOK(c, u) /\ TxnsOK(b, t) /\ TxnsOK(c, u) /\ IncomeOK(b, t) /\ IncomeOK(c, u)
    BY <1>2 DEF BooksOK
  <2>2. \A q \in DOMAIN c.position : DOMAIN c.snapshot[q] \subseteq Int
    BY <2>1 DEF PositionsOK, SeriesOK
  <2>3. \A q \in DOMAIN c.position :
          c.position[q].principal # None => c.position[q].placed \in Int
    BY <2>1 DEF PositionsOK, RowOK
  <2> QED  BY <2>1, <2>2, <2>3 DEF TxnsOK, IncomeOK
<1>5. Agree(b, c, m - 1)
  <2>1. SameUpTo(b.rate[Other], c.rate[Other], m - 1)  BY <1>2, <1>3 DEF Agree
  <2>2. ASSUME NEW p \in DOMAIN b.position
        PROVE  /\ SameUpTo(b.snapshot[p], c.snapshot[p], m - 1)
               /\ c.position[p].group = b.position[p].group
               /\ c.position[p].subtype = b.position[p].subtype
               /\ c.position[p].entry = b.position[p].entry
               /\ c.position[p].principal = b.position[p].principal
               /\ c.position[p].placed = b.position[p].placed
               /\ c.position[p].from = b.position[p].from
               /\ c.position[p].paysOut = b.position[p].paysOut
               /\ \/ c.position[p] = b.position[p]
                  \/ /\ b.position[p].end = None /\ c.position[p].end \in Int
                     /\ c.position[p].end > m - 1
    <3>1. SameUpTo(b.snapshot[p], c.snapshot[p], m)  BY <1>2 DEF Agree
    <3>2. SameUpTo(b.snapshot[p], c.snapshot[p], m - 1)  BY <1>3, <3>1
    <3> QED  BY <1>1, <1>2, <3>2 DEF Agree
  <2>3. ASSUME NEW q \in DOMAIN c.position \ DOMAIN b.position
        PROVE  /\ Latest(c.snapshot[q], m - 1) = {}
               /\ c.position[q].principal # None => c.position[q].placed > m - 1
               /\ c.position[q].from # None =>
                    \A x \in b.transaction : x.of = c.position[q].from => x.type # "maturity"
               /\ c.position[q].end = None
    <3>1. Latest(c.snapshot[q], m) = {}  BY <1>2 DEF Agree
    <3>2. Latest(c.snapshot[q], m - 1) = {}  BY <1>1, <1>4, <3>1 DEF Latest
    <3>3. c.position[q].principal # None => c.position[q].placed > m - 1
      BY <1>1, <1>2, <1>4 DEF Agree
    <3> QED  BY <1>2, <3>2, <3>3 DEF Agree
  <2>4. ASSUME NEW x
        PROVE  (x \in c.transaction /\ x.month <= m - 1) <=> (x \in b.transaction /\ x.month <= m - 1)
    BY <1>1, <1>2, <1>4 DEF Agree
  <2>5. ASSUME NEW x
        PROVE  (x \in c.income /\ x.month <= m - 1) <=> (x \in b.income /\ x.month <= m - 1)
    BY <1>1, <1>2, <1>4 DEF Agree
  <2>6. DOMAIN b.position \subseteq DOMAIN c.position  BY <1>2 DEF Agree
  <2> QED  BY <2>1, <2>2, <2>3, <2>4, <2>5, <2>6 DEF Agree
<1> QED  BY <1>1, <1>2, <1>5 DEF Alike

LEMMA AlikePrice ==
  ASSUME NEW b, NEW t, NEW c, NEW u, NEW m, Alike(b, t, c, u, m),
         NEW k \in Int, 1 <= k, k <= m, NEW currency \in {Home, Other}
  PROVE  /\ PriceOf(c, currency, k) = PriceOf(b, currency, k)
         /\ Convertible(b, currency, k) /\ Convertible(c, currency, k)
         /\ \A a \in Int : Convert(c, a, currency, k) = Convert(b, a, currency, k)
<1>1. RatesOK(b, t) /\ RatesOK(c, u) /\ m \in Int /\ SameUpTo(b.rate[Other], c.rate[Other], m)
  BY DEF Alike, BooksOK, Agree
<1>2. Latest(b.rate[Other], k) # {}  BY <1>1 DEF RatesOK, Latest
<1>3. DOMAIN b.rate[Other] \subseteq Int /\ DOMAIN c.rate[Other] \subseteq Int
  BY <1>1 DEF RatesOK
<1>4. RateAt(c, k) = RateAt(b, k)
  BY <1>1, <1>2, <1>3, SameLatest DEF RateAt
<1>5. PriceOf(c, currency, k) = PriceOf(b, currency, k)  BY <1>4 DEF PriceOf
<1> QED  BY <1>1, <1>5, PriceIs

LEMMA AlikeCarried ==
  ASSUME NEW b, NEW t, NEW c, NEW u, NEW m, Alike(b, t, c, u, m),
         NEW k \in Int, 1 <= k, k <= m
  PROVE  /\ \A p \in DOMAIN b.position :
              /\ p \in DOMAIN c.position
              /\ Latest(c.snapshot[p], k) = Latest(b.snapshot[p], k)
              /\ IsCarried(c, p, k) <=> IsCarried(b, p, k)
              /\ IsCarried(b, p, k) => /\ Carried(c, p, k) = Carried(b, p, k)
                                       /\ Carried(b, p, k) \in Int
         /\ \A q \in DOMAIN c.position \ DOMAIN b.position :
              Latest(c.snapshot[q], k) = {} /\ ~IsCarried(c, q, k)
<1>1. /\ t \in Int /\ u \in Int /\ m \in Int
      /\ PositionsOK(b, t) /\ PositionsOK(c, u) /\ RatesOK(b, t) /\ RatesOK(c, u)
      /\ Agree(b, c, m)
  BY DEF Alike, BooksOK
<1>2. ASSUME NEW p \in DOMAIN b.position
      PROVE  /\ p \in DOMAIN c.position
             /\ Latest(c.snapshot[p], k) = Latest(b.snapshot[p], k)
             /\ IsCarried(c, p, k) <=> IsCarried(b, p, k)
             /\ IsCarried(b, p, k) => /\ Carried(c, p, k) = Carried(b, p, k)
                                      /\ Carried(b, p, k) \in Int
  <2>1. p \in DOMAIN c.position /\ SameUpTo(b.snapshot[p], c.snapshot[p], m)
    BY <1>1 DEF Agree
  <2>2. DOMAIN b.snapshot[p] \subseteq Int /\ DOMAIN c.snapshot[p] \subseteq Int
    BY <1>1, <2>1 DEF PositionsOK, SeriesOK
  <2>3. /\ Latest(c.snapshot[p], k) = Latest(b.snapshot[p], k)
        /\ Latest(b.snapshot[p], k) # {} =>
             LatestAtOrBefore(c.snapshot[p], k) = LatestAtOrBefore(b.snapshot[p], k)
    BY <1>1, <2>1, <2>2, SameLatest
  <2>4. Currency[p] \in {Home, Other}  BY <1>1, BooksAssumption DEF PositionsOK
  <2>5. PriceOf(c, Currency[p], k) = PriceOf(b, Currency[p], k)  BY <2>4, AlikePrice
  <2>6. /\ IsCarried(b, p, k) <=> Latest(b.snapshot[p], k) # {}
        /\ IsCarried(b, p, k) =>
             /\ Carried(b, p, k) \in Int
             /\ Carried(b, p, k) =
                  LatestAtOrBefore(b.snapshot[p], k).amount * PriceOf(b, Currency[p], k)
    BY <1>1, CarriedIs
  <2>7. /\ IsCarried(c, p, k) <=> Latest(c.snapshot[p], k) # {}
        /\ IsCarried(c, p, k) =>
             Carried(c, p, k) =
               LatestAtOrBefore(c.snapshot[p], k).amount * PriceOf(c, Currency[p], k)
    BY <1>1, <2>1, CarriedIs
  <2> QED  BY <2>1, <2>3, <2>5, <2>6, <2>7
<1>3. ASSUME NEW q \in DOMAIN c.position \ DOMAIN b.position
      PROVE  Latest(c.snapshot[q], k) = {} /\ ~IsCarried(c, q, k)
  <2>1. Latest(c.snapshot[q], m) = {}  BY <1>1 DEF Agree
  <2>2. DOMAIN c.snapshot[q] \subseteq Int  BY <1>1 DEF PositionsOK, SeriesOK
  <2>3. Latest(c.snapshot[q], k) = {}  BY <1>1, <2>1, <2>2 DEF Latest
  <2> QED  BY <1>1, <2>3, CarriedIs
<1> QED  BY <1>2, <1>3

LEMMA AlikeEnds ==
  ASSUME NEW b, NEW t, NEW c, NEW u, NEW m, Alike(b, t, c, u, m), NEW p \in DOMAIN b.position
  PROVE  /\ TerminatedBefore(c, p, m) <=> TerminatedBefore(b, p, m)
         /\ TerminatesAt(c, p, m) <=> TerminatesAt(b, p, m)
         /\ TerminatedByEndOf(c, p, m) <=> TerminatedByEndOf(b, p, m)
         /\ TerminatesAt(b, p, m) => c.position[p] = b.position[p]
<1>1. /\ m \in Int
      /\ \/ c.position[p] = b.position[p]
         \/ b.position[p].end = None /\ c.position[p].end \in Int /\ c.position[p].end > m
  BY DEF Alike, Agree
<1>2. CASE c.position[p] = b.position[p]
  BY <1>2 DEF TerminatedBefore, TerminatesAt, TerminatedByEndOf
<1>3. CASE b.position[p].end = None /\ c.position[p].end \in Int /\ c.position[p].end > m
  <2>1. None # m  BY <1>1, NoneAssumption
  <2>2. ~(m > c.position[p].end) /\ ~(m >= c.position[p].end) /\ c.position[p].end # m
    BY <1>1, <1>3
  <2> QED  BY <1>3, <2>1, <2>2 DEF TerminatedBefore, TerminatesAt, TerminatedByEndOf
<1> QED  BY <1>1, <1>2, <1>3

LEMMA AlikeWorth ==
  ASSUME NEW b, NEW t, NEW c, NEW u, NEW m, Alike(b, t, c, u, m)
  PROVE  Contributes(c, m) = Contributes(b, m) /\ NetWorth(c, m) = NetWorth(b, m)
<1>1. m \in Int /\ 1 <= m /\ Agree(b, c, m)  BY DEF Alike
<1>2. /\ \A p \in DOMAIN b.position :
           /\ p \in DOMAIN c.position
           /\ IsCarried(c, p, m) <=> IsCarried(b, p, m)
           /\ IsCarried(b, p, m) => Carried(c, p, m) = Carried(b, p, m)
      /\ \A q \in DOMAIN c.position \ DOMAIN b.position : ~IsCarried(c, q, m)
  BY <1>1, AlikeCarried
<1>3. \A p \in DOMAIN b.position : TerminatedBefore(c, p, m) <=> TerminatedBefore(b, p, m)
  BY AlikeEnds
<1>4. Contributes(c, m) = Contributes(b, m)  BY <1>2, <1>3 DEF Contributes
<1>5. ASSUME NEW group PROVE GroupWorth(c, group, m) = GroupWorth(b, group, m)
  <2> DEFINE S == Contributes(b, m) \cap InGroup(b, group)
  <2>1. Contributes(c, m) \cap InGroup(c, group) = S
    <3>1. \A p \in Contributes(b, m) :
            p \in DOMAIN b.position /\ p \in DOMAIN c.position
            /\ c.position[p].group = b.position[p].group
      BY <1>1, <1>2 DEF Contributes, Agree
    <3> QED  BY <1>4, <3>1 DEF InGroup
  <2>2. \A p \in S : Carried(c, p, m) = Carried(b, p, m)  BY <1>2 DEF Contributes
  <2> HIDE DEF S
  <2>3. [p \in S |-> Carried(c, p, m)] = [p \in S |-> Carried(b, p, m)]  BY <2>2
  <2> QED  BY <2>1, <2>3 DEF GroupWorth, SumOver, S
<1> QED  BY <1>4, <1>5 DEF NetWorth

LEMMA AlikeBooked ==
  ASSUME NEW b, NEW t, NEW c, NEW u, NEW m, Alike(b, t, c, u, m)
  PROVE  /\ Booked(c, m) = Booked(b, m)
         /\ \A x \in Booked(b, m) :
              /\ x \in b.transaction /\ x.of \in DOMAIN b.position
              /\ \A a \in Int : Convert(c, a, x.currency, m) = Convert(b, a, x.currency, m)
<1>1. /\ t \in Int /\ u \in Int /\ m \in Int /\ 1 <= m /\ m <= m
      /\ TxnsOK(b, t) /\ TxnsOK(c, u) /\ RatesOK(b, t) /\ RatesOK(c, u) /\ Agree(b, c, m)
  BY DEF Alike, BooksOK
<1>2. /\ Booked(b, m) = {x \in b.transaction : x.month = m}
      /\ Booked(c, m) = {x \in c.transaction : x.month = m}
      /\ \A x \in Booked(b, m) : x.currency \in {Home, Other}
  BY <1>1, BookedIs
<1>3. \A x : x.month = m => x.month <= m  BY <1>1
<1>4. \A x : (x \in c.transaction /\ x.month = m) <=> (x \in b.transaction /\ x.month = m)
  BY <1>1, <1>3 DEF Agree
<1>5. Booked(c, m) = Booked(b, m)  BY <1>2, <1>4
<1>6. \A x \in Booked(b, m) : x \in b.transaction /\ x.of \in DOMAIN b.position
  BY <1>1, <1>2 DEF TxnsOK
<1>7. \A x \in Booked(b, m) :
        \A a \in Int : Convert(c, a, x.currency, m) = Convert(b, a, x.currency, m)
  BY <1>1, <1>2, AlikePrice
<1> QED  BY <1>5, <1>6, <1>7

LEMMA AlikeFresh ==
  ASSUME NEW b, NEW t, NEW c, NEW u, NEW m, Alike(b, t, c, u, m)
  PROVE  /\ FreshPlacements(c, m) = FreshPlacements(b, m)
         /\ \A p \in FreshPlacements(b, m) : PlacementOf(c, p, m) = PlacementOf(b, p, m)
<1>1. /\ t \in Int /\ u \in Int /\ m \in Int /\ 1 <= m /\ m <= m
      /\ PositionsOK(b, t) /\ PositionsOK(c, u) /\ RatesOK(b, t) /\ RatesOK(c, u)
      /\ Agree(b, c, m)
  BY DEF Alike, BooksOK
<1>2. /\ FreshPlacements(b, m) =
           {p \in DOMAIN b.position : /\ b.position[p].from = None
                                      /\ b.position[p].principal # None
                                      /\ b.position[p].placed = m}
      /\ FreshPlacements(c, m) =
           {p \in DOMAIN c.position : /\ c.position[p].from = None
                                      /\ c.position[p].principal # None
                                      /\ c.position[p].placed = m}
      /\ \A p \in FreshPlacements(b, m) :
           PlacementOf(b, p, m) = b.position[p].principal * PriceOf(b, Currency[p], m)
      /\ \A p \in FreshPlacements(c, m) :
           PlacementOf(c, p, m) = c.position[p].principal * PriceOf(c, Currency[p], m)
  BY <1>1, FreshIs
<1>3. \A p \in DOMAIN b.position : /\ p \in DOMAIN c.position
                                   /\ c.position[p].principal = b.position[p].principal
                                   /\ c.position[p].placed = b.position[p].placed
                                   /\ c.position[p].from = b.position[p].from
  BY <1>1 DEF Agree
<1>4. ASSUME NEW q \in DOMAIN c.position \ DOMAIN b.position
      PROVE  ~(c.position[q].principal # None /\ c.position[q].placed = m)
  <2>1. c.position[q].principal # None => c.position[q].placed > m /\ c.position[q].placed \in Int
    BY <1>1 DEF Agree, PositionsOK, RowOK
  <2> QED  BY <1>1, <2>1
<1>5. FreshPlacements(c, m) = FreshPlacements(b, m)  BY <1>2, <1>3, <1>4
<1>6. ASSUME NEW p \in FreshPlacements(b, m) PROVE PlacementOf(c, p, m) = PlacementOf(b, p, m)
  <2>1. Currency[p] \in {Home, Other}  BY <1>1, <1>2, BooksAssumption DEF PositionsOK
  <2>2. PriceOf(c, Currency[p], m) = PriceOf(b, Currency[p], m)  BY <1>1, <2>1, AlikePrice
  <2> QED  BY <1>2, <1>3, <1>5, <2>2
<1> QED  BY <1>5, <1>6

LEMMA AlikeFlow ==
  ASSUME NEW b, NEW t, NEW c, NEW u, NEW m, Alike(b, t, c, u, m), NEW p \in DOMAIN b.position
  PROVE  Flow(c, p, m) = Flow(b, p, m)
<1>1. /\ t \in Int /\ u \in Int /\ m \in Int /\ 1 <= m
      /\ PositionsOK(b, t) /\ PositionsOK(c, u) /\ RatesOK(b, t) /\ RatesOK(c, u)
      /\ TxnsOK(b, t) /\ TxnsOK(c, u) /\ Agree(b, c, m)
  BY DEF Alike, BooksOK
<1>2. /\ Booked(c, m) = Booked(b, m)
      /\ \A x \in Booked(b, m) :
           /\ x \in b.transaction /\ x.of \in DOMAIN b.position
           /\ \A a \in Int : Convert(c, a, x.currency, m) = Convert(b, a, x.currency, m)
  BY AlikeBooked
<1>3. \A x \in Booked(b, m) : /\ CashOut(x) \in Int /\ CashIn(x) \in Int
                              /\ Part(x, x.rolled) \in Int
  BY <1>1, BookedIs
<1>4. OwnOf(c, p, m) = OwnOf(b, p, m)
  <2> DEFINE S == {x \in Booked(b, m) : x.of = p}
  <2>1. \A x \in S : Convert(c, CashOut(x) - CashIn(x), x.currency, m)
                     = Convert(b, CashOut(x) - CashIn(x), x.currency, m)
    <3> SUFFICES ASSUME NEW x \in S
                 PROVE  Convert(c, CashOut(x) - CashIn(x), x.currency, m)
                        = Convert(b, CashOut(x) - CashIn(x), x.currency, m)
      OBVIOUS
    <3>1. CashOut(x) - CashIn(x) \in Int  BY <1>3
    <3> QED  BY <1>2, <3>1
  <2>2. [x \in S |-> Convert(c, CashOut(x) - CashIn(x), x.currency, m)]
        = [x \in S |-> Convert(b, CashOut(x) - CashIn(x), x.currency, m)]
    BY <2>1
  <2> QED  BY <1>2, <2>2 DEF OwnOf, SumOver
<1>5. RolledInto(c, p, m) = RolledInto(b, p, m)
  <2> DEFINE S == {x \in Booked(b, m) : x.type = "maturity" /\ SuccessorOf(b, x.of) = p}
             T == {x \in Booked(c, m) : x.type = "maturity" /\ SuccessorOf(c, x.of) = p}
  <2>1. ASSUME NEW x \in Booked(b, m), x.type = "maturity"
        PROVE  SuccessorOf(c, x.of) = SuccessorOf(b, x.of)
    <3> DEFINE H == {q \in DOMAIN c.position : c.position[q].from = x.of}
               G == {q \in DOMAIN b.position : b.position[q].from = x.of}
    <3>1. H = G
      <4>1. x.of # None  BY <1>1, <1>2, BooksAssumption DEF PositionsOK
      <4>2. \A q \in DOMAIN c.position \ DOMAIN b.position : c.position[q].from # x.of
        BY <1>1, <1>2, <2>1, <4>1 DEF Agree
      <4>3. \A q \in DOMAIN b.position :
              q \in DOMAIN c.position /\ c.position[q].from = b.position[q].from
        BY <1>1 DEF Agree
      <4> QED  BY <4>2, <4>3
    <3>2. /\ SuccessorOf(c, x.of) = IF H = {} THEN None ELSE CHOOSE q \in H : TRUE
          /\ SuccessorOf(b, x.of) = IF G = {} THEN None ELSE CHOOSE q \in G : TRUE
      BY DEF SuccessorOf
    <3> HIDE DEF H, G
    <3> QED  BY <3>1, <3>2
  <2>2. T = S  BY <1>2, <2>1
  <2>3. \A x \in S : Convert(c, Part(x, x.rolled), x.currency, m)
                     = Convert(b, Part(x, x.rolled), x.currency, m)
    BY <1>2, <1>3
  <2>4. [x \in S |-> Convert(c, Part(x, x.rolled), x.currency, m)]
        = [x \in S |-> Convert(b, Part(x, x.rolled), x.currency, m)]
    BY <2>3
  <2> QED  BY <2>2, <2>4 DEF RolledInto, SumOver
<1>6. (IF p \in FreshPlacements(c, m) THEN PlacementOf(c, p, m) ELSE 0)
      = (IF p \in FreshPlacements(b, m) THEN PlacementOf(b, p, m) ELSE 0)
  BY AlikeFresh
<1>7. /\ Flow(c, p, m) = OwnOf(c, p, m)
           - (IF p \in FreshPlacements(c, m) THEN PlacementOf(c, p, m) ELSE 0)
           - RolledInto(c, p, m)
      /\ Flow(b, p, m) = OwnOf(b, p, m)
           - (IF p \in FreshPlacements(b, m) THEN PlacementOf(b, p, m) ELSE 0)
           - RolledInto(b, p, m)
  BY <1>1, FlowIs
<1> QED  BY <1>4, <1>5, <1>6, <1>7

LEMMA AlikeMoving ==
  ASSUME NEW b, NEW t, NEW c, NEW u, NEW m, Alike(b, t, c, u, m), 1 < m
  PROVE  /\ \A p \in DOMAIN b.position :
              /\ IsMoving(c, p, m) <=> IsMoving(b, p, m)
              /\ IsMoving(b, p, m) => Movement(c, p, m) = Movement(b, p, m)
         /\ \A q \in DOMAIN c.position \ DOMAIN b.position : ~IsMoving(c, q, m)
<1>1. m \in Int /\ 1 <= m /\ m <= m /\ m - 1 \in Int /\ 1 <= m - 1 /\ m - 1 <= m
  BY DEF Alike
<1>2. /\ \A p \in DOMAIN b.position :
           /\ IsCarried(c, p, m) <=> IsCarried(b, p, m)
           /\ IsCarried(b, p, m) => Carried(c, p, m) = Carried(b, p, m)
      /\ \A q \in DOMAIN c.position \ DOMAIN b.position : ~IsCarried(c, q, m)
  BY <1>1, AlikeCarried
<1>3. \A p \in DOMAIN b.position :
        /\ IsCarried(c, p, m - 1) <=> IsCarried(b, p, m - 1)
        /\ IsCarried(b, p, m - 1) => Carried(c, p, m - 1) = Carried(b, p, m - 1)
  BY <1>1, AlikeCarried
<1> QED  BY <1>2, <1>3 DEF IsMoving, Movement

LEMMA AlikeReturn ==
  ASSUME NEW b, NEW t, NEW c, NEW u, NEW m, Alike(b, t, c, u, m), 1 < m
  PROVE  InvestmentReturn(c, m) = InvestmentReturn(b, m)
<1>1. Agree(b, c, m)  BY DEF Alike
<1>2. /\ \A p \in DOMAIN b.position :
           /\ IsMoving(c, p, m) <=> IsMoving(b, p, m)
           /\ IsMoving(b, p, m) => Movement(c, p, m) = Movement(b, p, m)
      /\ \A q \in DOMAIN c.position \ DOMAIN b.position : ~IsMoving(c, q, m)
  BY AlikeMoving
<1>3. \A p \in DOMAIN b.position :
        /\ TerminatedBefore(c, p, m) <=> TerminatedBefore(b, p, m)
        /\ TerminatesAt(c, p, m) <=> TerminatesAt(b, p, m)
        /\ TerminatesAt(b, p, m) => c.position[p] = b.position[p]
  BY AlikeEnds
<1>4. Returning(c, m) = Returning(b, m)
  <2>1. \A p \in DOMAIN b.position : p \in Returning(c, m) <=> p \in Returning(b, m)
    BY <1>1, <1>2, <1>3 DEF Returning, InGroup, TrackingExit, Agree
  <2>2. \A q \in DOMAIN c.position \ DOMAIN b.position : q \notin Returning(c, m)
    BY <1>2 DEF Returning
  <2>3. Returning(c, m) \subseteq DOMAIN c.position /\ Returning(b, m) \subseteq DOMAIN b.position
    BY DEF Returning, InGroup
  <2> QED  BY <2>1, <2>2, <2>3
<1>5. \A p \in Returning(b, m) :
        Movement(c, p, m) + Flow(c, p, m) = Movement(b, p, m) + Flow(b, p, m)
  BY <1>2, AlikeFlow DEF Returning, InGroup
<1>6. [p \in Returning(b, m) |-> Movement(c, p, m) + Flow(c, p, m)]
      = [p \in Returning(b, m) |-> Movement(b, p, m) + Flow(b, p, m)]
  BY <1>5
<1> QED  BY <1>4, <1>6 DEF InvestmentReturn, SumOver

LEMMA AlikeMarks ==
  ASSUME NEW b, NEW t, NEW c, NEW u, NEW m, Alike(b, t, c, u, m), 1 < m
  PROVE  AssetValueChange(c, m) = AssetValueChange(b, m)
<1>1. Agree(b, c, m)  BY DEF Alike
<1>2. /\ \A p \in DOMAIN b.position :
           /\ IsMoving(c, p, m) <=> IsMoving(b, p, m)
           /\ IsMoving(b, p, m) => Movement(c, p, m) = Movement(b, p, m)
      /\ \A q \in DOMAIN c.position \ DOMAIN b.position : ~IsMoving(c, q, m)
  BY AlikeMoving
<1>3. \A p \in DOMAIN b.position : TerminatedByEndOf(c, p, m) <=> TerminatedByEndOf(b, p, m)
  BY AlikeEnds
<1>4. Marked(c, m) = Marked(b, m)
  <2>1. \A p \in DOMAIN b.position : p \in Marked(c, m) <=> p \in Marked(b, m)
    BY <1>1, <1>2, <1>3 DEF Marked, InGroup, Agree
  <2>2. \A q \in DOMAIN c.position \ DOMAIN b.position : q \notin Marked(c, m)
    BY <1>2 DEF Marked
  <2>3. Marked(c, m) \subseteq DOMAIN c.position /\ Marked(b, m) \subseteq DOMAIN b.position
    BY DEF Marked, InGroup
  <2> QED  BY <2>1, <2>2, <2>3
<1>5. \A p \in Marked(b, m) : Movement(c, p, m) = Movement(b, p, m)
  BY <1>2 DEF Marked, InGroup
<1>6. [p \in Marked(b, m) |-> Movement(c, p, m)] = [p \in Marked(b, m) |-> Movement(b, p, m)]
  BY <1>5
<1>7. AssetValueChange(c, m) = SumOver(Marked(c, m), LAMBDA p : Movement(c, p, m))
  BY DEF AssetValueChange, Marked
<1>8. AssetValueChange(b, m) = SumOver(Marked(b, m), LAMBDA p : Movement(b, p, m))
  BY DEF AssetValueChange, Marked
<1> QED  BY <1>4, <1>6, <1>7, <1>8 DEF SumOver

LEMMA AlikeLosses ==
  ASSUME NEW b, NEW t, NEW c, NEW u, NEW m, Alike(b, t, c, u, m), 1 < m
  PROVE  WriteOffs(c, m) = WriteOffs(b, m)
<1>1. Agree(b, c, m)  BY DEF Alike
<1>2. /\ \A p \in DOMAIN b.position :
           /\ IsMoving(c, p, m) <=> IsMoving(b, p, m)
           /\ IsMoving(b, p, m) => Movement(c, p, m) = Movement(b, p, m)
      /\ \A q \in DOMAIN c.position \ DOMAIN b.position : ~IsMoving(c, q, m)
  BY AlikeMoving
<1>3. \A p \in DOMAIN b.position :
        /\ TerminatesAt(c, p, m) <=> TerminatesAt(b, p, m)
        /\ TerminatesAt(b, p, m) => c.position[p] = b.position[p]
  BY AlikeEnds
<1>4. WrittenOff(c, m) = WrittenOff(b, m)
  <2>1. \A p \in DOMAIN b.position : p \in WrittenOff(c, m) <=> p \in WrittenOff(b, m)
    BY <1>1, <1>2, <1>3 DEF WrittenOff, NonCashTerminal, Agree
  <2>2. \A q \in DOMAIN c.position \ DOMAIN b.position : q \notin WrittenOff(c, m)
    BY <1>2 DEF WrittenOff
  <2>3. WrittenOff(c, m) \subseteq DOMAIN c.position /\ WrittenOff(b, m) \subseteq DOMAIN b.position
    BY DEF WrittenOff
  <2> QED  BY <2>1, <2>2, <2>3
<1>5. \A p \in WrittenOff(b, m) :
        SignedForNW(c, p, Movement(c, p, m)) = SignedForNW(b, p, Movement(b, p, m))
  BY <1>1, <1>2 DEF WrittenOff, SignedForNW, Agree
<1>6. [p \in WrittenOff(b, m) |-> SignedForNW(c, p, Movement(c, p, m))]
      = [p \in WrittenOff(b, m) |-> SignedForNW(b, p, Movement(b, p, m))]
  BY <1>5
<1> QED  BY <1>4, <1>6 DEF WriteOffs, SumOver

LEMMA AlikeFirst ==
  ASSUME NEW b, NEW t, NEW c, NEW u, NEW m, Alike(b, t, c, u, m), NEW p \in DOMAIN b.position
  PROVE  (DOMAIN c.snapshot[p] # {} /\ Min(DOMAIN c.snapshot[p]) = m)
         <=> (DOMAIN b.snapshot[p] # {} /\ Min(DOMAIN b.snapshot[p]) = m)
<1>1. /\ m \in Int /\ PositionsOK(b, t) /\ PositionsOK(c, u) /\ Agree(b, c, m) /\ t \in Int /\ u \in Int
  BY DEF Alike, BooksOK
<1> DEFINE S == DOMAIN b.snapshot[p]
           T == DOMAIN c.snapshot[p]
<1>2. S \subseteq 1 .. t /\ T \subseteq 1 .. u  BY <1>1 DEF PositionsOK, SeriesOK, Agree
<1>3. \A n \in Int : n <= m => (n \in S <=> n \in T)  BY <1>1 DEF Agree, SameUpTo
<1> HIDE DEF S, T
<1>4. (m \in T /\ \A n \in T : m <= n) <=> (m \in S /\ \A n \in S : m <= n)
  <2>1. S \subseteq Int /\ T \subseteq Int  BY <1>1, <1>2
  <2>2. \A n \in Int : n <= m \/ m <= n  BY <1>1
  <2> QED  BY <1>1, <1>3, <2>1, <2>2
<1>5. /\ (T # {} /\ Min(T) = m) <=> (m \in T /\ \A n \in T : m <= n)
      /\ (S # {} /\ Min(S) = m) <=> (m \in S /\ \A n \in S : m <= n)
  BY <1>1, <1>2, FirstAt
<1> QED  BY <1>4, <1>5 DEF S, T

LEMMA AlikeTracking ==
  ASSUME NEW b, NEW t, NEW c, NEW u, NEW m, Alike(b, t, c, u, m), 1 < m
  PROVE  TrackingChanges(c, m) = TrackingChanges(b, m)
<1>1. Agree(b, c, m) /\ m \in Int /\ 1 <= m /\ m <= m  BY DEF Alike
<1>2. /\ \A p \in DOMAIN b.position :
           /\ p \in DOMAIN c.position
           /\ IsMoving(c, p, m) <=> IsMoving(b, p, m)
           /\ IsMoving(b, p, m) => Movement(c, p, m) = Movement(b, p, m)
      /\ \A q \in DOMAIN c.position \ DOMAIN b.position : ~IsMoving(c, q, m)
  BY <1>1, AlikeMoving DEF Agree
<1>3. \A p \in DOMAIN b.position :
        /\ TerminatesAt(c, p, m) <=> TerminatesAt(b, p, m)
        /\ TerminatesAt(b, p, m) => c.position[p] = b.position[p]
        /\ TerminatedBefore(c, p, m) <=> TerminatedBefore(b, p, m)
  BY AlikeEnds
<1>4. /\ \A p \in DOMAIN b.position :
           /\ IsCarried(c, p, m) <=> IsCarried(b, p, m)
           /\ IsCarried(b, p, m) => Carried(c, p, m) = Carried(b, p, m)
      /\ \A q \in DOMAIN c.position \ DOMAIN b.position : ~IsCarried(c, q, m)
  BY <1>1, AlikeCarried
<1>5. \A p \in DOMAIN b.position : p \in Departing(c, m) <=> p \in Departing(b, m)
  BY <1>2, <1>3 DEF Departing, TrackingExit
<1>6. Leaving(c, m) = Leaving(b, m)
  <2>1. \A p \in DOMAIN b.position : p \in Leaving(c, m) <=> p \in Leaving(b, m)
    BY <1>2, <1>5 DEF Leaving
  <2>2. \A q \in DOMAIN c.position \ DOMAIN b.position : q \notin Leaving(c, m)
    BY <1>2 DEF Leaving
  <2>3. Leaving(c, m) \subseteq DOMAIN c.position /\ Leaving(b, m) \subseteq DOMAIN b.position
    BY DEF Leaving, Departing
  <2> QED  BY <2>1, <2>2, <2>3
<1>7. Arriving(c, m) = Arriving(b, m)
  <2>1. ASSUME NEW p \in DOMAIN b.position PROVE p \in Arriving(c, m) <=> p \in Arriving(b, m)
    <3>1. c.position[p].entry = b.position[p].entry  BY <1>1 DEF Agree
    <3> QED  BY <1>2, <1>3, <1>4, <1>5, <3>1, AlikeFirst DEF Arriving
  <2>2. \A q \in DOMAIN c.position \ DOMAIN b.position : q \notin Arriving(c, m)
    BY <1>4 DEF Arriving
  <2>3. Arriving(c, m) \subseteq DOMAIN c.position /\ Arriving(b, m) \subseteq DOMAIN b.position
    BY DEF Arriving
  <2> QED  BY <2>1, <2>2, <2>3
<1>8. \A p \in Leaving(b, m) :
        SignedForNW(c, p, Movement(c, p, m)) = SignedForNW(b, p, Movement(b, p, m))
  BY <1>1, <1>2 DEF Leaving, Departing, SignedForNW, Agree
<1>9. \A p \in Arriving(b, m) :
        SignedForNW(c, p, Carried(c, p, m)) = SignedForNW(b, p, Carried(b, p, m))
  BY <1>1, <1>4 DEF Arriving, SignedForNW, Agree
<1>10. [p \in Leaving(b, m) |-> SignedForNW(c, p, Movement(c, p, m))]
       = [p \in Leaving(b, m) |-> SignedForNW(b, p, Movement(b, p, m))]
  BY <1>8
<1>11. [p \in Arriving(b, m) |-> SignedForNW(c, p, Carried(c, p, m))]
       = [p \in Arriving(b, m) |-> SignedForNW(b, p, Carried(b, p, m))]
  BY <1>9
<1>12. /\ TrackingChanges(c, m) =
            SumOver(Leaving(c, m), LAMBDA p : SignedForNW(c, p, Movement(c, p, m)))
            + SumOver(Arriving(c, m), LAMBDA p : SignedForNW(c, p, Carried(c, p, m)))
       /\ TrackingChanges(b, m) =
            SumOver(Leaving(b, m), LAMBDA p : SignedForNW(b, p, Movement(b, p, m)))
            + SumOver(Arriving(b, m), LAMBDA p : SignedForNW(b, p, Carried(b, p, m)))
  BY DEF TrackingChanges, Leaving
<1> QED  BY <1>6, <1>7, <1>10, <1>11, <1>12 DEF SumOver

\* What a transaction adds to the money that is placed.
NetOf(x) ==
  CASE x.type = "buy"      -> x.amount
    [] x.type = "sell"     -> -x.amount
    [] x.type = "maturity" -> -Part(x, {"principal", "interest"} \ x.rolled)
    [] OTHER               -> 0

BookedNet(b, m) == SumOver(Booked(b, m), LAMBDA x : Convert(b, NetOf(x), x.currency, m))

FreshSum(b, m) == SumOver(FreshPlacements(b, m), LAMBDA p : PlacementOf(b, p, m))

LEMMA PlacementIs ==
  ASSUME NEW b, NEW t \in Int, PositionsOK(b, t), TxnsOK(b, t), RatesOK(b, t),
         NEW m \in Int, 1 <= m
  PROVE  /\ Placement(b, m) = BookedNet(b, m) + FreshSum(b, m)
         /\ \A x \in Booked(b, m) : NetOf(x) \in Int
         /\ Summable([x \in Booked(b, m) |-> Convert(b, NetOf(x), x.currency, m)])
         /\ Summable([p \in FreshPlacements(b, m) |-> PlacementOf(b, p, m)])
         /\ BookedNet(b, m) \in Int /\ FreshSum(b, m) \in Int
<1>1. \A x \in Booked(b, m) : NetOf(x) \in Int
  <2> SUFFICES ASSUME NEW x \in Booked(b, m) PROVE NetOf(x) \in Int  OBVIOUS
  <2>1. x.amount \in Int  BY BookedIs
  <2>2. Part(x, {"principal", "interest"} \ x.rolled) \in Int  BY BookedIs
  <2>3. CASE x.type = "buy"  BY <2>1, <2>3 DEF NetOf
  <2>4. CASE x.type = "sell"  BY <2>1, <2>4 DEF NetOf
  <2>5. CASE x.type = "maturity"  BY <2>2, <2>5 DEF NetOf
  <2>6. CASE x.type \notin {"buy", "sell", "maturity"}  BY <2>6 DEF NetOf
  <2> QED  BY <2>3, <2>4, <2>5, <2>6
<1> DEFINE f == [x \in Booked(b, m) |-> Convert(b, NetOf(x), x.currency, m)]
           g == [p \in FreshPlacements(b, m) |-> PlacementOf(b, p, m)]
<1>2. \A x \in Booked(b, m) : Convert(b, NetOf(x), x.currency, m) \in Int
  BY <1>1, BookedIs, PriceIs
<1>3. Summable(f)  BY <1>2, BookedIs DEF Summable
<1>4. Summable(g)  BY FreshIs DEF Summable
<1>5. SumFunction(f) \in Int /\ SumFunction(g) \in Int  BY <1>3, <1>4, SumInt
<1>6. Placement(b, m) = BookedNet(b, m) + FreshSum(b, m)
  BY DEF Placement, BookedNet, FreshSum, NetOf
<1> QED  BY <1>1, <1>3, <1>4, <1>5, <1>6 DEF BookedNet, FreshSum, SumOver

LEMMA AlikePlacement ==
  ASSUME NEW b, NEW t, NEW c, NEW u, NEW m, Alike(b, t, c, u, m)
  PROVE  Placement(c, m) = Placement(b, m)
<1>1. /\ t \in Int /\ u \in Int /\ m \in Int /\ 1 <= m
      /\ PositionsOK(b, t) /\ PositionsOK(c, u) /\ RatesOK(b, t) /\ RatesOK(c, u)
      /\ TxnsOK(b, t) /\ TxnsOK(c, u)
  BY DEF Alike, BooksOK
<1>2. /\ Booked(c, m) = Booked(b, m)
      /\ \A x \in Booked(b, m) :
           \A a \in Int : Convert(c, a, x.currency, m) = Convert(b, a, x.currency, m)
  BY AlikeBooked
<1>3. /\ FreshPlacements(c, m) = FreshPlacements(b, m)
      /\ \A p \in FreshPlacements(b, m) : PlacementOf(c, p, m) = PlacementOf(b, p, m)
  BY AlikeFresh
<1>4. \A x \in Booked(b, m) : NetOf(x) \in Int  BY <1>1, PlacementIs
<1>5. [x \in Booked(b, m) |-> Convert(c, NetOf(x), x.currency, m)]
      = [x \in Booked(b, m) |-> Convert(b, NetOf(x), x.currency, m)]
  BY <1>2, <1>4
<1>6. [p \in FreshPlacements(b, m) |-> PlacementOf(c, p, m)]
      = [p \in FreshPlacements(b, m) |-> PlacementOf(b, p, m)]
  BY <1>3
<1>7. BookedNet(c, m) = BookedNet(b, m)  BY <1>2, <1>5 DEF BookedNet, SumOver
<1>8. FreshSum(c, m) = FreshSum(b, m)  BY <1>3, <1>6 DEF FreshSum, SumOver
<1> QED  BY <1>1, <1>7, <1>8, PlacementIs

LEMMA AlikeCoupons ==
  ASSUME NEW b, NEW t, NEW c, NEW u, NEW m, Alike(b, t, c, u, m)
  PROVE  PassiveCouponCash(c, m) = PassiveCouponCash(b, m)
<1>1. /\ t \in Int /\ m \in Int /\ 1 <= m /\ Agree(b, c, m) /\ TxnsOK(b, t) /\ RatesOK(b, t)
  BY DEF Alike, BooksOK
<1>2. /\ Booked(c, m) = Booked(b, m)
      /\ \A x \in Booked(b, m) :
           /\ x.of \in DOMAIN b.position
           /\ \A a \in Int : Convert(c, a, x.currency, m) = Convert(b, a, x.currency, m)
  BY AlikeBooked
<1> DEFINE S == {x \in Booked(b, m) : x.type = "coupon" /\ b.position[x.of].paysOut}
<1>3. {x \in Booked(c, m) : x.type = "coupon" /\ c.position[x.of].paysOut} = S
  BY <1>1, <1>2 DEF Agree
<1>4. \A x \in S : x.amount \in Int  BY <1>1, BookedIs
<1>5. [x \in S |-> Convert(c, x.amount, x.currency, m)]
      = [x \in S |-> Convert(b, x.amount, x.currency, m)]
  BY <1>2, <1>4
<1> QED  BY <1>3, <1>5 DEF PassiveCouponCash, SumOver

LEMMA AlikeEarned ==
  ASSUME NEW b, NEW t, NEW c, NEW u, NEW m, Alike(b, t, c, u, m)
  PROVE  EarnedIncome(c, m) = EarnedIncome(b, m)
<1>1. /\ t \in Int /\ u \in Int /\ m \in Int /\ 1 <= m /\ Agree(b, c, m)
      /\ IncomeOK(b, t) /\ IncomeOK(c, u) /\ RatesOK(b, t) /\ RatesOK(c, u)
  BY DEF Alike, BooksOK
<1>2. \A i : i.month = m => i.month <= m  BY <1>1
<1>3. {i \in c.income : i.month = m} = {i \in b.income : i.month = m}
  <2>1. \A i : (i \in c.income /\ i.month = m) <=> (i \in b.income /\ i.month = m)
    BY <1>1, <1>2 DEF Agree
  <2> QED  BY <2>1
<1> QED  BY <1>1, <1>3, EarnedIs

LEMMA AlikeUnsettled ==
  ASSUME NEW b, NEW t, NEW c, NEW u, NEW m, Alike(b, t, c, u, m)
  PROVE  Unsettled(c, m) = Unsettled(b, m)
<1>1. m \in Int /\ Agree(b, c, m)  BY DEF Alike
<1>2. \A p \in DOMAIN b.position :
        /\ TerminatesAt(c, p, m) <=> TerminatesAt(b, p, m)
        /\ TerminatesAt(b, p, m) => c.position[p] = b.position[p]
  BY AlikeEnds
<1>3. \A x : x.month = m => x.month <= m  BY <1>1
<1>4. \A x : (x \in c.transaction /\ x.month = m) <=> (x \in b.transaction /\ x.month = m)
  BY <1>1, <1>3 DEF Agree
<1>5. ASSUME NEW p
      PROVE  (\E x \in c.transaction : x.of = p /\ x.month = m /\ x.type \in {"sell", "maturity"})
             <=> (\E x \in b.transaction : x.of = p /\ x.month = m /\ x.type \in {"sell", "maturity"})
  BY <1>4
<1>6. \A p \in DOMAIN b.position : p \in Unsettled(c, m) <=> p \in Unsettled(b, m)
  BY <1>1, <1>2, <1>5 DEF Unsettled, InGroup, TrackingExit, Agree
<1>7. \A q \in DOMAIN c.position \ DOMAIN b.position : q \notin Unsettled(c, m)
  BY <1>1, NoneAssumption DEF Unsettled, TerminatesAt, Agree
<1>8. Unsettled(c, m) \subseteq DOMAIN c.position /\ Unsettled(b, m) \subseteq DOMAIN b.position
  BY DEF Unsettled, InGroup
<1> QED  BY <1>6, <1>7, <1>8

LEMMA AlikeGaps ==
  ASSUME NEW b, NEW t, NEW c, NEW u, NEW m, Alike(b, t, c, u, m)
  PROVE  Stale(c, m) = Stale(b, m) /\ MissingFx(c, m) = MissingFx(b, m)
<1>1. m \in Int /\ 1 <= m /\ m <= m /\ Agree(b, c, m)  BY DEF Alike
<1>2. Contributes(c, m) = Contributes(b, m)  BY AlikeWorth
<1>3. \A p \in Contributes(b, m) : m \in DOMAIN c.snapshot[p] <=> m \in DOMAIN b.snapshot[p]
  BY <1>1 DEF Contributes, Agree, SameUpTo
<1>4. Stale(c, m) = Stale(b, m)  BY <1>2, <1>3 DEF Stale
<1>5. /\ \A p \in DOMAIN b.position :
           /\ p \in DOMAIN c.position
           /\ Latest(c.snapshot[p], m) = Latest(b.snapshot[p], m)
           /\ IsCarried(c, p, m) <=> IsCarried(b, p, m)
      /\ \A q \in DOMAIN c.position \ DOMAIN b.position : Latest(c.snapshot[q], m) = {}
  BY <1>1, AlikeCarried
<1>6. \A p \in DOMAIN b.position : TerminatedBefore(c, p, m) <=> TerminatedBefore(b, p, m)
  BY AlikeEnds
<1>7. MissingFx(c, m) = MissingFx(b, m)  BY <1>5, <1>6 DEF MissingFx
<1> QED  BY <1>4, <1>7

LEMMA FirstRecorded ==
  ASSUME NEW b, NEW t \in Int, PositionsOK(b, t), Bank \in DOMAIN b.position,
         1 \in DOMAIN b.snapshot[Bank]
  PROVE  Min(Recorded(b)) = 1
<1>1. 1 \in Recorded(b)  BY DEF Recorded, PositionsOK
<1>2. Recorded(b) \subseteq Int /\ \A n \in Recorded(b) : 1 <= n
  <2> SUFFICES ASSUME NEW n \in Recorded(b) PROVE n \in Int /\ 1 <= n  OBVIOUS
  <2>1. PICK p \in DOMAIN b.snapshot : n \in DOMAIN b.snapshot[p]  BY DEF Recorded
  <2>2. n \in 1 .. t  BY <2>1 DEF PositionsOK, SeriesOK
  <2> QED  BY <2>2
<1> QED  BY <1>1, <1>2, FirstIs

\* The report of m stays, and each of its figures.
LEMMA AlikeReport ==
  ASSUME NEW b, NEW t, NEW c, NEW u, NEW m, Alike(b, t, c, u, m)
  PROVE  /\ Report(c, m) = Report(b, m)
         /\ Unsettled(c, m) = Unsettled(b, m) /\ Placement(c, m) = Placement(b, m)
         /\ 1 < m => /\ InvestmentReturn(c, m) = InvestmentReturn(b, m)
                     /\ LivingExpenses(c, m) = LivingExpenses(b, m)
<1>1. /\ t \in Int /\ u \in Int /\ m \in Int /\ 1 <= m /\ m < t /\ Agree(b, c, m)
      /\ PositionsOK(b, t) /\ PositionsOK(c, u) /\ BankOK(b, t) /\ BankOK(c, u)
  BY DEF Alike, BooksOK
<1>2. Min(Recorded(b)) = 1 /\ Min(Recorded(c)) = 1
  <2>1. Bank \in DOMAIN b.position /\ 1 \in DOMAIN b.snapshot[Bank]  BY <1>1 DEF BankOK
  <2>2. Bank \in DOMAIN c.position /\ 1 \in DOMAIN c.snapshot[Bank]
    BY <1>1, <2>1 DEF Agree, SameUpTo
  <2> QED  BY <1>1, <2>1, <2>2, FirstRecorded
<1>3. /\ NetWorth(c, m) = NetWorth(b, m) /\ EarnedIncome(c, m) = EarnedIncome(b, m)
      /\ Stale(c, m) = Stale(b, m) /\ MissingFx(c, m) = MissingFx(b, m)
      /\ Unsettled(c, m) = Unsettled(b, m) /\ Placement(c, m) = Placement(b, m)
      /\ PassiveCouponCash(c, m) = PassiveCouponCash(b, m)
  BY AlikeWorth, AlikeEarned, AlikeGaps, AlikeUnsettled, AlikePlacement, AlikeCoupons
<1>4. ASSUME 1 < m
      PROVE  /\ InvestmentReturn(c, m) = InvestmentReturn(b, m)
             /\ AssetValueChange(c, m) = AssetValueChange(b, m)
             /\ WriteOffs(c, m) = WriteOffs(b, m)
             /\ TrackingChanges(c, m) = TrackingChanges(b, m)
             /\ LivingExpenses(c, m) = LivingExpenses(b, m)
  <2>1. /\ InvestmentReturn(c, m) = InvestmentReturn(b, m)
        /\ AssetValueChange(c, m) = AssetValueChange(b, m)
        /\ WriteOffs(c, m) = WriteOffs(b, m)
        /\ TrackingChanges(c, m) = TrackingChanges(b, m)
    BY <1>4, AlikeReturn, AlikeMarks, AlikeLosses, AlikeTracking
  <2>2. Alike(b, t, c, u, m - 1)  BY <1>4, AlikeBefore
  <2>3. NetWorth(c, m - 1) = NetWorth(b, m - 1)  BY <2>2, AlikeWorth
  <2> QED  BY <1>3, <2>1, <2>3 DEF LivingExpenses
<1>5. CASE m = 1  BY <1>2, <1>3, <1>5 DEF Report
<1>6. CASE 1 < m
  <2>1. m # 1  BY <1>6
  <2> QED  BY <1>2, <1>3, <1>4, <1>6, <2>1 DEF Report
<1> QED  BY <1>1, <1>3, <1>4, <1>5, <1>6

----------------------------------------------------------------------------
(* The entries of a month: how books b become books c while today lasts *)

Closes(b, c, p) ==
  /\ p # Bank /\ b.position[p].end = None /\ DOMAIN b.snapshot[p] # {}
  /\ \E status \in Statuses :
       c.position[p] = [b.position[p] EXCEPT !.status = status, !.end = today]
  /\ c.snapshot[p] = Put(b.snapshot[p], today, [amount |-> 0, currency |-> Currency[p]])
  /\ (b.position[p].group = "investment" /\ c.position[p].status # "untracked") =>
       \E x \in c.transaction : x.of = p /\ x.month = today /\ x.type \in {"sell", "maturity"}

Opens(b, c, q) ==
  /\ q \in Position
  /\ \E entry \in {"acquired", "newly_tracked"}, principal \in Int \cup {None},
        from \in Position \cup {None} :
       /\ c.position[q] = Row(q, entry, principal, from)
       /\ principal # None <=> Kind[q] = "time_deposit"
       /\ from # None => from \in DOMAIN b.position /\ Closes(b, c, from)
  /\ c.snapshot[q] = NoSeries

Books(b, c, x) ==
  /\ x \in Txns /\ x.of \in DOMAIN c.position /\ x.month = today
  /\ x.no = Cardinality(b.transaction)
  /\ x.type = "maturity" => x.of \in DOMAIN b.position /\ Closes(b, c, x.of)

Enters(b, c) ==
  /\ DOMAIN c = Fields /\ c.multi = b.multi /\ c.rate = b.rate
  /\ IsFiniteSet(DOMAIN c.position) /\ DOMAIN c.snapshot = DOMAIN c.position
  /\ DOMAIN b.position \subseteq DOMAIN c.position
  /\ \A p \in DOMAIN b.position :
       \/ c.position[p] = b.position[p] /\ c.snapshot[p] = b.snapshot[p]
       \/ Closes(b, c, p)
  /\ \A q \in DOMAIN c.position \ DOMAIN b.position : Opens(b, c, q)
  /\ \/ c.transaction = b.transaction
     \/ \E x : c.transaction = b.transaction \cup {x} /\ Books(b, c, x)
  /\ \/ c.income = b.income
     \/ \E i \in Incomes : /\ c.income = b.income \cup {i}
                           /\ i.month = today /\ i.no = Cardinality(b.income)

Closed(b, c, p) ==
  /\ c.position[p].end = today /\ c.position[p].end # None
  /\ c.position[p].status \in Statuses
  /\ c.position[p].group = b.position[p].group
  /\ c.position[p].subtype = b.position[p].subtype
  /\ c.position[p].entry = b.position[p].entry
  /\ c.position[p].principal = b.position[p].principal
  /\ c.position[p].placed = b.position[p].placed
  /\ c.position[p].from = b.position[p].from
  /\ c.position[p].paysOut = b.position[p].paysOut
  /\ c.position[p].currency = b.position[p].currency
  /\ c.position[p] \in Rows
  /\ DOMAIN c.snapshot[p] = DOMAIN b.snapshot[p] \cup {today}
  /\ today \notin DOMAIN b.snapshot[p]
  /\ c.snapshot[p][today] = [amount |-> 0, currency |-> Currency[p]]
  /\ \A n \in DOMAIN b.snapshot[p] : c.snapshot[p][n] = b.snapshot[p][n] /\ n < today

LEMMA ClosedIs ==
  ASSUME NEW b, NEW c, BooksOK(b, today), today \in Int, 1 <= today,
         NEW p \in DOMAIN b.position, Closes(b, c, p)
  PROVE  Closed(b, c, p)
<1>1. PositionsOK(b, today)  BY DEF BooksOK
<1>2. b.position[p] \in Rows /\ b.position[p].end = None
  BY <1>1 DEF PositionsOK, RowOK, Closes
<1>3. PICK status \in Statuses :
        c.position[p] = [b.position[p] EXCEPT !.status = status, !.end = today]
  BY DEF Closes
<1>4. today # None  BY NoneAssumption
<1>5. DOMAIN b.snapshot[p] \subseteq Int /\ \A n \in DOMAIN b.snapshot[p] : n < today
  BY <1>1, <1>2 DEF PositionsOK, SeriesOK
<1>6. /\ DOMAIN c.snapshot[p] = DOMAIN b.snapshot[p] \cup {today}
      /\ c.snapshot[p][today] = [amount |-> 0, currency |-> Currency[p]]
      /\ \A n \in DOMAIN b.snapshot[p] : n # today => c.snapshot[p][n] = b.snapshot[p][n]
  <2> DEFINE z == [amount |-> 0, currency |-> Currency[p]]
  <2>1. c.snapshot[p] = Put(b.snapshot[p], today, z)  BY DEF Closes
  <2> HIDE DEF z
  <2>2. /\ DOMAIN c.snapshot[p] = DOMAIN b.snapshot[p] \cup {today}
        /\ c.snapshot[p][today] = z
        /\ \A n \in DOMAIN b.snapshot[p] : n # today => c.snapshot[p][n] = b.snapshot[p][n]
    BY <2>1 DEF Put
  <2> QED  BY <2>2 DEF z
<1>7. today \notin DOMAIN b.snapshot[p]  BY <1>5
<1>8. /\ c.position[p].end = today /\ c.position[p].status = status
      /\ c.position[p].group = b.position[p].group
      /\ c.position[p].subtype = b.position[p].subtype
      /\ c.position[p].entry = b.position[p].entry
      /\ c.position[p].principal = b.position[p].principal
      /\ c.position[p].placed = b.position[p].placed
      /\ c.position[p].from = b.position[p].from
      /\ c.position[p].paysOut = b.position[p].paysOut
      /\ c.position[p].currency = b.position[p].currency
      /\ c.position[p] \in Rows
  BY <1>2, <1>3 DEF Rows
<1> QED  BY <1>4, <1>5, <1>6, <1>7, <1>8 DEF Closed

Opened(b, c, q) ==
  /\ q \in Position /\ c.position[q] \in Rows /\ c.position[q].end = None
  /\ c.position[q].group = GroupOf(q) /\ c.position[q].subtype = Kind[q]
  /\ c.position[q].currency = Currency[q] /\ c.position[q].status = "active"
  /\ c.position[q].principal # None <=> Kind[q] = "time_deposit"
  /\ c.position[q].principal # None => c.position[q].placed = today
  /\ c.position[q].principal = None => c.position[q].placed = None
  /\ c.position[q].from # None =>
       c.position[q].from \in DOMAIN b.position /\ Closes(b, c, c.position[q].from)
  /\ DOMAIN c.snapshot[q] = {}

LEMMA OpenedIs ==
  ASSUME NEW b, NEW c, today \in Int, 1 <= today, NEW q, Opens(b, c, q)
  PROVE  Opened(b, c, q)
<1>1. PICK entry \in {"acquired", "newly_tracked"}, principal \in Int \cup {None},
           from \in Position \cup {None} :
        /\ c.position[q] = Row(q, entry, principal, from)
        /\ principal # None <=> Kind[q] = "time_deposit"
        /\ from # None => from \in DOMAIN b.position /\ Closes(b, c, from)
  BY DEF Opens
<1>2. q \in Position /\ c.snapshot[q] = NoSeries  BY DEF Opens
<1>3. /\ Kind[q] \in {Kind[p] : p \in Position} /\ Currency[q] \in {Home, Other}
      /\ Kind[q] \in {"bank_account", "property", "liability", "receivable", "stock", "bond",
                      "time_deposit"}
  BY <1>2, BooksAssumption
<1>4. GroupOf(q) \in Groups  BY <1>3 DEF GroupOf, Groups
<1>5. c.position[q] \in Rows
  BY <1>1, <1>3, <1>4 DEF Row, Rows, Statuses
<1>6. /\ c.position[q].end = None /\ c.position[q].group = GroupOf(q)
      /\ c.position[q].subtype = Kind[q] /\ c.position[q].currency = Currency[q]
      /\ c.position[q].status = "active" /\ c.position[q].principal = principal
      /\ c.position[q].placed = (IF principal = None THEN None ELSE today)
      /\ c.position[q].from = from
  BY <1>1 DEF Row
<1>7. DOMAIN c.snapshot[q] = {}  BY <1>2 DEF NoSeries
<1> QED  BY <1>1, <1>2, <1>5, <1>6, <1>7 DEF Opened

LEMMA EntersOK ==
  ASSUME NEW b, NEW c, BooksOK(b, today), today \in Int, 1 <= today, Enters(b, c)
  PROVE  BooksOK(c, today)
<1>0. /\ \A p \in DOMAIN b.position : Closes(b, c, p) => Closed(b, c, p)
      /\ \A q : Opens(b, c, q) => Opened(b, c, q)
  BY ClosedIs, OpenedIs
<1>1. /\ PositionsOK(b, today) /\ BankOK(b, today) /\ RatesOK(b, today) /\ TxnsOK(b, today)
      /\ IncomeOK(b, today) /\ RollsOK(b) /\ SettledOK(b)
  BY DEF BooksOK
<1>2. /\ DOMAIN b.position \subseteq DOMAIN c.position
      /\ \A p \in DOMAIN b.position :
           \/ c.position[p] = b.position[p] /\ c.snapshot[p] = b.snapshot[p]
           \/ Closes(b, c, p)
      /\ \A q \in DOMAIN c.position \ DOMAIN b.position : Opens(b, c, q)
  BY DEF Enters
<1>3. b.transaction \subseteq c.transaction  BY DEF Enters
<1>4. PositionsOK(c, today)
  <2>1. ASSUME NEW p \in DOMAIN b.position, Closes(b, c, p)
        PROVE  RowOK(p, c.position[p], today) /\ SeriesOK(p, c.position[p], c.snapshot[p], today)
    <3> DEFINE row == b.position[p]  s == b.snapshot[p]  row2 == c.position[p]  s2 == c.snapshot[p]
    <3>1. RowOK(p, row, today) /\ SeriesOK(p, row, s, today) /\ row.end = None
      BY <1>1, <2>1 DEF PositionsOK, Closes
    <3>2. /\ row2.end = today /\ row2.end # None /\ row2 \in Rows
          /\ row2.group = row.group /\ row2.subtype = row.subtype
          /\ row2.currency = row.currency /\ row2.principal = row.principal
          /\ row2.placed = row.placed
          /\ DOMAIN s2 = DOMAIN s \cup {today} /\ s2[today] = [amount |-> 0, currency |-> Currency[p]]
          /\ \A n \in DOMAIN s : s2[n] = s[n] /\ n < today
      BY <2>1, <1>0 DEF Closed
    <3>3. DOMAIN s # {}  BY <2>1 DEF Closes
    <3> HIDE DEF row, s, row2, s2
    <3>4. RowOK(p, row2, today)  BY <3>1, <3>2 DEF RowOK
    <3>5. SeriesOK(p, row2, s2, today)
      <4>1. DOMAIN s2 \subseteq 1 .. today  BY <3>1, <3>2 DEF SeriesOK
      <4>2. \A n \in DOMAIN s2 : s2[n].amount \in Int /\ s2[n].currency = Currency[p]
        BY <3>1, <3>2 DEF SeriesOK
      <4>3. /\ row2.end \in DOMAIN s2 /\ s2[row2.end].amount = 0
            /\ \A n \in DOMAIN s2 : n <= row2.end
            /\ \E n \in DOMAIN s2 : n < row2.end
        BY <3>2, <3>3, <4>1
      <4>4. row2.principal # None => \A n \in DOMAIN s2 : row2.placed <= n
        BY <3>1, <3>2 DEF SeriesOK, RowOK
      <4> QED  BY <3>2, <4>1, <4>2, <4>3, <4>4 DEF SeriesOK
    <3> QED  BY <3>4, <3>5 DEF row2, s2
  <2>2. ASSUME NEW q \in DOMAIN c.position \ DOMAIN b.position
        PROVE  RowOK(q, c.position[q], today) /\ SeriesOK(q, c.position[q], c.snapshot[q], today)
    <3>1. Opens(b, c, q)  BY <1>2
    <3> QED  BY <3>1, <1>0 DEF RowOK, SeriesOK, Opened
  <2>3. ASSUME NEW p \in DOMAIN c.position
        PROVE  RowOK(p, c.position[p], today) /\ SeriesOK(p, c.position[p], c.snapshot[p], today)
    BY <1>1, <1>2, <2>1, <2>2 DEF PositionsOK
  <2>4. DOMAIN c.position \subseteq Position  BY <1>1, <1>2, <1>0 DEF PositionsOK, Opened
  <2> QED  BY <2>3, <2>4 DEF PositionsOK, Enters
<1>5. BankOK(c, today)
  <2>1. ~Closes(b, c, Bank)  BY DEF Closes
  <2> QED  BY <1>1, <1>2, <2>1 DEF BankOK
<1>6. RatesOK(c, today)  BY <1>1 DEF RatesOK, Enters
\* What has ended stays so.
<1>7. \A p \in DOMAIN b.position : b.position[p].end # None =>
        c.position[p] = b.position[p] /\ c.snapshot[p] = b.snapshot[p]
  BY <1>2 DEF Closes
<1>8. TxnsOK(c, today)
  <2>1. CASE c.transaction = b.transaction
    BY <1>1, <1>2, <1>7, <2>1 DEF TxnsOK
  <2>2. CASE c.transaction # b.transaction
    <3>1. PICK x : c.transaction = b.transaction \cup {x} /\ Books(b, c, x)
      BY <2>2 DEF Enters
    <3>2. x \notin b.transaction
      <4>1. Cardinality(b.transaction) \in Nat  BY <1>1, FS_CardinalityType DEF TxnsOK
      <4>2. \A y \in b.transaction : y.no < Cardinality(b.transaction) /\ y.no \in Nat
        BY <1>1 DEF TxnsOK, Txns
      <4> QED  BY <3>1, <4>1, <4>2 DEF Books
    <3>3. /\ IsFiniteSet(c.transaction) /\ Cardinality(b.transaction) \in Nat
          /\ Cardinality(c.transaction) = Cardinality(b.transaction) + 1
      BY <1>1, <3>1, <3>2, FS_AddElement, FS_CardinalityType DEF TxnsOK
    <3>4. ASSUME NEW y \in c.transaction
          PROVE  /\ y \in Txns /\ y.of \in DOMAIN c.position /\ y.month \in 1 .. today
                 /\ y.no < Cardinality(c.transaction)
                 /\ y.type = "maturity" => c.position[y.of].end # None
      <4>1. CASE y \in b.transaction
        <5>1. /\ y \in Txns /\ y.of \in DOMAIN b.position /\ y.month \in 1 .. today
              /\ y.no < Cardinality(b.transaction)
              /\ y.type = "maturity" => b.position[y.of].end # None
          BY <1>1, <4>1 DEF TxnsOK
        <5>2. y.no \in Nat  BY <5>1 DEF Txns
        <5>3. y.no < Cardinality(c.transaction)  BY <3>3, <5>1, <5>2
        <5> QED  BY <1>2, <1>7, <5>1, <5>3
      <4>2. CASE y = x
        <5>1. y \in Txns /\ y.of \in DOMAIN c.position /\ y.month = today
              /\ y.no = Cardinality(b.transaction)
              /\ (y.type = "maturity" => y.of \in DOMAIN b.position /\ Closes(b, c, y.of))
          BY <3>1, <4>2 DEF Books
        <5>2. y.no < Cardinality(c.transaction)  BY <3>3, <5>1
        <5>3. y.type = "maturity" => c.position[y.of].end # None  BY <5>1, <1>0 DEF Closed
        <5> QED  BY <5>1, <5>2, <5>3
      <4> QED  BY <3>1, <4>1, <4>2
    <3> QED  BY <3>3, <3>4 DEF TxnsOK
  <2> QED  BY <2>1, <2>2
<1>9. IncomeOK(c, today)
  <2>1. CASE c.income = b.income  BY <1>1, <2>1 DEF IncomeOK
  <2>2. CASE c.income # b.income
    <3>1. PICK x \in Incomes : /\ c.income = b.income \cup {x}
                               /\ x.month = today /\ x.no = Cardinality(b.income)
      BY <2>2 DEF Enters
    <3>2. /\ Cardinality(b.income) \in Nat
          /\ \A y \in b.income : y.no < Cardinality(b.income) /\ y.no \in Nat
      BY <1>1, FS_CardinalityType DEF IncomeOK, Incomes
    <3>3. x \notin b.income  BY <3>1, <3>2
    <3>4. IsFiniteSet(b.income)  BY <1>1 DEF IncomeOK
    <3>5. /\ IsFiniteSet(c.income)
          /\ Cardinality(c.income) = Cardinality(b.income) + 1
      BY <3>1, <3>3, <3>4, FS_AddElement
    <3>6. ASSUME NEW i \in c.income
          PROVE  i \in Incomes /\ i.month \in 1 .. today /\ i.no < Cardinality(c.income)
      <4>1. CASE i \in b.income
        <5>1. i \in Incomes /\ i.month \in 1 .. today  BY <1>1, <4>1 DEF IncomeOK
        <5> QED  BY <3>2, <3>5, <4>1, <5>1
      <4>2. CASE i = x  BY <3>1, <3>2, <3>5, <4>2
      <4> QED  BY <3>1, <4>1, <4>2
    <3> QED  BY <3>5, <3>6 DEF IncomeOK
  <2> QED  BY <2>1, <2>2
<1>10. RollsOK(c)
  <2> SUFFICES ASSUME NEW q \in DOMAIN c.position, c.position[q].from # None
               PROVE  LET p == c.position[q].from
                      IN  /\ p \in DOMAIN c.position /\ c.position[p].end # None
                          /\ \A x \in c.transaction : x.of = p /\ x.type = "maturity" =>
                               \A n \in DOMAIN c.snapshot[q] : x.month <= n
    BY DEF RollsOK
  <2> DEFINE p == c.position[q].from
  <2>1. CASE q \in DOMAIN b.position
    <3>1. b.position[q].from = p
      BY <1>2, <2>1, <1>0 DEF Closed
    <3>2. /\ p \in DOMAIN b.position /\ b.position[p].end # None
          /\ \A x \in b.transaction : x.of = p /\ x.type = "maturity" =>
               \A n \in DOMAIN b.snapshot[q] : x.month <= n
      BY <1>1, <2>1, <3>1 DEF RollsOK
    <3>3. p \in DOMAIN c.position /\ c.position[p].end # None /\ ~Closes(b, c, p)
      BY <1>2, <1>7, <3>2 DEF Closes
    <3> HIDE DEF p
    <3>4. ASSUME NEW x \in c.transaction, x.of = p, x.type = "maturity",
                 NEW n \in DOMAIN c.snapshot[q]
          PROVE  x.month <= n
      <4>1. x \in b.transaction
        BY <3>3, <3>4 DEF Enters, Books
      <4>2. x.month \in Int /\ x.month <= today  BY <1>1, <4>1 DEF TxnsOK
      <4>3. CASE n \in DOMAIN b.snapshot[q]  BY <3>2, <3>4, <4>1, <4>3
      <4>4. CASE n \notin DOMAIN b.snapshot[q]
        <5>1. Closes(b, c, q)  BY <1>2, <2>1, <4>4
        <5>2. DOMAIN c.snapshot[q] = DOMAIN b.snapshot[q] \cup {today}
          BY <2>1, <5>1, <1>0 DEF Closed
        <5>3. n = today  BY <4>4, <5>2
        <5> QED  BY <4>2, <5>3
      <4> QED  BY <4>3, <4>4
    <3> QED  BY <3>3, <3>4 DEF p
  <2>2. CASE q \notin DOMAIN b.position
    <3>1. Opens(b, c, q)  BY <1>2, <2>2
    <3>2. p \in DOMAIN b.position /\ Closes(b, c, p) /\ DOMAIN c.snapshot[q] = {}
      BY <3>1, <1>0 DEF Opened
    <3>3. p \in DOMAIN c.position /\ c.position[p].end # None  BY <1>2, <3>2, <1>0 DEF Closed
    <3> QED  BY <3>2, <3>3
  <2> QED  BY <2>1, <2>2
<1>11. SettledOK(c)
  <2> SUFFICES ASSUME NEW p \in DOMAIN c.position, c.position[p].group = "investment",
                      c.position[p].end # None, c.position[p].status # "untracked"
               PROVE  \E x \in c.transaction : /\ x.of = p /\ x.month = c.position[p].end
                                               /\ x.type \in {"sell", "maturity"}
    BY DEF SettledOK
  <2>1. p \in DOMAIN b.position  BY <1>2, <1>0 DEF Opened
  <2>2. CASE c.position[p] = b.position[p]
    BY <1>1, <1>3, <2>1, <2>2 DEF SettledOK
  <2>3. CASE Closes(b, c, p)
    BY <2>1, <2>3, <1>0 DEF Closes, Closed
  <2> QED  BY <1>2, <2>1, <2>2, <2>3
<1> QED  BY <1>4, <1>5, <1>6, <1>8, <1>9, <1>10, <1>11 DEF BooksOK, Enters

LEMMA EntersAgree ==
  ASSUME NEW b, NEW c, BooksOK(b, today), today \in Int, Enters(b, c),
         NEW m \in Int, 1 <= m, m < today
  PROVE  Alike(b, today, c, today, m)
<1>1. 1 <= today  OBVIOUS
<1>0. /\ \A p \in DOMAIN b.position : Closes(b, c, p) => Closed(b, c, p)
      /\ \A q : Opens(b, c, q) => Opened(b, c, q)
  BY ClosedIs, OpenedIs
<1>2. /\ PositionsOK(b, today) /\ TxnsOK(b, today) /\ IncomeOK(b, today)
  BY DEF BooksOK
<1>3. /\ DOMAIN b.position \subseteq DOMAIN c.position
      /\ \A p \in DOMAIN b.position :
           \/ c.position[p] = b.position[p] /\ c.snapshot[p] = b.snapshot[p]
           \/ Closes(b, c, p)
      /\ \A q \in DOMAIN c.position \ DOMAIN b.position : Opens(b, c, q)
  BY DEF Enters
<1>4. ASSUME NEW p \in DOMAIN b.position
      PROVE  /\ SameUpTo(b.snapshot[p], c.snapshot[p], m)
             /\ c.position[p].group = b.position[p].group
             /\ c.position[p].subtype = b.position[p].subtype
             /\ c.position[p].entry = b.position[p].entry
             /\ c.position[p].principal = b.position[p].principal
             /\ c.position[p].placed = b.position[p].placed
             /\ c.position[p].from = b.position[p].from
             /\ c.position[p].paysOut = b.position[p].paysOut
             /\ \/ c.position[p] = b.position[p]
                \/ /\ b.position[p].end = None /\ c.position[p].end \in Int
                   /\ c.position[p].end > m
  <2>1. CASE c.position[p] = b.position[p] /\ c.snapshot[p] = b.snapshot[p]
    BY <2>1 DEF SameUpTo
  <2>2. CASE Closes(b, c, p)
    <3>1. SameUpTo(b.snapshot[p], c.snapshot[p], m)
      <4> DEFINE r == b.snapshot[p]  s == c.snapshot[p]
      <4>1. DOMAIN s = DOMAIN r \cup {today} /\ \A n \in DOMAIN r : s[n] = r[n]
        BY <2>2, <1>0 DEF Closed
      <4> HIDE DEF r, s
      <4>2. SameUpTo(r, s, m)  BY <4>1 DEF SameUpTo
      <4> QED  BY <4>2 DEF r, s
    <3>2. b.position[p].end = None /\ c.position[p].end = today  BY <1>1, <2>2, <1>0 DEF Closes, Closed
    <3> QED  BY <1>1, <2>2, <3>1, <3>2, <1>0 DEF Closed
  <2> QED  BY <1>3, <2>1, <2>2
<1>5. ASSUME NEW q \in DOMAIN c.position \ DOMAIN b.position
      PROVE  /\ Latest(c.snapshot[q], m) = {}
             /\ c.position[q].principal # None => c.position[q].placed > m
             /\ c.position[q].from # None =>
                  \A x \in b.transaction : x.of = c.position[q].from => x.type # "maturity"
             /\ c.position[q].end = None
  <2>1. Opens(b, c, q)  BY <1>3
  <2>2. DOMAIN c.snapshot[q] = {} /\ c.position[q].end = None  BY <1>1, <2>1, <1>0 DEF Opened
  <2>3. c.position[q].principal # None => c.position[q].placed = today  BY <1>1, <2>1, <1>0 DEF Opened
  <2>4. ASSUME c.position[q].from # None, NEW x \in b.transaction, x.of = c.position[q].from
        PROVE  x.type # "maturity"
    <3>1. Closes(b, c, x.of)  BY <1>1, <2>1, <2>4, <1>0 DEF Opened
    <3>2. b.position[x.of].end = None  BY <3>1 DEF Closes
    <3> QED  BY <1>2, <3>2 DEF TxnsOK
  <2> QED  BY <2>2, <2>3, <2>4 DEF Latest
<1>6. ASSUME NEW x
      PROVE  (x \in c.transaction /\ x.month <= m) <=> (x \in b.transaction /\ x.month <= m)
  <2>1. b.transaction \subseteq c.transaction /\ \A y \in c.transaction \ b.transaction : y.month = today
    BY DEF Enters, Books
  <2> QED  BY <2>1
<1>7. ASSUME NEW i
      PROVE  (i \in c.income /\ i.month <= m) <=> (i \in b.income /\ i.month <= m)
  <2>1. b.income \subseteq c.income /\ \A y \in c.income \ b.income : y.month = today
    BY DEF Enters
  <2> QED  BY <2>1
<1>8. SameUpTo(b.rate[Other], c.rate[Other], m)  BY DEF Enters, SameUpTo
<1>9. Agree(b, c, m)  BY <1>3, <1>4, <1>5, <1>6, <1>7, <1>8 DEF Agree
<1> QED  BY <1>1, <1>9, EntersOK DEF Alike

----------------------------------------------------------------------------
(* The figures of a month that has not ended: what books b and what things are *)
(* worth, w, come to when month t is over                                      *)

Moved(b, t, p) == Latest(b.snapshot[p], t - 1) # {}

NowOf(b, w, t, p) ==
  IF b.position[p].end = None THEN w[p] * PriceOf(b, Currency[p], t) ELSE 0

Gone(b, t, p) == b.position[p].end # None /\ b.position[p].end < t

\* Of what ends so no cash comes.
WithoutCash(group, status) ==
  status = "untracked" \/ <<group, status>> \in
    { <<"asset", "disposed">>, <<"liability", "forgiven">>, <<"liability", "written_off">>,
      <<"receivable", "written_off">> }

GainNow(b, w, t, p) ==
  IF /\ b.position[p].group = "investment" /\ ~Gone(b, t, p) /\ Moved(b, t, p)
     /\ ~(b.position[p].end # None /\ b.position[p].status = "untracked")
  THEN NowOf(b, w, t, p) - Carried(b, p, t - 1) + OwnOf(b, p, t)
  ELSE 0

\* The money that went into p.
IntoNow(b, w, t, p) ==
  IF Gone(b, t, p) THEN 0
  ELSE IF ~Moved(b, t, p) THEN
    IF b.position[p].entry = "newly_tracked" THEN 0 ELSE SignedForNW(b, p, NowOf(b, w, t, p))
  ELSE IF b.position[p].end # None /\ WithoutCash(b.position[p].group, b.position[p].status) THEN 0
  ELSE IF b.position[p].group = "investment" THEN -OwnOf(b, p, t)
  ELSE IF b.position[p].subtype = "property" /\ b.position[p].end = None THEN 0
  ELSE SignedForNW(b, p, NowOf(b, w, t, p) - Carried(b, p, t - 1))

Gains(b, w, t) == [p \in DOMAIN b.position |-> GainNow(b, w, t, p)]

Intos(b, w, t) == [p \in DOMAIN b.position |-> IntoNow(b, w, t, p)]

LEMMA Times == \A x \in Int, y \in Int : x * y \in Int
OBVIOUS

LEMMA FiguresInt ==
  ASSUME NEW b, NEW t \in Int, BooksOK(b, t), 1 < t, NEW w \in [Position -> Int],
         NEW p \in DOMAIN b.position
  PROVE  /\ GainNow(b, w, t, p) \in Int /\ IntoNow(b, w, t, p) \in Int
         /\ OwnOf(b, p, t) \in Int /\ NowOf(b, w, t, p) \in Int
         /\ PriceOf(b, Currency[p], t) \in Int
         /\ Moved(b, t, p) => Carried(b, p, t - 1) \in Int
<1>1. /\ PositionsOK(b, t) /\ RatesOK(b, t) /\ TxnsOK(b, t)
      /\ 1 <= t /\ t - 1 \in Int /\ 1 <= t - 1
  BY DEF BooksOK
<1>2. p \in Position /\ Currency[p] \in {Home, Other} /\ w[p] \in Int
  BY <1>1, BooksAssumption DEF PositionsOK
<1>3. PriceOf(b, Currency[p], t) \in Int  BY <1>1, <1>2, PriceIs
<1>4. NowOf(b, w, t, p) \in Int  BY <1>2, <1>3, Times DEF NowOf
<1>5. OwnOf(b, p, t) \in Int  BY <1>1, OwnIs
<1>6. Moved(b, t, p) => Carried(b, p, t - 1) \in Int  BY <1>1, CarriedIs DEF Moved
<1>7. GainNow(b, w, t, p) \in Int
  <2> DEFINE x == NowOf(b, w, t, p)  y == Carried(b, p, t - 1)  z == OwnOf(b, p, t)
  <2>1. x \in Int /\ z \in Int /\ (Moved(b, t, p) => y \in Int)  BY <1>4, <1>5, <1>6
  <2>2. (GainNow(b, w, t, p) = x - y + z /\ Moved(b, t, p)) \/ GainNow(b, w, t, p) = 0
    BY DEF GainNow
  <2> HIDE DEF x, y, z
  <2> QED  BY <2>1, <2>2
<1>8. IntoNow(b, w, t, p) \in Int
  <2> DEFINE x == NowOf(b, w, t, p)  y == Carried(b, p, t - 1)  z == OwnOf(b, p, t)
  <2>1. x \in Int /\ z \in Int /\ (Moved(b, t, p) => y \in Int)  BY <1>4, <1>5, <1>6
  <2>2. \/ IntoNow(b, w, t, p) \in {0, x, -x, -z}
        \/ Moved(b, t, p) /\ IntoNow(b, w, t, p) \in {x - y, -(x - y)}
    BY DEF IntoNow, SignedForNW
  <2> HIDE DEF x, y, z
  <2> QED  BY <2>1, <2>2
<1> QED  BY <1>3, <1>4, <1>5, <1>6, <1>7, <1>8

LEMMA FiguresSummable ==
  ASSUME NEW b, NEW t \in Int, BooksOK(b, t), 1 < t, NEW w \in [Position -> Int]
  PROVE  Summable(Gains(b, w, t)) /\ Summable(Intos(b, w, t))
<1>1. IsFiniteSet(DOMAIN b.position)  BY DEF BooksOK, PositionsOK
<1> QED  BY <1>1, FiguresInt DEF Summable, Gains, Intos

\* How the figures of one position read.
LEMMA FiguresOfMoved ==
  ASSUME NEW b, NEW t, NEW w, NEW p, b.position[p].end = None, Moved(b, t, p)
  PROVE  /\ GainNow(b, w, t, p) =
              IF b.position[p].group = "investment"
              THEN w[p] * PriceOf(b, Currency[p], t) - Carried(b, p, t - 1) + OwnOf(b, p, t)
              ELSE 0
         /\ IntoNow(b, w, t, p) =
              IF b.position[p].group = "investment" THEN -OwnOf(b, p, t)
              ELSE IF b.position[p].subtype = "property" THEN 0
              ELSE SignedForNW(b, p, w[p] * PriceOf(b, Currency[p], t) - Carried(b, p, t - 1))
BY DEF GainNow, IntoNow, NowOf, Gone

LEMMA FiguresOfNew ==
  ASSUME NEW b, NEW t, NEW w, NEW p, b.position[p].end = None, ~Moved(b, t, p)
  PROVE  /\ GainNow(b, w, t, p) = 0
         /\ IntoNow(b, w, t, p) =
              IF b.position[p].entry = "newly_tracked" THEN 0
              ELSE SignedForNW(b, p, w[p] * PriceOf(b, Currency[p], t))
BY DEF GainNow, IntoNow, NowOf, Gone

LEMMA FiguresOfEnded ==
  ASSUME NEW b, NEW t \in Int, NEW w, NEW p, b.position[p].end = t, Moved(b, t, p)
  PROVE  /\ GainNow(b, w, t, p) =
              IF b.position[p].group = "investment" /\ b.position[p].status # "untracked"
              THEN 0 - Carried(b, p, t - 1) + OwnOf(b, p, t) ELSE 0
         /\ IntoNow(b, w, t, p) =
              IF WithoutCash(b.position[p].group, b.position[p].status) THEN 0
              ELSE IF b.position[p].group = "investment" THEN -OwnOf(b, p, t)
              ELSE SignedForNW(b, p, 0 - Carried(b, p, t - 1))
<1>1. b.position[p].end # None  BY NoneAssumption
<1>2. ~Gone(b, t, p)  BY DEF Gone
<1>3. NowOf(b, w, t, p) = 0  BY <1>1 DEF NowOf
<1>4. GainNow(b, w, t, p) =
        IF b.position[p].group = "investment" /\ b.position[p].status # "untracked"
        THEN 0 - Carried(b, p, t - 1) + OwnOf(b, p, t) ELSE 0
  BY <1>1, <1>2, <1>3 DEF GainNow
<1>5. IntoNow(b, w, t, p) =
        IF WithoutCash(b.position[p].group, b.position[p].status) THEN 0
        ELSE IF b.position[p].group = "investment" THEN -OwnOf(b, p, t)
        ELSE SignedForNW(b, p, 0 - Carried(b, p, t - 1))
  BY <1>1, <1>2, <1>3 DEF IntoNow
<1> QED  BY <1>4, <1>5

----------------------------------------------------------------------------
(* What the entries do to the books *)

LEMMA WithTxnIs ==
  ASSUME NEW b, NEW c, NEW x, DOMAIN b = Fields, c = WithTxn(b, x)
  PROVE  /\ DOMAIN c = Fields /\ c.transaction = b.transaction \cup {x}
         /\ c.position = b.position /\ c.snapshot = b.snapshot /\ c.income = b.income
         /\ c.rate = b.rate /\ c.multi = b.multi
BY DEF WithTxn, Fields

LEMMA WithPositionIs ==
  ASSUME NEW b, NEW c, NEW p, NEW row, DOMAIN b = Fields, c = WithPosition(b, p, row),
         DOMAIN b.snapshot = DOMAIN b.position
  PROVE  /\ DOMAIN c = Fields /\ c.transaction = b.transaction /\ c.income = b.income
         /\ c.rate = b.rate /\ c.multi = b.multi
         /\ DOMAIN c.position = DOMAIN b.position \cup {p}
         /\ DOMAIN c.snapshot = DOMAIN c.position
         /\ c.position[p] = row /\ c.snapshot[p] = NoSeries
         /\ \A z \in DOMAIN b.position : z # p =>
              c.position[z] = b.position[z] /\ c.snapshot[z] = b.snapshot[z]
<1>1. /\ DOMAIN c = Fields /\ c.transaction = b.transaction /\ c.income = b.income
      /\ c.rate = b.rate /\ c.multi = b.multi
      /\ c.position = Put(b.position, p, row) /\ c.snapshot = Put(b.snapshot, p, NoSeries)
  BY DEF WithPosition, Fields
<1> DEFINE old == b.position  new == c.position  rec == b.snapshot  now == c.snapshot
<1>2. new = Put(old, p, row) /\ now = Put(rec, p, NoSeries) /\ DOMAIN rec = DOMAIN old
  BY <1>1
<1> HIDE DEF old, new, rec, now
<1>3. /\ DOMAIN new = DOMAIN old \cup {p} /\ new[p] = row
      /\ \A z \in DOMAIN old : z # p => new[z] = old[z]
  BY <1>2 DEF Put
<1>4. /\ DOMAIN now = DOMAIN rec \cup {p} /\ now[p] = NoSeries
      /\ \A z \in DOMAIN rec : z # p => now[z] = rec[z]
  BY <1>2 DEF Put
<1> QED  BY <1>1, <1>2, <1>3, <1>4 DEF old, new, rec, now

Ends(b, c, p, status) ==
  /\ DOMAIN c = Fields /\ c.transaction = b.transaction /\ c.income = b.income
  /\ c.rate = b.rate /\ c.multi = b.multi
  /\ DOMAIN c.position = DOMAIN b.position /\ DOMAIN c.snapshot = DOMAIN b.position
  /\ c.position[p] = [b.position[p] EXCEPT !.status = status, !.end = today]
  /\ c.snapshot[p] = Put(b.snapshot[p], today, [amount |-> 0, currency |-> Currency[p]])
  /\ \A z \in DOMAIN b.position : z # p =>
       c.position[z] = b.position[z] /\ c.snapshot[z] = b.snapshot[z]

LEMMA TerminatedIs ==
  ASSUME NEW b, NEW c, NEW p, NEW status, DOMAIN b = Fields, c = Terminated(b, p, status),
         DOMAIN b.snapshot = DOMAIN b.position, p \in DOMAIN b.position
  PROVE  Ends(b, c, p, status)
<1> DEFINE zero == [amount |-> 0, currency |-> Currency[p]]
<1>1. c = [b EXCEPT !.position[p].status = status, !.position[p].end = today,
                    !.snapshot[p] = Put(@, today, zero)]
  BY DEF Terminated
<1> HIDE DEF zero
<1>2. /\ DOMAIN c = Fields /\ c.transaction = b.transaction /\ c.income = b.income
      /\ c.rate = b.rate /\ c.multi = b.multi
  BY <1>1 DEF Fields
<1>3. c.snapshot = [b.snapshot EXCEPT ![p] = Put(@, today, zero)]
  BY <1>1 DEF Fields
<1>4. c.position = [[b.position EXCEPT ![p] = [@ EXCEPT !.status = status]]
                      EXCEPT ![p] = [@ EXCEPT !.end = today]]
  BY <1>1 DEF Fields
<1>5. /\ DOMAIN c.position = DOMAIN b.position
      /\ \A z \in DOMAIN b.position : z # p => c.position[z] = b.position[z]
      /\ c.position[p] = [b.position[p] EXCEPT !.status = status, !.end = today]
  BY <1>4
<1>6. /\ DOMAIN c.snapshot = DOMAIN b.snapshot /\ c.snapshot[p] = Put(b.snapshot[p], today, zero)
      /\ \A z \in DOMAIN b.snapshot : z # p => c.snapshot[z] = b.snapshot[z]
  BY <1>3
<1> QED  BY <1>2, <1>5, <1>6 DEF zero, Ends

\* A new entry about p.
EntryOf(p, x) == /\ x \in Txns /\ x.of = p /\ x.month = today
                 /\ x.no = Cardinality(books.transaction) /\ x.currency = Currency[p]

LEMMA EnterIncome ==
  ASSUME BooksOK(books, today), NEW c, NEW i \in Incomes, i.month = today,
         i.no = Cardinality(books.income),
         c = [books EXCEPT !.income = @ \cup {i}]
  PROVE  /\ Enters(books, c) /\ c.income = books.income \cup {i}
         /\ c.position = books.position /\ c.snapshot = books.snapshot
         /\ c.transaction = books.transaction /\ c.rate = books.rate /\ c.multi = books.multi
<1>1. DOMAIN books = Fields /\ PositionsOK(books, today)  BY DEF BooksOK
<1>2. /\ DOMAIN c = Fields /\ c.income = books.income \cup {i}
      /\ c.position = books.position /\ c.snapshot = books.snapshot
      /\ c.transaction = books.transaction /\ c.rate = books.rate /\ c.multi = books.multi
  BY <1>1 DEF Fields
<1> QED  BY <1>1, <1>2 DEF Enters, PositionsOK

LEMMA EnterTxn ==
  ASSUME BooksOK(books, today), NEW c, NEW p \in DOMAIN books.position, NEW x, EntryOf(p, x),
         x.type # "maturity", c = WithTxn(books, x)
  PROVE  /\ Enters(books, c) /\ c.transaction = books.transaction \cup {x}
         /\ c.position = books.position /\ c.snapshot = books.snapshot
         /\ c.income = books.income /\ c.rate = books.rate /\ c.multi = books.multi
<1>1. DOMAIN books = Fields /\ PositionsOK(books, today)  BY DEF BooksOK
<1>2. /\ DOMAIN c = Fields /\ c.transaction = books.transaction \cup {x}
      /\ c.position = books.position /\ c.snapshot = books.snapshot
      /\ c.income = books.income /\ c.rate = books.rate /\ c.multi = books.multi
  BY <1>1, WithTxnIs
<1>3. Books(books, c, x)  BY <1>2 DEF Books, EntryOf
<1> QED  BY <1>1, <1>2, <1>3 DEF Enters, PositionsOK

\* Position p has been closed, with or without an entry x.
LEMMA EnterEnd ==
  ASSUME BooksOK(books, today), NEW c, NEW p \in DOMAIN books.position, p # Bank,
         books.position[p].end = None, DOMAIN books.snapshot[p] # {},
         NEW status \in Statuses, books.position[p].group = "investment" => status = "untracked",
         c = Terminated(books, p, status)
  PROVE  /\ Enters(books, c) /\ Closes(books, c, p) /\ c.position[p].status = status
         /\ c.transaction = books.transaction
         /\ c.income = books.income /\ c.rate = books.rate /\ c.multi = books.multi
         /\ DOMAIN c.position = DOMAIN books.position
         /\ \A z \in DOMAIN books.position : z # p =>
              c.position[z] = books.position[z] /\ c.snapshot[z] = books.snapshot[z]
<1>1. DOMAIN books = Fields /\ PositionsOK(books, today)  BY DEF BooksOK
<1>0. DOMAIN books.snapshot = DOMAIN books.position  BY <1>1 DEF PositionsOK
<1>2a. Ends(books, c, p, status)  BY <1>0, <1>1, TerminatedIs
<1>2. /\ DOMAIN c = Fields /\ c.transaction = books.transaction /\ c.income = books.income
      /\ c.rate = books.rate /\ c.multi = books.multi
      /\ DOMAIN c.position = DOMAIN books.position /\ DOMAIN c.snapshot = DOMAIN books.position
      /\ c.position[p] = [books.position[p] EXCEPT !.status = status, !.end = today]
      /\ c.snapshot[p] = Put(books.snapshot[p], today, [amount |-> 0, currency |-> Currency[p]])
      /\ \A z \in DOMAIN books.position : z # p =>
           c.position[z] = books.position[z] /\ c.snapshot[z] = books.snapshot[z]
  BY <1>2a DEF Ends
<1>3. books.position[p] \in Rows  BY <1>1 DEF PositionsOK, RowOK
<1>4. c.position[p].status = status  BY <1>2, <1>3 DEF Rows
<1>5. Closes(books, c, p)  BY <1>2, <1>4 DEF Closes
<1> QED  BY <1>1, <1>2, <1>4, <1>5 DEF Enters, PositionsOK

LEMMA EnterEndTxn ==
  ASSUME BooksOK(books, today), NEW c, NEW p \in DOMAIN books.position, p # Bank,
         books.position[p].end = None, DOMAIN books.snapshot[p] # {},
         NEW status \in Statuses, NEW x, EntryOf(p, x), x.type \in {"sell", "maturity"},
         c = Terminated(WithTxn(books, x), p, status)
  PROVE  /\ Enters(books, c) /\ Closes(books, c, p) /\ c.position[p].status = status
         /\ c.transaction = books.transaction \cup {x}
         /\ c.income = books.income /\ c.rate = books.rate /\ c.multi = books.multi
         /\ DOMAIN c = Fields
         /\ DOMAIN c.position = DOMAIN books.position /\ DOMAIN c.snapshot = DOMAIN books.position
         /\ \A z \in DOMAIN books.position : z # p =>
              c.position[z] = books.position[z] /\ c.snapshot[z] = books.snapshot[z]
<1>1. DOMAIN books = Fields /\ PositionsOK(books, today)  BY DEF BooksOK
<1> DEFINE b == WithTxn(books, x)
<1>2. /\ DOMAIN b = Fields /\ b.transaction = books.transaction \cup {x}
      /\ b.position = books.position /\ b.snapshot = books.snapshot
      /\ b.income = books.income /\ b.rate = books.rate /\ b.multi = books.multi
  BY <1>1, WithTxnIs
<1>3. c = Terminated(b, p, status)  OBVIOUS
<1> HIDE DEF b
<1>4. DOMAIN b.snapshot = DOMAIN b.position /\ p \in DOMAIN b.position
  BY <1>1, <1>2 DEF PositionsOK
<1>5. /\ DOMAIN c = Fields /\ c.transaction = b.transaction /\ c.income = b.income
      /\ c.rate = b.rate /\ c.multi = b.multi
      /\ DOMAIN c.position = DOMAIN b.position /\ DOMAIN c.snapshot = DOMAIN b.position
      /\ c.position[p] = [b.position[p] EXCEPT !.status = status, !.end = today]
      /\ c.snapshot[p] = Put(b.snapshot[p], today, [amount |-> 0, currency |-> Currency[p]])
      /\ \A z \in DOMAIN b.position : z # p =>
           c.position[z] = b.position[z] /\ c.snapshot[z] = b.snapshot[z]
  <2>1. Ends(b, c, p, status)  BY <1>2, <1>3, <1>4, TerminatedIs
  <2> QED  BY <2>1 DEF Ends
<1>6. books.position[p] \in Rows  BY <1>1 DEF PositionsOK, RowOK
<1>7. c.position[p].status = status  BY <1>2, <1>5, <1>6 DEF Rows
<1>8. x \in c.transaction /\ x.of = p /\ x.month = today  BY <1>2, <1>5 DEF EntryOf
<1>9. Closes(books, c, p)
  <2>1. c.position[p] = [books.position[p] EXCEPT !.status = status, !.end = today]
    BY <1>2, <1>5
  <2>2. c.snapshot[p] = Put(books.snapshot[p], today, [amount |-> 0, currency |-> Currency[p]])
    BY <1>2, <1>5
  <2>3. \E y \in c.transaction : y.of = p /\ y.month = today /\ y.type \in {"sell", "maturity"}
    BY <1>8
  <2> QED  BY <2>1, <2>2, <2>3 DEF Closes
<1>10. Books(books, c, x)  BY <1>2, <1>5, <1>9 DEF Books, EntryOf
<1>11. DOMAIN c.position = DOMAIN books.position /\ DOMAIN c.snapshot = DOMAIN books.position
  BY <1>2, <1>5
<1>12. \A z \in DOMAIN books.position : z # p =>
         c.position[z] = books.position[z] /\ c.snapshot[z] = books.snapshot[z]
  BY <1>2, <1>5
<1>13. c.transaction = books.transaction \cup {x} /\ c.income = books.income
       /\ c.rate = books.rate /\ c.multi = books.multi
  BY <1>2, <1>5
<1>14. Enters(books, c)
  BY <1>1, <1>5, <1>9, <1>10, <1>11, <1>12, <1>13 DEF Enters, PositionsOK
<1> QED  BY <1>5, <1>7, <1>9, <1>11, <1>12, <1>13, <1>14

\* What closed stays closed as entries go on.
LEMMA ClosesOn ==
  ASSUME NEW b, NEW d, NEW c, NEW p, Closes(b, d, p), c.position[p] = d.position[p],
         c.snapshot[p] = d.snapshot[p], d.transaction \subseteq c.transaction
  PROVE  Closes(b, c, p)
<1>1. /\ p # Bank /\ b.position[p].end = None /\ DOMAIN b.snapshot[p] # {}
      /\ c.snapshot[p] = Put(b.snapshot[p], today, [amount |-> 0, currency |-> Currency[p]])
  BY DEF Closes
<1>2. \E status \in Statuses :
        c.position[p] = [b.position[p] EXCEPT !.status = status, !.end = today]
  BY DEF Closes
<1>3. (b.position[p].group = "investment" /\ c.position[p].status # "untracked") =>
        \E x \in c.transaction : x.of = p /\ x.month = today /\ x.type \in {"sell", "maturity"}
  BY DEF Closes
<1> QED  BY <1>1, <1>2, <1>3 DEF Closes

LEMMA EntersNothing ==
  ASSUME BooksOK(books, today)
  PROVE  Enters(books, books)
BY DEF BooksOK, PositionsOK, Enters

\* A position p is opened on books d.
Begins(d, c, p, row) ==
  /\ c.transaction = d.transaction /\ c.income = d.income
  /\ c.rate = d.rate /\ c.multi = d.multi
  /\ DOMAIN c.position = DOMAIN d.position \cup {p} /\ DOMAIN c.snapshot = DOMAIN c.position
  /\ c.position[p] = row /\ c.snapshot[p] = NoSeries
  /\ \A z \in DOMAIN d.position : z # p =>
       c.position[z] = d.position[z] /\ c.snapshot[z] = d.snapshot[z]

LEMMA EnterOpen ==
  ASSUME BooksOK(books, today), NEW d, Enters(books, d), DOMAIN d.position = DOMAIN books.position,
         NEW p \in Position, p \notin DOMAIN d.position,
         NEW entry \in {"acquired", "newly_tracked"}, NEW principal \in Int \cup {None},
         principal # None <=> Kind[p] = "time_deposit",
         NEW from \in Position \cup {None},
         from # None => from \in DOMAIN books.position /\ Closes(books, d, from),
         NEW c, c = WithPosition(d, p, Row(p, entry, principal, from))
  PROVE  Enters(books, c) /\ DOMAIN c = Fields /\ Begins(d, c, p, Row(p, entry, principal, from))
<1> DEFINE row == Row(p, entry, principal, from)
<1>1. /\ DOMAIN d = Fields /\ DOMAIN d.snapshot = DOMAIN d.position
      /\ d.multi = books.multi /\ d.rate = books.rate
      /\ IsFiniteSet(DOMAIN d.position) /\ DOMAIN books.position \subseteq DOMAIN d.position
  BY DEF Enters
<1>2. c = WithPosition(d, p, row)  OBVIOUS
<1>2a. row = Row(p, entry, principal, from)  OBVIOUS
<1> HIDE DEF row
<1>3. DOMAIN c = Fields /\ Begins(d, c, p, row)
  <2>1. /\ DOMAIN c = Fields /\ c.transaction = d.transaction /\ c.income = d.income
        /\ c.rate = d.rate /\ c.multi = d.multi
        /\ DOMAIN c.position = DOMAIN d.position \cup {p}
        /\ DOMAIN c.snapshot = DOMAIN c.position
        /\ c.position[p] = row /\ c.snapshot[p] = NoSeries
        /\ \A z \in DOMAIN d.position : z # p =>
             c.position[z] = d.position[z] /\ c.snapshot[z] = d.snapshot[z]
    BY <1>1, <1>2, WithPositionIs
  <2> QED  BY <2>1 DEF Begins
<1>4. /\ c.transaction = d.transaction /\ c.income = d.income
      /\ c.rate = d.rate /\ c.multi = d.multi
      /\ DOMAIN c.position = DOMAIN d.position \cup {p} /\ DOMAIN c.snapshot = DOMAIN c.position
      /\ c.position[p] = row /\ c.snapshot[p] = NoSeries
      /\ \A z \in DOMAIN d.position : z # p =>
           c.position[z] = d.position[z] /\ c.snapshot[z] = d.snapshot[z]
  BY <1>3 DEF Begins
<1>5. \A z \in DOMAIN books.position : Closes(books, d, z) => Closes(books, c, z)
  <2> SUFFICES ASSUME NEW z \in DOMAIN books.position, Closes(books, d, z)
               PROVE  Closes(books, c, z)
    OBVIOUS
  <2>1. /\ c.position[z] = d.position[z] /\ c.snapshot[z] = d.snapshot[z]
        /\ d.transaction \subseteq c.transaction
    BY <1>1, <1>4
  <2> QED  BY <2>1, ClosesOn
<1>6. \A z \in DOMAIN books.position :
        \/ c.position[z] = books.position[z] /\ c.snapshot[z] = books.snapshot[z]
        \/ Closes(books, c, z)
  <2> SUFFICES ASSUME NEW z \in DOMAIN books.position
               PROVE  \/ c.position[z] = books.position[z] /\ c.snapshot[z] = books.snapshot[z]
                      \/ Closes(books, c, z)
    OBVIOUS
  <2>1. \/ d.position[z] = books.position[z] /\ d.snapshot[z] = books.snapshot[z]
        \/ Closes(books, d, z)
    BY DEF Enters
  <2>2. c.position[z] = d.position[z] /\ c.snapshot[z] = d.snapshot[z]  BY <1>1, <1>4
  <2> QED  BY <2>1, <2>2, <1>5
<1>7. Opens(books, c, p)
  <2>1. c.position[p] = Row(p, entry, principal, from) /\ c.snapshot[p] = NoSeries
    BY <1>2a, <1>4
  <2>2. from # None => from \in DOMAIN books.position /\ Closes(books, c, from)  BY <1>5
  <2> QED  BY <2>1, <2>2 DEF Opens
<1>8. \A q \in DOMAIN c.position \ DOMAIN books.position : Opens(books, c, q)
  BY <1>4, <1>7
<1>9. IsFiniteSet(DOMAIN c.position)  BY <1>1, <1>4, FS_AddElement
<1>10. \/ c.transaction = books.transaction
       \/ \E x : c.transaction = books.transaction \cup {x} /\ Books(books, c, x)
  <2>1. CASE d.transaction = books.transaction  BY <2>1, <1>4
  <2>2. CASE d.transaction # books.transaction
    <3>1. PICK x : d.transaction = books.transaction \cup {x} /\ Books(books, d, x)
      BY <2>2 DEF Enters
    <3>2. Books(books, c, x)  BY <3>1, <1>4, <1>5 DEF Books
    <3> QED  BY <3>1, <3>2, <1>4
  <2> QED  BY <2>1, <2>2
<1>11. \/ c.income = books.income
       \/ \E i \in Incomes : /\ c.income = books.income \cup {i}
                             /\ i.month = today /\ i.no = Cardinality(books.income)
  BY <1>4 DEF Enters
<1>12. DOMAIN books.position \subseteq DOMAIN c.position  BY <1>1, <1>4
<1>13. Enters(books, c)
  BY <1>1, <1>3, <1>4, <1>6, <1>8, <1>9, <1>10, <1>11, <1>12 DEF Enters
<1> QED  BY <1>3, <1>13, <1>2a

\* An entry is made about the position that was opened.
LEMMA EnterOpenTxn ==
  ASSUME BooksOK(books, today), NEW p \in Position, p \notin DOMAIN books.position,
         NEW row, NEW d, Enters(books, d), DOMAIN d = Fields, Begins(books, d, p, row),
         NEW x, EntryOf(p, x), x.type # "maturity", NEW c, c = WithTxn(d, x)
  PROVE  /\ Enters(books, c) /\ c.transaction = books.transaction \cup {x}
         /\ c.position = d.position /\ c.snapshot = d.snapshot
         /\ c.income = books.income /\ c.rate = books.rate /\ c.multi = books.multi
<1>1. /\ DOMAIN c = Fields /\ c.transaction = d.transaction \cup {x}
      /\ c.position = d.position /\ c.snapshot = d.snapshot
      /\ c.income = d.income /\ c.rate = d.rate /\ c.multi = d.multi
  BY WithTxnIs
<1>2. /\ d.transaction = books.transaction /\ d.income = books.income
      /\ d.rate = books.rate /\ d.multi = books.multi
      /\ DOMAIN d.position = DOMAIN books.position \cup {p}
      /\ \A z \in DOMAIN books.position : z # p =>
           d.position[z] = books.position[z] /\ d.snapshot[z] = books.snapshot[z]
  BY DEF Begins
<1>3. Books(books, c, x)  BY <1>1, <1>2 DEF Books, EntryOf
<1>4. Opens(books, c, p)
  <2>1. Opens(books, d, p)  BY <1>2 DEF Enters
  <2>2. PICK entry \in {"acquired", "newly_tracked"}, principal \in Int \cup {None},
             from \in Position \cup {None} :
          /\ d.position[p] = Row(p, entry, principal, from)
          /\ principal # None <=> Kind[p] = "time_deposit"
          /\ from # None => from \in DOMAIN books.position /\ Closes(books, d, from)
    BY <2>1 DEF Opens
  <2>3. from # None => Closes(books, c, from)
    <3> SUFFICES ASSUME from # None PROVE Closes(books, c, from)  OBVIOUS
    <3>1. Closes(books, d, from)  BY <2>2
    <3>2. d.transaction \subseteq c.transaction  BY <1>1
    <3> QED  BY <1>1, <3>1, <3>2, ClosesOn
  <2>4. c.snapshot[p] = NoSeries /\ p \in Position  BY <2>1, <1>1 DEF Opens
  <2>5. c.position[p] = Row(p, entry, principal, from)  BY <1>1, <2>2
  <2> QED  BY <2>2, <2>3, <2>4, <2>5 DEF Opens
<1>5. \A z \in DOMAIN books.position :
        c.position[z] = books.position[z] /\ c.snapshot[z] = books.snapshot[z]
  BY <1>1, <1>2
<1>6. DOMAIN c.position \ DOMAIN books.position = {p}  BY <1>1, <1>2
<1>7. /\ IsFiniteSet(DOMAIN c.position) /\ DOMAIN c.snapshot = DOMAIN c.position
      /\ DOMAIN books.position \subseteq DOMAIN c.position
  BY <1>1, <1>2 DEF Enters
<1>8. c.transaction = books.transaction \cup {x} /\ c.income = books.income
      /\ c.rate = books.rate /\ c.multi = books.multi
  BY <1>1, <1>2
<1>9. Enters(books, c)  BY <1>1, <1>3, <1>4, <1>5, <1>6, <1>7, <1>8 DEF Enters
<1> QED  BY <1>1, <1>8, <1>9

----------------------------------------------------------------------------
(* What an entry adds to the figures of the month t it is made in *)

SameRates(b, c) == c.rate = b.rate /\ c.multi = b.multi

LEMMA SamePrices ==
  ASSUME NEW b, NEW c, SameRates(b, c), NEW currency, NEW t
  PROVE  /\ PriceOf(c, currency, t) = PriceOf(b, currency, t)
         /\ \A a : Convert(c, a, currency, t) = Convert(b, a, currency, t)
         /\ Convertible(c, currency, t) <=> Convertible(b, currency, t)
BY DEF SameRates, PriceOf, RateAt, Convert, Foreign, Convertible

LEMMA TxnSame ==
  ASSUME NEW b, NEW c, SameRates(b, c), c.transaction = b.transaction, NEW t
  PROVE  /\ Booked(c, t) = Booked(b, t) /\ BookedNet(c, t) = BookedNet(b, t)
         /\ \A p : OwnOf(c, p, t) = OwnOf(b, p, t)
<1>1. /\ \A currency, a : Convert(c, a, currency, t) = Convert(b, a, currency, t)
      /\ \A currency : Convertible(c, currency, t) <=> Convertible(b, currency, t)
  BY SamePrices
<1>2. Booked(c, t) = Booked(b, t)  BY <1>1 DEF Booked
<1>3. BookedNet(c, t) = BookedNet(b, t)
  <2>1. [x \in Booked(c, t) |-> Convert(c, NetOf(x), x.currency, t)]
          = [x \in Booked(b, t) |-> Convert(b, NetOf(x), x.currency, t)]
    BY <1>1, <1>2
  <2> QED  BY <2>1 DEF BookedNet, SumOver
<1>4. \A p : OwnOf(c, p, t) = OwnOf(b, p, t)
  <2> SUFFICES ASSUME NEW p PROVE OwnOf(c, p, t) = OwnOf(b, p, t)  OBVIOUS
  <2>1. [x \in {y \in Booked(c, t) : y.of = p} |->
           Convert(c, CashOut(x) - CashIn(x), x.currency, t)]
          = [x \in {y \in Booked(b, t) : y.of = p} |->
               Convert(b, CashOut(x) - CashIn(x), x.currency, t)]
    BY <1>1, <1>2
  <2> QED  BY <2>1 DEF OwnOf, SumOver
<1> QED  BY <1>2, <1>3, <1>4

\* A transaction x of this month that is not on books b yet.
LEMMA TxnAdds ==
  ASSUME NEW t \in Int, 1 <= t, NEW b, TxnsOK(b, t), RatesOK(b, t),
         NEW c, TxnsOK(c, t), RatesOK(c, t), SameRates(b, c),
         NEW x, c.transaction = b.transaction \cup {x}, x.month = t,
         x.no = Cardinality(b.transaction)
  PROVE  /\ BookedNet(c, t) = BookedNet(b, t) + NetOf(x) * PriceOf(b, x.currency, t)
         /\ OwnOf(c, x.of, t) =
              OwnOf(b, x.of, t) + (CashOut(x) - CashIn(x)) * PriceOf(b, x.currency, t)
         /\ \A p : p # x.of => OwnOf(c, p, t) = OwnOf(b, p, t)
<1>1. \A currency, a : Convert(c, a, currency, t) = Convert(b, a, currency, t)
  BY SamePrices
<1>2. x \notin b.transaction
  <2>1. Cardinality(b.transaction) \in Nat  BY FS_CardinalityType DEF TxnsOK
  <2>2. \A y \in b.transaction : y.no < Cardinality(b.transaction) /\ y.no \in Nat
    BY DEF TxnsOK, Txns
  <2> QED  BY <2>1, <2>2
<1>3. /\ Booked(b, t) = {y \in b.transaction : y.month = t}
      /\ Booked(c, t) = {y \in c.transaction : y.month = t}
  BY BookedIs
<1>4. Booked(c, t) = Booked(b, t) \cup {x} /\ x \notin Booked(b, t) /\ x \in Booked(c, t)
  BY <1>2, <1>3
<1>5. /\ IsFiniteSet(Booked(b, t)) /\ x.currency \in {Home, Other}
      /\ CashOut(x) \in Int /\ CashIn(x) \in Int
  BY <1>4, BookedIs
<1>6. NetOf(x) \in Int
  <2>1. x \in Txns  BY DEF TxnsOK
  <2>2. x.amount \in Int /\ x.principal \in Int /\ x.interest \in Int  BY <2>1 DEF Txns
  <2> QED  BY <2>2 DEF NetOf, Part
<1>7. \A a \in Int : /\ Convert(c, a, x.currency, t) \in Int
                     /\ Convert(c, a, x.currency, t) = a * PriceOf(b, x.currency, t)
  <2>1. \A a \in Int : /\ Convert(b, a, x.currency, t) \in Int
                       /\ Convert(b, a, x.currency, t) = a * PriceOf(b, x.currency, t)
    BY <1>5, PriceIs
  <2> QED  BY <1>1, <2>1
<1>8. BookedNet(c, t) = BookedNet(b, t) + NetOf(x) * PriceOf(b, x.currency, t)
  <2> DEFINE f == [y \in Booked(b, t) |-> Convert(b, NetOf(y), y.currency, t)]
             g == [y \in Booked(c, t) |-> Convert(c, NetOf(y), y.currency, t)]
  <2>1. BookedNet(b, t) = SumFunction(f) /\ BookedNet(c, t) = SumFunction(g)
    BY DEF BookedNet, SumOver
  <2>2. Summable(f)
    <3>1. \A y \in Booked(b, t) : NetOf(y) \in Int
      <4>1. \A y \in Booked(b, t) : y \in Txns  BY <1>3 DEF TxnsOK
      <4>2. \A y \in Booked(b, t) : y.amount \in Int /\ y.principal \in Int /\ y.interest \in Int
        BY <4>1 DEF Txns
      <4> QED  BY <4>2 DEF NetOf, Part
    <3>2. \A y \in Booked(b, t) : y.currency \in {Home, Other}  BY BookedIs
    <3>3. \A y \in Booked(b, t) : f[y] \in Int  BY <3>1, <3>2, PriceIs
    <3> QED  BY <1>5, <3>3 DEF Summable
  <2>3. /\ DOMAIN g = DOMAIN f \cup {x} /\ x \notin DOMAIN f
        /\ \A y \in DOMAIN f : g[y] = f[y]
    BY <1>1, <1>4
  <2>4. g[x] = NetOf(x) * PriceOf(b, x.currency, t) /\ g[x] \in Int
    BY <1>4, <1>6, <1>7
  <2> HIDE DEF f, g
  <2>5. SumFunction(g) = SumFunction(f) + g[x]  BY <2>2, <2>3, <2>4, SumMore
  <2> QED  BY <2>1, <2>4, <2>5
<1>9. OwnOf(c, x.of, t) =
        OwnOf(b, x.of, t) + (CashOut(x) - CashIn(x)) * PriceOf(b, x.currency, t)
  <2> DEFINE f == [y \in {z \in Booked(b, t) : z.of = x.of} |->
                     Convert(b, CashOut(y) - CashIn(y), y.currency, t)]
             g == [y \in {z \in Booked(c, t) : z.of = x.of} |->
                     Convert(c, CashOut(y) - CashIn(y), y.currency, t)]
  <2>1. OwnOf(b, x.of, t) = SumFunction(f) /\ OwnOf(c, x.of, t) = SumFunction(g)
    BY DEF OwnOf, SumOver
  <2>2. Summable(f)  BY OwnIs
  <2>3. /\ DOMAIN g = DOMAIN f \cup {x} /\ x \notin DOMAIN f
        /\ \A y \in DOMAIN f : g[y] = f[y]
    BY <1>1, <1>4
  <2>4. CashOut(x) - CashIn(x) \in Int  BY <1>5
  <2>5. g[x] = (CashOut(x) - CashIn(x)) * PriceOf(b, x.currency, t) /\ g[x] \in Int
    BY <1>4, <2>4, <1>7
  <2> HIDE DEF f, g
  <2>6. SumFunction(g) = SumFunction(f) + g[x]  BY <2>2, <2>3, <2>5, SumMore
  <2> QED  BY <2>1, <2>5, <2>6
<1>10. \A p : p # x.of => OwnOf(c, p, t) = OwnOf(b, p, t)
  <2> SUFFICES ASSUME NEW p, p # x.of PROVE OwnOf(c, p, t) = OwnOf(b, p, t)  OBVIOUS
  <2>1. [y \in {z \in Booked(c, t) : z.of = p} |->
           Convert(c, CashOut(y) - CashIn(y), y.currency, t)]
          = [y \in {z \in Booked(b, t) : z.of = p} |->
               Convert(b, CashOut(y) - CashIn(y), y.currency, t)]
    BY <1>1, <1>4
  <2> QED  BY <2>1 DEF OwnOf, SumOver
<1> QED  BY <1>8, <1>9, <1>10

LEMMA FreshSame ==
  ASSUME NEW t \in Int, 1 <= t, NEW b, PositionsOK(b, t), RatesOK(b, t),
         NEW c, PositionsOK(c, t), RatesOK(c, t), SameRates(b, c),
         DOMAIN c.position = DOMAIN b.position,
         \A p \in DOMAIN b.position : /\ c.position[p].from = b.position[p].from
                                      /\ c.position[p].principal = b.position[p].principal
                                      /\ c.position[p].placed = b.position[p].placed
  PROVE  FreshSum(c, t) = FreshSum(b, t)
<1>1. FreshPlacements(c, t) = FreshPlacements(b, t)
  <2>1. /\ FreshPlacements(b, t) =
             {p \in DOMAIN b.position : /\ b.position[p].from = None
                                        /\ b.position[p].principal # None
                                        /\ b.position[p].placed = t}
        /\ FreshPlacements(c, t) =
             {p \in DOMAIN c.position : /\ c.position[p].from = None
                                        /\ c.position[p].principal # None
                                        /\ c.position[p].placed = t}
    BY FreshIs
  <2> QED  BY <2>1
<1>2. \A p \in FreshPlacements(b, t) : PlacementOf(c, p, t) = PlacementOf(b, p, t)
  <2> SUFFICES ASSUME NEW p \in FreshPlacements(b, t)
               PROVE  PlacementOf(c, p, t) = PlacementOf(b, p, t)
    OBVIOUS
  <2>1. /\ PlacementOf(b, p, t) = b.position[p].principal * PriceOf(b, Currency[p], t)
        /\ PlacementOf(c, p, t) = c.position[p].principal * PriceOf(c, Currency[p], t)
    BY <1>1, FreshIs
  <2>2. p \in DOMAIN b.position  BY DEF FreshPlacements
  <2>3. PriceOf(c, Currency[p], t) = PriceOf(b, Currency[p], t)  BY SamePrices
  <2> QED  BY <2>1, <2>2, <2>3
<1>3. [p \in FreshPlacements(c, t) |-> PlacementOf(c, p, t)]
        = [p \in FreshPlacements(b, t) |-> PlacementOf(b, p, t)]
  BY <1>1, <1>2
<1> QED  BY <1>3 DEF FreshSum, SumOver

\* Position q is new; the rows of the others are kept, or closed.
LEMMA FreshAdds ==
  ASSUME NEW t \in Int, 1 <= t, NEW b, PositionsOK(b, t), RatesOK(b, t),
         NEW c, PositionsOK(c, t), RatesOK(c, t), SameRates(b, c),
         NEW q, q \notin DOMAIN b.position, DOMAIN c.position = DOMAIN b.position \cup {q},
         \A p \in DOMAIN b.position : /\ c.position[p].from = b.position[p].from
                                      /\ c.position[p].principal = b.position[p].principal
                                      /\ c.position[p].placed = b.position[p].placed
  PROVE  /\ (/\ c.position[q].from = None /\ c.position[q].principal # None
             /\ c.position[q].placed = t)
              => FreshSum(c, t) = FreshSum(b, t) + c.position[q].principal * PriceOf(b, Currency[q], t)
         /\ ~(/\ c.position[q].from = None /\ c.position[q].principal # None
              /\ c.position[q].placed = t)
              => FreshSum(c, t) = FreshSum(b, t)
<1> DEFINE isFresh == /\ c.position[q].from = None /\ c.position[q].principal # None
                      /\ c.position[q].placed = t
<1>0. /\ IsFiniteSet(FreshPlacements(b, t))
      /\ FreshPlacements(b, t) =
             {p \in DOMAIN b.position : /\ b.position[p].from = None
                                        /\ b.position[p].principal # None
                                        /\ b.position[p].placed = t}
      /\ FreshPlacements(c, t) =
             {p \in DOMAIN c.position : /\ c.position[p].from = None
                                        /\ c.position[p].principal # None
                                        /\ c.position[p].placed = t}
  BY FreshIs
<1>1. FreshPlacements(c, t) = FreshPlacements(b, t) \cup (IF isFresh THEN {q} ELSE {})
  BY <1>0
<1>2. q \notin FreshPlacements(b, t)  BY <1>0
<1>3. \A p \in FreshPlacements(b, t) : /\ PlacementOf(c, p, t) = PlacementOf(b, p, t)
                                       /\ PlacementOf(b, p, t) \in Int
  <2> SUFFICES ASSUME NEW p \in FreshPlacements(b, t)
               PROVE  PlacementOf(c, p, t) = PlacementOf(b, p, t) /\ PlacementOf(b, p, t) \in Int
    OBVIOUS
  <2>0. p \in FreshPlacements(c, t)  BY <1>1
  <2>1. /\ PlacementOf(b, p, t) = b.position[p].principal * PriceOf(b, Currency[p], t)
        /\ PlacementOf(b, p, t) \in Int
        /\ PlacementOf(c, p, t) = c.position[p].principal * PriceOf(c, Currency[p], t)
    BY <2>0, FreshIs
  <2>2. p \in DOMAIN b.position  BY <1>0
  <2>3. PriceOf(c, Currency[p], t) = PriceOf(b, Currency[p], t)  BY SamePrices
  <2> QED  BY <2>1, <2>2, <2>3
<1> DEFINE f == [p \in FreshPlacements(b, t) |-> PlacementOf(b, p, t)]
           g == [p \in FreshPlacements(c, t) |-> PlacementOf(c, p, t)]
<1>4. FreshSum(b, t) = SumFunction(f) /\ FreshSum(c, t) = SumFunction(g)
  BY DEF FreshSum, SumOver
<1>5. ASSUME isFresh
      PROVE  FreshSum(c, t) = FreshSum(b, t) + c.position[q].principal * PriceOf(b, Currency[q], t)
  <2>1. q \in FreshPlacements(c, t) /\ FreshPlacements(c, t) = FreshPlacements(b, t) \cup {q}
    BY <1>1, <1>5
  <2>2. /\ PlacementOf(c, q, t) \in Int
        /\ PlacementOf(c, q, t) = c.position[q].principal * PriceOf(c, Currency[q], t)
    BY <2>1, FreshIs
  <2>3. Summable(f)  BY <1>0, <1>3 DEF Summable
  <2>4. /\ DOMAIN g = DOMAIN f \cup {q} /\ q \notin DOMAIN f
        /\ \A p \in DOMAIN f : g[p] = f[p]
    BY <1>2, <1>3, <2>1
  <2>5. g[q] \in Int /\ g[q] = c.position[q].principal * PriceOf(c, Currency[q], t)
    BY <2>1, <2>2
  <2>6. PriceOf(c, Currency[q], t) = PriceOf(b, Currency[q], t)  BY SamePrices
  <2> HIDE DEF f, g
  <2>7. SumFunction(g) = SumFunction(f) + g[q]  BY <2>3, <2>4, <2>5, SumMore
  <2> QED  BY <1>4, <2>5, <2>6, <2>7
<1>6. ASSUME ~isFresh PROVE FreshSum(c, t) = FreshSum(b, t)
  <2>1. FreshPlacements(c, t) = FreshPlacements(b, t)  BY <1>1, <1>6
  <2>2. g = f  BY <2>1, <1>3
  <2> HIDE DEF f, g
  <2> QED  BY <1>4, <2>2
<1> QED  BY <1>5, <1>6

LEMMA EarnAdds ==
  ASSUME NEW t \in Int, 1 <= t, NEW b, IncomeOK(b, t), RatesOK(b, t),
         NEW c, IncomeOK(c, t), RatesOK(c, t),
         NEW i, c.income = b.income \cup {i}, i.month = t, i.no = Cardinality(b.income)
  PROVE  EarnedIncome(c, t) = EarnedIncome(b, t) + i.amount /\ i.amount \in Int
<1>1. i \notin b.income
  <2>1. Cardinality(b.income) \in Nat  BY FS_CardinalityType DEF IncomeOK
  <2>2. \A y \in b.income : y.no < Cardinality(b.income) /\ y.no \in Nat
    BY DEF IncomeOK, Incomes
  <2> QED  BY <2>1, <2>2
<1> DEFINE f == [y \in {z \in b.income : z.month = t} |-> y.amount]
           g == [y \in {z \in c.income : z.month = t} |-> y.amount]
<1>2. EarnedIncome(b, t) = SumFunction(f) /\ EarnedIncome(c, t) = SumFunction(g)
  <2>1. EarnedIncome(b, t) = SumOver({z \in b.income : z.month = t}, LAMBDA y : y.amount)
    BY EarnedIs
  <2>2. EarnedIncome(c, t) = SumOver({z \in c.income : z.month = t}, LAMBDA y : y.amount)
    BY EarnedIs
  <2> QED  BY <2>1, <2>2 DEF SumOver
<1>3. Summable(f)
  <2>1. IsFiniteSet({z \in b.income : z.month = t})  BY FS_Subset DEF IncomeOK
  <2> QED  BY <2>1 DEF IncomeOK, Incomes, Summable
<1>4. /\ DOMAIN g = DOMAIN f \cup {i} /\ i \notin DOMAIN f
      /\ \A y \in DOMAIN f : g[y] = f[y]
  BY <1>1
<1>5. g[i] = i.amount /\ i.amount \in Int  BY DEF IncomeOK, Incomes
<1> HIDE DEF f, g
<1>6. SumFunction(g) = SumFunction(f) + g[i]  BY <1>3, <1>4, <1>5, SumMore
<1> QED  BY <1>2, <1>5, <1>6

LEMMA EarnedSame ==
  ASSUME NEW t \in Int, 1 <= t, NEW b, IncomeOK(b, t), RatesOK(b, t),
         NEW c, IncomeOK(c, t), RatesOK(c, t), c.income = b.income
  PROVE  EarnedIncome(c, t) = EarnedIncome(b, t)
<1>1. EarnedIncome(b, t) = SumOver({z \in b.income : z.month = t}, LAMBDA y : y.amount)
  BY EarnedIs
<1>2. EarnedIncome(c, t) = SumOver({z \in c.income : z.month = t}, LAMBDA y : y.amount)
  BY EarnedIs
<1> QED  BY <1>1, <1>2

----------------------------------------------------------------------------
(* What a step does to the figures of month t: from books b and values w to  *)
(* books c and values v                                                      *)

Step(b, w, c, v, t) ==
  /\ t \in Int /\ 1 < t /\ BooksOK(b, t) /\ BooksOK(c, t) /\ Alike(b, t, c, t, t - 1)
  /\ SameRates(b, c) /\ w \in [Position -> Int] /\ v \in [Position -> Int]

\* What p was worth when the month began has not changed.
LEMMA StepPast ==
  ASSUME NEW b, NEW w, NEW c, NEW v, NEW t, Step(b, w, c, v, t)
  PROVE  /\ \A p \in DOMAIN b.position :
              /\ p \in DOMAIN c.position
              /\ Moved(c, t, p) <=> Moved(b, t, p)
              /\ Moved(b, t, p) => /\ Carried(c, p, t - 1) = Carried(b, p, t - 1)
                                   /\ Carried(b, p, t - 1) \in Int
         /\ \A q \in DOMAIN c.position \ DOMAIN b.position : ~Moved(c, t, q)
<1>1. /\ t \in Int /\ t - 1 \in Int /\ 1 <= t - 1 /\ t - 1 <= t - 1
      /\ PositionsOK(b, t) /\ RatesOK(b, t) /\ Alike(b, t, c, t, t - 1)
  BY DEF Step, BooksOK
<1>2. /\ \A p \in DOMAIN b.position :
           /\ p \in DOMAIN c.position
           /\ Latest(c.snapshot[p], t - 1) = Latest(b.snapshot[p], t - 1)
           /\ IsCarried(c, p, t - 1) <=> IsCarried(b, p, t - 1)
           /\ IsCarried(b, p, t - 1) => /\ Carried(c, p, t - 1) = Carried(b, p, t - 1)
                                        /\ Carried(b, p, t - 1) \in Int
      /\ \A q \in DOMAIN c.position \ DOMAIN b.position :
           Latest(c.snapshot[q], t - 1) = {} /\ ~IsCarried(c, q, t - 1)
  BY <1>1, AlikeCarried
<1>3. \A p \in DOMAIN b.position : IsCarried(b, p, t - 1) <=> Moved(b, t, p)
  BY <1>1, CarriedIs DEF Moved
<1> QED  BY <1>2, <1>3 DEF Moved

LEMMA KeptFigures ==
  ASSUME NEW b, NEW w, NEW c, NEW v, NEW t, Step(b, w, c, v, t), NEW p \in DOMAIN b.position,
         c.position[p] = b.position[p], v[p] = w[p], OwnOf(c, p, t) = OwnOf(b, p, t)
  PROVE  GainNow(c, v, t, p) = GainNow(b, w, t, p) /\ IntoNow(c, v, t, p) = IntoNow(b, w, t, p)
<1>1. PriceOf(c, Currency[p], t) = PriceOf(b, Currency[p], t)  BY SamePrices DEF Step
<1>2. NowOf(c, v, t, p) = NowOf(b, w, t, p)  BY <1>1 DEF NowOf
<1>3. Gone(c, t, p) <=> Gone(b, t, p)  BY DEF Gone
<1>4. /\ Moved(c, t, p) <=> Moved(b, t, p)
      /\ Moved(b, t, p) => Carried(c, p, t - 1) = Carried(b, p, t - 1)
  BY StepPast
<1>5. GainNow(c, v, t, p) = GainNow(b, w, t, p)  BY <1>2, <1>3, <1>4 DEF GainNow
<1>6. IntoNow(c, v, t, p) = IntoNow(b, w, t, p)
  BY <1>2, <1>3, <1>4 DEF IntoNow, SignedForNW
<1> QED  BY <1>5, <1>6

\* The account is not an investment: what comes on it goes into it.
LEMMA BankFigures ==
  ASSUME NEW b, NEW w, NEW c, NEW v, NEW t, Step(b, w, c, v, t),
         c.position[Bank] = b.position[Bank]
  PROVE  /\ Bank \in DOMAIN b.position /\ Bank \in DOMAIN c.position /\ Bank \in Position
         /\ GainNow(b, w, t, Bank) = 0 /\ GainNow(c, v, t, Bank) = 0
         /\ IntoNow(c, v, t, Bank) = IntoNow(b, w, t, Bank) + (v[Bank] - w[Bank])
         /\ IntoNow(b, w, t, Bank) \in Int
<1>1. /\ BankOK(b, t) /\ PositionsOK(b, t) /\ RatesOK(b, t) /\ t \in Int /\ 1 < t
      /\ w \in [Position -> Int] /\ v \in [Position -> Int]
  BY DEF Step, BooksOK
<1>2. /\ Bank \in DOMAIN b.position /\ b.position[Bank].end = None
      /\ 1 \in DOMAIN b.snapshot[Bank]
  BY <1>1 DEF BankOK
<1>3. /\ Bank \in Position /\ Kind[Bank] = "bank_account" /\ Currency[Bank] = Home
      /\ w[Bank] \in Int /\ v[Bank] \in Int
  BY <1>1, BooksAssumption
<1>4. b.position[Bank].group = "asset" /\ b.position[Bank].subtype = "bank_account"
  BY <1>1, <1>2, <1>3 DEF PositionsOK, RowOK, GroupOf
<1>5. Moved(b, t, Bank)  BY <1>1, <1>2 DEF Moved, Latest
<1>6. /\ Bank \in DOMAIN c.position /\ Moved(c, t, Bank)
      /\ Carried(c, Bank, t - 1) = Carried(b, Bank, t - 1) /\ Carried(b, Bank, t - 1) \in Int
  BY <1>2, <1>5, StepPast
<1>7. PriceOf(b, Home, t) = 1 /\ PriceOf(c, Home, t) = 1  BY DEF PriceOf
<1>8. /\ GainNow(b, w, t, Bank) = 0
      /\ IntoNow(b, w, t, Bank) = w[Bank] * 1 - Carried(b, Bank, t - 1)
  BY <1>2, <1>3, <1>4, <1>5, <1>7, FiguresOfMoved DEF SignedForNW
<1>9. /\ GainNow(c, v, t, Bank) = 0
      /\ IntoNow(c, v, t, Bank) = v[Bank] * 1 - Carried(c, Bank, t - 1)
  BY <1>2, <1>3, <1>4, <1>6, <1>7, FiguresOfMoved DEF SignedForNW
<1>10. w[Bank] * 1 = w[Bank] /\ v[Bank] * 1 = v[Bank]  BY <1>3
<1> DEFINE x == w[Bank]  y == v[Bank]  z == Carried(b, Bank, t - 1)
<1>11. /\ x \in Int /\ y \in Int /\ z \in Int
       /\ IntoNow(b, w, t, Bank) = x - z /\ IntoNow(c, v, t, Bank) = y - z
  BY <1>3, <1>6, <1>8, <1>9, <1>10
<1>12. x = w[Bank] /\ y = v[Bank]  OBVIOUS
<1> HIDE DEF x, y, z
<1>13. IntoNow(c, v, t, Bank) = IntoNow(b, w, t, Bank) + (y - x) /\ IntoNow(b, w, t, Bank) \in Int
  BY <1>11
<1> QED  BY <1>2, <1>3, <1>6, <1>8, <1>9, <1>12, <1>13

\* p has not been touched.
Kept(b, w, c, v, t, p) ==
  c.position[p] = b.position[p] /\ v[p] = w[p] /\ OwnOf(c, p, t) = OwnOf(b, p, t)

\* Only the account has been.
LEMMA BankSums ==
  ASSUME NEW b, NEW w, NEW c, NEW v, NEW t, Step(b, w, c, v, t),
         DOMAIN c.position = DOMAIN b.position,
         \A p \in DOMAIN b.position : p # Bank => Kept(b, w, c, v, t, p),
         c.position[Bank] = b.position[Bank]
  PROVE  /\ SumFunction(Gains(c, v, t)) = SumFunction(Gains(b, w, t))
         /\ SumFunction(Intos(c, v, t)) = SumFunction(Intos(b, w, t)) + (v[Bank] - w[Bank])
<1>1. /\ Bank \in DOMAIN b.position /\ GainNow(b, w, t, Bank) = 0 /\ GainNow(c, v, t, Bank) = 0
      /\ IntoNow(c, v, t, Bank) = IntoNow(b, w, t, Bank) + (v[Bank] - w[Bank])
      /\ IntoNow(b, w, t, Bank) \in Int
  BY BankFigures
<1>2. \A p \in DOMAIN b.position : p # Bank =>
        GainNow(c, v, t, p) = GainNow(b, w, t, p) /\ IntoNow(c, v, t, p) = IntoNow(b, w, t, p)
  BY KeptFigures DEF Kept
<1>3. Summable(Gains(b, w, t)) /\ Summable(Intos(b, w, t))
  BY FiguresSummable DEF Step
<1>4. SumFunction(Gains(c, v, t)) = SumFunction(Gains(b, w, t))
  <2>1. Gains(c, v, t) = Gains(b, w, t)  BY <1>1, <1>2 DEF Gains
  <2> QED  BY <2>1
<1>5. v[Bank] - w[Bank] \in Int  BY BooksAssumption DEF Step
<1>6. SumFunction(Intos(c, v, t)) = SumFunction(Intos(b, w, t)) + (v[Bank] - w[Bank])
  <2> DEFINE f == Intos(b, w, t)  g == Intos(c, v, t)  d == v[Bank] - w[Bank]
  <2>1. /\ Summable(f) /\ Bank \in DOMAIN f /\ DOMAIN g = DOMAIN f
        /\ \A p \in DOMAIN f \ {Bank} : g[p] = f[p]
    BY <1>1, <1>2, <1>3 DEF Intos
  <2>2. g[Bank] = f[Bank] + d /\ d \in Int /\ f[Bank] \in Int
    BY <1>1, <1>5 DEF Intos
  <2> HIDE DEF f, g, d
  <2>3. g[Bank] \in Int /\ g[Bank] - f[Bank] = d  BY <2>2
  <2>4. SumFunction(g) = SumFunction(f) + (g[Bank] - f[Bank])  BY <2>1, <2>3, SumChanged
  <2>5. SumFunction(g) = SumFunction(f) + d  BY <2>3, <2>4
  <2> QED  BY <2>5 DEF f, g, d
<1> QED  BY <1>4, <1>6

\* The account, and position p, which may be new.
LEMMA PairSums ==
  ASSUME NEW b, NEW w, NEW c, NEW v, NEW t, Step(b, w, c, v, t), NEW p, p # Bank,
         DOMAIN c.position = DOMAIN b.position \cup {p},
         \A z \in DOMAIN b.position : z # Bank /\ z # p => Kept(b, w, c, v, t, z),
         c.position[Bank] = b.position[Bank]
  PROVE  /\ SumFunction(Gains(c, v, t)) =
              SumFunction(Gains(b, w, t)) + (GainNow(c, v, t, p) - At(Gains(b, w, t), p))
         /\ SumFunction(Intos(c, v, t)) =
              SumFunction(Intos(b, w, t)) + (v[Bank] - w[Bank])
              + (IntoNow(c, v, t, p) - At(Intos(b, w, t), p))
<1>1. /\ Bank \in DOMAIN b.position /\ GainNow(b, w, t, Bank) = 0 /\ GainNow(c, v, t, Bank) = 0
      /\ IntoNow(c, v, t, Bank) = IntoNow(b, w, t, Bank) + (v[Bank] - w[Bank])
      /\ IntoNow(b, w, t, Bank) \in Int
  BY BankFigures
<1>2. \A z \in DOMAIN b.position : z # Bank /\ z # p =>
        GainNow(c, v, t, z) = GainNow(b, w, t, z) /\ IntoNow(c, v, t, z) = IntoNow(b, w, t, z)
  BY KeptFigures DEF Kept
<1>3. Summable(Gains(b, w, t)) /\ Summable(Intos(b, w, t))
  BY FiguresSummable DEF Step
<1>4. p \in DOMAIN c.position /\ GainNow(c, v, t, p) \in Int /\ IntoNow(c, v, t, p) \in Int
  BY FiguresInt DEF Step
<1>5. v[Bank] - w[Bank] \in Int  BY BooksAssumption DEF Step
<1>6. SumFunction(Gains(c, v, t)) =
        SumFunction(Gains(b, w, t)) + (GainNow(c, v, t, p) - At(Gains(b, w, t), p))
  <2> DEFINE f == Gains(b, w, t)  g == Gains(c, v, t)
  <2>1. /\ Summable(f) /\ DOMAIN g = DOMAIN f \cup {p}
        /\ \A z \in DOMAIN f : z # p => g[z] = f[z]
    BY <1>1, <1>2, <1>3 DEF Gains
  <2>2. g[p] = GainNow(c, v, t, p) /\ g[p] \in Int  BY <1>4 DEF Gains
  <2> HIDE DEF f, g
  <2>3. SumFunction(g) = SumFunction(f) + (g[p] - At(f, p))  BY <2>1, <2>2, SumOne
  <2>4. SumFunction(g) = SumFunction(f) + (GainNow(c, v, t, p) - At(f, p))  BY <2>2, <2>3
  <2> QED  BY <2>4 DEF f, g
<1>7. SumFunction(Intos(c, v, t)) =
        SumFunction(Intos(b, w, t)) + (v[Bank] - w[Bank])
        + (IntoNow(c, v, t, p) - At(Intos(b, w, t), p))
  <2> DEFINE f == Intos(b, w, t)  g == Intos(c, v, t)  d == v[Bank] - w[Bank]
  <2>1. /\ Summable(f) /\ Bank \in DOMAIN f /\ DOMAIN g = DOMAIN f \cup {Bank, p}
        /\ \A z \in DOMAIN f : z # Bank /\ z # p => g[z] = f[z]
    BY <1>1, <1>2, <1>3 DEF Intos
  <2>2. g[p] = IntoNow(c, v, t, p) /\ g[p] \in Int  BY <1>4 DEF Intos
  <2>3. g[Bank] = f[Bank] + d /\ d \in Int /\ f[Bank] \in Int
    BY <1>1, <1>5 DEF Intos
  <2> HIDE DEF f, g, d
  <2>4. g[Bank] \in Int /\ At(f, Bank) = f[Bank] /\ g[Bank] - f[Bank] = d
    BY <2>1, <2>3 DEF At
  <2>5. SumFunction(g) = SumFunction(f) + (g[Bank] - At(f, Bank)) + (g[p] - At(f, p))
    BY <2>1, <2>2, <2>4, SumTwo
  <2>6. SumFunction(g) = SumFunction(f) + d + (IntoNow(c, v, t, p) - At(f, p))
    BY <2>2, <2>4, <2>5
  <2> QED  BY <2>6 DEF f, g, d
<1> QED  BY <1>6, <1>7

\* The account, position p, and a new position q.
LEMMA TripleSums ==
  ASSUME NEW b, NEW w, NEW c, NEW v, NEW t, Step(b, w, c, v, t), NEW p, p # Bank,
         NEW q, q # Bank, q # p, DOMAIN c.position = DOMAIN b.position \cup {p, q},
         \A z \in DOMAIN b.position : z # Bank /\ z # p /\ z # q => Kept(b, w, c, v, t, z),
         c.position[Bank] = b.position[Bank]
  PROVE  /\ SumFunction(Gains(c, v, t)) =
              SumFunction(Gains(b, w, t)) + (GainNow(c, v, t, p) - At(Gains(b, w, t), p))
              + (GainNow(c, v, t, q) - At(Gains(b, w, t), q))
         /\ SumFunction(Intos(c, v, t)) =
              SumFunction(Intos(b, w, t)) + (v[Bank] - w[Bank])
              + (IntoNow(c, v, t, p) - At(Intos(b, w, t), p))
              + (IntoNow(c, v, t, q) - At(Intos(b, w, t), q))
<1>1. /\ Bank \in DOMAIN b.position /\ GainNow(b, w, t, Bank) = 0 /\ GainNow(c, v, t, Bank) = 0
      /\ IntoNow(c, v, t, Bank) = IntoNow(b, w, t, Bank) + (v[Bank] - w[Bank])
      /\ IntoNow(b, w, t, Bank) \in Int
  BY BankFigures
<1>2. \A z \in DOMAIN b.position : z # Bank /\ z # p /\ z # q =>
        GainNow(c, v, t, z) = GainNow(b, w, t, z) /\ IntoNow(c, v, t, z) = IntoNow(b, w, t, z)
  BY KeptFigures DEF Kept
<1>3. Summable(Gains(b, w, t)) /\ Summable(Intos(b, w, t))
  BY FiguresSummable DEF Step
<1>4. /\ p \in DOMAIN c.position /\ GainNow(c, v, t, p) \in Int /\ IntoNow(c, v, t, p) \in Int
      /\ q \in DOMAIN c.position /\ GainNow(c, v, t, q) \in Int /\ IntoNow(c, v, t, q) \in Int
  BY FiguresInt DEF Step
<1>5. v[Bank] - w[Bank] \in Int  BY BooksAssumption DEF Step
<1>6. SumFunction(Gains(c, v, t)) =
        SumFunction(Gains(b, w, t)) + (GainNow(c, v, t, p) - At(Gains(b, w, t), p))
        + (GainNow(c, v, t, q) - At(Gains(b, w, t), q))
  <2> DEFINE f == Gains(b, w, t)  g == Gains(c, v, t)
  <2>1. /\ Summable(f) /\ DOMAIN g = DOMAIN f \cup {p, q}
        /\ \A z \in DOMAIN f : z # p /\ z # q => g[z] = f[z]
    BY <1>1, <1>2, <1>3 DEF Gains
  <2>2. g[p] = GainNow(c, v, t, p) /\ g[p] \in Int  BY <1>4 DEF Gains
  <2>3. g[q] = GainNow(c, v, t, q) /\ g[q] \in Int  BY <1>4 DEF Gains
  <2> HIDE DEF f, g
  <2>4. SumFunction(g) = SumFunction(f) + (g[p] - At(f, p)) + (g[q] - At(f, q))
    BY <2>1, <2>2, <2>3, SumTwo
  <2>5. SumFunction(g) = SumFunction(f) + (GainNow(c, v, t, p) - At(f, p))
                         + (GainNow(c, v, t, q) - At(f, q))
    BY <2>2, <2>3, <2>4
  <2> QED  BY <2>5 DEF f, g
<1>7. SumFunction(Intos(c, v, t)) =
        SumFunction(Intos(b, w, t)) + (v[Bank] - w[Bank])
        + (IntoNow(c, v, t, p) - At(Intos(b, w, t), p))
        + (IntoNow(c, v, t, q) - At(Intos(b, w, t), q))
  <2> DEFINE f == Intos(b, w, t)  g == Intos(c, v, t)  d == v[Bank] - w[Bank]
  <2>1. /\ Summable(f) /\ Bank \in DOMAIN f /\ DOMAIN g = DOMAIN f \cup {Bank, p, q}
        /\ \A z \in DOMAIN f : z # Bank /\ z # p /\ z # q => g[z] = f[z]
    BY <1>1, <1>2, <1>3 DEF Intos
  <2>2. g[p] = IntoNow(c, v, t, p) /\ g[p] \in Int  BY <1>4 DEF Intos
  <2>3. g[q] = IntoNow(c, v, t, q) /\ g[q] \in Int  BY <1>4 DEF Intos
  <2>4. g[Bank] = f[Bank] + d /\ d \in Int /\ f[Bank] \in Int
    BY <1>1, <1>5 DEF Intos
  <2> HIDE DEF f, g, d
  <2>5. g[Bank] \in Int /\ At(f, Bank) = f[Bank] /\ g[Bank] - f[Bank] = d
    BY <2>1, <2>4 DEF At
  <2>6. SumFunction(g) = SumFunction(f) + (g[Bank] - At(f, Bank)) + (g[p] - At(f, p))
                         + (g[q] - At(f, q))
    BY <2>1, <2>2, <2>3, <2>5, SumThree
  <2>7. SumFunction(g) = SumFunction(f) + d + (IntoNow(c, v, t, p) - At(f, p))
                         + (IntoNow(c, v, t, q) - At(f, q))
    BY <2>2, <2>3, <2>5, <2>6
  <2> QED  BY <2>7 DEF f, g, d
<1> QED  BY <1>6, <1>7

----------------------------------------------------------------------------
(* The invariant *)

InTime ==
  /\ today \in 1 .. LastMonth + 1
  /\ worth \in [Position -> Int]
  /\ spent \in [1 .. LastMonth -> Int]
  /\ gained \in [1 .. LastMonth -> Int]
  /\ placed \in [1 .. LastMonth -> Int]

\* Nothing has happened in the months to come.
Ahead == \A m \in 1 .. LastMonth : m > today => spent[m] = 0 /\ placed[m] = 0

\* The reports of past months show what really happened.
Reported == ExpensesAreSpending /\ ReturnsAreGains /\ PlacementIsNewMoney

\* The figures of month t as they stand: what was earned and not spent went into
\* positions.
Balanced(b, w, t, s, g, n) ==
  /\ g = SumFunction(Gains(b, w, t))
  /\ EarnedIncome(b, t) - s = SumFunction(Intos(b, w, t))
  /\ n = Placement(b, t)

Underway == 1 < today /\ today <= LastMonth =>
              Balanced(books, worth, today, spent[today], gained[today], placed[today])

Inv == InTime /\ BooksOK(books, today) /\ Ahead /\ Reported /\ Underway

\* A step changes the figures of month t by what really happened.
Shifts(b, w, c, v, t, e, g, n) ==
  /\ SumFunction(Gains(c, v, t)) = SumFunction(Gains(b, w, t)) + g
  /\ EarnedIncome(c, t) - e - SumFunction(Intos(c, v, t))
       = EarnedIncome(b, t) - SumFunction(Intos(b, w, t))
  /\ Placement(c, t) = Placement(b, t) + n

LEMMA FiguresTyped ==
  ASSUME NEW b, NEW t \in Int, 1 < t, BooksOK(b, t), NEW w \in [Position -> Int]
  PROVE  /\ SumFunction(Gains(b, w, t)) \in Int /\ SumFunction(Intos(b, w, t)) \in Int
         /\ EarnedIncome(b, t) \in Int /\ Placement(b, t) \in Int
<1>1. Summable(Gains(b, w, t)) /\ Summable(Intos(b, w, t))  BY FiguresSummable
<1>2. /\ PositionsOK(b, t) /\ RatesOK(b, t) /\ TxnsOK(b, t) /\ IncomeOK(b, t) /\ 1 <= t
  BY DEF BooksOK
<1>3. EarnedIncome(b, t) \in Int  BY <1>2, EarnedIs
<1>4. /\ Placement(b, t) = BookedNet(b, t) + FreshSum(b, t)
      /\ BookedNet(b, t) \in Int /\ FreshSum(b, t) \in Int
  BY <1>2, PlacementIs
<1> QED  BY <1>1, <1>3, <1>4, SumInt

\* A step of the account and of one position p, by what it does to the figures of
\* p: what comes on the account leaves p.
LEMMA PairShift ==
  ASSUME NEW b, NEW w, NEW c, NEW v, NEW t, Step(b, w, c, v, t), NEW p, p # Bank,
         DOMAIN c.position = DOMAIN b.position \cup {p},
         \A z \in DOMAIN b.position : z # Bank /\ z # p => Kept(b, w, c, v, t, z),
         c.position[Bank] = b.position[Bank], c.income = b.income,
         NEW g \in Int, GainNow(c, v, t, p) = At(Gains(b, w, t), p) + g,
         NEW d \in Int, IntoNow(c, v, t, p) = At(Intos(b, w, t), p) + d,
         v[Bank] + d = w[Bank],
         NEW n \in Int, Placement(c, t) = Placement(b, t) + n
  PROVE  Shifts(b, w, c, v, t, 0, g, n)
<1>1. /\ SumFunction(Gains(c, v, t)) =
           SumFunction(Gains(b, w, t)) + (GainNow(c, v, t, p) - At(Gains(b, w, t), p))
      /\ SumFunction(Intos(c, v, t)) =
           SumFunction(Intos(b, w, t)) + (v[Bank] - w[Bank])
           + (IntoNow(c, v, t, p) - At(Intos(b, w, t), p))
  BY PairSums
<1>2. /\ t \in Int /\ 1 < t /\ 1 <= t /\ BooksOK(b, t) /\ BooksOK(c, t)
      /\ w \in [Position -> Int] /\ v \in [Position -> Int]
  BY DEF Step
<1>3. EarnedIncome(c, t) = EarnedIncome(b, t)
  BY <1>2, EarnedSame DEF BooksOK
<1>4. /\ SumFunction(Gains(b, w, t)) \in Int /\ SumFunction(Intos(b, w, t)) \in Int
      /\ EarnedIncome(b, t) \in Int
  BY <1>2, FiguresTyped
<1>5. At(Gains(b, w, t), p) \in Int /\ At(Intos(b, w, t), p) \in Int
  <2>1. Summable(Gains(b, w, t)) /\ Summable(Intos(b, w, t))  BY <1>2, FiguresSummable
  <2> QED  BY <2>1 DEF At, Summable
<1>6. v[Bank] \in Int /\ w[Bank] \in Int  BY <1>2, BooksAssumption
<1> DEFINE G1 == SumFunction(Gains(b, w, t))  G2 == SumFunction(Gains(c, v, t))
           I1 == SumFunction(Intos(b, w, t))  I2 == SumFunction(Intos(c, v, t))
           a1 == At(Gains(b, w, t), p)  a2 == At(Intos(b, w, t), p)
           E1 == EarnedIncome(b, t)  E2 == EarnedIncome(c, t)  x == v[Bank]  y == w[Bank]
<1>7. /\ G1 \in Int /\ I1 \in Int /\ a1 \in Int /\ a2 \in Int /\ E1 \in Int /\ E2 = E1
      /\ x \in Int /\ y \in Int /\ x + d = y
      /\ G2 = G1 + ((a1 + g) - a1) /\ I2 = I1 + (x - y) + ((a2 + d) - a2)
  BY <1>1, <1>3, <1>4, <1>5, <1>6
<1> HIDE DEF G1, G2, I1, I2, a1, a2, E1, E2, x, y
<1>8. G2 = G1 + g /\ E2 - 0 - I2 = E1 - I1  BY <1>7
<1> QED  BY <1>8 DEF G1, G2, I1, I2, E1, E2, Shifts

LEMMA AtIs ==
  ASSUME NEW b, NEW w, NEW t, NEW p
  PROVE  /\ p \in DOMAIN b.position => /\ At(Gains(b, w, t), p) = GainNow(b, w, t, p)
                                       /\ At(Intos(b, w, t), p) = IntoNow(b, w, t, p)
         /\ p \notin DOMAIN b.position => /\ At(Gains(b, w, t), p) = 0
                                          /\ At(Intos(b, w, t), p) = 0
BY DEF At, Gains, Intos

----------------------------------------------------------------------------
(* A day of the month *)

LEMMA StepOf ==
  ASSUME InTime, BooksOK(books, today), 1 < today, NEW c, Enters(books, c),
         NEW v \in [Position -> Int]
  PROVE  Step(books, worth, c, v, today)
<1>1. today \in Int /\ 1 <= today /\ today - 1 \in Int /\ 1 <= today - 1 /\ today - 1 < today
  BY BooksAssumption DEF InTime
<1>2. BooksOK(c, today)  BY <1>1, EntersOK
<1>3. Alike(books, today, c, today, today - 1)  BY <1>1, EntersAgree
<1>4. SameRates(books, c)  BY DEF Enters, SameRates
<1> QED  BY <1>1, <1>2, <1>3, <1>4 DEF Step, InTime

\* The invariant holds on, and the reports of past months stay.
Upheld == Inv' /\ \A m \in 1 .. today - 1 : Report(books', m) = Report(books, m)

\* What happens in a month keeps the invariant if it changes the figures by what
\* really happened.
LEMMA DayInv ==
  ASSUME Inv, Happens, NEW e \in Int, NEW g \in Int, NEW n \in Int, Really(e, g, n),
         worth' \in [Position -> Int], Enters(books, books'),
         1 < today => Shifts(books, worth, books', worth', today, e, g, n)
  PROVE  Upheld
<1>1. /\ today' = today /\ today \in 1 .. LastMonth /\ LastMonth \in Nat
      /\ today \in Int /\ 1 <= today
  BY BooksAssumption DEF Happens, Inv, InTime
<1>2. BooksOK(books', today)  BY <1>1, EntersOK DEF Inv
<1>3. /\ spent' \in [1 .. LastMonth -> Int] /\ gained' \in [1 .. LastMonth -> Int]
      /\ placed' \in [1 .. LastMonth -> Int]
      /\ spent'[today] = spent[today] + e /\ gained'[today] = gained[today] + g
      /\ placed'[today] = placed[today] + n
      /\ \A m \in 1 .. LastMonth : m # today =>
           spent'[m] = spent[m] /\ gained'[m] = gained[m] /\ placed'[m] = placed[m]
  <2> DEFINE D == 1 .. LastMonth
  <2>1. /\ spent \in [D -> Int] /\ gained \in [D -> Int] /\ placed \in [D -> Int]
        /\ today \in D
    BY <1>1 DEF Inv, InTime
  <2> HIDE DEF D
  <2>2. spent' = [spent EXCEPT ![today] = spent[today] + e]  BY DEF Really
  <2>3. gained' = [gained EXCEPT ![today] = gained[today] + g]  BY DEF Really
  <2>4. placed' = [placed EXCEPT ![today] = placed[today] + n]  BY DEF Really
  <2>5. /\ spent' \in [D -> Int] /\ spent'[today] = spent[today] + e
        /\ \A m \in D : m # today => spent'[m] = spent[m]
    BY <2>1, <2>2
  <2>6. /\ gained' \in [D -> Int] /\ gained'[today] = gained[today] + g
        /\ \A m \in D : m # today => gained'[m] = gained[m]
    BY <2>1, <2>3
  <2>7. /\ placed' \in [D -> Int] /\ placed'[today] = placed[today] + n
        /\ \A m \in D : m # today => placed'[m] = placed[m]
    BY <2>1, <2>4
  <2> QED  BY <2>5, <2>6, <2>7 DEF D
<1>4. InTime'  BY <1>1, <1>3 DEF Inv, InTime
<1>5. Ahead'
  <2> SUFFICES ASSUME NEW m \in 1 .. LastMonth, m > today
               PROVE  spent'[m] = 0 /\ placed'[m] = 0
    BY <1>1 DEF Ahead
  <2>1. m # today  BY <1>1
  <2>2. spent[m] = 0 /\ placed[m] = 0  BY DEF Inv, Ahead
  <2> QED  BY <1>3, <2>1, <2>2
<1>6. ASSUME NEW m \in 2 .. today - 1
      PROVE  /\ LivingExpenses(books', m) = spent'[m]
             /\ InvestmentReturn(books', m) = gained'[m] /\ Placement(books', m) = placed'[m]
  <2>1. m \in Int /\ 1 <= m /\ 1 < m /\ m < today /\ m \in 1 .. LastMonth /\ m # today
    BY <1>1, <1>6
  <2>2. Alike(books, today, books', today, m)  BY <1>1, <2>1, EntersAgree DEF Inv
  <2>3. /\ InvestmentReturn(books', m) = InvestmentReturn(books, m)
        /\ LivingExpenses(books', m) = LivingExpenses(books, m)
        /\ Placement(books', m) = Placement(books, m)
    BY <2>1, <2>2, AlikeReport
  <2>4. /\ InvestmentReturn(books, m) = gained[m] /\ LivingExpenses(books, m) = spent[m]
        /\ Placement(books, m) = placed[m]
    BY <1>6 DEF Inv, Reported, ExpensesAreSpending, ReturnsAreGains, PlacementIsNewMoney, Past
  <2> QED  BY <1>3, <2>1, <2>3, <2>4
<1>7. Reported'
  <2>1. Past' = 2 .. today - 1  BY <1>1 DEF Past
  <2> QED  BY <1>6, <2>1 DEF Reported, ExpensesAreSpending, ReturnsAreGains, PlacementIsNewMoney
<1>8. ASSUME 1 < today
      PROVE  Balanced(books', worth', today, spent'[today], gained'[today], placed'[today])
  <2> DEFINE G1 == SumFunction(Gains(books, worth, today))
             G2 == SumFunction(Gains(books', worth', today))
             I1 == SumFunction(Intos(books, worth, today))
             I2 == SumFunction(Intos(books', worth', today))
             E1 == EarnedIncome(books, today)  E2 == EarnedIncome(books', today)
             N1 == Placement(books, today)  N2 == Placement(books', today)
             s == spent[today]
  <2>1. /\ gained[today] = G1 /\ E1 - s = I1 /\ placed[today] = N1
    BY <1>1, <1>8 DEF Inv, Underway, Balanced
  <2>2. G2 = G1 + g /\ E2 - e - I2 = E1 - I1 /\ N2 = N1 + n
    BY <1>8 DEF Shifts
  <2>3. G1 \in Int /\ I1 \in Int /\ E1 \in Int /\ N1 \in Int
    BY <1>1, <1>8, FiguresTyped DEF Inv, InTime
  <2>4. G2 \in Int /\ I2 \in Int /\ E2 \in Int /\ N2 \in Int
    BY <1>1, <1>2, <1>8, FiguresTyped
  <2>5. s \in Int /\ spent'[today] = s + e  BY <1>1, <1>3 DEF Inv, InTime
  <2>6. gained'[today] = gained[today] + g /\ placed'[today] = placed[today] + n  BY <1>3
  <2> HIDE DEF G1, G2, I1, I2, E1, E2, N1, N2, s
  <2>7. gained'[today] = G2 /\ E2 - spent'[today] = I2 /\ placed'[today] = N2
    BY <2>1, <2>2, <2>3, <2>4, <2>5, <2>6
  <2> QED  BY <2>7 DEF G2, I2, E2, N2, Balanced
<1>9. Underway'  BY <1>1, <1>8 DEF Underway
<1>10. Inv'  BY <1>1, <1>2, <1>4, <1>5, <1>7, <1>9 DEF Inv
<1>11. ASSUME NEW m \in 1 .. today - 1 PROVE Report(books', m) = Report(books, m)
  <2>1. m \in Int /\ 1 <= m /\ m < today  BY <1>1
  <2>2. Alike(books, today, books', today, m)  BY <1>1, <2>1, EntersAgree DEF Inv
  <2> QED  BY <2>2, AlikeReport
<1> QED  BY <1>10, <1>11 DEF Upheld

LEMMA InvFacts ==
  ASSUME Inv, Happens
  PROVE  /\ today \in Int /\ 1 <= today /\ today <= LastMonth
         /\ worth \in [Position -> Int] /\ Bank \in Position /\ worth[Bank] \in Int
         /\ BooksOK(books, today) /\ PositionsOK(books, today) /\ RatesOK(books, today)
         /\ TxnsOK(books, today) /\ IncomeOK(books, today) /\ BankOK(books, today)
         /\ IsFiniteSet(books.transaction)
BY BooksAssumption DEF Inv, InTime, Happens, BooksOK, TxnsOK

LEMMA WorthIs ==
  ASSUME worth \in [Position -> Int], NEW p \in Position, p # Bank,
         NEW value \in Int, NEW cash \in Int, Worth(p, value, cash)
  PROVE  /\ worth' \in [Position -> Int] /\ worth'[p] = value
         /\ worth'[Bank] = worth[Bank] + cash
         /\ \A z \in Position : z # p /\ z # Bank => worth'[z] = worth[z]
<1>1. worth' = [x \in Position |->
                 (IF x = p THEN value ELSE worth[x]) + (IF x = Bank THEN cash ELSE 0)]
  BY DEF Worth
<1>2. Bank \in Position  BY BooksAssumption
<1>3. \A x \in Position : worth[x] \in Int  OBVIOUS
<1>4. worth' \in [Position -> Int]  BY <1>1, <1>3
<1>5. worth'[p] = value + 0 /\ worth'[Bank] = worth[Bank] + cash  BY <1>1, <1>2
<1>6. \A z \in Position : z # p /\ z # Bank => worth'[z] = worth[z] + 0  BY <1>1
<1> QED  BY <1>3, <1>4, <1>5, <1>6

LEMMA PriceOK ==
  ASSUME Inv, Happens, NEW p \in Position
  PROVE  /\ Price(p) \in Int /\ Price(p) = PriceOf(books, Currency[p], today)
         /\ Currency[p] = Home => Price(p) = 1
<1>1. today \in Int /\ 1 <= today /\ RatesOK(books, today)  BY InvFacts
<1>2. Currency[p] \in {Home, Other}  BY BooksAssumption
<1>3. 1 \in Int  OBVIOUS
<1>4. /\ PriceOf(books, Currency[p], today) \in Int
      /\ Convert(books, 1, Currency[p], today) = 1 * PriceOf(books, Currency[p], today)
  BY <1>1, <1>2, <1>3, PriceIs
<1>5. Currency[p] = Home => PriceOf(books, Currency[p], today) = 1  BY DEF PriceOf
<1> QED  BY <1>4, <1>5 DEF Price

LEMMA RowFacts ==
  ASSUME Inv, Happens, NEW p \in Position, Held(p)
  PROVE  /\ p \in DOMAIN books.position /\ books.position[p].end = None
         /\ books.position[p].group = GroupOf(p) /\ books.position[p].subtype = Kind[p]
         /\ books.position[p] \in Rows /\ worth[p] \in Int
         /\ \A n \in DOMAIN books.snapshot[p] : n \in Int /\ 1 <= n /\ n < today
<1>1. PositionsOK(books, today) /\ worth \in [Position -> Int] /\ today \in Int  BY InvFacts
<1>2. p \in DOMAIN books.position /\ books.position[p].end = None  BY DEF Held
<1>3. /\ RowOK(p, books.position[p], today)
      /\ SeriesOK(p, books.position[p], books.snapshot[p], today)
  BY <1>1, <1>2 DEF PositionsOK
<1>4. \A n \in DOMAIN books.snapshot[p] : n \in Int /\ 1 <= n /\ n < today
  BY <1>1, <1>2, <1>3 DEF SeriesOK
<1> QED  BY <1>1, <1>2, <1>3, <1>4 DEF RowOK

LEMMA OldFacts ==
  ASSUME Inv, Happens, NEW p \in Position, Old(p)
  PROVE  /\ Held(p) /\ p # Bank /\ DOMAIN books.snapshot[p] # {} /\ 1 < today
         /\ Moved(books, today, p)
<1>1. Held(p) /\ p # Bank /\ DOMAIN books.snapshot[p] # {}  BY DEF Old
<1>2. today \in Int  BY InvFacts
<1>3. \A n \in DOMAIN books.snapshot[p] : n \in Int /\ 1 <= n /\ n < today  BY <1>1, RowFacts
<1>4. PICK n \in DOMAIN books.snapshot[p] : TRUE  BY <1>1
<1>5. n \in Int /\ 1 <= n /\ n < today /\ n <= today - 1  BY <1>2, <1>3, <1>4
<1> QED  BY <1>1, <1>2, <1>4, <1>5 DEF Moved, Latest

\* What moved from month to month, and what it was.
LEMMA KindFacts ==
  ASSUME NEW p \in Position, p # Bank
  PROVE  /\ Kind[p] \in {"property", "liability", "receivable", "stock", "bond", "time_deposit"}
         /\ IsInvestment(p) <=> Kind[p] \in {"stock", "bond", "time_deposit"}
         /\ GroupOf(p) = "asset" <=> Kind[p] = "property"
         /\ GroupOf(p) = "liability" <=> Kind[p] = "liability"
         /\ GroupOf(p) = "receivable" <=> Kind[p] = "receivable"
         /\ ~IsInvestment(p) => Currency[p] = Home
         /\ GroupOf(p) \in Groups
<1>1. /\ Kind[p] \in {"property", "liability", "receivable", "stock", "bond", "time_deposit"}
      /\ Currency[p] \in {Home, Other}
      /\ Currency[p] = Other => Kind[p] \in {"stock", "bond", "time_deposit"}
  BY BooksAssumption
<1> QED  BY <1>1 DEF GroupOf, IsInvestment, Groups

----------------------------------------------------------------------------
(* Earning and spending *)

LEMMA EarnInv == Inv /\ Earn => Upheld
<1> SUFFICES ASSUME Inv, Earn PROVE Upheld  OBVIOUS
<1>1. Happens /\ Really(0, 0, 0)  BY DEF Earn
<1>2. /\ today \in Int /\ 1 <= today /\ Bank \in Position /\ worth \in [Position -> Int]
      /\ BooksOK(books, today) /\ IncomeOK(books, today) /\ worth[Bank] \in Int
  BY <1>1, InvFacts
<1> DEFINE i == [month |-> today, amount |-> 1, currency |-> Home, owner |-> "joint",
                 no |-> Cardinality(books.income)]
<1>3. Cardinality(books.income) \in Nat  BY <1>2, FS_CardinalityType DEF IncomeOK
<1>4. /\ i \in Incomes /\ i.month = today /\ i.no = Cardinality(books.income) /\ i.amount = 1
  BY <1>2, <1>3 DEF Incomes
<1>5. books' = [books EXCEPT !.income = @ \cup {i}]  BY DEF Earn
<1> HIDE DEF i
<1>6. /\ Enters(books, books') /\ books'.income = books.income \cup {i}
      /\ books'.position = books.position /\ books'.snapshot = books.snapshot
      /\ books'.transaction = books.transaction
      /\ books'.rate = books.rate /\ books'.multi = books.multi
  BY <1>2, <1>4, <1>5, EnterIncome
<1>7. /\ worth' \in [Position -> Int] /\ worth'[Bank] = worth[Bank] + 1
      /\ \A z \in Position : z # Bank => worth'[z] = worth[z]
  <2>1. worth' = [x \in Position |->
                   (IF x = Bank THEN worth[Bank] + 1 ELSE worth[x]) + (IF x = Bank THEN 0 ELSE 0)]
    BY DEF Earn, Worth
  <2>2. \A x \in Position : worth[x] \in Int  BY <1>2
  <2> QED  BY <1>2, <2>1, <2>2
<1>8. ASSUME 1 < today PROVE Shifts(books, worth, books', worth', today, 0, 0, 0)
  <2>1. Step(books, worth, books', worth', today)
    BY <1>2, <1>6, <1>7, <1>8, StepOf DEF Inv
  <2>2. SameRates(books, books') /\ BooksOK(books', today)  BY <2>1 DEF Step
  <2>3. /\ \A p : OwnOf(books', p, today) = OwnOf(books, p, today)
        /\ BookedNet(books', today) = BookedNet(books, today)
    BY <1>6, <2>2, TxnSame
  <2>4. \A p \in DOMAIN books.position : p # Bank => Kept(books, worth, books', worth', today, p)
    BY <1>2, <1>6, <1>7, <2>3 DEF Kept, BooksOK, PositionsOK
  <2>5. /\ SumFunction(Gains(books', worth', today)) = SumFunction(Gains(books, worth, today))
        /\ SumFunction(Intos(books', worth', today)) =
             SumFunction(Intos(books, worth, today)) + (worth'[Bank] - worth[Bank])
    BY <1>6, <2>1, <2>4, BankSums
  <2>6. FreshSum(books', today) = FreshSum(books, today)
    BY <1>2, <1>6, <2>2, FreshSame DEF BooksOK
  <2>7. /\ Placement(books, today) = BookedNet(books, today) + FreshSum(books, today)
        /\ Placement(books', today) = BookedNet(books', today) + FreshSum(books', today)
    BY <1>2, <2>2, PlacementIs DEF BooksOK
  <2>8. EarnedIncome(books', today) = EarnedIncome(books, today) + 1
    BY <1>2, <1>4, <1>6, <2>2, EarnAdds DEF BooksOK
  <2>9. /\ SumFunction(Gains(books, worth, today)) \in Int
        /\ SumFunction(Intos(books, worth, today)) \in Int
        /\ EarnedIncome(books, today) \in Int /\ Placement(books, today) \in Int
    BY <1>2, <1>8, FiguresTyped
  <2> DEFINE G1 == SumFunction(Gains(books, worth, today))
             G2 == SumFunction(Gains(books', worth', today))
             I1 == SumFunction(Intos(books, worth, today))
             I2 == SumFunction(Intos(books', worth', today))
             E1 == EarnedIncome(books, today)  E2 == EarnedIncome(books', today)
             N1 == Placement(books, today)  N2 == Placement(books', today)  x == worth[Bank]
  <2>10. /\ G1 \in Int /\ I1 \in Int /\ E1 \in Int /\ N1 \in Int /\ x \in Int
         /\ G2 = G1 /\ I2 = I1 + ((x + 1) - x) /\ E2 = E1 + 1 /\ N2 = N1
    BY <1>2, <1>7, <2>3, <2>5, <2>6, <2>7, <2>8, <2>9
  <2> HIDE DEF G1, G2, I1, I2, E1, E2, N1, N2, x
  <2>11. G2 = G1 + 0 /\ E2 - 0 - I2 = E1 - I1 /\ N2 = N1 + 0  BY <2>10
  <2> QED  BY <2>11 DEF G1, G2, I1, I2, E1, E2, N1, N2, Shifts
<1> QED  BY <1>1, <1>6, <1>7, <1>8, DayInv

LEMMA SpendInv == Inv /\ Spend => Upheld
<1> SUFFICES ASSUME Inv, Spend PROVE Upheld  OBVIOUS
<1>1. Happens /\ Really(1, 0, 0) /\ books' = books  BY DEF Spend
<1>2. /\ today \in Int /\ 1 <= today /\ Bank \in Position /\ worth \in [Position -> Int]
      /\ BooksOK(books, today) /\ worth[Bank] \in Int
  BY <1>1, InvFacts
<1>3. Enters(books, books')  BY <1>1, <1>2, EntersNothing
<1>4. /\ worth' \in [Position -> Int] /\ worth'[Bank] = worth[Bank] - 1
      /\ \A z \in Position : z # Bank => worth'[z] = worth[z]
  <2>1. worth' = [x \in Position |->
                   (IF x = Bank THEN worth[Bank] - 1 ELSE worth[x]) + (IF x = Bank THEN 0 ELSE 0)]
    BY DEF Spend, Worth
  <2>2. \A x \in Position : worth[x] \in Int  BY <1>2
  <2> QED  BY <1>2, <2>1, <2>2
<1>5. ASSUME 1 < today PROVE Shifts(books, worth, books', worth', today, 1, 0, 0)
  <2>1. Step(books, worth, books', worth', today)
    BY <1>2, <1>3, <1>4, <1>5, StepOf DEF Inv
  <2>2. \A p \in DOMAIN books.position : p # Bank => Kept(books, worth, books', worth', today, p)
    BY <1>1, <1>2, <1>4 DEF Kept, BooksOK, PositionsOK
  <2>3. /\ SumFunction(Gains(books', worth', today)) = SumFunction(Gains(books, worth, today))
        /\ SumFunction(Intos(books', worth', today)) =
             SumFunction(Intos(books, worth, today)) + (worth'[Bank] - worth[Bank])
    BY <1>1, <2>1, <2>2, BankSums
  <2>4. /\ SumFunction(Gains(books, worth, today)) \in Int
        /\ SumFunction(Intos(books, worth, today)) \in Int
        /\ EarnedIncome(books, today) \in Int /\ Placement(books, today) \in Int
    BY <1>2, <1>5, FiguresTyped
  <2> DEFINE G1 == SumFunction(Gains(books, worth, today))
             G2 == SumFunction(Gains(books', worth', today))
             I1 == SumFunction(Intos(books, worth, today))
             I2 == SumFunction(Intos(books', worth', today))
             E1 == EarnedIncome(books, today)  E2 == EarnedIncome(books', today)
             N1 == Placement(books, today)  N2 == Placement(books', today)  x == worth[Bank]
  <2>5. /\ G1 \in Int /\ I1 \in Int /\ E1 \in Int /\ N1 \in Int /\ x \in Int
        /\ G2 = G1 /\ I2 = I1 + ((x - 1) - x) /\ E2 = E1 /\ N2 = N1
    BY <1>1, <1>2, <1>4, <2>3, <2>4
  <2> HIDE DEF G1, G2, I1, I2, E1, E2, N1, N2, x
  <2>6. G2 = G1 + 0 /\ E2 - 1 - I2 = E1 - I1 /\ N2 = N1 + 0  BY <2>5
  <2> QED  BY <2>6 DEF G1, G2, I1, I2, E1, E2, N1, N2, Shifts
<1>6. Happens /\ Really(1, 0, 0) /\ 1 \in Int /\ 0 \in Int  BY <1>1
<1> QED  BY <1>3, <1>4, <1>5, <1>6, DayInv

----------------------------------------------------------------------------
(* What a step does to the figures of one position *)

Rise(w, v, p, price) == (v[p] - w[p]) * price

\* It is held before and after, and o more came of it.
LEMMA HeldFigures ==
  ASSUME NEW b, NEW w, NEW c, NEW v, NEW t, Step(b, w, c, v, t), NEW p \in DOMAIN b.position,
         b.position[p].end = None, Moved(b, t, p), c.position[p] = b.position[p],
         NEW o \in Int, OwnOf(c, p, t) = OwnOf(b, p, t) + o,
         NEW price, price = PriceOf(b, Currency[p], t)
  PROVE  /\ price \in Int /\ Rise(w, v, p, price) \in Int
         /\ b.position[p].group = "investment" =>
              /\ GainNow(c, v, t, p) = GainNow(b, w, t, p) + (Rise(w, v, p, price) + o)
              /\ IntoNow(c, v, t, p) = IntoNow(b, w, t, p) + (0 - o)
         /\ b.position[p].group # "investment" => GainNow(c, v, t, p) = GainNow(b, w, t, p)
         /\ (b.position[p].group # "investment" /\ b.position[p].subtype = "property") =>
              IntoNow(c, v, t, p) = IntoNow(b, w, t, p)
         /\ (b.position[p].group # "investment" /\ b.position[p].subtype # "property") =>
              IntoNow(c, v, t, p) =
                IntoNow(b, w, t, p) + SignedForNW(b, p, Rise(w, v, p, price))
<1>1. /\ t \in Int /\ 1 < t /\ BooksOK(b, t) /\ w \in [Position -> Int] /\ v \in [Position -> Int]
      /\ SameRates(b, c) /\ p \in Position
  BY DEF Step, BooksOK, PositionsOK
<1>2. /\ OwnOf(b, p, t) \in Int /\ price \in Int /\ Carried(b, p, t - 1) \in Int
  BY <1>1, FiguresInt
<1>3. Moved(c, t, p) /\ Carried(c, p, t - 1) = Carried(b, p, t - 1)  BY StepPast
<1>4. PriceOf(c, Currency[p], t) = price  BY <1>1, SamePrices
<1> DEFINE x == w[p]  y == v[p]  z == Carried(b, p, t - 1)  n == OwnOf(b, p, t)
           X == x * price  Y == y * price  D == Rise(w, v, p, price)
<1>5. x \in Int /\ y \in Int /\ z \in Int /\ n \in Int /\ X \in Int /\ Y \in Int
  BY <1>1, <1>2, Times
<1>6. D \in Int /\ Y = X + D
  <2>1. D = (y - x) * price  BY DEF Rise
  <2> HIDE DEF x, y
  <2>2. (y - x) \in Int  BY <1>5
  <2>3. D \in Int  BY <1>2, <2>1, <2>2, Times
  <2>4. y * price = x * price + (y - x) * price  BY <1>2, <1>5
  <2> QED  BY <2>1, <2>3, <2>4
<1>7. /\ GainNow(b, w, t, p) = IF b.position[p].group = "investment" THEN X - z + n ELSE 0
      /\ IntoNow(b, w, t, p) =
           IF b.position[p].group = "investment" THEN -n
           ELSE IF b.position[p].subtype = "property" THEN 0 ELSE SignedForNW(b, p, X - z)
  BY FiguresOfMoved
<1>8. /\ GainNow(c, v, t, p) = IF b.position[p].group = "investment" THEN Y - z + (n + o) ELSE 0
      /\ IntoNow(c, v, t, p) =
           IF b.position[p].group = "investment" THEN -(n + o)
           ELSE IF b.position[p].subtype = "property" THEN 0 ELSE SignedForNW(b, p, Y - z)
  BY <1>3, <1>4, FiguresOfMoved DEF SignedForNW
<1>9. p \in Position /\ price \in Int  BY <1>1, <1>2
<1> HIDE DEF x, y, z, n, X, Y, D
<1>10. b.position[p].group = "investment" =>
         /\ GainNow(c, v, t, p) = GainNow(b, w, t, p) + (D + o)
         /\ IntoNow(c, v, t, p) = IntoNow(b, w, t, p) + (0 - o)
  BY <1>5, <1>6, <1>7, <1>8
<1>11. b.position[p].group # "investment" => GainNow(c, v, t, p) = GainNow(b, w, t, p)
  BY <1>7, <1>8
<1>12. (b.position[p].group # "investment" /\ b.position[p].subtype = "property") =>
         IntoNow(c, v, t, p) = IntoNow(b, w, t, p)
  BY <1>7, <1>8
<1>13. (b.position[p].group # "investment" /\ b.position[p].subtype # "property") =>
         IntoNow(c, v, t, p) = IntoNow(b, w, t, p) + SignedForNW(b, p, D)
  BY <1>5, <1>6, <1>7, <1>8 DEF SignedForNW
<1> QED  BY <1>6, <1>9, <1>10, <1>11, <1>12, <1>13 DEF D

\* It is held before, and has ended after.
LEMMA EndedFigures ==
  ASSUME NEW b, NEW w, NEW c, NEW v, NEW t, Step(b, w, c, v, t), NEW p \in DOMAIN b.position,
         b.position[p].end = None, Moved(b, t, p),
         c.position[p].end = t, c.position[p].group = b.position[p].group,
         NEW o \in Int, OwnOf(c, p, t) = OwnOf(b, p, t) + o,
         NEW price, price = PriceOf(b, Currency[p], t)
  PROVE  /\ price \in Int /\ w[p] * price \in Int
         /\ b.position[p].group = "investment" /\ ~WithoutCash(b.position[p].group, c.position[p].status) =>
              /\ GainNow(c, v, t, p) = GainNow(b, w, t, p) + (o - w[p] * price)
              /\ IntoNow(c, v, t, p) = IntoNow(b, w, t, p) + (0 - o)
         /\ b.position[p].group # "investment" => GainNow(c, v, t, p) = GainNow(b, w, t, p)
         /\ (/\ b.position[p].group # "investment" /\ ~WithoutCash(b.position[p].group, c.position[p].status)
             /\ b.position[p].subtype = "property" => w[p] * price = Carried(b, p, t - 1))
            => IntoNow(c, v, t, p) =
                 IntoNow(b, w, t, p) + SignedForNW(b, p, 0 - w[p] * price)
         /\ (/\ w[p] * price = Carried(b, p, t - 1) /\ OwnOf(b, p, t) = 0 /\ o = 0
             /\ WithoutCash(b.position[p].group, c.position[p].status)
             /\ b.position[p].group = "investment" => c.position[p].status = "untracked")
            => /\ GainNow(c, v, t, p) = GainNow(b, w, t, p)
               /\ IntoNow(c, v, t, p) = IntoNow(b, w, t, p)
<1>1. /\ t \in Int /\ 1 < t /\ BooksOK(b, t) /\ w \in [Position -> Int]
      /\ SameRates(b, c) /\ p \in Position
  BY DEF Step, BooksOK, PositionsOK
<1>2. /\ OwnOf(b, p, t) \in Int /\ price \in Int /\ Carried(b, p, t - 1) \in Int
  BY <1>1, FiguresInt
<1>3. Moved(c, t, p) /\ Carried(c, p, t - 1) = Carried(b, p, t - 1)  BY StepPast
<1> DEFINE X == w[p] * price  z == Carried(b, p, t - 1)  n == OwnOf(b, p, t)
           s == c.position[p].status
<1>4. X \in Int /\ z \in Int /\ n \in Int  BY <1>1, <1>2, Times
<1>5. /\ GainNow(b, w, t, p) = IF b.position[p].group = "investment" THEN X - z + n ELSE 0
      /\ IntoNow(b, w, t, p) =
           IF b.position[p].group = "investment" THEN -n
           ELSE IF b.position[p].subtype = "property" THEN 0 ELSE SignedForNW(b, p, X - z)
  BY FiguresOfMoved
<1>6. /\ GainNow(c, v, t, p) =
           IF b.position[p].group = "investment" /\ s # "untracked" THEN 0 - z + (n + o) ELSE 0
      /\ IntoNow(c, v, t, p) =
           IF WithoutCash(b.position[p].group, s) THEN 0
           ELSE IF b.position[p].group = "investment" THEN -(n + o)
           ELSE SignedForNW(b, p, 0 - z)
  BY <1>1, <1>3, FiguresOfEnded DEF SignedForNW
<1>7. price \in Int  BY <1>2
<1>8. WithoutCash(b.position[p].group, "untracked")  BY DEF WithoutCash
<1> HIDE DEF X, z, n, s
<1>9. b.position[p].group = "investment" /\ ~WithoutCash(b.position[p].group, s) =>
        /\ GainNow(c, v, t, p) = GainNow(b, w, t, p) + (o - X)
        /\ IntoNow(c, v, t, p) = IntoNow(b, w, t, p) + (0 - o)
  BY <1>4, <1>5, <1>6, <1>8
<1>10. b.position[p].group # "investment" => GainNow(c, v, t, p) = GainNow(b, w, t, p)
  BY <1>5, <1>6
<1>11. (/\ b.position[p].group # "investment" /\ ~WithoutCash(b.position[p].group, s)
        /\ b.position[p].subtype = "property" => X = z)
       => IntoNow(c, v, t, p) = IntoNow(b, w, t, p) + SignedForNW(b, p, 0 - X)
  BY <1>4, <1>5, <1>6 DEF SignedForNW
<1>11a. IntoNow(b, w, t, p) =
          IF b.position[p].group = "investment" THEN 0 - n
          ELSE IF b.position[p].subtype = "property" THEN 0
          ELSE IF b.position[p].group = "liability" THEN 0 - (X - z) ELSE X - z
  BY <1>4, <1>5 DEF SignedForNW
<1>12. (/\ X = z /\ n = 0 /\ o = 0 /\ WithoutCash(b.position[p].group, s)
        /\ b.position[p].group = "investment" => s = "untracked")
       => /\ GainNow(c, v, t, p) = GainNow(b, w, t, p)
          /\ IntoNow(c, v, t, p) = IntoNow(b, w, t, p)
  <2> SUFFICES ASSUME X = z, n = 0, o = 0, WithoutCash(b.position[p].group, s),
                      b.position[p].group = "investment" => s = "untracked"
               PROVE  /\ GainNow(c, v, t, p) = GainNow(b, w, t, p)
                      /\ IntoNow(c, v, t, p) = IntoNow(b, w, t, p)
    OBVIOUS
  <2>1. (X - z) + n = 0 /\ 0 - n = 0 /\ X - z = 0 /\ 0 - (X - z) = 0  BY <1>4
  <2>2. GainNow(c, v, t, p) = 0 /\ IntoNow(c, v, t, p) = 0  BY <1>6
  <2>3. GainNow(b, w, t, p) = 0  BY <1>5, <2>1
  <2>4. IntoNow(b, w, t, p) =
          IF b.position[p].group = "investment" THEN 0 - n
          ELSE IF b.position[p].subtype = "property" THEN 0
          ELSE IF b.position[p].group = "liability" THEN 0 - (X - z) ELSE X - z
    BY <1>11a
  <2>5. IntoNow(b, w, t, p) = 0  BY <2>1, <2>4
  <2> QED  BY <2>2, <2>3, <2>5
<1> QED  BY <1>4, <1>7, <1>9, <1>10, <1>11, <1>12 DEF X, z, n, s

\* It is new.
LEMMA OpenedFigures ==
  ASSUME NEW b, NEW w, NEW c, NEW v, NEW t, Step(b, w, c, v, t), NEW p \in DOMAIN c.position,
         p \notin DOMAIN b.position, c.position[p].end = None,
         NEW price, price = PriceOf(b, Currency[p], t)
  PROVE  /\ price \in Int /\ v[p] * price \in Int /\ GainNow(c, v, t, p) = 0
         /\ IntoNow(c, v, t, p) = IF c.position[p].entry = "newly_tracked" THEN 0
                                  ELSE SignedForNW(c, p, v[p] * price)
<1>1. /\ t \in Int /\ 1 < t /\ BooksOK(c, t) /\ v \in [Position -> Int]
      /\ SameRates(b, c) /\ p \in Position
  BY DEF Step, BooksOK, PositionsOK
<1>2. PriceOf(c, Currency[p], t) = price  BY <1>1, SamePrices
<1>3. price \in Int /\ v[p] \in Int  BY <1>1, <1>2, FiguresInt
<1>4. ~Moved(c, t, p)  BY StepPast
<1> QED  BY <1>2, <1>3, <1>4, FiguresOfNew, Times

----------------------------------------------------------------------------
(* What is held and stays *)

LEMMA HeldShift ==
  ASSUME NEW b, NEW w, NEW c, NEW v, NEW t, Step(b, w, c, v, t), NEW p \in DOMAIN b.position,
         p # Bank, b.position[p].end = None, Moved(b, t, p),
         c.position = b.position, c.income = b.income,
         NEW o \in Int, OwnOf(c, p, t) = OwnOf(b, p, t) + o,
         \A z \in DOMAIN b.position : z # p => OwnOf(c, z, t) = OwnOf(b, z, t),
         \A z \in DOMAIN b.position : z # p /\ z # Bank => v[z] = w[z],
         NEW price, price = PriceOf(b, Currency[p], t),
         NEW g \in Int,
         b.position[p].group = "investment" =>
           g = Rise(w, v, p, price) + o /\ v[Bank] = w[Bank] + o,
         b.position[p].group # "investment" => g = 0,
         (b.position[p].group # "investment" /\ b.position[p].subtype = "property") =>
           v[Bank] = w[Bank],
         (b.position[p].group # "investment" /\ b.position[p].subtype # "property") =>
           v[Bank] + SignedForNW(b, p, Rise(w, v, p, price)) = w[Bank],
         NEW n \in Int, Placement(c, t) = Placement(b, t) + n
  PROVE  Shifts(b, w, c, v, t, 0, g, n)
<1>0. /\ w \in [Position -> Int] /\ v \in [Position -> Int] /\ Bank \in Position
      /\ w[Bank] \in Int /\ v[Bank] \in Int
  BY BooksAssumption DEF Step
<1>1. /\ DOMAIN c.position = DOMAIN b.position \cup {p}
      /\ \A z \in DOMAIN b.position : z # Bank /\ z # p => Kept(b, w, c, v, t, z)
      /\ c.position[Bank] = b.position[Bank]
  BY DEF Kept
<1>2. /\ price \in Int /\ Rise(w, v, p, price) \in Int
      /\ b.position[p].group = "investment" =>
           /\ GainNow(c, v, t, p) = GainNow(b, w, t, p) + (Rise(w, v, p, price) + o)
           /\ IntoNow(c, v, t, p) = IntoNow(b, w, t, p) + (0 - o)
      /\ b.position[p].group # "investment" => GainNow(c, v, t, p) = GainNow(b, w, t, p)
      /\ (b.position[p].group # "investment" /\ b.position[p].subtype = "property") =>
           IntoNow(c, v, t, p) = IntoNow(b, w, t, p)
      /\ (b.position[p].group # "investment" /\ b.position[p].subtype # "property") =>
           IntoNow(c, v, t, p) =
             IntoNow(b, w, t, p) + SignedForNW(b, p, Rise(w, v, p, price))
  BY HeldFigures
<1>3. At(Gains(b, w, t), p) = GainNow(b, w, t, p) /\ At(Intos(b, w, t), p) = IntoNow(b, w, t, p)
  BY AtIs
<1>4. GainNow(b, w, t, p) \in Int /\ IntoNow(b, w, t, p) \in Int
  BY FiguresInt DEF Step
<1>5. SignedForNW(b, p, Rise(w, v, p, price)) \in Int  BY <1>2 DEF SignedForNW
<1>6. GainNow(c, v, t, p) = At(Gains(b, w, t), p) + g  BY <1>2, <1>3, <1>4
<1>7. \E d \in Int : IntoNow(c, v, t, p) = At(Intos(b, w, t), p) + d /\ v[Bank] + d = w[Bank]
  <2> DEFINE s == SignedForNW(b, p, Rise(w, v, p, price))  i == IntoNow(b, w, t, p)
             j == IntoNow(c, v, t, p)  x == v[Bank]  y == w[Bank]
             inv == b.position[p].group = "investment"
             prop == b.position[p].subtype = "property"
  <2>1. /\ s \in Int /\ i \in Int /\ x \in Int /\ y \in Int
        /\ inv => j = i + (0 - o) /\ x = y + o
        /\ ~inv /\ prop => j = i /\ x = y
        /\ ~inv /\ ~prop => j = i + s /\ x + s = y
    BY <1>0, <1>2, <1>4, <1>5
  <2> HIDE DEF s, i, j, x, y, inv, prop
  <2>2. \E d \in Int : j = i + d /\ x + d = y
    <3>1. CASE inv
      <4>1. 0 - o \in Int /\ x + (0 - o) = y  BY <2>1, <3>1
      <4> QED  BY <2>1, <3>1, <4>1
    <3>2. CASE ~inv /\ prop
      <4>1. 0 \in Int /\ x + 0 = y /\ j = i + 0  BY <2>1, <3>2
      <4> QED  BY <4>1
    <3>3. CASE ~inv /\ ~prop  BY <2>1, <3>3
    <3> QED  BY <3>1, <3>2, <3>3
  <2> QED  BY <2>2, <1>3 DEF i, j, x, y
<1>8. PICK d \in Int : IntoNow(c, v, t, p) = At(Intos(b, w, t), p) + d /\ v[Bank] + d = w[Bank]
  BY <1>7
<1> QED  BY <1>1, <1>6, <1>8, PairShift

LEMMA NothingBooked ==
  ASSUME NEW b, NEW t \in Int, 1 < t, BooksOK(b, t), NEW p \in DOMAIN b.position
  PROVE  /\ OwnOf(b, p, t) = OwnOf(b, p, t) + 0 /\ Placement(b, t) = Placement(b, t) + 0
<1>1. /\ PositionsOK(b, t) /\ RatesOK(b, t) /\ TxnsOK(b, t) /\ 1 <= t
  BY DEF BooksOK
<1>2. OwnOf(b, p, t) \in Int  BY <1>1, OwnIs
<1>3. /\ Placement(b, t) = BookedNet(b, t) + FreshSum(b, t)
      /\ BookedNet(b, t) \in Int /\ FreshSum(b, t) \in Int
  BY <1>1, PlacementIs
<1> QED  BY <1>2, <1>3

LEMMA MarkInv ==
  ASSUME Inv, NEW p \in Position \ {Bank}, NEW v, v \in Int, Mark(p, v)
  PROVE  Upheld
<1> DEFINE g == IF IsInvestment(p) THEN (v - worth[p]) * Price(p) ELSE 0
<1>1. /\ Happens /\ Old(p) /\ (IsInvestment(p) \/ Kind[p] = "property") /\ Worth(p, v, 0)
      /\ Really(0, g, 0) /\ books' = books
  BY DEF Mark
<1>2. /\ today \in Int /\ worth \in [Position -> Int] /\ Bank \in Position /\ worth[Bank] \in Int
      /\ BooksOK(books, today)
  BY <1>1, InvFacts
<1>3. /\ worth' \in [Position -> Int] /\ worth'[p] = v /\ worth'[Bank] = worth[Bank] + 0
      /\ \A z \in Position : z # p /\ z # Bank => worth'[z] = worth[z]
  BY <1>1, <1>2, WorthIs
<1>4. /\ p \in DOMAIN books.position /\ books.position[p].end = None
      /\ books.position[p].group = GroupOf(p) /\ books.position[p].subtype = Kind[p]
      /\ worth[p] \in Int /\ 1 < today /\ Moved(books, today, p)
  BY <1>1, OldFacts, RowFacts
<1>5. Price(p) \in Int /\ Price(p) = PriceOf(books, Currency[p], today)  BY <1>1, PriceOK
<1>6. Enters(books, books')  BY <1>1, <1>2, EntersNothing
<1>7. Step(books, worth, books', worth', today)  BY <1>3, <1>4, <1>6, StepOf DEF Inv
<1>8. g \in Int
  <2>1. v - worth[p] \in Int  BY <1>4
  <2> QED  BY <1>5, <2>1, Times
<1>9. /\ OwnOf(books, p, today) = OwnOf(books, p, today) + 0
      /\ Placement(books, today) = Placement(books, today) + 0
  BY <1>2, <1>4, NothingBooked
<1>10. Rise(worth, worth', p, Price(p)) = (v - worth[p]) * Price(p)  BY <1>3 DEF Rise
<1>11. (v - worth[p]) * Price(p) \in Int
  <2>1. v - worth[p] \in Int  BY <1>4
  <2> QED  BY <1>5, <2>1, Times
<1>12. books.position[p].group = "investment" =>
         g = Rise(worth, worth', p, Price(p)) + 0 /\ worth'[Bank] = worth[Bank] + 0
  BY <1>3, <1>4, <1>10, <1>11 DEF IsInvestment
<1>13. books.position[p].group # "investment" =>
         g = 0 /\ books.position[p].subtype = "property" /\ worth'[Bank] = worth[Bank]
  BY <1>1, <1>2, <1>3, <1>4 DEF IsInvestment
<1>14. /\ \A z \in DOMAIN books.position : z # p /\ z # Bank => worth'[z] = worth[z]
       /\ p # Bank
  BY <1>2, <1>3 DEF BooksOK, PositionsOK
<1> HIDE DEF g
<1>15. Shifts(books, worth, books', worth', today, 0, g, 0)
  BY <1>1, <1>4, <1>5, <1>7, <1>8, <1>9, <1>12, <1>13, <1>14, HeldShift
<1>16. Happens /\ Really(0, g, 0) /\ 0 \in Int  BY <1>1
<1> QED  BY <1>3, <1>6, <1>8, <1>15, <1>16, DayInv

LEMMA RepayInv ==
  ASSUME Inv, NEW p \in Position \ {Bank}, Repay(p)
  PROVE  Upheld
<1> DEFINE cash == IF GroupOf(p) = "liability" THEN -1 ELSE 1
<1>1. /\ Happens /\ Old(p) /\ GroupOf(p) \in {"liability", "receivable"}
      /\ Worth(p, worth[p] - 1, cash) /\ Really(0, 0, 0) /\ books' = books
  BY DEF Repay
<1>2. /\ today \in Int /\ worth \in [Position -> Int] /\ Bank \in Position /\ worth[Bank] \in Int
      /\ BooksOK(books, today)
  BY <1>1, InvFacts
<1>3. /\ p \in DOMAIN books.position /\ books.position[p].end = None
      /\ books.position[p].group = GroupOf(p) /\ books.position[p].subtype = Kind[p]
      /\ worth[p] \in Int /\ 1 < today /\ Moved(books, today, p)
  BY <1>1, OldFacts, RowFacts
<1>4. cash \in Int /\ worth[p] - 1 \in Int  BY <1>3
<1>5. /\ worth' \in [Position -> Int] /\ worth'[p] = worth[p] - 1
      /\ worth'[Bank] = worth[Bank] + cash
      /\ \A z \in Position : z # p /\ z # Bank => worth'[z] = worth[z]
  BY <1>1, <1>2, <1>4, WorthIs
<1>6. /\ Kind[p] \in {"liability", "receivable"} /\ ~IsInvestment(p) /\ Currency[p] = Home
      /\ (GroupOf(p) = "liability" <=> Kind[p] = "liability")
  BY <1>1, KindFacts DEF IsInvestment
<1>7. Price(p) = 1 /\ Price(p) = PriceOf(books, Currency[p], today)  BY <1>1, <1>6, PriceOK
<1>8. Enters(books, books')  BY <1>1, <1>2, EntersNothing
<1>9. Step(books, worth, books', worth', today)  BY <1>3, <1>5, <1>8, StepOf DEF Inv
<1>10. /\ OwnOf(books, p, today) = OwnOf(books, p, today) + 0
       /\ Placement(books, today) = Placement(books, today) + 0
  BY <1>2, <1>3, NothingBooked
<1>11. Rise(worth, worth', p, 1) = 0 - 1
  <2> DEFINE x == worth[p]
  <2>1. Rise(worth, worth', p, 1) = ((x - 1) - x) * 1 /\ x \in Int  BY <1>3, <1>5 DEF Rise
  <2> HIDE DEF x
  <2> QED  BY <2>1
<1>12. worth'[Bank] + SignedForNW(books, p, Rise(worth, worth', p, 1)) = worth[Bank]
  <2>1. SignedForNW(books, p, Rise(worth, worth', p, 1))
          = (IF GroupOf(p) = "liability" THEN -(0 - 1) ELSE 0 - 1)
    BY <1>3, <1>11 DEF SignedForNW
  <2> DEFINE x == worth[Bank]
  <2>2. x \in Int /\ worth'[Bank] = x + cash  BY <1>2, <1>5
  <2> HIDE DEF x
  <2>3. worth'[Bank] + SignedForNW(books, p, Rise(worth, worth', p, 1)) = x  BY <2>1, <2>2
  <2> QED  BY <2>3 DEF x
<1>13. books.position[p].group # "investment" /\ books.position[p].subtype # "property"
  BY <1>3, <1>6 DEF IsInvestment
<1>14. /\ \A z \in DOMAIN books.position : z # p /\ z # Bank => worth'[z] = worth[z]
       /\ p # Bank
  BY <1>2, <1>5 DEF BooksOK, PositionsOK
<1>15. 1 = PriceOf(books, Currency[p], today)  BY <1>7
<1>16. Shifts(books, worth, books', worth', today, 0, 0, 0)
  <2>1. /\ books'.position = books.position /\ books'.income = books.income
        /\ OwnOf(books', p, today) = OwnOf(books, p, today) + 0
        /\ Placement(books', today) = Placement(books, today) + 0
        /\ \A z \in DOMAIN books.position : z # p => OwnOf(books', z, today) = OwnOf(books, z, today)
    BY <1>1, <1>10
  <2>2. 0 \in Int  OBVIOUS
  <2> QED  BY <1>3, <1>9, <1>12, <1>13, <1>14, <1>15, <2>1, <2>2, HeldShift
<1>17. Happens /\ Really(0, 0, 0) /\ 0 \in Int  BY <1>1
<1> QED  BY <1>5, <1>8, <1>16, <1>17, DayInv

----------------------------------------------------------------------------
(* What is booked *)

\* The figures of an entry x about p on books b that are otherwise kept, or that
\* close p.
LEMMA EntryAdds ==
  ASSUME NEW b, NEW w, NEW c, NEW v, NEW t, Step(b, w, c, v, t), NEW p \in DOMAIN b.position,
         NEW x, c.transaction = b.transaction \cup {x}, x.of = p, x.month = t,
         x.no = Cardinality(b.transaction), x.currency = Currency[p],
         NEW price, price = PriceOf(b, Currency[p], t)
  PROVE  /\ OwnOf(c, p, t) = OwnOf(b, p, t) + (CashOut(x) - CashIn(x)) * price
         /\ BookedNet(c, t) = BookedNet(b, t) + NetOf(x) * price
         /\ \A z : z # p => OwnOf(c, z, t) = OwnOf(b, z, t)
<1>1. /\ t \in Int /\ 1 <= t /\ TxnsOK(b, t) /\ RatesOK(b, t) /\ TxnsOK(c, t) /\ RatesOK(c, t)
      /\ SameRates(b, c)
  BY DEF Step, BooksOK
<1>2. /\ BookedNet(c, t) = BookedNet(b, t) + NetOf(x) * PriceOf(b, x.currency, t)
      /\ OwnOf(c, x.of, t) =
           OwnOf(b, x.of, t) + (CashOut(x) - CashIn(x)) * PriceOf(b, x.currency, t)
      /\ \A z : z # x.of => OwnOf(c, z, t) = OwnOf(b, z, t)
  BY <1>1, TxnAdds
<1> QED  BY <1>2

LEMMA PlacementAdds ==
  ASSUME NEW b, NEW c, NEW t \in Int, 1 < t, BooksOK(b, t), BooksOK(c, t),
         NEW n \in Int, BookedNet(c, t) + FreshSum(c, t) = BookedNet(b, t) + FreshSum(b, t) + n
  PROVE  Placement(c, t) = Placement(b, t) + n
<1>0. /\ PositionsOK(b, t) /\ TxnsOK(b, t) /\ RatesOK(b, t)
      /\ PositionsOK(c, t) /\ TxnsOK(c, t) /\ RatesOK(c, t) /\ 1 <= t
  BY DEF BooksOK
<1>1. /\ Placement(b, t) = BookedNet(b, t) + FreshSum(b, t)
      /\ BookedNet(b, t) \in Int /\ FreshSum(b, t) \in Int
  BY <1>0, PlacementIs
<1>2. Placement(c, t) = BookedNet(c, t) + FreshSum(c, t)
  BY <1>0, PlacementIs
<1> QED  BY <1>1, <1>2

\* An investment is traded: o for each one of it comes to the account, and it rises.
LEMMA TradeInv ==
  ASSUME Inv, Happens, NEW p \in Position \ {Bank}, Held(p), IsInvestment(p),
         NEW x, EntryOf(p, x), x.type # "maturity", books' = WithTxn(books, x),
         NEW o \in Int, o = CashOut(x) - CashIn(x), NetOf(x) \in Int,
         NEW rise \in Int, worth' \in [Position -> Int], worth'[p] = worth[p] + rise,
         worth'[Bank] = worth[Bank] + o * Price(p),
         \A z \in Position : z # p /\ z # Bank => worth'[z] = worth[z],
         Old(p) \/ (rise + o = 0 /\ books.position[p].entry = "acquired"),
         NEW g \in Int, g = (rise + o) * Price(p),
         NEW n \in Int, n = NetOf(x) * Price(p), Really(0, g, n)
  PROVE  Upheld
<1>1. /\ today \in Int /\ worth \in [Position -> Int] /\ Bank \in Position /\ worth[Bank] \in Int
      /\ BooksOK(books, today)
  BY InvFacts
<1>2. /\ p \in DOMAIN books.position /\ books.position[p].end = None
      /\ books.position[p].group = "investment" /\ worth[p] \in Int /\ p # Bank
  BY RowFacts DEF IsInvestment
<1>3. Price(p) \in Int /\ Price(p) = PriceOf(books, Currency[p], today)  BY PriceOK
<1>4. /\ Enters(books, books') /\ books'.transaction = books.transaction \cup {x}
      /\ books'.position = books.position /\ books'.snapshot = books.snapshot
      /\ books'.income = books.income
  BY <1>1, <1>2, EnterTxn
<1>5. ASSUME 1 < today PROVE Shifts(books, worth, books', worth', today, 0, g, n)
  <2>1. Step(books, worth, books', worth', today)  BY <1>1, <1>4, <1>5, StepOf DEF Inv
  <2>2. BooksOK(books', today) /\ SameRates(books, books')  BY <2>1 DEF Step
  <2>3. /\ OwnOf(books', p, today) = OwnOf(books, p, today) + (CashOut(x) - CashIn(x)) * Price(p)
        /\ BookedNet(books', today) = BookedNet(books, today) + NetOf(x) * Price(p)
        /\ \A z : z # p => OwnOf(books', z, today) = OwnOf(books, z, today)
    BY <1>2, <1>3, <1>4, <2>1, EntryAdds DEF EntryOf
  <2>4. FreshSum(books', today) = FreshSum(books, today)
    BY <1>1, <1>4, <1>5, <2>2, FreshSame DEF BooksOK
  <2>5. Placement(books', today) = Placement(books, today) + n
    <3>1. BookedNet(books, today) \in Int /\ FreshSum(books, today) \in Int
      <4>1. PositionsOK(books, today) /\ TxnsOK(books, today) /\ RatesOK(books, today)
            /\ today \in Int /\ 1 <= today
        BY <1>1, <1>5 DEF BooksOK
      <4> QED  BY <4>1, PlacementIs
    <3>2. BookedNet(books', today) + FreshSum(books', today)
            = BookedNet(books, today) + FreshSum(books, today) + n
      BY <2>3, <2>4, <3>1
    <3> QED  BY <1>1, <1>5, <2>2, <3>2, PlacementAdds
  <2>6. \A z \in DOMAIN books.position : z # p /\ z # Bank => worth'[z] = worth[z]
    BY <1>1 DEF BooksOK, PositionsOK
  <2> DEFINE P == Price(p)  y == worth[p]
  <2>7. P \in Int /\ y \in Int /\ worth'[p] = y + rise /\ o * P \in Int /\ rise * P \in Int
    BY <1>2, <1>3, Times
  <2>8. CASE Old(p)
    <3>1. Moved(books, today, p)  BY <2>8, OldFacts
    <3>2. Rise(worth, worth', p, P) = rise * P
      <4>1. Rise(worth, worth', p, P) = ((y + rise) - y) * P  BY <2>7 DEF Rise
      <4>2. (y + rise) - y = rise  BY <2>7
      <4> QED  BY <4>1, <4>2
    <3>3. g = Rise(worth, worth', p, P) + o * P
      <4> HIDE DEF P
      <4>1. (rise + o) * P = rise * P + o * P  BY <2>7
      <4> QED  BY <3>2, <4>1 DEF P
    <3>4. OwnOf(books', p, today) = OwnOf(books, p, today) + o * P  BY <2>3
    <3>5. /\ \A z \in DOMAIN books.position : z # p => OwnOf(books', z, today) = OwnOf(books, z, today)
          /\ worth'[Bank] = worth[Bank] + o * P
      BY <2>3
    <3>6. P = PriceOf(books, Currency[p], today) /\ o * P \in Int  BY <1>3, <2>7
    <3> HIDE DEF P
    <3> QED
      BY <1>2, <1>4, <2>1, <2>5, <2>6, <3>1, <3>3, <3>4, <3>5, <3>6, HeldShift
  <2>9. CASE ~Old(p)
    <3>1. rise + o = 0 /\ books.position[p].entry = "acquired"  BY <2>9
    <3>2. ~Moved(books, today, p)
      <4>1. DOMAIN books.snapshot[p] = {}  BY <1>2, <2>9 DEF Old, Held
      <4> QED  BY <4>1 DEF Moved, Latest
    <3>3. ~Moved(books', today, p)  BY <1>2, <2>1, <3>2, StepPast
    <3>4. PriceOf(books', Currency[p], today) = P  BY <1>3, <2>2, SamePrices
    <3>5. /\ GainNow(books, worth, today, p) = 0 /\ GainNow(books', worth', today, p) = 0
          /\ IntoNow(books, worth, today, p) = y * P
          /\ IntoNow(books', worth', today, p) = worth'[p] * P
      BY <1>2, <1>3, <1>4, <3>1, <3>2, <3>3, <3>4, FiguresOfNew DEF SignedForNW
    <3>6. worth'[p] * P = y * P + rise * P
      <4> HIDE DEF P, y
      <4> QED  BY <2>7
    <3>7. g = 0 /\ worth'[Bank] + rise * P = worth[Bank]
      <4> DEFINE z == worth[Bank]
      <4>1. z \in Int /\ worth'[Bank] = z + o * P  BY <1>1
      <4>2. o = 0 - rise  BY <3>1
      <4> HIDE DEF P, y, z
      <4>3. o * P = 0 - rise * P  BY <2>7, <4>2
      <4>4. worth'[Bank] + rise * P = z  BY <2>7, <4>1, <4>3
      <4>5. g = 0 * P  BY <3>1 DEF P
      <4>6. 0 * P = 0  BY <2>7
      <4> QED  BY <4>4, <4>5, <4>6 DEF z
    <3>8. /\ At(Gains(books, worth, today), p) = 0
          /\ At(Intos(books, worth, today), p) = y * P
      BY <1>2, <3>5, AtIs
    <3>9. /\ GainNow(books', worth', today, p) = At(Gains(books, worth, today), p) + g
          /\ IntoNow(books', worth', today, p) = At(Intos(books, worth, today), p) + rise * P
      BY <3>5, <3>6, <3>7, <3>8
    <3>10. /\ DOMAIN books'.position = DOMAIN books.position \cup {p}
           /\ \A z \in DOMAIN books.position : z # Bank /\ z # p =>
                Kept(books, worth, books', worth', today, z)
           /\ books'.position[Bank] = books.position[Bank]
      BY <1>2, <1>4, <2>3, <2>6 DEF Kept
    <3>11. rise * P \in Int  BY <2>7
    <3> HIDE DEF P, y
    <3> QED
      BY <1>2, <1>4, <2>1, <2>5, <3>7, <3>9, <3>10, <3>11, PairShift
  <2> QED  BY <2>8, <2>9
<1>6. 0 \in Int  OBVIOUS
<1> QED  BY <1>4, <1>5, <1>6, DayInv

\* A trade for one.
TradeOf(p, type, x) ==
  EntryOf(p, x) /\ x.type = type /\ x.amount = 1 /\ x.units = FALSE

LEMMA TradeOne ==
  ASSUME today \in Int, IsFiniteSet(books.transaction), NEW p \in Position,
         NEW type \in {"buy", "sell", "coupon", "dividend", "fee", "maturity"},
         NEW x, x = Trade(p, type, 1)
  PROVE  TradeOf(p, type, x)
<1>1. Cardinality(books.transaction) \in Nat  BY FS_CardinalityType
<1>2. Currency[p] \in {Home, Other}  BY BooksAssumption
<1> QED  BY <1>1, <1>2 DEF Trade, Txn, EntryOf, Txns, TradeOf

Traded(p, type, amount, x) ==
  EntryOf(p, x) /\ x.type = type /\ x.amount = amount /\ x.units = FALSE

LEMMA TradeFor ==
  ASSUME today \in Int, IsFiniteSet(books.transaction), NEW p \in Position,
         NEW type \in {"buy", "sell", "coupon", "dividend", "fee", "maturity"},
         NEW amount \in Int, NEW x, x = Trade(p, type, amount)
  PROVE  Traded(p, type, amount, x)
<1>1. Cardinality(books.transaction) \in Nat  BY FS_CardinalityType
<1>2. Currency[p] \in {Home, Other}  BY BooksAssumption
<1> QED  BY <1>1, <1>2 DEF Trade, Txn, EntryOf, Txns, Traded

LEMMA TradedKind ==
  ASSUME NEW p \in Position \ {Bank}, Kind[p] \in {"stock", "bond"}
  PROVE  IsInvestment(p)
BY KindFacts

LEMMA BuyInv ==
  ASSUME Inv, NEW p \in Position \ {Bank}, Buy(p)
  PROVE  Upheld
<1> DEFINE type == "buy"  x == Trade(p, type, 1)
<1>0. /\ type = "buy" /\ x = Trade(p, type, 1)
      /\ type \in {"buy", "sell", "coupon", "dividend", "fee", "maturity"}
  OBVIOUS
<1>1. /\ Happens /\ Held(p) /\ (Old(p) \/ books.position[p].entry = "acquired")
      /\ Kind[p] \in {"stock", "bond"} /\ Worth(p, worth[p] + 1, -Price(p))
      /\ books' = WithTxn(books, x) /\ Really(0, 0, Price(p))
  BY DEF Buy
<1>2. /\ today \in Int /\ worth \in [Position -> Int] /\ IsFiniteSet(books.transaction)
      /\ worth[p] \in Int /\ IsInvestment(p) /\ Price(p) \in Int
  BY <1>1, InvFacts, RowFacts, TradedKind, PriceOK
<1>9. type \in {"buy", "sell", "coupon", "dividend", "fee", "maturity"} /\ x = Trade(p, type, 1)
  BY <1>0
<1> HIDE DEF x, type
<1>10. TradeOf(p, type, x)
  BY <1>2, <1>9, TradeOne
<1>3. EntryOf(p, x) /\ x.type = "buy" /\ x.amount = 1 /\ x.units = FALSE
  BY <1>0, <1>10 DEF TradeOf
<1>4. /\ worth' \in [Position -> Int] /\ worth'[p] = worth[p] + 1
      /\ worth'[Bank] = worth[Bank] + (-Price(p))
      /\ \A z \in Position : z # p /\ z # Bank => worth'[z] = worth[z]
  <2>1. worth[p] + 1 \in Int /\ -Price(p) \in Int  BY <1>2
  <2> QED  BY <1>1, <1>2, <2>1, WorthIs
<1>5. CashOut(x) = 0 /\ CashIn(x) = 1 /\ NetOf(x) = 1  BY <1>3 DEF CashOut, CashIn, NetOf
<1>6. /\ -1 \in Int /\ -1 = CashOut(x) - CashIn(x) /\ NetOf(x) \in Int /\ 1 + (-1) = 0
      /\ -Price(p) = (-1) * Price(p) /\ 0 = (1 + (-1)) * Price(p) /\ Price(p) = NetOf(x) * Price(p)
  BY <1>2, <1>5
<1>7. worth'[Bank] = worth[Bank] + (-1) * Price(p)  BY <1>4, <1>6
<1>8. x.type # "maturity" /\ 1 \in Int /\ 0 \in Int  BY <1>3
<1> QED  BY <1>1, <1>2, <1>3, <1>4, <1>6, <1>7, <1>8, TradeInv

LEMMA SellInv ==
  ASSUME Inv, NEW p \in Position \ {Bank}, Sell(p)
  PROVE  Upheld
<1> DEFINE type == "sell"  x == Trade(p, type, 1)
<1>0. /\ type = "sell" /\ x = Trade(p, type, 1)
      /\ type \in {"buy", "sell", "coupon", "dividend", "fee", "maturity"}
  OBVIOUS
<1>1. /\ Happens /\ Old(p) /\ Kind[p] \in {"stock", "bond"}
      /\ Worth(p, worth[p] - 1, Price(p))
      /\ books' = WithTxn(books, x) /\ Really(0, 0, -Price(p))
  BY DEF Sell
<1>2. /\ today \in Int /\ worth \in [Position -> Int] /\ IsFiniteSet(books.transaction)
      /\ Held(p) /\ worth[p] \in Int /\ IsInvestment(p) /\ Price(p) \in Int
  BY <1>1, InvFacts, OldFacts, RowFacts, TradedKind, PriceOK
<1>9. type \in {"buy", "sell", "coupon", "dividend", "fee", "maturity"} /\ x = Trade(p, type, 1)
  BY <1>0
<1> HIDE DEF x, type
<1>10. TradeOf(p, type, x)
  BY <1>2, <1>9, TradeOne
<1>3. EntryOf(p, x) /\ x.type = "sell" /\ x.amount = 1 /\ x.units = FALSE
  BY <1>0, <1>10 DEF TradeOf
<1>4. /\ worth' \in [Position -> Int] /\ worth'[p] = worth[p] - 1
      /\ worth'[Bank] = worth[Bank] + Price(p)
      /\ \A z \in Position : z # p /\ z # Bank => worth'[z] = worth[z]
  <2>1. worth[p] - 1 \in Int  BY <1>2
  <2> QED  BY <1>1, <1>2, <2>1, WorthIs
<1>5. CashOut(x) = 1 /\ CashIn(x) = 0 /\ NetOf(x) = 0 - 1
  BY <1>3 DEF CashOut, CashIn, NetOf
<1>6. /\ 1 = CashOut(x) - CashIn(x) /\ NetOf(x) \in Int
      /\ Price(p) = 1 * Price(p) /\ 0 = ((0 - 1) + 1) * Price(p)
      /\ -Price(p) = NetOf(x) * Price(p) /\ -Price(p) \in Int /\ 0 - 1 \in Int
  BY <1>2, <1>5
<1>7. worth'[Bank] = worth[Bank] + 1 * Price(p) /\ worth'[p] = worth[p] + (0 - 1)
  BY <1>2, <1>4, <1>6
<1>8. x.type # "maturity" /\ 1 \in Int /\ 0 \in Int  BY <1>3
<1> QED  BY <1>1, <1>2, <1>3, <1>4, <1>6, <1>7, <1>8, TradeInv

LEMMA YieldInv ==
  ASSUME Inv, NEW p \in Position \ {Bank}, Yield(p)
  PROVE  Upheld
<1> DEFINE type == IF Kind[p] = "bond" THEN "coupon" ELSE "dividend"
           x == Trade(p, type, 1)
<1>1. /\ Happens /\ Old(p) /\ Kind[p] \in {"stock", "bond"}
      /\ Worth(p, worth[p], Price(p))
      /\ books' = WithTxn(books, x) /\ Really(0, Price(p), 0)
  BY DEF Yield
<1>2. /\ today \in Int /\ worth \in [Position -> Int] /\ IsFiniteSet(books.transaction)
      /\ Held(p) /\ worth[p] \in Int /\ IsInvestment(p) /\ Price(p) \in Int
  BY <1>1, InvFacts, OldFacts, RowFacts, TradedKind, PriceOK
<1>0. /\ type \in {"coupon", "dividend"} /\ x = Trade(p, type, 1) /\ p \in Position
      /\ type \in {"buy", "sell", "coupon", "dividend", "fee", "maturity"}
  OBVIOUS
<1> HIDE DEF x, type
<1>10. TradeOf(p, type, x)
  BY <1>0, <1>2, TradeOne
<1>3. EntryOf(p, x) /\ x.type = type /\ x.amount = 1 /\ x.units = FALSE
  BY <1>10 DEF TradeOf
<1>4. /\ worth' \in [Position -> Int] /\ worth'[p] = worth[p]
      /\ worth'[Bank] = worth[Bank] + Price(p)
      /\ \A z \in Position : z # p /\ z # Bank => worth'[z] = worth[z]
  BY <1>1, <1>2, WorthIs
<1>5. CashOut(x) = 1 /\ CashIn(x) = 0 /\ NetOf(x) = 0
  BY <1>0, <1>3 DEF CashOut, CashIn, NetOf
<1>6. /\ 1 = CashOut(x) - CashIn(x) /\ NetOf(x) \in Int
      /\ Price(p) = 1 * Price(p) /\ Price(p) = (0 + 1) * Price(p)
      /\ 0 = NetOf(x) * Price(p)
  BY <1>2, <1>5
<1>7. worth'[Bank] = worth[Bank] + 1 * Price(p) /\ worth'[p] = worth[p] + 0
  BY <1>2, <1>4, <1>6
<1>8. x.type # "maturity" /\ 1 \in Int /\ 0 \in Int  BY <1>0, <1>3
<1> QED  BY <1>1, <1>2, <1>3, <1>4, <1>6, <1>7, <1>8, TradeInv

LEMMA FeeInv ==
  ASSUME Inv, NEW p \in Position \ {Bank}, Fee(p)
  PROVE  Upheld
<1> DEFINE type == "fee"  x == Trade(p, type, 1)
<1>0. /\ type = "fee" /\ x = Trade(p, type, 1)
      /\ type \in {"buy", "sell", "coupon", "dividend", "fee", "maturity"}
  OBVIOUS
<1>1. /\ Happens /\ Old(p) /\ Kind[p] \in {"stock", "bond"}
      /\ Worth(p, worth[p], -Price(p))
      /\ books' = WithTxn(books, x) /\ Really(0, -Price(p), 0)
  BY DEF Fee
<1>2. /\ today \in Int /\ worth \in [Position -> Int] /\ IsFiniteSet(books.transaction)
      /\ Held(p) /\ worth[p] \in Int /\ IsInvestment(p) /\ Price(p) \in Int
  BY <1>1, InvFacts, OldFacts, RowFacts, TradedKind, PriceOK
<1>9. type \in {"buy", "sell", "coupon", "dividend", "fee", "maturity"} /\ x = Trade(p, type, 1)
  BY <1>0
<1> HIDE DEF x, type
<1>10. TradeOf(p, type, x)
  BY <1>2, <1>9, TradeOne
<1>3. EntryOf(p, x) /\ x.type = "fee" /\ x.amount = 1 /\ x.units = FALSE
  BY <1>0, <1>10 DEF TradeOf
<1>4. /\ worth' \in [Position -> Int] /\ worth'[p] = worth[p]
      /\ worth'[Bank] = worth[Bank] + (-Price(p))
      /\ \A z \in Position : z # p /\ z # Bank => worth'[z] = worth[z]
  <2>1. -Price(p) \in Int  BY <1>2
  <2> QED  BY <1>1, <1>2, <2>1, WorthIs
<1>5. CashOut(x) = 0 /\ CashIn(x) = 1 /\ NetOf(x) = 0
  BY <1>3 DEF CashOut, CashIn, NetOf
<1>6. /\ -1 \in Int /\ -1 = CashOut(x) - CashIn(x) /\ NetOf(x) \in Int
      /\ -Price(p) = (-1) * Price(p) /\ -Price(p) = (0 + (-1)) * Price(p)
      /\ 0 = NetOf(x) * Price(p) /\ -Price(p) \in Int
  BY <1>2, <1>5
<1>7. worth'[Bank] = worth[Bank] + (-1) * Price(p) /\ worth'[p] = worth[p] + 0
  BY <1>2, <1>4, <1>6
<1>8. x.type # "maturity" /\ 0 \in Int  BY <1>3
<1> QED  BY <1>1, <1>2, <1>3, <1>4, <1>6, <1>7, <1>8, TradeInv

----------------------------------------------------------------------------
(* What is new *)

\* Position p is new: what of it is not from before came from the account.
LEMMA OpenInv ==
  ASSUME Inv, Happens, NEW p \in Position \ {Bank}, p \notin DOMAIN books.position,
         Enters(books, books'), DOMAIN books'.position = DOMAIN books.position \cup {p},
         \A z \in DOMAIN books.position : books'.position[z] = books.position[z],
         NEW entry, NEW principal, NEW from, books'.position[p] = Row(p, entry, principal, from),
         books'.income = books.income,
         worth' \in [Position -> Int],
         \A z \in Position : z # p /\ z # Bank => worth'[z] = worth[z],
         NEW d \in Int, worth'[Bank] + d = worth[Bank],
         entry = "newly_tracked" => d = 0,
         entry # "newly_tracked" =>
           d = IF GroupOf(p) = "liability" THEN -(worth'[p] * Price(p)) ELSE worth'[p] * Price(p),
         NEW n \in Int, Really(0, 0, n),
         1 < today => /\ Placement(books', today) = Placement(books, today) + n
                      /\ \A z \in DOMAIN books.position :
                           OwnOf(books', z, today) = OwnOf(books, z, today)
  PROVE  Upheld
<1>1. /\ today \in Int /\ BooksOK(books, today) /\ Bank \in DOMAIN books.position
      /\ p \in Position /\ p # Bank
      /\ \A z \in DOMAIN books.position : z \in Position
  BY InvFacts DEF BankOK, PositionsOK
<1>2. Price(p) = PriceOf(books, Currency[p], today)  BY <1>1, PriceOK
<1>3. ASSUME 1 < today PROVE Shifts(books, worth, books', worth', today, 0, 0, n)
  <2>1. Step(books, worth, books', worth', today)  BY <1>1, <1>3, StepOf DEF Inv
  <2>2. /\ p \in DOMAIN books'.position /\ books'.position[p].end = None
        /\ books'.position[p].entry = entry /\ books'.position[p].group = GroupOf(p)
    BY DEF Row
  <2> DEFINE P == Price(p)
  <2>3. P = PriceOf(books, Currency[p], today)  BY <1>2
  <2> HIDE DEF P
  <2>4. /\ GainNow(books', worth', today, p) = 0
        /\ IntoNow(books', worth', today, p) =
             IF books'.position[p].entry = "newly_tracked" THEN 0
             ELSE SignedForNW(books', p, worth'[p] * P)
    BY <2>1, <2>2, <2>3, OpenedFigures
  <2>5. IntoNow(books', worth', today, p) = d
    BY <2>2, <2>4 DEF SignedForNW, P
  <2>6. At(Gains(books, worth, today), p) = 0 /\ At(Intos(books, worth, today), p) = 0
    BY AtIs
  <2>7. /\ GainNow(books', worth', today, p) = At(Gains(books, worth, today), p) + 0
        /\ IntoNow(books', worth', today, p) = At(Intos(books, worth, today), p) + d
    BY <2>4, <2>5, <2>6
  <2>8. /\ \A z \in DOMAIN books.position : z # Bank /\ z # p =>
             Kept(books, worth, books', worth', today, z)
        /\ books'.position[Bank] = books.position[Bank]
    BY <1>1, <1>3 DEF Kept
  <2>9. 0 \in Int /\ Placement(books', today) = Placement(books, today) + n  BY <1>3
  <2> QED  BY <1>1, <2>1, <2>7, <2>8, <2>9, PairShift
<1>4. Happens /\ Really(0, 0, n) /\ 0 \in Int  OBVIOUS
<1> QED  BY <1>3, <1>4, DayInv

\* The row of a new position, and what it places.
LEMMA OpenPlaces ==
  ASSUME Inv, Happens, 1 < today, NEW p \in Position, p \notin DOMAIN books.position,
         Enters(books, books'), DOMAIN books'.position = DOMAIN books.position \cup {p},
         \A z \in DOMAIN books.position : books'.position[z] = books.position[z],
         NEW entry, NEW principal, books'.position[p] = Row(p, entry, principal, None),
         NEW net \in Int, BookedNet(books', today) = BookedNet(books, today) + net
  PROVE  Placement(books', today) =
           Placement(books, today) + (net + (IF principal # None THEN principal * Price(p) ELSE 0))
<1>1. /\ today \in Int /\ 1 <= today /\ BooksOK(books, today) /\ PositionsOK(books, today)
      /\ RatesOK(books, today) /\ TxnsOK(books, today)
      /\ Price(p) = PriceOf(books, Currency[p], today) /\ Price(p) \in Int
  BY InvFacts, PriceOK
<1>2. BooksOK(books', today)  BY <1>1, EntersOK
<1>3. PositionsOK(books', today) /\ RatesOK(books', today) /\ TxnsOK(books', today)
  BY <1>2 DEF BooksOK
<1>4. SameRates(books, books')  BY DEF Enters, SameRates
<1>5. /\ books'.position[p].from = None /\ books'.position[p].principal = principal
      /\ principal # None => books'.position[p].placed = today
      /\ books'.position[p] \in Rows
  <2>1. p \in DOMAIN books'.position  OBVIOUS
  <2> QED  BY <1>3, <2>1 DEF Row, PositionsOK, RowOK
<1>6. principal \in Int \cup {None}  BY <1>5 DEF Rows
<1>7. \A z \in DOMAIN books.position :
        /\ books'.position[z].from = books.position[z].from
        /\ books'.position[z].principal = books.position[z].principal
        /\ books'.position[z].placed = books.position[z].placed
  OBVIOUS
<1> DEFINE fresh == IF principal # None THEN principal * Price(p) ELSE 0
<1>8. FreshSum(books', today) = FreshSum(books, today) + fresh
  <2>1. /\ principal # None => FreshSum(books', today) = FreshSum(books, today)
             + books'.position[p].principal * PriceOf(books, Currency[p], today)
        /\ principal = None => FreshSum(books', today) = FreshSum(books, today)
    BY <1>1, <1>3, <1>4, <1>5, <1>7, FreshAdds
  <2>2. FreshSum(books, today) \in Int  BY <1>1, PlacementIs
  <2> QED  BY <1>1, <1>5, <2>1, <2>2
<1>9. fresh \in Int  BY <1>1, <1>6, Times
<1>10. BookedNet(books, today) \in Int /\ FreshSum(books, today) \in Int  BY <1>1, PlacementIs
<1> HIDE DEF fresh
<1>11. /\ net + fresh \in Int
       /\ BookedNet(books', today) + FreshSum(books', today)
            = BookedNet(books, today) + FreshSum(books, today) + (net + fresh)
  BY <1>8, <1>9, <1>10
<1>12. Placement(books', today) = Placement(books, today) + (net + fresh)
  BY <1>1, <1>2, <1>11, PlacementAdds
<1> QED  BY <1>12 DEF fresh

LEMMA ArriveInv ==
  ASSUME Inv, NEW p \in Position \ {Bank}, NEW v \in Int, Arrive(p, v)
  PROVE  Upheld
<1>1. /\ Happens /\ p \notin DOMAIN books.position /\ Kind[p] # "time_deposit"
      /\ Worth(p, v, 0) /\ Really(0, 0, 0)
      /\ books' = WithPosition(books, p, Row(p, "newly_tracked", None, None))
  BY DEF Arrive, New
<1>2. /\ today \in Int /\ worth \in [Position -> Int] /\ worth[Bank] \in Int
      /\ BooksOK(books, today)
  BY <1>1, InvFacts
<1>3. /\ worth' \in [Position -> Int] /\ worth'[Bank] = worth[Bank] + 0
      /\ \A z \in Position : z # p /\ z # Bank => worth'[z] = worth[z]
  BY <1>1, <1>2, WorthIs
<1>4. Enters(books, books') /\ Begins(books, books', p, Row(p, "newly_tracked", None, None))
  <2>1. Enters(books, books)  BY <1>2, EntersNothing
  <2> DEFINE entry == "newly_tracked"
  <2>2. entry \in {"acquired", "newly_tracked"}  OBVIOUS
  <2>3. books' = WithPosition(books, p, Row(p, entry, None, None))  BY <1>1
  <2> HIDE DEF entry
  <2>4. Enters(books, books') /\ Begins(books, books', p, Row(p, entry, None, None))
    BY <1>1, <1>2, <2>1, <2>2, <2>3, EnterOpen
  <2> QED  BY <2>4 DEF entry
<1>5. /\ DOMAIN books'.position = DOMAIN books.position \cup {p}
      /\ \A z \in DOMAIN books.position : books'.position[z] = books.position[z]
      /\ books'.position[p] = Row(p, "newly_tracked", None, None)
      /\ books'.income = books.income /\ books'.transaction = books.transaction
  BY <1>1, <1>4 DEF Begins
<1>6. ASSUME 1 < today
      PROVE  /\ Placement(books', today) = Placement(books, today) + 0
             /\ \A z : OwnOf(books', z, today) = OwnOf(books, z, today)
  <2>1. SameRates(books, books')  BY <1>4 DEF Enters, SameRates
  <2>2. /\ BookedNet(books', today) = BookedNet(books, today)
        /\ \A z : OwnOf(books', z, today) = OwnOf(books, z, today)
    BY <1>5, <2>1, TxnSame
  <2>3. PositionsOK(books, today) /\ TxnsOK(books, today) /\ RatesOK(books, today) /\ 1 <= today
    BY <1>2, <1>6 DEF BooksOK
  <2>4. BookedNet(books, today) \in Int  BY <1>2, <2>3, PlacementIs
  <2>5. 0 \in Int /\ BookedNet(books', today) = BookedNet(books, today) + 0  BY <2>2, <2>4
  <2>6. Placement(books', today) = Placement(books, today)
          + (0 + (IF None # None THEN None * Price(p) ELSE 0))
    BY <1>1, <1>4, <1>5, <1>6, <2>5, OpenPlaces
  <2> QED  BY <2>2, <2>6
<1>7. worth'[Bank] + 0 = worth[Bank]  BY <1>2, <1>3
<1>8. 0 \in Int  OBVIOUS
<1> QED  BY <1>1, <1>3, <1>4, <1>5, <1>6, <1>7, <1>8, OpenInv

\* What is bought as a stock or bond is booked; what is placed as a deposit is on
\* its row; what is borrowed or lent is neither.
LEMMA AcquireInv ==
  ASSUME Inv, NEW p \in Position \ {Bank}, NEW v \in Int, Acquire(p, v)
  PROVE  Upheld
<1> DEFINE sign == IF GroupOf(p) = "liability" THEN 1 ELSE -1
           principal == IF Kind[p] = "time_deposit" THEN v ELSE None
           row == Row(p, "acquired", principal, None)
           opened == WithPosition(books, p, row)
           P == Price(p)
           n == IF IsInvestment(p) THEN v * P ELSE 0
           d == IF GroupOf(p) = "liability" THEN -(v * P) ELSE v * P
<1>1. /\ Happens /\ p \notin DOMAIN books.position
      /\ Worth(p, v, sign * v * P) /\ Really(0, 0, n)
      /\ books' = IF Kind[p] \in {"stock", "bond"} THEN WithTxn(opened, Trade(p, "buy", v)) ELSE opened
  BY DEF Acquire, New
<1>2. /\ today \in Int /\ worth \in [Position -> Int] /\ worth[Bank] \in Int
      /\ BooksOK(books, today) /\ IsFiniteSet(books.transaction) /\ TxnsOK(books, today)
      /\ PositionsOK(books, today) /\ RatesOK(books, today) /\ p \in Position /\ p # Bank
  BY <1>1, InvFacts
<1>3. P \in Int /\ P = PriceOf(books, Currency[p], today)  BY <1>1, <1>2, PriceOK
<1>4. sign * v * P \in Int /\ v * P \in Int /\ sign * v * P + d = 0 /\ d \in Int /\ n \in Int
  <2> HIDE DEF P
  <2>1. v * P \in Int  BY <1>3, Times
  <2> DEFINE y == v * P
  <2>2. 1 * v * P = y /\ (-1) * v * P = -y  BY <1>3
  <2>3. y \in Int  BY <2>1
  <2> HIDE DEF y
  <2>4. n = (IF IsInvestment(p) THEN y ELSE 0)  BY DEF y
  <2>5. d = (IF GroupOf(p) = "liability" THEN -y ELSE y)  BY DEF y
  <2>6. sign * v * P = (IF GroupOf(p) = "liability" THEN y ELSE -y)  BY <2>2
  <2> QED  BY <2>1, <2>3, <2>4, <2>5, <2>6
<1>5. /\ worth' \in [Position -> Int] /\ worth'[p] = v
      /\ worth'[Bank] + d = worth[Bank]
      /\ \A z \in Position : z # p /\ z # Bank => worth'[z] = worth[z]
  <2> DEFINE cash == sign * v * P
  <2>1. Worth(p, v, cash) /\ cash \in Int /\ cash + d = 0 /\ d \in Int  BY <1>1, <1>4
  <2> HIDE DEF cash, d
  <2>2. /\ worth' \in [Position -> Int] /\ worth'[p] = v
        /\ worth'[Bank] = worth[Bank] + cash
        /\ \A z \in Position : z # p /\ z # Bank => worth'[z] = worth[z]
    BY <1>2, <2>1, WorthIs
  <2> DEFINE y == worth[Bank]
  <2>3. y \in Int /\ worth'[Bank] = y + cash  BY <1>2, <2>2
  <2> HIDE DEF y
  <2>4. worth'[Bank] + d = y  BY <2>1, <2>3
  <2> QED  BY <2>2, <2>4 DEF y
<1>6. /\ principal \in Int \cup {None} /\ (principal # None <=> Kind[p] = "time_deposit")
  BY NoneAssumption
<1> HIDE DEF n, d
<1>7. Enters(books, opened) /\ DOMAIN opened = Fields /\ Begins(books, opened, p, row)
  <2> HIDE DEF principal
  <2>1. Enters(books, books)  BY <1>2, EntersNothing
  <2> DEFINE entry == "acquired"
  <2>2. entry \in {"acquired", "newly_tracked"} /\ row = Row(p, entry, principal, None)  OBVIOUS
  <2> HIDE DEF entry, row
  <2>3. opened = WithPosition(books, p, Row(p, entry, principal, None))  BY <2>2
  <2> HIDE DEF opened
  <2>4. None \in Position \cup {None}  OBVIOUS
  <2>5. /\ Enters(books, opened) /\ DOMAIN opened = Fields
        /\ Begins(books, opened, p, Row(p, entry, principal, None))
    BY <1>1, <1>2, <1>6, <2>1, <2>2, <2>3, <2>4, EnterOpen
  <2> QED  BY <2>2, <2>5
<1> DEFINE net == IF Kind[p] \in {"stock", "bond"} THEN v * P ELSE 0
<1>8. /\ Enters(books, books')
      /\ DOMAIN books'.position = DOMAIN books.position \cup {p}
      /\ \A z \in DOMAIN books.position : books'.position[z] = books.position[z]
      /\ books'.position[p] = row /\ books'.income = books.income
      /\ 1 < today => /\ BookedNet(books', today) = BookedNet(books, today) + net
                      /\ \A z \in DOMAIN books.position :
                           OwnOf(books', z, today) = OwnOf(books, z, today)
  <2> HIDE DEF row
  <2>1. CASE Kind[p] \in {"stock", "bond"}
    <3> DEFINE type == "buy"  x == Trade(p, type, v)
    <3>1. type \in {"buy", "sell", "coupon", "dividend", "fee", "maturity"} /\ x = Trade(p, type, v)
      OBVIOUS
    <3>2. books' = WithTxn(opened, x)  BY <1>1, <2>1
    <3> HIDE DEF x, opened, net, type
    <3>3. Traded(p, type, v, x)  BY <1>2, <3>1, TradeFor
    <3>4. EntryOf(p, x) /\ x.type = "buy" /\ x.amount = v /\ x.type # "maturity"
      BY <3>3 DEF Traded, type
    <3>5. /\ Enters(books, books') /\ books'.transaction = books.transaction \cup {x}
          /\ books'.position = opened.position /\ books'.income = books.income
      BY <1>1, <1>2, <1>7, <3>2, <3>4, EnterOpenTxn
    <3>6. ASSUME 1 < today
          PROVE  /\ BookedNet(books', today) = BookedNet(books, today) + NetOf(x) * P
                 /\ \A z : z # p => OwnOf(books', z, today) = OwnOf(books, z, today)
      <4>1. 1 <= today /\ SameRates(books, books')  BY <1>2, <3>5, <3>6 DEF Enters, SameRates
      <4>2. BooksOK(books', today)  BY <1>2, <3>5, <4>1, EntersOK
      <4>3. TxnsOK(books', today) /\ RatesOK(books', today)  BY <4>2 DEF BooksOK
      <4>4. /\ x.of = p /\ x.month = today /\ x.no = Cardinality(books.transaction)
            /\ x.currency = Currency[p]
        BY <3>4 DEF EntryOf
      <4>5. /\ BookedNet(books', today) =
                 BookedNet(books, today) + NetOf(x) * PriceOf(books, x.currency, today)
            /\ \A z : z # x.of => OwnOf(books', z, today) = OwnOf(books, z, today)
        BY <1>2, <3>5, <4>1, <4>3, <4>4, TxnAdds
      <4> QED  BY <1>3, <4>4, <4>5
    <3>7. NetOf(x) = v /\ net = v * P  BY <2>1, <3>4 DEF NetOf, net
    <3>8. \A z \in DOMAIN books.position : z # p  BY <1>1
    <3> QED  BY <1>1, <1>7, <3>5, <3>6, <3>7, <3>8 DEF Begins
  <2>2. CASE Kind[p] \notin {"stock", "bond"}
    <3>1. books' = opened  BY <1>1, <2>2
    <3> HIDE DEF opened, net
    <3>2. Enters(books, books') /\ Begins(books, books', p, row)  BY <1>7, <3>1
    <3>3. /\ books'.transaction = books.transaction /\ SameRates(books, books')
      BY <3>2 DEF Begins, SameRates
    <3>4. /\ BookedNet(books', today) = BookedNet(books, today)
          /\ \A z : OwnOf(books', z, today) = OwnOf(books, z, today)
      BY <3>3, TxnSame
    <3>5. ASSUME 1 < today PROVE BookedNet(books, today) \in Int
      <4>1. 1 <= today  BY <1>2, <3>5
      <4> QED  BY <1>2, <4>1, PlacementIs
    <3>6. net = 0  BY <2>2 DEF net
    <3>7. 1 < today => BookedNet(books', today) = BookedNet(books, today) + net
      BY <3>4, <3>5, <3>6
    <3> QED  BY <1>1, <3>2, <3>4, <3>7 DEF Begins
  <2> QED  BY <2>1, <2>2
<1>9. ASSUME 1 < today PROVE Placement(books', today) = Placement(books, today) + n
  <2> DEFINE entry == "acquired"
  <2>1. books'.position[p] = Row(p, entry, principal, None)  BY <1>8
  <2>2. net \in Int  BY <1>4
  <2> HIDE DEF entry, principal, net, row
  <2>3. Placement(books', today) =
          Placement(books, today) + (net + (IF principal # None THEN principal * Price(p) ELSE 0))
    BY <1>1, <1>2, <1>8, <1>9, <2>1, <2>2, OpenPlaces
  <2> HIDE DEF P
  <2>4. net + (IF principal # None THEN principal * P ELSE 0) = n
    <3> DEFINE y == v * P
    <3>1. y \in Int  BY <1>4
    <3>2. net = (IF Kind[p] \in {"stock", "bond"} THEN y ELSE 0)  BY DEF net
    <3>3. (IF principal # None THEN principal * P ELSE 0)
            = (IF Kind[p] = "time_deposit" THEN y ELSE 0)
      BY <1>6 DEF principal
    <3>4. n = (IF IsInvestment(p) THEN y ELSE 0)  BY DEF n
    <3>5. IsInvestment(p) <=> Kind[p] \in {"stock", "bond", "time_deposit"}  BY <1>2, KindFacts
    <3> HIDE DEF y
    <3> QED  BY <3>1, <3>2, <3>3, <3>4, <3>5
  <2> QED  BY <2>3, <2>4 DEF P
<1>10. d = IF GroupOf(p) = "liability" THEN -(worth'[p] * Price(p)) ELSE worth'[p] * Price(p)
  BY <1>5 DEF d
<1>11. "acquired" # "newly_tracked" /\ d \in Int /\ n \in Int  BY <1>4
<1> DEFINE entry == "acquired"
<1>12. /\ books'.position[p] = Row(p, entry, principal, None) /\ entry # "newly_tracked"
  BY <1>8
<1> HIDE DEF entry, principal
<1> QED  BY <1>1, <1>2, <1>5, <1>8, <1>9, <1>10, <1>11, <1>12, OpenInv

----------------------------------------------------------------------------
(* What ends *)

\* Position p has ended, and o came of it this month besides.
LEMMA EndInv ==
  ASSUME Inv, Happens, NEW p \in Position \ {Bank}, Old(p),
         Enters(books, books'), Closes(books, books', p),
         NEW status, books'.position[p].status = status, books'.income = books.income,
         DOMAIN books'.position = DOMAIN books.position,
         \A z \in DOMAIN books.position : z # p => books'.position[z] = books.position[z],
         worth' \in [Position -> Int],
         \A z \in Position : z # p /\ z # Bank => worth'[z] = worth[z],
         NEW o \in Int, OwnOf(books', p, today) = OwnOf(books, p, today) + o,
         \A z \in DOMAIN books.position : z # p => OwnOf(books', z, today) = OwnOf(books, z, today),
         NEW n \in Int, Placement(books', today) = Placement(books, today) + n,
         NEW g \in Int, Really(0, g, n),
         (IsInvestment(p) /\ ~WithoutCash(GroupOf(p), status)) =>
           g = o - worth[p] * Price(p) /\ worth'[Bank] = worth[Bank] + o,
         (~IsInvestment(p) /\ ~WithoutCash(GroupOf(p), status)) =>
           /\ g = 0
           /\ worth'[Bank] + (IF GroupOf(p) = "liability" THEN worth[p] ELSE -worth[p]) = worth[Bank]
           /\ Kind[p] = "property" => worth[p] * Price(p) = Carried(books, p, today - 1),
         WithoutCash(GroupOf(p), status) =>
           /\ g = 0 /\ o = 0 /\ worth'[Bank] = worth[Bank] /\ OwnOf(books, p, today) = 0
           /\ worth[p] * Price(p) = Carried(books, p, today - 1)
           /\ IsInvestment(p) => status = "untracked"
  PROVE  Upheld
<1>1. /\ today \in Int /\ 1 <= today /\ BooksOK(books, today) /\ Bank \in DOMAIN books.position
      /\ worth[Bank] \in Int /\ worth'[Bank] \in Int /\ p \in Position /\ p # Bank
      /\ \A z \in DOMAIN books.position : z \in Position
  BY InvFacts DEF BankOK, PositionsOK
<1>2. /\ p \in DOMAIN books.position /\ books.position[p].end = None /\ 1 < today
      /\ books.position[p].group = GroupOf(p) /\ books.position[p].subtype = Kind[p]
      /\ worth[p] \in Int /\ Moved(books, today, p)
  BY OldFacts, RowFacts
<1>3. Price(p) = PriceOf(books, Currency[p], today) /\ Price(p) \in Int  BY <1>1, PriceOK
<1>4. Step(books, worth, books', worth', today)  BY <1>1, <1>2, StepOf DEF Inv
<1>5. /\ books'.position[p].end = today /\ books'.position[p].group = books.position[p].group
  <2>1. Closed(books, books', p)  BY <1>1, <1>2, ClosedIs
  <2> QED  BY <2>1 DEF Closed
<1> DEFINE P == Price(p)
<1>6. P = PriceOf(books, Currency[p], today) /\ P \in Int  BY <1>3
<1> HIDE DEF P
<1>7. /\ P \in Int /\ worth[p] * P \in Int
      /\ books.position[p].group = "investment" /\ ~WithoutCash(books.position[p].group, books'.position[p].status) =>
           /\ GainNow(books', worth', today, p) = GainNow(books, worth, today, p) + (o - worth[p] * P)
           /\ IntoNow(books', worth', today, p) = IntoNow(books, worth, today, p) + (0 - o)
      /\ books.position[p].group # "investment" =>
           GainNow(books', worth', today, p) = GainNow(books, worth, today, p)
      /\ (/\ books.position[p].group # "investment" /\ ~WithoutCash(books.position[p].group, books'.position[p].status)
          /\ books.position[p].subtype = "property" => worth[p] * P = Carried(books, p, today - 1))
         => IntoNow(books', worth', today, p) =
              IntoNow(books, worth, today, p) + SignedForNW(books, p, 0 - worth[p] * P)
      /\ (/\ worth[p] * P = Carried(books, p, today - 1) /\ OwnOf(books, p, today) = 0 /\ o = 0
          /\ WithoutCash(books.position[p].group, books'.position[p].status)
          /\ books.position[p].group = "investment" => books'.position[p].status = "untracked")
         => /\ GainNow(books', worth', today, p) = GainNow(books, worth, today, p)
            /\ IntoNow(books', worth', today, p) = IntoNow(books, worth, today, p)
  BY <1>2, <1>4, <1>5, <1>6, EndedFigures
<1>8. /\ GainNow(books, worth, today, p) \in Int /\ IntoNow(books, worth, today, p) \in Int
      /\ worth \in [Position -> Int]
  BY <1>1, <1>2, FiguresInt DEF Inv, InTime
<1>9. IsInvestment(p) <=> books.position[p].group = "investment"  BY <1>2 DEF IsInvestment
<1> DEFINE gain == GainNow(books, worth, today, p)  into == IntoNow(books, worth, today, p)
<1>10. PICK d \in Int : /\ GainNow(books', worth', today, p) = gain + g
                        /\ IntoNow(books', worth', today, p) = into + d
                        /\ worth'[Bank] + d = worth[Bank]
  <2>1. CASE IsInvestment(p) /\ ~WithoutCash(GroupOf(p), status)
    <3>1. /\ GainNow(books', worth', today, p) = gain + (o - worth[p] * P)
          /\ IntoNow(books', worth', today, p) = into + (0 - o)
      BY <1>2, <1>7, <1>9, <2>1
    <3>2. g = o - worth[p] * P /\ worth'[Bank] = worth[Bank] + o  BY <2>1 DEF P
    <3>3. 0 - o \in Int /\ worth'[Bank] + (0 - o) = worth[Bank]
      <4> DEFINE y == worth[Bank]
      <4>1. y \in Int /\ worth'[Bank] = y + o  BY <1>1, <3>2
      <4> HIDE DEF y
      <4> QED  BY <4>1 DEF y
    <3> DEFINE dd == 0 - o
    <3>4. /\ dd \in Int /\ GainNow(books', worth', today, p) = gain + g
          /\ IntoNow(books', worth', today, p) = into + dd
          /\ worth'[Bank] + dd = worth[Bank]
      BY <3>1, <3>2, <3>3
    <3> HIDE DEF dd, gain, into
    <3> QED  BY <3>4
  <2>2. CASE ~IsInvestment(p) /\ ~WithoutCash(GroupOf(p), status)
    <3>1. /\ g = 0
          /\ worth'[Bank] + (IF GroupOf(p) = "liability" THEN worth[p] ELSE -worth[p]) = worth[Bank]
          /\ Kind[p] = "property" => worth[p] * P = Carried(books, p, today - 1)
      BY <2>2 DEF P
    <3>2. /\ GainNow(books', worth', today, p) = gain
          /\ IntoNow(books', worth', today, p) = into + SignedForNW(books, p, 0 - worth[p] * P)
      BY <1>2, <1>7, <1>9, <2>2, <3>1
    <3>3. P = 1  BY <1>1, <2>2, KindFacts, PriceOK DEF P
    <3> DEFINE dd == SignedForNW(books, p, 0 - worth[p] * P)
    <3>4. dd = (IF GroupOf(p) = "liability" THEN worth[p] ELSE -worth[p])
      <4> DEFINE y == worth[p]
      <4>1. y \in Int /\ dd = (IF GroupOf(p) = "liability" THEN -(0 - y * P) ELSE 0 - y * P)
        BY <1>2 DEF SignedForNW
      <4> HIDE DEF y, dd
      <4>2. dd = (IF GroupOf(p) = "liability" THEN y ELSE -y)  BY <3>3, <4>1
      <4> QED  BY <4>2 DEF y
    <3>5. dd \in Int /\ worth'[Bank] + dd = worth[Bank]  BY <1>2, <3>1, <3>4
    <3>6. gain = gain + g  BY <1>8, <3>1
    <3> HIDE DEF dd, gain, into
    <3>7. GainNow(books', worth', today, p) = gain + g  BY <3>2, <3>6
    <3>8. IntoNow(books', worth', today, p) = into + dd  BY <3>2 DEF dd
    <3> QED  BY <3>5, <3>7, <3>8
  <2>3. CASE WithoutCash(GroupOf(p), status)
    <3>1. /\ g = 0 /\ worth'[Bank] = worth[Bank] /\ OwnOf(books, p, today) = 0 /\ o = 0
          /\ worth[p] * P = Carried(books, p, today - 1)
          /\ books.position[p].group = "investment" => status = "untracked"
      BY <1>9, <2>3 DEF P
    <3>2. /\ GainNow(books', worth', today, p) = gain
          /\ IntoNow(books', worth', today, p) = into
      BY <1>2, <1>7, <2>3, <3>1
    <3>3. gain = gain + g /\ into = into + 0 /\ worth[Bank] + 0 = worth[Bank] /\ 0 \in Int
      BY <1>1, <1>8, <3>1
    <3> HIDE DEF gain, into
    <3>4. /\ GainNow(books', worth', today, p) = gain + g
          /\ IntoNow(books', worth', today, p) = into + 0
          /\ worth'[Bank] + 0 = worth[Bank] /\ 0 \in Int
      BY <3>1, <3>2, <3>3
    <3> QED  BY <3>4
  <2> QED  BY <2>1, <2>2, <2>3
<1>11. /\ GainNow(books', worth', today, p) = At(Gains(books, worth, today), p) + g
       /\ IntoNow(books', worth', today, p) = At(Intos(books, worth, today), p) + d
  BY <1>2, <1>10, AtIs
<1>12. /\ \A z \in DOMAIN books.position : z # Bank /\ z # p =>
             Kept(books, worth, books', worth', today, z)
       /\ books'.position[Bank] = books.position[Bank]
       /\ DOMAIN books'.position = DOMAIN books.position \cup {p}
  BY <1>1, <1>2 DEF Kept
<1>13. worth'[Bank] + d = worth[Bank] /\ d \in Int  BY <1>10
<1>14. Shifts(books, worth, books', worth', today, 0, g, n)
  <2> HIDE DEF gain, into
  <2> QED  BY <1>1, <1>4, <1>11, <1>12, <1>13, PairShift
<1>15. Happens /\ Really(0, g, n) /\ 0 \in Int  OBVIOUS
<1> QED  BY <1>14, <1>15, DayInv

\* What a close leaves of the placements.
LEMMA EndPlaces ==
  ASSUME Inv, Happens, 1 < today, NEW p \in DOMAIN books.position,
         Enters(books, books'), Closes(books, books', p),
         DOMAIN books'.position = DOMAIN books.position,
         \A z \in DOMAIN books.position : z # p => books'.position[z] = books.position[z],
         NEW net \in Int, BookedNet(books', today) = BookedNet(books, today) + net
  PROVE  Placement(books', today) = Placement(books, today) + net
<1>1. /\ today \in Int /\ 1 <= today /\ BooksOK(books, today) /\ PositionsOK(books, today)
      /\ RatesOK(books, today) /\ TxnsOK(books, today)
  BY InvFacts
<1>2. BooksOK(books', today)  BY <1>1, EntersOK
<1>3. PositionsOK(books', today) /\ RatesOK(books', today) /\ TxnsOK(books', today)
  BY <1>2 DEF BooksOK
<1>4. SameRates(books, books')  BY DEF Enters, SameRates
<1>5. \A z \in DOMAIN books.position :
        /\ books'.position[z].from = books.position[z].from
        /\ books'.position[z].principal = books.position[z].principal
        /\ books'.position[z].placed = books.position[z].placed
  <2>1. Closed(books, books', p)  BY <1>1, ClosedIs
  <2> QED  BY <2>1 DEF Closed
<1>6. FreshSum(books', today) = FreshSum(books, today)
  BY <1>1, <1>3, <1>4, <1>5, FreshSame
<1>7. BookedNet(books, today) \in Int /\ FreshSum(books, today) \in Int  BY <1>1, PlacementIs
<1>8. BookedNet(books', today) + FreshSum(books', today)
        = BookedNet(books, today) + FreshSum(books, today) + net
  BY <1>6, <1>7
<1> QED  BY <1>1, <1>2, <1>8, PlacementAdds

LEMMA SettleInv ==
  ASSUME Inv, NEW p \in Position \ {Bank}, Settle(p)
  PROVE  Upheld
<1> DEFINE status == CASE Kind[p] = "property" -> "sold" [] Kind[p] = "liability" -> "paid_off"
                       [] OTHER -> "collected"
           cash == IF GroupOf(p) = "liability" THEN -worth[p] ELSE worth[p]
<1>1. /\ Happens /\ Old(p) /\ ~IsInvestment(p) /\ (Kind[p] = "property" => Calm(p))
      /\ Worth(p, 0, cash) /\ books' = Terminated(books, p, status) /\ Really(0, 0, 0)
  BY DEF Settle
<1>2. /\ today \in Int /\ 1 <= today /\ worth \in [Position -> Int] /\ worth[Bank] \in Int
      /\ BooksOK(books, today) /\ p \in Position /\ p # Bank
  BY <1>1, InvFacts
<1>3. /\ p \in DOMAIN books.position /\ books.position[p].end = None /\ 1 < today
      /\ books.position[p].group = GroupOf(p) /\ worth[p] \in Int
      /\ DOMAIN books.snapshot[p] # {}
  BY <1>1, OldFacts, RowFacts
<1>4. status \in Statuses /\ ~WithoutCash(GroupOf(p), status)  BY DEF Statuses, WithoutCash
<1>5. cash \in Int  BY <1>3
<1>6. /\ worth' \in [Position -> Int] /\ worth'[Bank] = worth[Bank] + cash
      /\ \A z \in Position : z # p /\ z # Bank => worth'[z] = worth[z]
  <2> HIDE DEF cash
  <2>1. 0 \in Int  OBVIOUS
  <2> QED  BY <1>1, <1>2, <1>5, <2>1, WorthIs
<1>7. /\ Enters(books, books') /\ Closes(books, books', p) /\ books'.position[p].status = status
      /\ books'.transaction = books.transaction /\ books'.income = books.income
      /\ books'.rate = books.rate /\ books'.multi = books.multi
      /\ DOMAIN books'.position = DOMAIN books.position
      /\ \A z \in DOMAIN books.position : z # p =>
           books'.position[z] = books.position[z] /\ books'.snapshot[z] = books.snapshot[z]
  <2> HIDE DEF status
  <2>1. books.position[p].group # "investment"  BY <1>1, <1>3 DEF IsInvestment
  <2> QED  BY <1>1, <1>2, <1>3, <1>4, <2>1, EnterEnd
<1>8. /\ BookedNet(books', today) = BookedNet(books, today)
      /\ \A z : OwnOf(books', z, today) = OwnOf(books, z, today)
  <2>1. SameRates(books, books')  BY <1>7 DEF SameRates
  <2> QED  BY <1>7, <2>1, TxnSame
<1>9. OwnOf(books, p, today) = OwnOf(books, p, today) + 0
  BY <1>2, <1>3, NothingBooked
<1>10. Placement(books', today) = Placement(books, today) + 0
  <2>1. PositionsOK(books, today) /\ TxnsOK(books, today) /\ RatesOK(books, today)
    BY <1>2 DEF BooksOK
  <2>2. BookedNet(books, today) \in Int  BY <1>2, <2>1, PlacementIs
  <2>3. BookedNet(books', today) = BookedNet(books, today) + 0  BY <1>8, <2>2
  <2>4. 0 \in Int  OBVIOUS
  <2> QED  BY <1>1, <1>3, <1>7, <2>3, <2>4, EndPlaces
<1>11. worth'[Bank] + (IF GroupOf(p) = "liability" THEN worth[p] ELSE -worth[p]) = worth[Bank]
  <2> DEFINE y == worth[Bank]  w == worth[p]
  <2>1. y \in Int /\ w \in Int /\ worth'[Bank] = y + (IF GroupOf(p) = "liability" THEN -w ELSE w)
    BY <1>2, <1>3, <1>6
  <2> HIDE DEF y, w
  <2>2. worth'[Bank] + (IF GroupOf(p) = "liability" THEN w ELSE -w) = y  BY <2>1
  <2> QED  BY <2>2 DEF y, w
<1>12. Kind[p] = "property" => worth[p] * Price(p) = Carried(books, p, today - 1)
  BY <1>1 DEF Calm
<1>13. 0 \in Int /\ OwnOf(books', p, today) = OwnOf(books, p, today) + 0  BY <1>8, <1>9
<1> HIDE DEF status, cash
<1> QED
  BY <1>1, <1>3, <1>4, <1>6, <1>7, <1>8, <1>10, <1>11, <1>12, <1>13, EndInv

\* Nothing was booked for what is calm.
LEMMA CalmIs ==
  ASSUME Inv, Happens, NEW p \in Position, Calm(p)
  PROVE  OwnOf(books, p, today) = 0
<1>1. {x \in Booked(books, today) : x.of = p} = {}  BY DEF Calm, Booked
<1> DEFINE f == [x \in {y \in Booked(books, today) : y.of = p} |->
                   Convert(books, CashOut(x) - CashIn(x), x.currency, today)]
<1>2. DOMAIN f = {}  BY <1>1
<1>3. OwnOf(books, p, today) = SumFunction(f)  BY DEF OwnOf, SumOver
<1> HIDE DEF f
<1> QED  BY <1>2, <1>3, SumEmpty

LEMMA VanishInv ==
  ASSUME Inv, NEW p \in Position \ {Bank}, NEW status, Vanish(p, status)
  PROVE  Upheld
<1>1. /\ Happens /\ Old(p) /\ Calm(p) /\ Worth(p, 0, 0)
      /\ books' = Terminated(books, p, status) /\ Really(0, 0, 0)
  BY DEF Vanish
<1>2. /\ today \in Int /\ 1 <= today /\ worth \in [Position -> Int] /\ worth[Bank] \in Int
      /\ BooksOK(books, today) /\ p \in Position /\ p # Bank
  BY <1>1, InvFacts
<1>3. /\ p \in DOMAIN books.position /\ books.position[p].end = None /\ 1 < today
      /\ books.position[p].group = GroupOf(p) /\ worth[p] \in Int
      /\ DOMAIN books.snapshot[p] # {}
  BY <1>1, OldFacts, RowFacts
<1>4. /\ status \in Statuses /\ WithoutCash(GroupOf(p), status)
      /\ IsInvestment(p) => status = "untracked"
  <2>1. IsInvestment(p) => Kind[p] \notin {"property", "liability", "receivable"}
    BY <1>2, KindFacts
  <2>2. status \in {"untracked"} \cup
          CASE Kind[p] = "property" -> {"disposed"} [] Kind[p] = "liability" -> {"forgiven"}
            [] Kind[p] = "receivable" -> {"written_off"} [] OTHER -> {}
    BY DEF Vanish
  <2>3. /\ Kind[p] = "property" => GroupOf(p) = "asset"
        /\ Kind[p] = "liability" => GroupOf(p) = "liability"
        /\ Kind[p] = "receivable" => GroupOf(p) = "receivable"
    BY <1>2, KindFacts
  <2> QED  BY <2>1, <2>2, <2>3 DEF Statuses, WithoutCash
<1>6. /\ worth' \in [Position -> Int] /\ worth'[Bank] = worth[Bank]
      /\ \A z \in Position : z # p /\ z # Bank => worth'[z] = worth[z]
  <2>1. 0 \in Int  OBVIOUS
  <2>2. /\ worth' \in [Position -> Int] /\ worth'[Bank] = worth[Bank] + 0
        /\ \A z \in Position : z # p /\ z # Bank => worth'[z] = worth[z]
    BY <1>1, <1>2, <2>1, WorthIs
  <2> QED  BY <1>2, <2>2
<1>7. /\ Enters(books, books') /\ Closes(books, books', p) /\ books'.position[p].status = status
      /\ books'.transaction = books.transaction /\ books'.income = books.income
      /\ books'.rate = books.rate /\ books'.multi = books.multi
      /\ DOMAIN books'.position = DOMAIN books.position
      /\ \A z \in DOMAIN books.position : z # p =>
           books'.position[z] = books.position[z] /\ books'.snapshot[z] = books.snapshot[z]
  <2>1. books.position[p].group = "investment" => status = "untracked"
    BY <1>3, <1>4 DEF IsInvestment
  <2> QED  BY <1>1, <1>2, <1>3, <1>4, <2>1, EnterEnd
<1>8. /\ BookedNet(books', today) = BookedNet(books, today)
      /\ \A z : OwnOf(books', z, today) = OwnOf(books, z, today)
  <2>1. SameRates(books, books')  BY <1>7 DEF SameRates
  <2> QED  BY <1>7, <2>1, TxnSame
<1>9. OwnOf(books, p, today) = 0 /\ worth[p] * Price(p) = Carried(books, p, today - 1)
  BY <1>1, <1>2, CalmIs DEF Calm
<1>10. Placement(books', today) = Placement(books, today) + 0
  <2>1. PositionsOK(books, today) /\ TxnsOK(books, today) /\ RatesOK(books, today)
    BY <1>2 DEF BooksOK
  <2>2. BookedNet(books, today) \in Int  BY <1>2, <2>1, PlacementIs
  <2>3. BookedNet(books', today) = BookedNet(books, today) + 0  BY <1>8, <2>2
  <2>4. 0 \in Int  OBVIOUS
  <2> QED  BY <1>1, <1>3, <1>7, <2>3, <2>4, EndPlaces
<1>11. 0 \in Int /\ OwnOf(books', p, today) = OwnOf(books, p, today) + 0  BY <1>8, <1>9
<1> QED
  BY <1>1, <1>3, <1>4, <1>6, <1>7, <1>8, <1>9, <1>10, <1>11, EndInv

LEMMA SellOutInv ==
  ASSUME Inv, NEW p \in Position \ {Bank}, NEW a \in Int, SellOut(p, a)
  PROVE  Upheld
<1> DEFINE type == "sell"  x == Trade(p, type, a)  P == Price(p)
           status == "sold"  o == a * P  n == -a * P  g == (a - worth[p]) * P
<1>1. /\ Happens /\ Old(p) /\ Kind[p] \in {"stock", "bond"}
      /\ Worth(p, 0, o) /\ books' = Terminated(WithTxn(books, x), p, status) /\ Really(0, g, n)
  BY DEF SellOut
<1>2. /\ today \in Int /\ 1 <= today /\ worth \in [Position -> Int] /\ worth[Bank] \in Int
      /\ BooksOK(books, today) /\ p \in Position /\ p # Bank /\ IsFiniteSet(books.transaction)
  BY <1>1, InvFacts
<1>3. /\ p \in DOMAIN books.position /\ books.position[p].end = None /\ 1 < today
      /\ worth[p] \in Int /\ DOMAIN books.snapshot[p] # {}
  BY <1>1, OldFacts, RowFacts
<1>4. IsInvestment(p)  BY <1>1, TradedKind
<1>5. P \in Int /\ P = PriceOf(books, Currency[p], today)  BY <1>1, <1>2, PriceOK
<1>6. o \in Int /\ n \in Int /\ g \in Int /\ g = o - worth[p] * P /\ n = (0 - a) * P
  <2> DEFINE y == worth[p]
  <2>1. y \in Int  BY <1>3
  <2>2. g = (a - y) * P  OBVIOUS
  <2>3. y * P \in Int /\ a * P \in Int /\ (a - y) * P \in Int /\ -a * P \in Int
    BY <1>5, <2>1, Times
  <2> HIDE DEF P, y
  <2>4. (a - y) * P = a * P - y * P /\ -a * P = (0 - a) * P  BY <1>5, <2>1
  <2> QED  BY <2>2, <2>3, <2>4 DEF P, y
<1>7. /\ status \in Statuses /\ ~WithoutCash(GroupOf(p), status)
      /\ type \in {"buy", "sell", "coupon", "dividend", "fee", "maturity"}
      /\ x = Trade(p, type, a)
  BY DEF Statuses, WithoutCash
<1> HIDE DEF x, status, o, n, g
<1>8. /\ EntryOf(p, x) /\ x.type = "sell" /\ x.amount = a
  <2> HIDE DEF type
  <2>1. Traded(p, type, a, x)  BY <1>2, <1>7, TradeFor
  <2> QED  BY <2>1 DEF Traded, type
<1>9. /\ CashOut(x) - CashIn(x) = a /\ NetOf(x) = 0 - a
  <2>1. CashOut(x) = a /\ CashIn(x) = 0 /\ NetOf(x) = -a  BY <1>8 DEF CashOut, CashIn, NetOf
  <2> QED  BY <2>1
<1>10. /\ worth' \in [Position -> Int] /\ worth'[Bank] = worth[Bank] + o
       /\ \A z \in Position : z # p /\ z # Bank => worth'[z] = worth[z]
  <2>1. 0 \in Int  OBVIOUS
  <2> QED  BY <1>1, <1>2, <1>6, <2>1, WorthIs
<1>11. /\ Enters(books, books') /\ Closes(books, books', p) /\ books'.position[p].status = status
       /\ books'.transaction = books.transaction \cup {x}
       /\ books'.income = books.income
       /\ DOMAIN books'.position = DOMAIN books.position
       /\ \A z \in DOMAIN books.position : z # p =>
            books'.position[z] = books.position[z] /\ books'.snapshot[z] = books.snapshot[z]
  <2>1. x.type \in {"sell", "maturity"}  BY <1>8
  <2> QED  BY <1>1, <1>2, <1>3, <1>7, <1>8, <2>1, EnterEndTxn
<1>12. Step(books, worth, books', worth', today)
  BY <1>2, <1>3, <1>10, <1>11, StepOf DEF Inv
<1>13. /\ OwnOf(books', p, today) = OwnOf(books, p, today) + (CashOut(x) - CashIn(x)) * P
       /\ BookedNet(books', today) = BookedNet(books, today) + NetOf(x) * P
       /\ \A z : z # p => OwnOf(books', z, today) = OwnOf(books, z, today)
  <2> HIDE DEF P
  <2>1. /\ x.of = p /\ x.month = today /\ x.no = Cardinality(books.transaction)
        /\ x.currency = Currency[p]
    BY <1>8 DEF EntryOf
  <2> QED  BY <1>3, <1>5, <1>11, <1>12, <2>1, EntryAdds
<1>14. OwnOf(books', p, today) = OwnOf(books, p, today) + o  BY <1>9, <1>13 DEF o
<1>15. BookedNet(books', today) = BookedNet(books, today) + n  BY <1>6, <1>9, <1>13
<1>16. Placement(books', today) = Placement(books, today) + n
  BY <1>1, <1>3, <1>6, <1>11, <1>15, EndPlaces
<1>17. g = o - worth[p] * Price(p) /\ worth'[Bank] = worth[Bank] + o  BY <1>6, <1>10
<1> HIDE DEF P
<1> QED
  BY <1>1, <1>2, <1>3, <1>4, <1>6, <1>7, <1>10, <1>11, <1>13, <1>14, <1>16, <1>17, EndInv

----------------------------------------------------------------------------
(* What matures *)

\* The entry of a maturity.
MaturityOf(p, x, principal, interest, rolled) ==
  /\ EntryOf(p, x) /\ x.type = "maturity" /\ x.amount = 0
  /\ x.principal = principal /\ x.interest = interest /\ x.rolled = rolled

LEMMA MaturityIs ==
  ASSUME today \in Int, IsFiniteSet(books.transaction), NEW p \in Position,
         NEW principal \in Int, NEW interest \in Int,
         NEW rolled \in SUBSET {"principal", "interest"},
         NEW x, x = Txn(p, "maturity", 0, principal, interest, rolled)
  PROVE  MaturityOf(p, x, principal, interest, rolled)
<1>1. Cardinality(books.transaction) \in Nat  BY FS_CardinalityType
<1>2. Currency[p] \in {Home, Other}  BY BooksAssumption
<1> QED  BY <1>1, <1>2 DEF Txn, EntryOf, Txns, MaturityOf

\* What is paid out and what is rolled over come to all of it.
LEMMA PartsAre ==
  ASSUME NEW x, x.principal \in Int, x.interest \in Int, x.type = "maturity",
         NEW rolled \in SUBSET {"principal", "interest"}, x.rolled = rolled
  PROVE  /\ Part(x, {"principal", "interest"} \ rolled) \in Int /\ Part(x, rolled) \in Int
         /\ Part(x, {"principal", "interest"} \ rolled) + Part(x, rolled) = x.principal + x.interest
         /\ CashOut(x) = x.principal + x.interest /\ CashIn(x) = 0
         /\ NetOf(x) = -Part(x, {"principal", "interest"} \ rolled)
         /\ rolled = {} => Part(x, rolled) = 0
BY DEF Part, CashOut, CashIn, NetOf

\* The entry x pays out the one and rolls over the other.
Splits(x, out, over) ==
  out \in Int /\ over \in Int /\ CashOut(x) - CashIn(x) = out + over /\ NetOf(x) = -out

\* The deposit p ends, and what of it is rolled over goes to the new deposit q.
LEMMA RollInv ==
  ASSUME Inv, Happens, NEW p \in Position \ {Bank}, Old(p), IsInvestment(p),
         NEW q \in Position \ {Bank}, q # p, q \notin DOMAIN books.position,
         Currency[q] = Currency[p],
         Enters(books, books'), Closes(books, books', p),
         books'.position[p].status = "matured", books'.income = books.income,
         DOMAIN books'.position = DOMAIN books.position \cup {q},
         \A z \in DOMAIN books.position : z # p => books'.position[z] = books.position[z],
         GroupOf(q) = "investment",
         NEW principal, books'.position[q] = Row(q, "acquired", principal, p),
         NEW x, EntryOf(p, x), books'.transaction = books.transaction \cup {x},
         NEW out, NEW over, Splits(x, out, over),
         worth' \in [Position -> Int], worth'[q] = over,
         worth'[Bank] = worth[Bank] + out * Price(p),
         \A z \in Position : z # p /\ z # q /\ z # Bank => worth'[z] = worth[z],
         NEW g \in Int, g = (out + over - worth[p]) * Price(p),
         NEW n \in Int, n = -out * Price(p), Really(0, g, n)
  PROVE  Upheld
<1>0. out \in Int /\ over \in Int /\ CashOut(x) - CashIn(x) = out + over /\ NetOf(x) = -out
  BY DEF Splits
<1>1. /\ today \in Int /\ 1 <= today /\ BooksOK(books, today) /\ Bank \in DOMAIN books.position
      /\ worth[Bank] \in Int /\ p \in Position /\ p # Bank
      /\ PositionsOK(books, today) /\ RatesOK(books, today) /\ TxnsOK(books, today)
      /\ IncomeOK(books, today)
      /\ \A z \in DOMAIN books.position : z \in Position
  BY InvFacts DEF BankOK, PositionsOK
<1>2. /\ p \in DOMAIN books.position /\ books.position[p].end = None /\ 1 < today
      /\ books.position[p].group = "investment"
      /\ worth[p] \in Int /\ Moved(books, today, p)
  BY OldFacts, RowFacts DEF IsInvestment
<1> DEFINE P == Price(p)
<1>3. P = PriceOf(books, Currency[p], today) /\ P \in Int  BY <1>1, PriceOK
<1>4. Step(books, worth, books', worth', today)  BY <1>1, <1>2, StepOf DEF Inv
<1>5. Closed(books, books', p)  BY <1>1, <1>2, ClosedIs
<1>6. /\ books'.position[p].end = today /\ books'.position[p].group = "investment"
      /\ books'.position[p].from = books.position[p].from
      /\ books'.position[p].principal = books.position[p].principal
      /\ books'.position[p].placed = books.position[p].placed
  BY <1>2, <1>5 DEF Closed
<1>7. BooksOK(books', today) /\ SameRates(books, books')  BY <1>4 DEF Step
<1>8. PositionsOK(books', today) /\ RatesOK(books', today) /\ TxnsOK(books', today)
      /\ IncomeOK(books', today)
  BY <1>7 DEF BooksOK
<1> DEFINE o == (CashOut(x) - CashIn(x)) * P
<1>9. /\ OwnOf(books', p, today) = OwnOf(books, p, today) + o
      /\ BookedNet(books', today) = BookedNet(books, today) + NetOf(x) * P
      /\ \A z : z # p => OwnOf(books', z, today) = OwnOf(books, z, today)
  <2> HIDE DEF P
  <2>1. /\ x.of = p /\ x.month = today /\ x.no = Cardinality(books.transaction)
        /\ x.currency = Currency[p]
    BY DEF EntryOf
  <2> QED  BY <1>2, <1>3, <1>4, <2>1, EntryAdds
<1> DEFINE w == worth[p]  outP == out * P  overP == over * P
<1>10. /\ outP \in Int /\ overP \in Int /\ w * P \in Int /\ w \in Int
       /\ o = outP + overP /\ g = o - w * P /\ n = -outP /\ NetOf(x) * P = -outP
  <2>1. outP \in Int /\ overP \in Int /\ w * P \in Int /\ w \in Int  BY <1>0, <1>2, <1>3, Times
  <2>2. o = (out + over) * P /\ g = (out + over - w) * P /\ n = -out * P
        /\ NetOf(x) * P = (-out) * P
    BY <1>0
  <2> HIDE DEF P, w, o
  <2>3. (out + over) * P = out * P + over * P  BY <1>0, <1>3
  <2>4. (out + over - w) * P = out * P + over * P - w * P  BY <1>0, <1>3, <2>1
  <2>5. -out * P = -(out * P) /\ (-out) * P = -(out * P)  BY <1>0, <1>3
  <2> QED  BY <2>1, <2>2, <2>3, <2>4, <2>5
<1> HIDE DEF o
<1>11. /\ GainNow(books', worth', today, p) = GainNow(books, worth, today, p) + (o - w * P)
       /\ IntoNow(books', worth', today, p) = IntoNow(books, worth, today, p) + (0 - o)
  <2> HIDE DEF P
  <2>1. o \in Int  BY <1>10
  <2>2. ~WithoutCash(books.position[p].group, books'.position[p].status)  BY DEF WithoutCash
  <2> QED  BY <1>2, <1>3, <1>4, <1>6, <1>9, <2>1, <2>2, EndedFigures
<1>12. GainNow(books', worth', today, q) = 0 /\ IntoNow(books', worth', today, q) = overP
  <2>1. /\ q \in DOMAIN books'.position /\ books'.position[q].end = None
        /\ books'.position[q].entry = "acquired" /\ books'.position[q].group = "investment"
    BY DEF Row
  <2>2. P = PriceOf(books, Currency[q], today)  BY <1>3
  <2> HIDE DEF P
  <2>3. /\ GainNow(books', worth', today, q) = 0
        /\ IntoNow(books', worth', today, q) =
             IF books'.position[q].entry = "newly_tracked" THEN 0
             ELSE SignedForNW(books', q, worth'[q] * P)
    BY <1>4, <2>1, <2>2, OpenedFigures
  <2> QED  BY <2>1, <2>3 DEF SignedForNW
<1>13. /\ GainNow(books, worth, today, p) \in Int /\ IntoNow(books, worth, today, p) \in Int
       /\ worth \in [Position -> Int]
  BY <1>1, <1>2, FiguresInt DEF Inv, InTime
<1>14. /\ At(Gains(books, worth, today), p) = GainNow(books, worth, today, p)
       /\ At(Intos(books, worth, today), p) = IntoNow(books, worth, today, p)
       /\ At(Gains(books, worth, today), q) = 0 /\ At(Intos(books, worth, today), q) = 0
  BY <1>2, AtIs
<1>15. /\ SumFunction(Gains(books', worth', today)) =
             SumFunction(Gains(books, worth, today))
             + (GainNow(books', worth', today, p) - At(Gains(books, worth, today), p))
             + (GainNow(books', worth', today, q) - At(Gains(books, worth, today), q))
       /\ SumFunction(Intos(books', worth', today)) =
             SumFunction(Intos(books, worth, today)) + (worth'[Bank] - worth[Bank])
             + (IntoNow(books', worth', today, p) - At(Intos(books, worth, today), p))
             + (IntoNow(books', worth', today, q) - At(Intos(books, worth, today), q))
  <2>1. /\ \A z \in DOMAIN books.position : z # Bank /\ z # p /\ z # q =>
             Kept(books, worth, books', worth', today, z)
        /\ books'.position[Bank] = books.position[Bank]
        /\ DOMAIN books'.position = DOMAIN books.position \cup {p, q}
        /\ q # Bank
    BY <1>1, <1>2, <1>9 DEF Kept
  <2> QED  BY <1>1, <1>4, <2>1, TripleSums
<1>16. /\ SumFunction(Gains(books, worth, today)) \in Int
       /\ SumFunction(Intos(books, worth, today)) \in Int
       /\ EarnedIncome(books, today) \in Int
  BY <1>1, <1>2, <1>13, FiguresTyped
<1>17. EarnedIncome(books', today) = EarnedIncome(books, today)
  BY <1>1, <1>8, EarnedSame
<1>18. Placement(books', today) = Placement(books, today) + n
  <2>1. \A z \in DOMAIN books.position :
          /\ books'.position[z].from = books.position[z].from
          /\ books'.position[z].principal = books.position[z].principal
          /\ books'.position[z].placed = books.position[z].placed
    BY <1>6
  <2>2. books'.position[q].from # None  BY <1>1, BooksAssumption DEF Row
  <2>3. FreshSum(books', today) = FreshSum(books, today)
    BY <1>1, <1>7, <1>8, <2>1, <2>2, FreshAdds
  <2>4. BookedNet(books, today) \in Int /\ FreshSum(books, today) \in Int  BY <1>1, PlacementIs
  <2>5. BookedNet(books', today) = BookedNet(books, today) + n  BY <1>9, <1>10
  <2>6. BookedNet(books', today) + FreshSum(books', today)
          = BookedNet(books, today) + FreshSum(books, today) + n
    BY <2>3, <2>4, <2>5
  <2> QED  BY <1>1, <1>2, <1>7, <2>6, PlacementAdds
<1>19. Shifts(books, worth, books', worth', today, 0, g, n)
  <2> DEFINE G == SumFunction(Gains(books, worth, today))
             I == SumFunction(Intos(books, worth, today))
             gain == GainNow(books, worth, today, p)
             into == IntoNow(books, worth, today, p)
             e == EarnedIncome(books, today)
             y == worth[Bank]
  <2>1. /\ G \in Int /\ I \in Int /\ gain \in Int /\ into \in Int /\ e \in Int /\ y \in Int
        /\ worth'[Bank] = y + outP /\ EarnedIncome(books', today) = e
    BY <1>1, <1>13, <1>16, <1>17
  <2>2. SumFunction(Gains(books', worth', today)) = G + ((gain + (o - w * P)) - gain) + (0 - 0)
    BY <1>11, <1>12, <1>14, <1>15
  <2>3. SumFunction(Intos(books', worth', today)) =
          I + ((y + outP) - y) + ((into + (0 - o)) - into) + (overP - 0)
    BY <1>11, <1>12, <1>14, <1>15, <2>1
  <2> DEFINE wP == w * P
  <2>4. wP \in Int /\ outP \in Int /\ overP \in Int /\ o = outP + overP /\ g = o - wP  BY <1>10
  <2>5. SumFunction(Gains(books', worth', today)) = G + ((gain + (o - wP)) - gain) + (0 - 0)
    BY <2>2
  <2> HIDE DEF G, I, gain, into, e, y, outP, overP, wP
  <2>6. SumFunction(Gains(books', worth', today)) = G + g  BY <2>1, <2>4, <2>5
  <2>7. SumFunction(Intos(books', worth', today)) = I  BY <2>1, <2>3, <2>4
  <2>8. e - 0 - I = e - I  BY <2>1
  <2> QED  BY <1>18, <2>1, <2>6, <2>7, <2>8 DEF Shifts, G, I, e
<1>20. Happens /\ Really(0, g, n) /\ 0 \in Int  OBVIOUS
<1> QED  BY <1>19, <1>20, DayInv

LEMMA MatureInv ==
  ASSUME Inv, NEW p \in Position \ {Bank}, NEW interest \in Int, NEW q \in Position \ {p},
         NEW rolled \in SUBSET {"principal", "interest"}, Mature(p, interest, q, rolled)
  PROVE  Upheld
<1> DEFINE principal == books.position[p].principal
           x == Txn(p, "maturity", 0, principal, interest, rolled)
           out == Part(x, {"principal", "interest"} \ rolled)
           over == Part(x, rolled)
           status == "matured"
           closed == Terminated(WithTxn(books, x), p, status)
           P == Price(p)
           g == (principal + interest - worth[p]) * P
           n == -out * P
<1>1. /\ Happens /\ Old(p) /\ Kind[p] = "time_deposit"
      /\ rolled # {} => q \notin DOMAIN books.position /\ Kind[q] = "time_deposit"
                        /\ Currency[q] = Currency[p]
      /\ worth' = [z \in Position |->
                    CASE z = p                   -> 0
                      [] z = q /\ rolled # {}    -> over
                      [] z = Bank                -> worth[z] + out * P
                      [] OTHER                   -> worth[z]]
      /\ books' = IF rolled = {} THEN closed
                  ELSE WithPosition(closed, q, Row(q, "acquired", over, p))
      /\ Really(0, g, n)
  BY DEF Mature, New
<1>2. /\ today \in Int /\ 1 <= today /\ worth \in [Position -> Int] /\ worth[Bank] \in Int
      /\ BooksOK(books, today) /\ p \in Position /\ p # Bank /\ IsFiniteSet(books.transaction)
      /\ Bank \in Position /\ PositionsOK(books, today)
  BY <1>1, InvFacts
<1>3. /\ p \in DOMAIN books.position /\ books.position[p].end = None /\ 1 < today
      /\ worth[p] \in Int /\ DOMAIN books.snapshot[p] # {}
  BY <1>1, OldFacts, RowFacts
<1>4. IsInvestment(p) /\ Kind[Bank] # "time_deposit"
  BY <1>1, <1>2, KindFacts, BooksAssumption
<1>5. principal \in Int
  BY <1>1, <1>2, <1>3 DEF PositionsOK, RowOK, Rows
<1>6. P \in Int /\ P = PriceOf(books, Currency[p], today)  BY <1>1, <1>2, PriceOK
<1>7. status \in Statuses /\ ~WithoutCash(GroupOf(p), status)  BY DEF Statuses, WithoutCash
<1> HIDE DEF principal
<1>8. MaturityOf(p, x, principal, interest, rolled)
  <2> DEFINE y == x
  <2>1. y = Txn(p, "maturity", 0, principal, interest, rolled)  OBVIOUS
  <2> HIDE DEF y
  <2>2. MaturityOf(p, y, principal, interest, rolled)  BY <1>2, <1>5, <2>1, MaturityIs
  <2> QED  BY <2>2 DEF y
<1> HIDE DEF x
<1>9. /\ EntryOf(p, x) /\ x.type = "maturity" /\ x.principal = principal
      /\ x.interest = interest /\ x.rolled = rolled
  BY <1>8 DEF MaturityOf
<1>10. /\ out \in Int /\ over \in Int /\ out + over = principal + interest
       /\ CashOut(x) = principal + interest /\ CashIn(x) = 0
       /\ NetOf(x) = -out /\ (rolled = {} => over = 0)
  BY <1>5, <1>9, PartsAre
<1> HIDE DEF out, over, closed, status
<1>11. CashOut(x) - CashIn(x) = out + over  BY <1>10
<1>12. /\ Enters(books, closed) /\ Closes(books, closed, p) /\ closed.position[p].status = status
       /\ closed.transaction = books.transaction \cup {x}
       /\ closed.income = books.income
       /\ DOMAIN closed.position = DOMAIN books.position
       /\ \A z \in DOMAIN books.position : z # p =>
            closed.position[z] = books.position[z] /\ closed.snapshot[z] = books.snapshot[z]
  <2>1. x.type \in {"sell", "maturity"} /\ closed = Terminated(WithTxn(books, x), p, status)
    BY <1>9 DEF closed
  <2> QED  BY <1>2, <1>3, <1>7, <1>9, <2>1, EnterEndTxn
<1>13. g \in Int /\ n \in Int /\ out * P \in Int /\ g = (out + over - worth[p]) * P
  <2> DEFINE y == worth[p]
  <2>1. y \in Int /\ g = (principal + interest - y) * P  BY <1>3
  <2>2. -out \in Int /\ principal + interest - y \in Int  BY <1>5, <1>10, <2>1
  <2> HIDE DEF P, y
  <2>3. (principal + interest - y) * P \in Int /\ out * P \in Int /\ -out * P \in Int
    BY <1>6, <1>10, <2>2, Times
  <2>4. g = (out + over - y) * P
    <3> DEFINE s == principal + interest - y
    <3>1. g = s * P  BY <2>1
    <3>2. /\ y \in Int /\ principal \in Int /\ interest \in Int /\ out \in Int /\ over \in Int
          /\ out + over = principal + interest
      BY <1>5, <1>10, <2>1
    <3>3. s = out + over - y  BY <3>2
    <3> HIDE DEF s, g
    <3> QED  BY <3>1, <3>3
  <2> QED  BY <2>1, <2>3, <2>4 DEF P, y
<1>14. worth' \in [Position -> Int]
  <2>1. worth[Bank] + out * P \in Int  BY <1>2, <1>13
  <2> DEFINE b == worth[Bank] + out * P
  <2>2. b \in Int /\ 0 \in Int /\ \A z \in Position : worth[z] \in Int  BY <1>2, <2>1
  <2>3. worth' = [z \in Position |-> CASE z = p                   -> 0
                                       [] z = q /\ rolled # {}    -> over
                                       [] z = Bank                -> b
                                       [] OTHER                   -> worth[z]]
    BY <1>1
  <2> HIDE DEF b
  <2> QED  BY <1>10, <2>2, <2>3
<1>15. /\ worth'[Bank] = worth[Bank] + out * P
       /\ rolled # {} => worth'[q] = over
       /\ \A z \in Position : z # p /\ z # Bank /\ (z # q \/ rolled = {}) => worth'[z] = worth[z]
  <2>1. rolled # {} => q # Bank  BY <1>1, <1>4
  <2> DEFINE b == worth[Bank] + out * P
  <2>2. worth' = [z \in Position |-> CASE z = p                   -> 0
                                       [] z = q /\ rolled # {}    -> over
                                       [] z = Bank                -> b
                                       [] OTHER                   -> worth[z]]
    BY <1>1
  <2> HIDE DEF b
  <2>3. worth'[Bank] = b  BY <1>2, <2>1, <2>2
  <2>4. rolled # {} => worth'[q] = over
    <3>1. q \in Position /\ q # p  OBVIOUS
    <3>2. ASSUME rolled # {}
          PROVE  (CASE q = p                   -> 0
                    [] q = q /\ rolled # {}    -> over
                    [] q = Bank                -> b
                    [] OTHER                   -> worth[q]) = over
      BY <2>1, <3>1, <3>2
    <3> QED  BY <2>2, <3>1, <3>2
  <2>5. \A z \in Position : z # p /\ z # Bank /\ (z # q \/ rolled = {}) => worth'[z] = worth[z]
    BY <2>2
  <2> QED  BY <2>3, <2>4, <2>5 DEF b
<1>16. CASE rolled = {}
  <2> DEFINE o == (CashOut(x) - CashIn(x)) * P
  <2>1. books' = closed  BY <1>1, <1>16
  <2>2. /\ Enters(books, books') /\ Closes(books, books', p) /\ books'.position[p].status = status
        /\ books'.transaction = books.transaction \cup {x} /\ books'.income = books.income
        /\ DOMAIN books'.position = DOMAIN books.position
        /\ \A z \in DOMAIN books.position : z # p => books'.position[z] = books.position[z]
    BY <1>12, <2>1
  <2>3. Step(books, worth, books', worth', today)  BY <1>2, <1>3, <1>14, <2>2, StepOf DEF Inv
  <2>4. /\ OwnOf(books', p, today) = OwnOf(books, p, today) + o
        /\ BookedNet(books', today) = BookedNet(books, today) + NetOf(x) * P
        /\ \A z : z # p => OwnOf(books', z, today) = OwnOf(books, z, today)
    <3> HIDE DEF P
    <3>1. /\ x.of = p /\ x.month = today /\ x.no = Cardinality(books.transaction)
          /\ x.currency = Currency[p]
      BY <1>9 DEF EntryOf
    <3> QED  BY <1>3, <1>6, <2>2, <2>3, <3>1, EntryAdds
  <2>5. o \in Int /\ g = o - worth[p] * P /\ o = out * P /\ NetOf(x) * P = n
    <3> DEFINE y == worth[p]
    <3>1. y \in Int /\ g = (out - y) * P /\ o = out * P
      BY <1>3, <1>10, <1>11, <1>13, <1>16
    <3> HIDE DEF P, y, o
    <3>2. (out - y) * P = out * P - y * P /\ (-out) * P = -out * P /\ out * P \in Int
      BY <1>6, <1>10, <3>1, Times
    <3>3. NetOf(x) * P = (-out) * P  BY <1>10
    <3> QED  BY <3>1, <3>2, <3>3 DEF y
  <2>6. Placement(books', today) = Placement(books, today) + n
    <3>1. BookedNet(books', today) = BookedNet(books, today) + n  BY <2>4, <2>5
    <3> QED  BY <1>1, <1>3, <1>13, <2>2, <3>1, EndPlaces
  <2>7. /\ g = o - worth[p] * Price(p) /\ worth'[Bank] = worth[Bank] + o
        /\ \A z \in Position : z # p /\ z # Bank => worth'[z] = worth[z]
    BY <1>15, <1>16, <2>5
  <2> HIDE DEF o, g, n, P
  <2> QED
    BY <1>1, <1>3, <1>4, <1>7, <1>13, <1>14, <2>2, <2>4, <2>5, <2>6, <2>7, EndInv
<1>17. CASE rolled # {}
  <2>1. /\ q \in Position \ {Bank} /\ q # p /\ q \notin DOMAIN books.position
        /\ Kind[q] = "time_deposit" /\ Currency[q] = Currency[p] /\ GroupOf(q) = "investment"
    BY <1>1, <1>4, <1>17 DEF GroupOf
  <2> DEFINE entry == "acquired"
  <2>2. /\ entry \in {"acquired", "newly_tracked"}
        /\ books' = WithPosition(closed, q, Row(q, entry, over, p))
        /\ over \in Int \cup {None} /\ over # None
    BY <1>1, <1>10, <1>17, NoneAssumption
  <2> HIDE DEF entry
  <2>3. Enters(books, books') /\ Begins(closed, books', q, Row(q, entry, over, p))
    BY <1>2, <1>3, <1>12, <2>1, <2>2, EnterOpen
  <2>4. /\ DOMAIN books'.position = DOMAIN books.position \cup {q}
        /\ books'.transaction = books.transaction \cup {x} /\ books'.income = books.income
        /\ books'.position[q] = Row(q, "acquired", over, p)
        /\ \A z \in DOMAIN books.position :
             books'.position[z] = closed.position[z] /\ books'.snapshot[z] = closed.snapshot[z]
    BY <1>12, <2>1, <2>3 DEF Begins, entry
  <2>5. Closes(books, books', p)
    BY <1>3, <1>12, <2>4, ClosesOn
  <2>6. /\ books'.position[p].status = "matured"
        /\ \A z \in DOMAIN books.position : z # p => books'.position[z] = books.position[z]
    BY <1>3, <1>12, <2>4 DEF status
  <2>7. /\ worth'[q] = over /\ worth'[Bank] = worth[Bank] + out * Price(p)
        /\ \A z \in Position : z # p /\ z # q /\ z # Bank => worth'[z] = worth[z]
    BY <1>15, <1>17
  <2>8. g = (out + over - worth[p]) * Price(p) /\ n = -out * Price(p)  BY <1>13
  <2> HIDE DEF g, n, P
  <2>10. Splits(x, out, over)  BY <1>10, <1>11 DEF Splits
  <2>9. Happens /\ Old(p) /\ Really(0, g, n)  BY <1>1
  <2> QED
    BY <1>4, <1>9, <1>13, <1>14, <2>1, <2>3, <2>4, <2>5, <2>6, <2>7, <2>8, <2>9, <2>10,
       RollInv
<1> QED  BY <1>16, <1>17

----------------------------------------------------------------------------
(* The end of a month *)

\* p is recorded at what it is worth, or left to carry forward if that is what it
\* was recorded at.
RecordedAt(b, c, w, t, p) ==
  \/ /\ b.position[p].end = None
     /\ DOMAIN c.snapshot[p] = DOMAIN b.snapshot[p] \cup {t}
     /\ c.snapshot[p][t] = [amount |-> w[p], currency |-> Currency[p]]
     /\ \A n \in DOMAIN b.snapshot[p] : n # t => c.snapshot[p][n] = b.snapshot[p][n]
  \/ /\ c.snapshot[p] = b.snapshot[p]
     /\ b.position[p].end = None =>
          DOMAIN b.snapshot[p] # {} /\ w[p] = LatestAtOrBefore(b.snapshot[p], t).amount

RatedAt(b, c, t, rate) ==
  \/ c.rate[Other] = b.rate[Other] /\ rate = RateAt(b, t)
  \/ /\ DOMAIN c.rate[Other] = DOMAIN b.rate[Other] \cup {t + 1}
     /\ c.rate[Other][t + 1] = rate
     /\ \A n \in DOMAIN b.rate[Other] : n # t + 1 => c.rate[Other][n] = b.rate[Other][n]

\* Month t of books b ends, and the next begins with books c.
Turns(b, c, w, t, rate) ==
  /\ t \in Int /\ 1 <= t /\ BooksOK(b, t) /\ w \in [Position -> Int] /\ rate \in Int
  /\ DOMAIN c = Fields /\ c.position = b.position /\ c.transaction = b.transaction
  /\ c.income = b.income /\ c.multi = b.multi
  /\ DOMAIN c.snapshot = DOMAIN b.position
  /\ \A p \in DOMAIN b.position : RecordedAt(b, c, w, t, p)
  /\ DOMAIN c.rate = {Other} /\ RatedAt(b, c, t, rate)

LEMMA TurnsIs ==
  ASSUME Inv, NEW lazy \in BOOLEAN, NEW rate \in Int, EndMonth(lazy, rate)
  PROVE  Turns(books, books', worth, today, rate)
<1> DEFINE due == {p \in Position : Held(p) /\ ~(lazy /\ DOMAIN books.snapshot[p] # {}
                                                      /\ worth[p] = LastRecorded(p))}
           was == LatestAtOrBefore(books.rate[Other], today)
<1>1. books' = [books EXCEPT
           !.snapshot = [p \in DOMAIN @ |->
              IF p \in due THEN Put(@[p], today, [amount |-> worth[p], currency |-> Currency[p]])
              ELSE @[p]],
           !.rate[Other] = IF rate = was THEN @ ELSE Put(@, today + 1, rate)]
  BY DEF EndMonth
<1>2. /\ today \in Int /\ 1 <= today /\ BooksOK(books, today) /\ worth \in [Position -> Int]
  BY BooksAssumption DEF Inv, InTime
<1>3. /\ DOMAIN books = Fields /\ DOMAIN books.snapshot = DOMAIN books.position
      /\ DOMAIN books.rate = {Other} /\ DOMAIN books.position \subseteq Position
      /\ IsFiniteSet(DOMAIN books.position)
  BY <1>2 DEF BooksOK, PositionsOK, RatesOK
<1>4. /\ DOMAIN books' = Fields /\ books'.position = books.position
      /\ books'.transaction = books.transaction
      /\ books'.income = books.income /\ books'.multi = books.multi
      /\ books'.snapshot = [p \in DOMAIN books.snapshot |->
              IF p \in due THEN Put(books.snapshot[p], today,
                                    [amount |-> worth[p], currency |-> Currency[p]])
              ELSE books.snapshot[p]]
      /\ books'.rate = [books.rate EXCEPT ![Other] =
                          IF rate = was THEN @ ELSE Put(@, today + 1, rate)]
  <2> HIDE DEF due, was
  <2> QED  BY <1>1, <1>3 DEF Fields
<1>5. ASSUME NEW p \in DOMAIN books.position PROVE RecordedAt(books, books', worth, today, p)
  <2>1. CASE p \in due
    <3>1. books'.snapshot[p] = Put(books.snapshot[p], today,
                                   [amount |-> worth[p], currency |-> Currency[p]])
      <4> HIDE DEF due
      <4> QED  BY <1>3, <1>4, <2>1
    <3>2. books.position[p].end = None  BY <2>1 DEF Held
    <3>3. /\ DOMAIN books'.snapshot[p] = DOMAIN books.snapshot[p] \cup {today}
          /\ books'.snapshot[p][today] = [amount |-> worth[p], currency |-> Currency[p]]
          /\ \A n \in DOMAIN books.snapshot[p] : n # today =>
               books'.snapshot[p][n] = books.snapshot[p][n]
      BY <3>1 DEF Put
    <3> QED  BY <3>2, <3>3 DEF RecordedAt
  <2>2. CASE p \notin due
    <3>1. books'.snapshot[p] = books.snapshot[p]
      <4> HIDE DEF due
      <4> QED  BY <1>3, <1>4, <2>2
    <3>2. books.position[p].end = None =>
            DOMAIN books.snapshot[p] # {} /\ worth[p] = LastRecorded(p)
      BY <1>3, <2>2 DEF Held
    <3> QED  BY <3>1, <3>2 DEF RecordedAt, LastRecorded
  <2> QED  BY <2>1, <2>2
<1>6. RatedAt(books, books', today, rate)
  <2>1. was = RateAt(books, today)  BY DEF RateAt
  <2> HIDE DEF was
  <2>2. books'.rate[Other] = IF rate = was THEN books.rate[Other]
                             ELSE Put(books.rate[Other], today + 1, rate)
    BY <1>3, <1>4
  <2>3. CASE rate = was  BY <2>1, <2>2, <2>3 DEF RatedAt
  <2>4. CASE rate # was
    <3>1. books'.rate[Other] = Put(books.rate[Other], today + 1, rate)  BY <2>2, <2>4
    <3>2. /\ DOMAIN books'.rate[Other] = DOMAIN books.rate[Other] \cup {today + 1}
          /\ books'.rate[Other][today + 1] = rate
          /\ \A n \in DOMAIN books.rate[Other] : n # today + 1 =>
               books'.rate[Other][n] = books.rate[Other][n]
      BY <3>1 DEF Put
    <3> QED  BY <3>2 DEF RatedAt
  <2> QED  BY <2>3, <2>4
<1>7. DOMAIN books'.rate = {Other} /\ DOMAIN books'.snapshot = DOMAIN books.position
  BY <1>3, <1>4
<1> QED  BY <1>2, <1>4, <1>5, <1>6, <1>7 DEF Turns

LEMMA TurnsOK ==
  ASSUME NEW b, NEW c, NEW w, NEW t, NEW rate, Turns(b, c, w, t, rate)
  PROVE  BooksOK(c, t + 1)
<1>1. /\ t \in Int /\ 1 <= t /\ t + 1 \in Int /\ DOMAIN c = Fields /\ c.position = b.position
      /\ c.transaction = b.transaction /\ c.income = b.income /\ c.multi = b.multi
      /\ DOMAIN c.snapshot = DOMAIN b.position
      /\ PositionsOK(b, t) /\ BankOK(b, t) /\ RatesOK(b, t) /\ TxnsOK(b, t) /\ IncomeOK(b, t)
      /\ RollsOK(b) /\ SettledOK(b)
      /\ \A p \in DOMAIN b.position : RecordedAt(b, c, w, t, p)
  BY DEF Turns, BooksOK
<1>2. PositionsOK(c, t + 1)
  <2>1. ASSUME NEW p \in DOMAIN b.position PROVE RowOK(p, c.position[p], t + 1)
    BY <1>1 DEF PositionsOK, RowOK, Rows
  <2>2. ASSUME NEW p \in DOMAIN b.position
        PROVE  SeriesOK(p, c.position[p], c.snapshot[p], t + 1)
    <3> DEFINE row == b.position[p]  s == b.snapshot[p]  r == c.snapshot[p]
    <3>1. RowOK(p, row, t) /\ SeriesOK(p, row, s, t) /\ p \in Position  BY <1>1 DEF PositionsOK
    <3>2. c.position[p] = row  BY <1>1
    <3>3. w[p] \in Int  BY <3>1 DEF Turns
    <3>4. CASE r = s
      <4>1. \A n \in DOMAIN s : n \in Int /\ n <= t  BY <1>1, <3>1 DEF SeriesOK
      <4> HIDE DEF row, s, r
      <4>2. /\ DOMAIN s \subseteq 1 .. t + 1
            /\ \A n \in DOMAIN s : n < t + 1
        BY <1>1, <3>1, <4>1 DEF SeriesOK
      <4>3. SeriesOK(p, row, s, t + 1)  BY <1>1, <3>1, <4>2 DEF SeriesOK
      <4> QED  BY <3>2, <3>4, <4>3 DEF r
    <3>5. CASE r # s
      <4>1. /\ row.end = None /\ DOMAIN r = DOMAIN s \cup {t}
            /\ r[t] = [amount |-> w[p], currency |-> Currency[p]]
            /\ \A n \in DOMAIN s : n # t => r[n] = s[n]
        BY <1>1, <3>5 DEF RecordedAt
      <4> HIDE DEF row, s, r
      <4>2. \A n \in DOMAIN s : n \in Int /\ n < t  BY <1>1, <3>1, <4>1 DEF SeriesOK
      <4>3. DOMAIN r \subseteq 1 .. t + 1 /\ \A n \in DOMAIN r : n < t + 1
        BY <1>1, <3>1, <4>1, <4>2 DEF SeriesOK
      <4>4. \A n \in DOMAIN r : r[n].amount \in Int /\ r[n].currency = Currency[p]
        BY <3>1, <3>3, <4>1, <4>2 DEF SeriesOK
      <4>5. row.principal # None => \A n \in DOMAIN r : row.placed <= n
        BY <1>1, <3>1, <4>1 DEF SeriesOK, RowOK
      <4>6. SeriesOK(p, row, r, t + 1)  BY <4>1, <4>3, <4>4, <4>5 DEF SeriesOK
      <4> QED  BY <3>2, <4>6 DEF r
    <3> QED  BY <3>4, <3>5
  <2> QED  BY <1>1, <2>1, <2>2 DEF PositionsOK
<1>3. BankOK(c, t + 1)
  <2>1. Bank \in DOMAIN b.position /\ b.position[Bank].end = None  BY <1>1 DEF BankOK
  <2>2. SeriesOK(Bank, b.position[Bank], b.snapshot[Bank], t) /\ RecordedAt(b, c, w, t, Bank)
    BY <1>1, <2>1 DEF PositionsOK
  <2>3. CASE 1 < t
    <3>1. 1 \in DOMAIN b.snapshot[Bank]  BY <1>1, <2>3 DEF BankOK
    <3>2. 1 \in DOMAIN c.snapshot[Bank]  BY <2>2, <3>1 DEF RecordedAt
    <3> QED  BY <1>1, <2>1, <3>2 DEF BankOK
  <2>4. CASE t = 1
    <3>1. DOMAIN b.snapshot[Bank] = {}  BY <2>1, <2>2, <2>4 DEF SeriesOK
    <3>2. 1 \in DOMAIN c.snapshot[Bank]  BY <2>1, <2>2, <2>4, <3>1 DEF RecordedAt
    <3> QED  BY <1>1, <2>1, <3>2 DEF BankOK
  <2> QED  BY <1>1, <2>3, <2>4
<1>4. RatesOK(c, t + 1)
  <2> DEFINE s == b.rate[Other]  r == c.rate[Other]
  <2>1. /\ b.multi = TRUE /\ 1 \in DOMAIN s /\ DOMAIN s \subseteq 1 .. t
        /\ \A n \in DOMAIN s : s[n] \in Int
    BY <1>1 DEF RatesOK
  <2>2. /\ DOMAIN c.rate = {Other} /\ rate \in Int /\ c.multi = TRUE
        /\ \/ r = s
           \/ /\ DOMAIN r = DOMAIN s \cup {t + 1} /\ r[t + 1] = rate
              /\ \A n \in DOMAIN s : n # t + 1 => r[n] = s[n]
    BY <2>1 DEF Turns, RatedAt
  <2> HIDE DEF s, r
  <2>3. 1 \in DOMAIN r /\ DOMAIN r \subseteq 1 .. t + 1  BY <1>1, <2>1, <2>2
  <2>4. \A n \in DOMAIN r : r[n] \in Int  BY <1>1, <2>1, <2>2
  <2> QED  BY <2>2, <2>3, <2>4 DEF RatesOK, r
<1>5. TxnsOK(c, t + 1)  BY <1>1 DEF TxnsOK
<1>6. IncomeOK(c, t + 1)  BY <1>1 DEF IncomeOK
<1>7. RollsOK(c)
  <2> SUFFICES ASSUME NEW q \in DOMAIN b.position, b.position[q].from # None,
                      NEW p, p = b.position[q].from
               PROVE  /\ p \in DOMAIN b.position /\ b.position[p].end # None
                      /\ \A x \in b.transaction : x.of = p /\ x.type = "maturity" =>
                           \A n \in DOMAIN c.snapshot[q] : x.month <= n
    BY <1>1 DEF RollsOK
  <2>1. /\ p \in DOMAIN b.position /\ b.position[p].end # None
        /\ \A x \in b.transaction : x.of = p /\ x.type = "maturity" =>
             \A n \in DOMAIN b.snapshot[q] : x.month <= n
    BY <1>1 DEF RollsOK
  <2>2. \A x \in b.transaction : x.month \in 1 .. t  BY <1>1 DEF TxnsOK
  <2>3. \A n \in DOMAIN c.snapshot[q] : n \in DOMAIN b.snapshot[q] \/ n = t
    BY <1>1 DEF RecordedAt
  <2> QED  BY <1>1, <2>1, <2>2, <2>3
<1>8. SettledOK(c)  BY <1>1 DEF SettledOK
<1> QED  BY <1>1, <1>2, <1>3, <1>4, <1>5, <1>6, <1>7, <1>8 DEF BooksOK

LEMMA TurnsAlike ==
  ASSUME NEW b, NEW c, NEW w, NEW t, NEW rate, Turns(b, c, w, t, rate),
         NEW m \in Int, 1 <= m, m < t
  PROVE  Alike(b, t, c, t + 1, m)
<1>1. /\ t \in Int /\ 1 <= t /\ t + 1 \in Int /\ BooksOK(b, t) /\ c.position = b.position
      /\ c.transaction = b.transaction /\ c.income = b.income
      /\ \A p \in DOMAIN b.position : RecordedAt(b, c, w, t, p)
      /\ RatedAt(b, c, t, rate)
  BY DEF Turns
<1>2. BooksOK(c, t + 1)  BY TurnsOK
<1>3. SameUpTo(b.rate[Other], c.rate[Other], m)  BY <1>1 DEF RatedAt, SameUpTo
<1>4. ASSUME NEW p \in DOMAIN b.position PROVE SameUpTo(b.snapshot[p], c.snapshot[p], m)
  <2> DEFINE s == b.snapshot[p]  r == c.snapshot[p]
  <2>1. \/ r = s
        \/ DOMAIN r = DOMAIN s \cup {t} /\ \A n \in DOMAIN s : n # t => r[n] = s[n]
    BY <1>1 DEF RecordedAt
  <2> HIDE DEF r, s
  <2>2. SameUpTo(s, r, m)  BY <1>1, <2>1 DEF SameUpTo
  <2> QED  BY <2>2 DEF r, s
<1>5. Agree(b, c, m)  BY <1>1, <1>3, <1>4 DEF Agree
<1> QED  BY <1>1, <1>2, <1>5 DEF Alike

\* What ended is carried as nothing.
LEMMA EndedCarried ==
  ASSUME NEW b, NEW t \in Int, BooksOK(b, t), NEW p \in DOMAIN b.position,
         b.position[p].end # None, NEW m \in Int, 1 <= m, b.position[p].end <= m
  PROVE  IsCarried(b, p, m) /\ Carried(b, p, m) = 0
<1> DEFINE s == b.snapshot[p]  e == b.position[p].end
<1>1. PositionsOK(b, t) /\ RatesOK(b, t)  BY DEF BooksOK
<1>2. SeriesOK(p, b.position[p], s, t) /\ b.position[p] \in Rows /\ p \in Position
  BY <1>1 DEF PositionsOK, RowOK
<1>3. /\ e \in DOMAIN s /\ s[e].amount = 0 /\ DOMAIN s \subseteq Int /\ e <= m
      /\ \A n \in DOMAIN s : n <= e
  BY <1>2 DEF SeriesOK
<1> HIDE DEF s, e
<1>4. Latest(s, m) # {} /\ LatestAtOrBefore(s, m) = s[e]  BY <1>3, LatestIs
<1>5. IsCarried(b, p, m)  BY <1>1, <1>4, CarriedIs DEF s
<1>6. Carried(b, p, m) = LatestAtOrBefore(b.snapshot[p], m).amount * PriceOf(b, Currency[p], m)
  BY <1>1, <1>5, CarriedIs
<1>7. Currency[p] \in {Home, Other}  BY <1>2, BooksAssumption
<1>8. PriceOf(b, Currency[p], m) \in Int  BY <1>1, <1>7, PriceIs
<1> DEFINE P == PriceOf(b, Currency[p], m)
<1>9. Carried(b, p, m) = 0 * P /\ P \in Int  BY <1>3, <1>4, <1>6, <1>8 DEF s
<1> HIDE DEF P
<1>10. 0 * P = 0  BY <1>9
<1> QED  BY <1>5, <1>9, <1>10

\* What things cost in the month that ended, and in the next.
LEMMA TurnsPrices ==
  ASSUME NEW b, NEW c, NEW w, NEW t, NEW rate, Turns(b, c, w, t, rate)
  PROVE  /\ \A currency \in {Home, Other} :
              /\ PriceOf(c, currency, t) = PriceOf(b, currency, t)
              /\ Convertible(c, currency, t) /\ Convertible(b, currency, t)
              /\ \A a \in Int : Convert(c, a, currency, t) = Convert(b, a, currency, t)
         /\ PriceOf(c, Other, t + 1) = rate /\ PriceOf(c, Home, t + 1) = 1
         /\ PriceOf(b, Other, t) = RateAt(b, t) /\ PriceOf(b, Home, t) = 1
         /\ RateAt(b, t) \in Int
<1> DEFINE s == b.rate[Other]  r == c.rate[Other]
<1>1. /\ t \in Int /\ 1 <= t /\ t + 1 \in Int /\ rate \in Int /\ Home # Other
      /\ RatesOK(b, t) /\ RatesOK(c, t + 1)
      /\ \/ r = s /\ rate = LatestAtOrBefore(s, t)
         \/ /\ DOMAIN r = DOMAIN s \cup {t + 1} /\ r[t + 1] = rate
            /\ \A n \in DOMAIN s : n # t + 1 => r[n] = s[n]
  <2>1. BooksOK(c, t + 1)  BY TurnsOK
  <2>2. RatesOK(c, t + 1)  BY <2>1 DEF BooksOK
  <2>3. t \in Int /\ 1 <= t /\ rate \in Int /\ BooksOK(b, t) /\ RatedAt(b, c, t, rate)
    BY DEF Turns
  <2>4. RatesOK(b, t)  BY <2>3 DEF BooksOK
  <2>5. \/ r = s /\ rate = LatestAtOrBefore(s, t)
        \/ /\ DOMAIN r = DOMAIN s \cup {t + 1} /\ r[t + 1] = rate
           /\ \A n \in DOMAIN s : n # t + 1 => r[n] = s[n]
    BY <2>3 DEF RatedAt, RateAt
  <2> HIDE DEF r, s
  <2> QED  BY <2>2, <2>3, <2>4, <2>5, BooksAssumption
<1>2. /\ 1 \in DOMAIN s /\ DOMAIN s \subseteq 1 .. t /\ DOMAIN s \subseteq Int
      /\ DOMAIN r \subseteq 1 .. t + 1 /\ DOMAIN r \subseteq Int
      /\ \A n \in DOMAIN s : s[n] \in Int
  BY <1>1 DEF RatesOK
<1> HIDE DEF s, r
<1>3. Latest(s, t) # {} /\ Max(Latest(s, t)) \in DOMAIN s
  <2>1. 1 \in Latest(s, t)  BY <1>1, <1>2 DEF Latest
  <2> QED  BY <1>1, <1>2, <2>1, LatestIn
<1>4. SameUpTo(s, r, t)  BY <1>1, <1>2 DEF SameUpTo
<1>5. LatestAtOrBefore(r, t) = LatestAtOrBefore(s, t)
  BY <1>1, <1>2, <1>3, <1>4, SameLatest
<1>6. LatestAtOrBefore(r, t + 1) = rate
  <2>1. CASE r = s /\ rate = LatestAtOrBefore(s, t)
    <3>1. Latest(s, t + 1) = Latest(s, t)  BY <1>1, <1>2 DEF Latest
    <3> QED  BY <2>1, <3>1 DEF LatestAtOrBefore
  <2>2. CASE DOMAIN r = DOMAIN s \cup {t + 1} /\ r[t + 1] = rate
    <3>1. t + 1 \in DOMAIN r /\ \A k \in DOMAIN r : k <= t + 1 => k <= t + 1  BY <2>2
    <3>2. LatestAtOrBefore(r, t + 1) = r[t + 1]  BY <1>1, <1>2, <3>1, LatestIs
    <3> QED  BY <2>2, <3>2
  <2> QED  BY <1>1, <2>1, <2>2
<1>7. RateAt(c, t) = RateAt(b, t) /\ RateAt(c, t + 1) = rate /\ RateAt(b, t) \in Int
  BY <1>2, <1>3, <1>5, <1>6 DEF RateAt, r, s, LatestAtOrBefore
<1>8. /\ PriceOf(c, Other, t + 1) = rate /\ PriceOf(c, Home, t + 1) = 1
      /\ PriceOf(b, Other, t) = RateAt(b, t) /\ PriceOf(b, Home, t) = 1
      /\ \A currency \in {Home, Other} : PriceOf(c, currency, t) = PriceOf(b, currency, t)
  BY <1>1, <1>7 DEF PriceOf
<1>9. ASSUME NEW currency \in {Home, Other}
      PROVE  /\ Convertible(c, currency, t) /\ Convertible(b, currency, t)
             /\ \A a \in Int : Convert(c, a, currency, t) = Convert(b, a, currency, t)
  <2>1. /\ Convertible(b, currency, t)
        /\ \A a \in Int : Convert(b, a, currency, t) = a * PriceOf(b, currency, t)
    BY <1>1, PriceIs
  <2>2. /\ Convertible(c, currency, t)
        /\ \A a \in Int : Convert(c, a, currency, t) = a * PriceOf(c, currency, t)
    BY <1>1, PriceIs
  <2> QED  BY <1>8, <2>1, <2>2
<1> QED  BY <1>7, <1>8, <1>9

\* Everything that is held is carried at what it is worth.
LEMMA TurnsCarried ==
  ASSUME NEW b, NEW c, NEW w, NEW t, NEW rate, Turns(b, c, w, t, rate),
         NEW p \in DOMAIN b.position
  PROVE  /\ Latest(c.snapshot[p], t) # {} /\ IsCarried(c, p, t)
         /\ Carried(c, p, t) = NowOf(b, w, t, p) /\ NowOf(b, w, t, p) \in Int
<1>1. /\ t \in Int /\ 1 <= t /\ t + 1 \in Int /\ c.position = b.position
      /\ RecordedAt(b, c, w, t, p) /\ w \in [Position -> Int]
      /\ PositionsOK(b, t) /\ RatesOK(b, t) /\ BooksOK(c, t + 1)
      /\ PositionsOK(c, t + 1) /\ RatesOK(c, t + 1)
  BY TurnsOK DEF Turns, BooksOK
<1>2. /\ p \in Position /\ Currency[p] \in {Home, Other} /\ b.position[p] \in Rows
      /\ SeriesOK(p, b.position[p], b.snapshot[p], t)
  BY <1>1, BooksAssumption DEF PositionsOK, RowOK
<1>3. PriceOf(c, Currency[p], t) = PriceOf(b, Currency[p], t)  BY <1>2, TurnsPrices
<1>3a. PriceOf(b, Currency[p], t) \in Int  BY <1>1, <1>2, PriceIs
<1>4. CASE b.position[p].end = None
  <2> DEFINE s == b.snapshot[p]  r == c.snapshot[p]
  <2>1. /\ DOMAIN s \subseteq Int /\ \A n \in DOMAIN s : n < t
    BY <1>1, <1>2, <1>4 DEF SeriesOK
  <2>2. \/ /\ DOMAIN r = DOMAIN s \cup {t} /\ r[t].amount = w[p]
        \/ r = s /\ DOMAIN s # {} /\ w[p] = LatestAtOrBefore(s, t).amount
    BY <1>1, <1>4 DEF RecordedAt
  <2> HIDE DEF s, r
  <2>3. Latest(r, t) # {} /\ LatestAtOrBefore(r, t).amount = w[p]
    <3>1. CASE DOMAIN r = DOMAIN s \cup {t} /\ r[t].amount = w[p]
      <4>1. /\ DOMAIN r \subseteq Int /\ t \in DOMAIN r /\ \A k \in DOMAIN r : k <= t => k <= t
        BY <1>1, <2>1, <3>1
      <4>2. t <= t  BY <1>1
      <4>3. Latest(r, t) # {} /\ LatestAtOrBefore(r, t) = r[t]  BY <1>1, <4>1, <4>2, LatestIs
      <4> QED  BY <3>1, <4>3
    <3>2. CASE r = s /\ DOMAIN s # {} /\ w[p] = LatestAtOrBefore(s, t).amount
      <4>1. \A n \in DOMAIN s : n <= t  BY <1>1, <2>1
      <4> QED  BY <3>2, <4>1 DEF Latest
    <3> QED  BY <2>2, <3>1, <3>2
  <2>4. IsCarried(c, p, t)  BY <1>1, <2>3, CarriedIs DEF r
  <2>5. Carried(c, p, t) = w[p] * PriceOf(c, Currency[p], t)
    <3>1. Carried(c, p, t) =
            LatestAtOrBefore(c.snapshot[p], t).amount * PriceOf(c, Currency[p], t)
      BY <1>1, <2>4, CarriedIs
    <3> QED  BY <2>3, <3>1 DEF r
  <2>6. NowOf(b, w, t, p) = w[p] * PriceOf(b, Currency[p], t)  BY <1>4 DEF NowOf
  <2>7. w[p] \in Int  BY <1>1, <1>2
  <2>8. w[p] * PriceOf(b, Currency[p], t) \in Int  BY <1>3a, <2>7, Times
  <2> QED  BY <1>3, <2>3, <2>4, <2>5, <2>6, <2>8 DEF r
<1>5. CASE b.position[p].end # None
  <2>1. b.position[p].end \in Int /\ b.position[p].end <= t
    BY <1>1, <1>2, <1>5 DEF PositionsOK, RowOK, Rows
  <2>2. IsCarried(c, p, t) /\ Carried(c, p, t) = 0
    BY <1>1, <1>5, <2>1, EndedCarried
  <2>3. Latest(c.snapshot[p], t) # {}  BY <2>2 DEF IsCarried
  <2>4. NowOf(b, w, t, p) = 0  BY <1>5 DEF NowOf
  <2> QED  BY <2>2, <2>3, <2>4
<1> QED  BY <1>4, <1>5

\* What was booked in the month stays what it was.
LEMMA TurnsBooked ==
  ASSUME NEW b, NEW c, NEW w, NEW t, NEW rate, Turns(b, c, w, t, rate)
  PROVE  /\ \A p : OwnOf(c, p, t) = OwnOf(b, p, t)
         /\ Placement(c, t) = Placement(b, t)
         /\ EarnedIncome(c, t) = EarnedIncome(b, t)
<1>1. /\ t \in Int /\ 1 <= t /\ t + 1 \in Int /\ c.position = b.position
      /\ c.transaction = b.transaction /\ c.income = b.income
      /\ BooksOK(b, t) /\ BooksOK(c, t + 1)
  BY TurnsOK DEF Turns
<1>2. /\ PositionsOK(b, t) /\ RatesOK(b, t) /\ TxnsOK(b, t) /\ IncomeOK(b, t)
      /\ PositionsOK(c, t + 1) /\ RatesOK(c, t + 1) /\ TxnsOK(c, t + 1) /\ IncomeOK(c, t + 1)
  BY <1>1 DEF BooksOK
<1>3. \A currency \in {Home, Other} :
        /\ PriceOf(c, currency, t) = PriceOf(b, currency, t)
        /\ \A a \in Int : Convert(c, a, currency, t) = Convert(b, a, currency, t)
  BY TurnsPrices
<1>4. /\ Booked(c, t) = Booked(b, t) /\ IsFiniteSet(Booked(b, t))
      /\ \A x \in Booked(b, t) : /\ x.currency \in {Home, Other}
                                 /\ CashOut(x) \in Int /\ CashIn(x) \in Int
  <2>1. /\ Booked(b, t) = {x \in b.transaction : x.month = t} /\ IsFiniteSet(Booked(b, t))
        /\ \A x \in Booked(b, t) :
              /\ x.currency \in {Home, Other} /\ x.amount \in Int
              /\ x.principal \in Int /\ x.interest \in Int
              /\ CashOut(x) \in Int /\ CashIn(x) \in Int
              /\ \A parts : Part(x, parts) \in Int
    BY <1>1, <1>2, BookedIs
  <2>2. Booked(c, t) = {x \in c.transaction : x.month = t}  BY <1>1, <1>2, BookedIs
  <2> QED  BY <1>1, <2>1, <2>2
<1>5. ASSUME NEW p PROVE OwnOf(c, p, t) = OwnOf(b, p, t)
  <2> DEFINE S == {x \in Booked(b, t) : x.of = p}
             f == [x \in S |-> Convert(b, CashOut(x) - CashIn(x), x.currency, t)]
             g == [x \in S |-> Convert(c, CashOut(x) - CashIn(x), x.currency, t)]
  <2>1. IsFiniteSet(S)  BY <1>4, FS_Subset
  <2>2. \A x \in S : CashOut(x) - CashIn(x) \in Int  BY <1>4
  <2>3. /\ DOMAIN f = S /\ DOMAIN g = S /\ \A x \in S : g[x] = f[x]
    BY <1>3, <1>4, <2>2
  <2>4. OwnOf(c, p, t) = SumFunction(g) /\ OwnOf(b, p, t) = SumFunction(f)
    BY <1>4 DEF OwnOf, SumOver
  <2> HIDE DEF f, g, S
  <2>5. SumFunction(g) = SumFunction(f)  BY <2>1, <2>3, SumSame
  <2> QED  BY <2>4, <2>5
<1>6. BookedNet(c, t) = BookedNet(b, t)
  <2> DEFINE S == Booked(b, t)
             f == [x \in S |-> Convert(b, NetOf(x), x.currency, t)]
             g == [x \in S |-> Convert(c, NetOf(x), x.currency, t)]
  <2>1. \A x \in S : NetOf(x) \in Int  BY <1>1, <1>2, PlacementIs
  <2>2. DOMAIN f = S /\ DOMAIN g = S /\ \A x \in S : g[x] = f[x]  BY <1>3, <1>4, <2>1
  <2>3. BookedNet(c, t) = SumFunction(g) /\ BookedNet(b, t) = SumFunction(f)
    BY <1>4 DEF BookedNet, SumOver
  <2>4. IsFiniteSet(S)  BY <1>4
  <2> HIDE DEF f, g, S
  <2>5. SumFunction(g) = SumFunction(f)  BY <2>2, <2>4, SumSame
  <2> QED  BY <2>3, <2>5
<1>7. FreshSum(c, t) = FreshSum(b, t)
  <2> DEFINE S == FreshPlacements(b, t)
             f == [p \in S |-> PlacementOf(b, p, t)]
             g == [p \in S |-> PlacementOf(c, p, t)]
  <2>1. /\ FreshPlacements(b, t) =
             {p \in DOMAIN b.position : /\ b.position[p].from = None
                                        /\ b.position[p].principal # None
                                        /\ b.position[p].placed = t}
        /\ IsFiniteSet(FreshPlacements(b, t))
        /\ \A p \in FreshPlacements(b, t) :
             /\ PlacementOf(b, p, t) \in Int
             /\ PlacementOf(b, p, t) = b.position[p].principal * PriceOf(b, Currency[p], t)
    BY <1>1, <1>2, FreshIs
  <2>2. /\ FreshPlacements(c, t) =
             {p \in DOMAIN c.position : /\ c.position[p].from = None
                                        /\ c.position[p].principal # None
                                        /\ c.position[p].placed = t}
        /\ \A p \in FreshPlacements(c, t) :
             /\ PlacementOf(c, p, t) \in Int
             /\ PlacementOf(c, p, t) = c.position[p].principal * PriceOf(c, Currency[p], t)
    BY <1>1, <1>2, FreshIs
  <2>3. FreshPlacements(c, t) = S  BY <1>1, <2>1, <2>2
  <2>4. \A p \in S : Currency[p] \in {Home, Other}
    BY <1>2, <2>1, BooksAssumption DEF PositionsOK
  <2>5. DOMAIN f = S /\ DOMAIN g = S  OBVIOUS
  <2>6. \A x \in S : g[x] = f[x]  BY <1>1, <1>3, <2>1, <2>2, <2>3, <2>4
  <2>7. FreshSum(c, t) = SumFunction(g) /\ FreshSum(b, t) = SumFunction(f)
    BY <2>3 DEF FreshSum, SumOver
  <2>8. IsFiniteSet(S)  BY <2>1
  <2> HIDE DEF f, g, S
  <2>9. SumFunction(g) = SumFunction(f)  BY <2>5, <2>6, <2>8, SumSame
  <2> QED  BY <2>7, <2>9
<1>8. Placement(c, t) = Placement(b, t)
  <2>1. Placement(b, t) = BookedNet(b, t) + FreshSum(b, t)  BY <1>1, <1>2, PlacementIs
  <2>2. Placement(c, t) = BookedNet(c, t) + FreshSum(c, t)  BY <1>1, <1>2, PlacementIs
  <2> QED  BY <1>6, <1>7, <2>1, <2>2
<1>9. EarnedIncome(c, t) = EarnedIncome(b, t)
  <2>1. EarnedIncome(b, t) = SumOver({i \in b.income : i.month = t}, LAMBDA i : i.amount)
    BY <1>1, <1>2, EarnedIs
  <2>2. EarnedIncome(c, t) = SumOver({i \in c.income : i.month = t}, LAMBDA i : i.amount)
    BY <1>1, <1>2, EarnedIs
  <2> QED  BY <1>1, <2>1, <2>2
<1> QED  BY <1>5, <1>8, <1>9

\* What was moved from the month before is neither fresh nor rolled over.
LEMMA TurnsFlow ==
  ASSUME NEW b, NEW c, NEW w, NEW t, NEW rate, Turns(b, c, w, t, rate),
         NEW p \in DOMAIN b.position, Moved(b, t, p)
  PROVE  Flow(c, p, t) = OwnOf(b, p, t) /\ OwnOf(b, p, t) \in Int
<1>1. /\ t \in Int /\ 1 <= t /\ t + 1 \in Int /\ c.position = b.position
      /\ BooksOK(b, t) /\ BooksOK(c, t + 1) /\ RecordedAt(b, c, w, t, p)
  BY TurnsOK DEF Turns
<1>2. /\ PositionsOK(b, t) /\ RatesOK(b, t) /\ TxnsOK(b, t)
      /\ PositionsOK(c, t + 1) /\ RatesOK(c, t + 1) /\ TxnsOK(c, t + 1) /\ RollsOK(c)
  BY <1>1 DEF BooksOK
<1>3. /\ OwnOf(c, p, t) = OwnOf(b, p, t) /\ OwnOf(b, p, t) \in Int
  <2>1. OwnOf(c, p, t) = OwnOf(b, p, t)  BY TurnsBooked
  <2>2. OwnOf(b, p, t) \in Int  BY <1>1, <1>2, OwnIs
  <2> QED  BY <2>1, <2>2
<1>4. PICK n \in DOMAIN b.snapshot[p] : n \in Int /\ n < t /\ n \in DOMAIN c.snapshot[p]
  <2>1. SeriesOK(p, b.position[p], b.snapshot[p], t)  BY <1>2 DEF PositionsOK
  <2>2. PICK n \in DOMAIN b.snapshot[p] : n <= t - 1  BY DEF Moved, Latest
  <2>3. n \in Int  BY <1>1, <2>1, <2>2 DEF SeriesOK
  <2>4. n \in DOMAIN c.snapshot[p]  BY <1>1, <2>2 DEF RecordedAt
  <2> QED  BY <1>1, <2>2, <2>3, <2>4
<1>5. p \notin FreshPlacements(c, t)
  <2>1. SeriesOK(p, c.position[p], c.snapshot[p], t + 1)
        /\ RowOK(p, c.position[p], t + 1)
    BY <1>1, <1>2 DEF PositionsOK
  <2>2. c.position[p].principal # None =>
          c.position[p].placed \in Int /\ c.position[p].placed <= n
    BY <1>4, <2>1 DEF SeriesOK, RowOK
  <2>3. FreshPlacements(c, t) =
             {q \in DOMAIN c.position : /\ c.position[q].from = None
                                        /\ c.position[q].principal # None
                                        /\ c.position[q].placed = t}
    BY <1>1, <1>2, FreshIs
  <2> QED  BY <1>1, <1>4, <2>2, <2>3
<1>6. RolledInto(c, p, t) = 0
  <2> DEFINE S == {x \in Booked(c, t) : x.type = "maturity" /\ SuccessorOf(c, x.of) = p}
             f == [x \in S |-> Convert(c, Part(x, x.rolled), x.currency, t)]
  <2>1. ASSUME NEW x \in S PROVE FALSE
    <3>1. x \in c.transaction /\ x.month = t /\ x.type = "maturity" /\ SuccessorOf(c, x.of) = p
          /\ x.of \in DOMAIN c.position
      BY <1>2 DEF Booked, TxnsOK
    <3>2. p \in Position /\ x.of \in Position  BY <1>1, <1>2, <3>1 DEF PositionsOK
    <3>3. p # None /\ x.of # None  BY <3>2, BooksAssumption
    <3>4. p \in {q \in DOMAIN c.position : c.position[q].from = x.of}
      BY <3>1, <3>3 DEF SuccessorOf
    <3>5. x.month <= n  BY <1>2, <1>4, <3>1, <3>3, <3>4 DEF RollsOK
    <3> QED  BY <1>1, <1>4, <3>1, <3>5
  <2>2. DOMAIN f = {}  BY <2>1
  <2>3. RolledInto(c, p, t) = SumFunction(f)  BY DEF RolledInto, SumOver
  <2> HIDE DEF f
  <2> QED  BY <2>2, <2>3, SumEmpty
<1>7. Flow(c, p, t) = OwnOf(c, p, t)
              - (IF p \in FreshPlacements(c, t) THEN PlacementOf(c, p, t) ELSE 0)
              - RolledInto(c, p, t)
  BY <1>1, <1>2, FlowIs
<1>8. Flow(c, p, t) = OwnOf(b, p, t) - 0 - 0  BY <1>3, <1>5, <1>6, <1>7
<1> QED  BY <1>3, <1>8

\* Nothing is recorded of p before month t, so it arrives then or was acquired.
LEMMA TurnsNew ==
  ASSUME NEW b, NEW c, NEW w, NEW t, NEW rate, Turns(b, c, w, t, rate), 1 < t,
         NEW p \in DOMAIN b.position
  PROVE  /\ ~Moved(b, t, p) /\ ~Gone(b, t, p) =>
              /\ b.position[p].end = None
              /\ p \in Arriving(c, t) <=> b.position[p].entry = "newly_tracked"
         /\ Moved(b, t, p) => p \notin Arriving(c, t)
<1>1. /\ t \in Int /\ 1 <= t /\ t + 1 \in Int /\ c.position = b.position /\ t - 1 \in Int
      /\ PositionsOK(b, t) /\ RecordedAt(b, c, w, t, p) /\ PositionsOK(c, t + 1)
  BY TurnsOK DEF Turns, BooksOK
<1>2. /\ SeriesOK(p, b.position[p], b.snapshot[p], t) /\ b.position[p] \in Rows
      /\ RowOK(p, b.position[p], t)
      /\ SeriesOK(p, c.position[p], c.snapshot[p], t + 1)
  BY <1>1 DEF PositionsOK, RowOK
<1> DEFINE s == b.snapshot[p]  r == c.snapshot[p]  e == b.position[p].end
<1>3. /\ DOMAIN s \subseteq 1 .. t /\ DOMAIN r \subseteq 1 .. t + 1
      /\ e = None => \A n \in DOMAIN s : n < t
      /\ e # None => e \in Int /\ e <= t /\ \E n \in DOMAIN s : n < e
  BY <1>2 DEF SeriesOK, RowOK, Rows
<1>4. /\ Moved(b, t, p) <=> \E n \in DOMAIN s : n <= t - 1
      /\ Gone(b, t, p) <=> e # None /\ e < t
  BY DEF Moved, Latest, Gone
<1>5. \/ e = None /\ DOMAIN r = DOMAIN s \cup {t}
      \/ r = s /\ (e = None => DOMAIN s # {})
  BY <1>1 DEF RecordedAt
<1>6. DOMAIN r # {} /\ Min(DOMAIN r) = t <=> t \in DOMAIN r /\ \A n \in DOMAIN r : t <= n
  <2> HIDE DEF r
  <2> QED  BY <1>1, <1>3, FirstAt
<1>7. ASSUME Moved(b, t, p) PROVE p \notin Arriving(c, t)
  <2> HIDE DEF s, r, e
  <2>1. PICK n \in DOMAIN s : n <= t - 1  BY <1>4, <1>7
  <2>2. n \in DOMAIN r /\ ~(t <= n)  BY <1>1, <1>3, <1>5, <2>1
  <2>3. ~(DOMAIN r # {} /\ Min(DOMAIN r) = t)  BY <1>6, <2>2
  <2> QED  BY <2>3 DEF Arriving, r
<1>8. ASSUME ~Moved(b, t, p), ~Gone(b, t, p)
      PROVE  /\ e = None
             /\ p \in Arriving(c, t) <=> b.position[p].entry = "newly_tracked"
  <2>1. e = None /\ DOMAIN r = {t}
    <3> HIDE DEF s, r, e
    <3>1. \A n \in DOMAIN s : n \in Int /\ n <= t /\ ~(n <= t - 1)  BY <1>3, <1>4, <1>8
    <3>2. e = None
      <4> SUFFICES ASSUME e # None PROVE FALSE  OBVIOUS
      <4>1. e \in Int /\ e <= t /\ e = t  BY <1>1, <1>3, <1>4, <1>8
      <4>2. PICK n \in DOMAIN s : n < e  BY <1>3
      <4> QED  BY <1>1, <3>1, <4>1, <4>2
    <3>3. DOMAIN s = {}
      <4> SUFFICES ASSUME NEW n \in DOMAIN s PROVE FALSE  OBVIOUS
      <4>1. n < t /\ n \in Int /\ ~(n <= t - 1)  BY <1>3, <3>1, <3>2
      <4> QED  BY <1>1, <4>1
    <3> QED  BY <1>5, <3>2, <3>3
  <2>2. DOMAIN r # {} /\ Min(DOMAIN r) = t
    <3> HIDE DEF r
    <3> QED  BY <1>1, <1>6, <2>1
  <2>3. e # t  BY <1>1, <2>1, NoneAssumption
  <2>4. ~TerminatedBefore(c, p, t) /\ p \notin Departing(c, t)
    BY <1>1, <2>1, <2>3 DEF TerminatedBefore, Departing, TerminatesAt
  <2>5. IsCarried(c, p, t)  BY TurnsCarried
  <2> QED  BY <1>1, <2>1, <2>2, <2>4, <2>5 DEF Arriving
<1> QED  BY <1>7, <1>8

\* What the engine reads of p in month t.
TurnsReads(b, c, w, t, p) ==
  /\ c.position = b.position /\ p \in Position /\ b.position[p] \in Rows
  /\ b.position[p].group = GroupOf(p) /\ b.position[p].subtype = Kind[p]
  /\ TerminatedBefore(c, p, t) <=> Gone(b, t, p)
  /\ IsCarried(c, p, t) /\ Carried(c, p, t) = NowOf(b, w, t, p) /\ NowOf(b, w, t, p) \in Int
  /\ IsCarried(c, p, t - 1) <=> Moved(b, t, p)
  /\ IsMoving(c, p, t) <=> Moved(b, t, p)
  /\ Moved(b, t, p) => /\ Carried(c, p, t - 1) = Carried(b, p, t - 1)
                       /\ Carried(b, p, t - 1) \in Int
                       /\ Flow(c, p, t) = OwnOf(b, p, t) /\ OwnOf(b, p, t) \in Int
  /\ b.position[p].end # None => NowOf(b, w, t, p) = 0
  /\ b.position[p].end # None /\ ~Gone(b, t, p) => b.position[p].end = t
  /\ Gone(b, t, p) => /\ b.position[p].end # None /\ b.position[p].end \in Int
                      /\ b.position[p].end <= t - 1

LEMMA TurnsRead ==
  ASSUME NEW b, NEW c, NEW w, NEW t, NEW rate, Turns(b, c, w, t, rate), 1 < t,
         NEW p \in DOMAIN b.position
  PROVE  TurnsReads(b, c, w, t, p)
<1>1. /\ t \in Int /\ 1 <= t /\ t + 1 \in Int /\ c.position = b.position
      /\ t - 1 \in Int /\ 1 <= t - 1 /\ t - 1 < t
      /\ PositionsOK(b, t) /\ RatesOK(b, t)
  BY DEF Turns, BooksOK
<1>2. /\ b.position[p] \in Rows /\ RowOK(p, b.position[p], t) /\ p \in Position
      /\ b.position[p].group = GroupOf(p) /\ b.position[p].subtype = Kind[p]
  BY <1>1 DEF PositionsOK, RowOK
<1>3. b.position[p].end # None => b.position[p].end \in Int /\ b.position[p].end <= t
  BY <1>2 DEF RowOK, Rows
<1>4. TerminatedBefore(c, p, t) <=> Gone(b, t, p)
  BY <1>1, <1>3 DEF TerminatedBefore, Gone
<1>5. IsCarried(c, p, t) /\ Carried(c, p, t) = NowOf(b, w, t, p) /\ NowOf(b, w, t, p) \in Int
  BY TurnsCarried
<1>6. Alike(b, t, c, t + 1, t - 1)  BY <1>1, TurnsAlike
<1>7. /\ IsCarried(c, p, t - 1) <=> IsCarried(b, p, t - 1)
      /\ IsCarried(b, p, t - 1) => /\ Carried(c, p, t - 1) = Carried(b, p, t - 1)
                                   /\ Carried(b, p, t - 1) \in Int
  <2> DEFINE k == t - 1
  <2>1. k \in Int /\ 1 <= k /\ k <= k /\ Alike(b, t, c, t + 1, k)  BY <1>1, <1>6
  <2> HIDE DEF k
  <2>2. /\ IsCarried(c, p, k) <=> IsCarried(b, p, k)
        /\ IsCarried(b, p, k) => Carried(c, p, k) = Carried(b, p, k) /\ Carried(b, p, k) \in Int
    BY <2>1, AlikeCarried
  <2> QED  BY <2>2 DEF k
<1>8. IsCarried(b, p, t - 1) <=> Moved(b, t, p)
  BY <1>1, CarriedIs DEF Moved
<1>9. IsMoving(c, p, t) <=> Moved(b, t, p)  BY <1>5, <1>7, <1>8 DEF IsMoving
<1>10. Moved(b, t, p) => Flow(c, p, t) = OwnOf(b, p, t) /\ OwnOf(b, p, t) \in Int
  BY TurnsFlow
<1>11. b.position[p].end # None => NowOf(b, w, t, p) = 0  BY DEF NowOf
<1>12. /\ b.position[p].end # None /\ ~Gone(b, t, p) => b.position[p].end = t
       /\ Gone(b, t, p) => /\ b.position[p].end # None /\ b.position[p].end \in Int
                           /\ b.position[p].end <= t - 1
  BY <1>1, <1>3 DEF Gone
<1> QED  BY <1>1, <1>2, <1>4, <1>5, <1>7, <1>8, <1>9, <1>10, <1>11, <1>12 DEF TurnsReads

\* What was gained with p in the month is what its report counts.
LEMMA TurnsGain ==
  ASSUME NEW b, NEW c, NEW w, NEW t, NEW rate, Turns(b, c, w, t, rate), 1 < t,
         NEW p \in DOMAIN b.position
  PROVE  GainOf(c, p, t) = GainNow(b, w, t, p)
<1>1. TurnsReads(b, c, w, t, p) /\ t \in Int  BY TurnsRead DEF Turns
<1>2. p \in Returning(c, t) <=>
        /\ b.position[p].group = "investment" /\ ~Gone(b, t, p) /\ Moved(b, t, p)
        /\ ~(b.position[p].end # None /\ b.position[p].status = "untracked")
  <2>1. /\ p \in InGroup(c, "investment") <=> b.position[p].group = "investment"
        /\ TrackingExit(c, p) <=> b.position[p].status = "untracked"
        /\ TerminatesAt(c, p, t) <=> b.position[p].end = t
    BY <1>1 DEF TurnsReads, InGroup, TrackingExit, TerminatesAt
  <2>2. ~Gone(b, t, p) => (b.position[p].end = t <=> b.position[p].end # None)
    BY <1>1, NoneAssumption DEF TurnsReads
  <2> QED  BY <1>1, <2>1, <2>2 DEF Returning, TurnsReads, InGroup
<1>3. CASE p \in Returning(c, t)
  <2> DEFINE x == NowOf(b, w, t, p)  y == Carried(b, p, t - 1)  z == OwnOf(b, p, t)
  <2>1. GainOf(c, p, t) = Movement(c, p, t) + Flow(c, p, t)  BY <1>3 DEF GainOf
  <2>2. Movement(c, p, t) = x - y /\ Flow(c, p, t) = z
    BY <1>1, <1>2, <1>3 DEF TurnsReads, Movement
  <2>3. GainNow(b, w, t, p) = x - y + z  BY <1>2, <1>3 DEF GainNow
  <2> QED  BY <2>1, <2>2, <2>3
<1>4. CASE p \notin Returning(c, t)  BY <1>2, <1>4 DEF GainOf, GainNow
<1> QED  BY <1>3, <1>4

\* The figures of p, one by one, in terms of what it was worth (x now, y before)
\* and what was booked of it (z).
Split(b, c, w, t, p) ==
  LET row == b.position[p]
      x == NowOf(b, w, t, p)
      y == IF Moved(b, t, p) THEN Carried(b, p, t - 1) ELSE 0
      moved == Moved(b, t, p) /\ ~Gone(b, t, p)
  IN  /\ ValueOf(c, p, t) = IF Gone(b, t, p) THEN 0 ELSE SignedForNW(b, p, x)
      /\ ValueOf(c, p, t - 1) = IF Gone(b, t, p) \/ ~Moved(b, t, p) THEN 0 ELSE SignedForNW(b, p, y)
      /\ MarkOf(c, p, t) =
           IF /\ moved /\ row.end = None /\ row.group = "asset" /\ row.subtype = "property"
           THEN x - y ELSE 0
      /\ LossOf(c, p, t) =
           IF moved /\ row.end # None /\ NonCashTerminal(b, p) THEN SignedForNW(b, p, x - y) ELSE 0
      /\ LeaveOf(c, p, t) =
           IF moved /\ row.end # None /\ TrackingExit(b, p) THEN SignedForNW(b, p, x - y) ELSE 0
      /\ ArriveOf(c, p, t) =
           IF ~Moved(b, t, p) /\ ~Gone(b, t, p) /\ row.entry = "newly_tracked"
           THEN SignedForNW(b, p, x) ELSE 0

LEMMA TurnsSplit ==
  ASSUME NEW b, NEW c, NEW w, NEW t, NEW rate, Turns(b, c, w, t, rate), 1 < t,
         NEW p \in DOMAIN b.position
  PROVE  Split(b, c, w, t, p)
<1> DEFINE row == b.position[p]
           x == NowOf(b, w, t, p)
           y == IF Moved(b, t, p) THEN Carried(b, p, t - 1) ELSE 0
           moved == Moved(b, t, p) /\ ~Gone(b, t, p)
<1>1. TurnsReads(b, c, w, t, p) /\ t \in Int /\ t - 1 \in Int /\ 1 <= t - 1 /\ t - 1 < t
  BY TurnsRead DEF Turns
<1>2. BooksOK(c, t + 1) /\ t + 1 \in Int  BY TurnsOK DEF Turns
<1>3. /\ \A v : SignedForNW(c, p, v) = SignedForNW(b, p, v)
      /\ NonCashTerminal(c, p) <=> NonCashTerminal(b, p)
      /\ TrackingExit(c, p) <=> TrackingExit(b, p)
      /\ Moved(b, t, p) => Movement(c, p, t) = x - y
      /\ TerminatesAt(c, p, t) <=> row.end = t
      /\ p \in DOMAIN c.position
  BY <1>1 DEF TurnsReads, SignedForNW, NonCashTerminal, TrackingExit, Movement, TerminatesAt
<1>4. ~Gone(b, t, p) => (row.end = t <=> row.end # None)
  BY <1>1, NoneAssumption DEF TurnsReads
<1>4a. row.end = t => ~Gone(b, t, p)  BY <1>1 DEF Gone
<1>5. ValueOf(c, p, t) = IF Gone(b, t, p) THEN 0 ELSE SignedForNW(b, p, x)
  <2>1. p \in Contributes(c, t) <=> ~Gone(b, t, p)  BY <1>1, <1>3 DEF TurnsReads, Contributes
  <2>2. Carried(c, p, t) = x  BY <1>1 DEF TurnsReads
  <2> QED  BY <1>3, <2>1, <2>2 DEF ValueOf
<1>6. ValueOf(c, p, t - 1) = IF Gone(b, t, p) \/ ~Moved(b, t, p) THEN 0 ELSE SignedForNW(b, p, y)
  <2>1. CASE Gone(b, t, p)
    <3> DEFINE k == t - 1
    <3>1. /\ c.position[p].end # None /\ c.position[p].end <= k /\ k \in Int /\ 1 <= k
          /\ p \in DOMAIN c.position
      BY <1>1, <1>3, <2>1 DEF TurnsReads
    <3> HIDE DEF k
    <3>2. Carried(c, p, k) = 0  BY <1>2, <3>1, EndedCarried
    <3>3. ValueOf(c, p, k) = 0
      <4> DEFINE v == Carried(c, p, k)
      <4>1. v \in Int /\ v = 0  BY <3>2
      <4>2. \A a \in Int : SignedForNW(c, p, a) \in {a, 0 - a}  BY DEF SignedForNW
      <4>3. ValueOf(c, p, k) \in {0, SignedForNW(c, p, v)}  BY DEF ValueOf
      <4> HIDE DEF v
      <4> QED  BY <4>1, <4>2, <4>3
    <3> QED  BY <2>1, <3>3 DEF k
  <2>2. CASE ~Gone(b, t, p)
    <3>1. ~TerminatedBefore(c, p, t - 1)
      <4>1. c.position[p].end # None => c.position[p].end = t  BY <1>1, <2>2 DEF TurnsReads
      <4> QED  BY <1>1, <4>1 DEF TerminatedBefore
    <3>2. p \in Contributes(c, t - 1) <=> Moved(b, t, p)
      BY <1>1, <1>3, <3>1 DEF TurnsReads, Contributes
    <3>3. Moved(b, t, p) => Carried(c, p, t - 1) = y  BY <1>1 DEF TurnsReads
    <3> QED  BY <1>3, <2>2, <3>2, <3>3 DEF ValueOf
  <2> QED  BY <2>1, <2>2
<1>7. MarkOf(c, p, t) =
           IF /\ moved /\ row.end = None /\ row.group = "asset" /\ row.subtype = "property"
           THEN x - y ELSE 0
  <2>1. TerminatedByEndOf(c, p, t) <=> row.end # None
    <3>1. row.end # None => row.end \in Int /\ t >= row.end
      BY <1>1, <1>4 DEF TurnsReads, Gone
    <3> QED  BY <1>1, <3>1 DEF TurnsReads, TerminatedByEndOf
  <2>2. row.subtype # "vehicle"  BY <1>1, BooksAssumption DEF TurnsReads
  <2>3. row.end = None => ~Gone(b, t, p)  BY DEF Gone
  <2>4. p \in Marked(c, t) <=>
          moved /\ row.end = None /\ row.group = "asset" /\ row.subtype = "property"
    BY <1>1, <2>1, <2>2, <2>3 DEF TurnsReads, Marked, InGroup
  <2> QED  BY <1>3, <2>4 DEF MarkOf
<1>8. LossOf(c, p, t) =
        IF moved /\ row.end # None /\ NonCashTerminal(b, p) THEN SignedForNW(b, p, x - y) ELSE 0
  <2>1. p \in WrittenOff(c, t) <=> moved /\ row.end # None /\ NonCashTerminal(b, p)
    BY <1>1, <1>3, <1>4, <1>4a, NoneAssumption DEF TurnsReads, WrittenOff
  <2> QED  BY <1>3, <2>1 DEF LossOf
<1>9. LeaveOf(c, p, t) =
        IF moved /\ row.end # None /\ TrackingExit(b, p) THEN SignedForNW(b, p, x - y) ELSE 0
  <2>1. p \in Leaving(c, t) <=> moved /\ row.end # None /\ TrackingExit(b, p)
    BY <1>1, <1>3, <1>4, <1>4a, NoneAssumption DEF TurnsReads, Leaving, Departing
  <2> QED  BY <1>3, <2>1 DEF LeaveOf
<1>10. ArriveOf(c, p, t) =
         IF ~Moved(b, t, p) /\ ~Gone(b, t, p) /\ row.entry = "newly_tracked"
         THEN SignedForNW(b, p, x) ELSE 0
  <2>1. Gone(b, t, p) => p \notin Arriving(c, t)  BY <1>1 DEF TurnsReads, Arriving
  <2>2. p \in Arriving(c, t) <=>
          ~Moved(b, t, p) /\ ~Gone(b, t, p) /\ row.entry = "newly_tracked"
    BY <2>1, TurnsNew
  <2>3. Carried(c, p, t) = x  BY <1>1 DEF TurnsReads
  <2> QED  BY <1>3, <2>2, <2>3 DEF ArriveOf
<1> QED  BY <1>5, <1>6, <1>7, <1>8, <1>9, <1>10 DEF Split

\* The money that went into p in the month is what its report takes it for.
LEMMA TurnsInto ==
  ASSUME NEW b, NEW c, NEW w, NEW t, NEW rate, Turns(b, c, w, t, rate), 1 < t,
         NEW p \in DOMAIN b.position
  PROVE  CashOf(c, p, t) = IntoNow(b, w, t, p)
<1> DEFINE row == b.position[p]
           x == NowOf(b, w, t, p)
           y == IF Moved(b, t, p) THEN Carried(b, p, t - 1) ELSE 0
           z == OwnOf(b, p, t)
           moved == Moved(b, t, p) /\ ~Gone(b, t, p)
           gain == GainNow(b, w, t, p)
           signed(v) == IF row.group = "liability" THEN 0 - v ELSE v
<1>1. TurnsReads(b, c, w, t, p) /\ Split(b, c, w, t, p)  BY TurnsRead, TurnsSplit
<1>2. /\ x \in Int /\ y \in Int /\ (Moved(b, t, p) => z \in Int)
      /\ (row.end # None => x = 0)
  BY <1>1 DEF TurnsReads
<1>3. \A v \in Int : SignedForNW(b, p, v) = signed(v)  BY DEF SignedForNW
<1>4. x - y \in Int  BY <1>2
<1> DEFINE V1 == ValueOf(c, p, t)  V0 == ValueOf(c, p, t - 1)  M == MarkOf(c, p, t)
           L == LossOf(c, p, t)  E == LeaveOf(c, p, t)  A == ArriveOf(c, p, t)
<1>5. /\ V1 = IF Gone(b, t, p) THEN 0 ELSE signed(x)
      /\ V0 = IF Gone(b, t, p) \/ ~Moved(b, t, p) THEN 0 ELSE signed(y)
      /\ M = IF moved /\ row.end = None /\ row.group = "asset" /\ row.subtype = "property"
             THEN x - y ELSE 0
      /\ L = IF moved /\ row.end # None /\ NonCashTerminal(b, p) THEN signed(x - y) ELSE 0
      /\ E = IF moved /\ row.end # None /\ TrackingExit(b, p) THEN signed(x - y) ELSE 0
      /\ A = IF ~Moved(b, t, p) /\ ~Gone(b, t, p) /\ row.entry = "newly_tracked"
             THEN signed(x) ELSE 0
  BY <1>1, <1>2, <1>3, <1>4 DEF Split
<1>6. CashOf(c, p, t) = V1 - V0 - gain - M - L - E - A
  BY TurnsGain DEF CashOf
<1>7. gain = IF /\ row.group = "investment" /\ moved
                /\ ~(row.end # None /\ row.status = "untracked")
             THEN x - y + z ELSE 0
  BY DEF GainNow
<1>8. /\ TrackingExit(b, p) <=> row.status = "untracked"
      /\ NonCashTerminal(b, p) => row.group # "investment" /\ row.status # "untracked"
      /\ WithoutCash(row.group, row.status) <=> (TrackingExit(b, p) \/ NonCashTerminal(b, p))
  BY DEF TrackingExit, NonCashTerminal, WithoutCash
<1>9. row.subtype = "property" => row.group = "asset"
  BY <1>1 DEF TurnsReads, GroupOf
<1>10. IntoNow(b, w, t, p) =
         IF Gone(b, t, p) THEN 0
         ELSE IF ~Moved(b, t, p) THEN IF row.entry = "newly_tracked" THEN 0 ELSE signed(x)
         ELSE IF row.end # None /\ WithoutCash(row.group, row.status) THEN 0
         ELSE IF row.group = "investment" THEN 0 - z
         ELSE IF row.subtype = "property" /\ row.end = None THEN 0
         ELSE signed(x - y)
  BY <1>2, <1>3, <1>4 DEF IntoNow
<1>11. \A v \in Int : signed(v) \in Int
  BY DEF signed
<1>12. signed(x) - signed(y) = signed(x - y)  BY <1>2
<1> HIDE DEF V1, V0, M, L, E, A, gain, x, y, z, row
<1>13. CASE Gone(b, t, p)
  <2> QED  BY <1>5, <1>6, <1>7, <1>10, <1>13
<1>14. CASE ~Moved(b, t, p) /\ ~Gone(b, t, p)
  <2>1. /\ V1 = signed(x) /\ V0 = 0 /\ M = 0 /\ L = 0 /\ E = 0 /\ gain = 0
        /\ A = IF row.entry = "newly_tracked" THEN signed(x) ELSE 0
        /\ IntoNow(b, w, t, p) = IF row.entry = "newly_tracked" THEN 0 ELSE signed(x)
    BY <1>5, <1>7, <1>10, <1>14
  <2>2. signed(x) \in Int  BY <1>2, <1>11
  <2> HIDE DEF signed
  <2> QED  BY <1>6, <2>1, <2>2
<1>15. CASE moved /\ row.end # None /\ TrackingExit(b, p)
  <2>1. /\ V1 - V0 = signed(x - y) /\ M = 0 /\ L = 0 /\ E = signed(x - y) /\ A = 0 /\ gain = 0
        /\ IntoNow(b, w, t, p) = 0
    BY <1>5, <1>7, <1>8, <1>10, <1>12, <1>15
  <2>2. signed(x - y) \in Int  BY <1>2, <1>4, <1>11
  <2> HIDE DEF signed
  <2> QED  BY <1>6, <2>1, <2>2
<1>16. CASE moved /\ row.end # None /\ NonCashTerminal(b, p)
  <2>1. /\ V1 - V0 = signed(x - y) /\ M = 0 /\ L = signed(x - y) /\ E = 0 /\ A = 0 /\ gain = 0
        /\ IntoNow(b, w, t, p) = 0
    BY <1>5, <1>7, <1>8, <1>10, <1>12, <1>16
  <2>2. signed(x - y) \in Int  BY <1>2, <1>4, <1>11
  <2> HIDE DEF signed
  <2> QED  BY <1>6, <2>1, <2>2
<1>17. CASE /\ moved /\ ~(row.end # None /\ WithoutCash(row.group, row.status))
            /\ row.group = "investment"
  <2>1. /\ V1 - V0 = x - y /\ M = 0 /\ L = 0 /\ E = 0 /\ A = 0 /\ gain = x - y + z
        /\ IntoNow(b, w, t, p) = 0 - z
    BY <1>5, <1>7, <1>8, <1>10, <1>17
  <2> QED  BY <1>2, <1>6, <1>17, <2>1
<1>18. CASE /\ moved /\ ~(row.end # None /\ WithoutCash(row.group, row.status))
            /\ row.group # "investment"
  <2>1. /\ V1 - V0 = signed(x - y) /\ L = 0 /\ E = 0 /\ A = 0 /\ gain = 0
    BY <1>5, <1>7, <1>8, <1>12, <1>18
  <2>2. CASE row.subtype = "property" /\ row.end = None
    <3>1. M = x - y /\ signed(x - y) = x - y /\ IntoNow(b, w, t, p) = 0
      BY <1>5, <1>9, <1>10, <1>18, <2>2
    <3> QED  BY <1>4, <1>6, <2>1, <3>1
  <2>3. CASE ~(row.subtype = "property" /\ row.end = None)
    <3>1. M = 0 /\ IntoNow(b, w, t, p) = signed(x - y)
      BY <1>5, <1>10, <1>18, <2>3
    <3>2. signed(x - y) \in Int  BY <1>2, <1>4, <1>11
    <3> HIDE DEF signed
    <3> QED  BY <1>6, <2>1, <3>1, <3>2
  <2> QED  BY <2>2, <2>3
<1> QED  BY <1>8, <1>13, <1>14, <1>15, <1>16, <1>17, <1>18

\* The report of the month that ended reads as the month stood.
LEMMA TurnsReport ==
  ASSUME NEW b, NEW c, NEW w, NEW t, NEW rate, Turns(b, c, w, t, rate), 1 < t
  PROVE  /\ InvestmentReturn(c, t) = SumFunction(Gains(b, w, t))
         /\ LivingExpenses(c, t) = EarnedIncome(b, t) - SumFunction(Intos(b, w, t))
         /\ Placement(c, t) = Placement(b, t)
<1>1. /\ t \in Int /\ t + 1 \in Int /\ c.position = b.position /\ BooksOK(c, t + 1)
  BY TurnsOK DEF Turns
<1>2. Sane(c, t)  BY <1>1, SaneBooks
<1>3. Gains(b, w, t) = [p \in DOMAIN c.position |-> GainOf(c, p, t)]
  <2>1. \A p \in DOMAIN b.position : GainNow(b, w, t, p) = GainOf(c, p, t)  BY TurnsGain
  <2> QED  BY <1>1, <2>1 DEF Gains
<1>4. Intos(b, w, t) = [p \in DOMAIN c.position |-> CashOf(c, p, t)]
  <2>1. \A p \in DOMAIN b.position : IntoNow(b, w, t, p) = CashOf(c, p, t)  BY TurnsInto
  <2> QED  BY <1>1, <2>1 DEF Intos
<1>5. InvestmentReturn(c, t) = SumFunction([p \in DOMAIN c.position |-> GainOf(c, p, t)])
  BY <1>2, ReturnIs
<1>6. LivingExpenses(c, t) =
        EarnedIncome(c, t) - SumFunction([p \in DOMAIN c.position |-> CashOf(c, p, t)])
  BY <1>1, <1>2, LivingIs
<1>7. EarnedIncome(c, t) = EarnedIncome(b, t) /\ Placement(c, t) = Placement(b, t)
  BY TurnsBooked
<1> QED  BY <1>3, <1>4, <1>5, <1>6, <1>7

\* Nothing is booked in the month that begins.
LEMMA TurnsEmpty ==
  ASSUME NEW b, NEW c, NEW w, NEW t, NEW rate, Turns(b, c, w, t, rate), NEW u, u = t + 1
  PROVE  /\ \A p : OwnOf(c, p, u) = 0
         /\ Placement(c, u) = 0 /\ EarnedIncome(c, u) = 0
<1>1. /\ t \in Int /\ u \in Int /\ 1 <= u /\ ~(u <= t)
      /\ c.position = b.position /\ c.transaction = b.transaction /\ c.income = b.income
      /\ BooksOK(b, t) /\ BooksOK(c, u)
  BY TurnsOK DEF Turns
<1>2. /\ PositionsOK(b, t) /\ TxnsOK(b, t) /\ IncomeOK(b, t)
      /\ PositionsOK(c, u) /\ RatesOK(c, u) /\ TxnsOK(c, u) /\ IncomeOK(c, u)
  BY <1>1 DEF BooksOK
<1>3. Booked(c, u) = {}
  <2>1. Booked(c, u) = {x \in c.transaction : x.month = u}  BY <1>1, <1>2, BookedIs
  <2>2. \A x \in b.transaction : x.month <= t  BY <1>2 DEF TxnsOK
  <2> QED  BY <1>1, <2>1, <2>2
<1>4. ASSUME NEW p PROVE OwnOf(c, p, u) = 0
  <2> DEFINE f == [x \in {y \in Booked(c, u) : y.of = p} |->
                     Convert(c, CashOut(x) - CashIn(x), x.currency, u)]
  <2>1. DOMAIN f = {}  BY <1>3
  <2>2. OwnOf(c, p, u) = SumFunction(f)  BY DEF OwnOf, SumOver
  <2> HIDE DEF f
  <2> QED  BY <2>1, <2>2, SumEmpty
<1>5. BookedNet(c, u) = 0
  <2> DEFINE f == [x \in Booked(c, u) |-> Convert(c, NetOf(x), x.currency, u)]
  <2>1. DOMAIN f = {}  BY <1>3
  <2>2. BookedNet(c, u) = SumFunction(f)  BY DEF BookedNet, SumOver
  <2> HIDE DEF f
  <2> QED  BY <2>1, <2>2, SumEmpty
<1>6. FreshSum(c, u) = 0
  <2> DEFINE f == [p \in FreshPlacements(c, u) |-> PlacementOf(c, p, u)]
  <2>1. FreshPlacements(c, u) = {}
    <3>1. FreshPlacements(c, u) =
             {p \in DOMAIN c.position : /\ c.position[p].from = None
                                        /\ c.position[p].principal # None
                                        /\ c.position[p].placed = u}
      BY <1>1, <1>2, FreshIs
    <3>2. \A p \in DOMAIN b.position : b.position[p].principal # None =>
            b.position[p].placed \in Int /\ b.position[p].placed <= t
      BY <1>2 DEF PositionsOK, RowOK
    <3> QED  BY <1>1, <3>1, <3>2
  <2>2. DOMAIN f = {}  BY <2>1
  <2>3. FreshSum(c, u) = SumFunction(f)  BY DEF FreshSum, SumOver
  <2> HIDE DEF f
  <2> QED  BY <2>2, <2>3, SumEmpty
<1>7. Placement(c, u) = 0
  <2>1. Placement(c, u) = BookedNet(c, u) + FreshSum(c, u)  BY <1>1, <1>2, PlacementIs
  <2> QED  BY <1>5, <1>6, <2>1
<1>8. EarnedIncome(c, u) = 0
  <2> DEFINE S == {i \in c.income : i.month = u}
             f == [i \in S |-> i.amount]
  <2>1. EarnedIncome(c, u) = SumOver(S, LAMBDA i : i.amount)  BY <1>1, <1>2, EarnedIs
  <2>2. \A i \in b.income : i.month <= t  BY <1>2 DEF IncomeOK
  <2>3. S = {}  BY <1>1, <2>2
  <2>4. DOMAIN f = {}  BY <2>3
  <2>5. EarnedIncome(c, u) = SumFunction(f)  BY <2>1 DEF SumOver
  <2> HIDE DEF f
  <2> QED  BY <2>4, <2>5, SumEmpty
<1> QED  BY <1>4, <1>7, <1>8

\* What is held in the other currency.
Exposed(b) == {p \in Position : /\ p \in DOMAIN b.position /\ b.position[p].end = None
                                /\ Currency[p] = Other}

\* At the beginning of a month the only gain is that of the rate, and no money has
\* moved.
LEMMA TurnsFigures ==
  ASSUME NEW b, NEW c, NEW w, NEW t, NEW rate, Turns(b, c, w, t, rate), NEW u, u = t + 1,
         NEW p \in DOMAIN b.position
  PROVE  /\ GainNow(c, w, u, p) =
              IF p \in Exposed(b) THEN w[p] * (rate - RateAt(b, t)) ELSE 0
         /\ IntoNow(c, w, u, p) = 0
<1>1. /\ t \in Int /\ u \in Int /\ u - 1 = t /\ 1 <= t /\ c.position = b.position
      /\ w \in [Position -> Int] /\ PositionsOK(b, t) /\ rate \in Int
  BY DEF Turns, BooksOK
<1>2. /\ p \in Position /\ Currency[p] \in {Home, Other} /\ w[p] \in Int /\ Home # Other
      /\ b.position[p] \in Rows /\ RowOK(p, b.position[p], t)
      /\ b.position[p].group = GroupOf(p) /\ b.position[p].subtype = Kind[p]
  BY <1>1, BooksAssumption DEF PositionsOK, RowOK
<1>3. /\ PriceOf(c, Other, u) = rate /\ PriceOf(c, Home, u) = 1
      /\ PriceOf(b, Other, t) = RateAt(b, t) /\ PriceOf(b, Home, t) = 1
      /\ RateAt(b, t) \in Int
  BY TurnsPrices
<1>4. OwnOf(c, p, u) = 0  BY TurnsEmpty
<1>5. Currency[p] = Other => b.position[p].group = "investment"
  BY <1>2, BooksAssumption DEF GroupOf
<1>6. CASE b.position[p].end # None
  <2>1. b.position[p].end \in Int /\ b.position[p].end <= t  BY <1>2, <1>6 DEF RowOK, Rows
  <2>2. Gone(c, u, p)  BY <1>1, <1>6, <2>1 DEF Gone
  <2>3. p \notin Exposed(b)  BY <1>6 DEF Exposed
  <2> QED  BY <2>2, <2>3 DEF GainNow, IntoNow
<1>7. CASE b.position[p].end = None
  <2> DEFINE v == w[p]  s == RateAt(b, t)  g == GainNow(c, w, u, p)  i == IntoNow(c, w, u, p)
             o == OwnOf(c, p, u)  P == PriceOf(c, Currency[p], u)  C == Carried(c, p, t)
             Q == PriceOf(b, Currency[p], t)
  <2>1. Moved(c, u, p)
    <3>1. Latest(c.snapshot[p], t) # {}  BY TurnsCarried
    <3> QED  BY <1>1, <3>1 DEF Moved
  <2>2. c.position[p].end = None  BY <1>1, <1>7
  <2>3. C = v * Q
    <3>1. C = NowOf(b, w, t, p)  BY TurnsCarried
    <3> QED  BY <1>7, <3>1 DEF NowOf
  <2>4. /\ g = IF c.position[p].group = "investment" THEN v * P - C + o ELSE 0
        /\ i = IF c.position[p].group = "investment" THEN -o
               ELSE IF c.position[p].subtype = "property" THEN 0
               ELSE SignedForNW(c, p, v * P - C)
    BY <1>1, <2>1, <2>2, FiguresOfMoved
  <2>5. v \in Int /\ s \in Int /\ rate \in Int /\ o \in Int /\ o = 0
    BY <1>1, <1>2, <1>3, <1>4
  <2>6. \A a \in Int : SignedForNW(c, p, a) \in {a, 0 - a}  BY DEF SignedForNW
  <2>7. -o = 0 - o
    <3>1. \A a \in Int : -a = 0 - a  OBVIOUS
    <3>2. o \in Int  BY <2>5
    <3> HIDE DEF o
    <3> QED  BY <3>1, <3>2
  <2>8. CASE Currency[p] = Other
    <3>1. P = rate /\ Q = s /\ c.position[p].group = "investment"
      BY <1>1, <1>3, <1>5, <2>8
    <3>2. p \in Exposed(b)  BY <1>2, <1>7, <2>8 DEF Exposed
    <3> HIDE DEF v, s, g, i, o, P, C, Q
    <3>3. g = v * rate - v * s + o /\ i = 0 - o  BY <2>3, <2>4, <2>7, <3>1
    <3>4. v * rate - v * s = v * (rate - s) /\ v * (rate - s) \in Int  BY <2>5
    <3>5. g = v * (rate - s) /\ i = 0  BY <2>5, <3>3, <3>4
    <3> QED  BY <3>2, <3>5 DEF v, s, g, i
  <2>9. CASE Currency[p] = Home
    <3>1. P = 1 /\ Q = 1  BY <1>3, <2>9
    <3>2. p \notin Exposed(b)  BY <1>2, <2>9 DEF Exposed
    <3> HIDE DEF v, s, g, i, o, P, C, Q
    <3>3. v * P - C = 0  BY <2>3, <2>5, <3>1
    <3>4. g = 0 /\ i = 0
      <4> DEFINE a == v * P - C
      <4>1. a \in Int /\ a = 0  BY <3>3
      <4>2. g \in {a + o, 0} /\ i \in {0 - o, 0, SignedForNW(c, p, a)}  BY <2>4, <2>7
      <4> HIDE DEF a
      <4> QED  BY <2>5, <2>6, <4>1, <4>2
    <3> QED  BY <3>2, <3>4 DEF g, i
  <2> QED  BY <1>2, <2>8, <2>9
<1> QED  BY <1>6, <1>7

LEMMA TurnsBalanced ==
  ASSUME NEW b, NEW c, NEW w, NEW t, NEW rate, Turns(b, c, w, t, rate), NEW u, u = t + 1
  PROVE  Balanced(c, w, u, 0, SumFunction([p \in Exposed(b) |-> w[p] * (rate - RateAt(b, t))]), 0)
<1>1. /\ t \in Int /\ c.position = b.position /\ w \in [Position -> Int] /\ rate \in Int
      /\ IsFiniteSet(DOMAIN b.position) /\ DOMAIN b.position \subseteq Position
      /\ RateAt(b, t) \in Int
  BY TurnsPrices DEF Turns, BooksOK, PositionsOK
<1> DEFINE f == [p \in Exposed(b) |-> w[p] * (rate - RateAt(b, t))]
           G == Gains(c, w, u)  N == Intos(c, w, u)
<1>2. /\ DOMAIN f = Exposed(b) /\ Exposed(b) \subseteq DOMAIN b.position
      /\ DOMAIN G = DOMAIN b.position /\ DOMAIN N = DOMAIN b.position
  BY <1>1 DEF Exposed, Gains, Intos
<1>3. \A p \in DOMAIN b.position :
        /\ G[p] = IF p \in DOMAIN f THEN f[p] ELSE 0
        /\ N[p] = 0
  BY <1>1, <1>2, TurnsFigures DEF Gains, Intos
<1>4. Summable(f)
  <2>1. IsFiniteSet(DOMAIN f)  BY <1>1, <1>2, FS_Subset
  <2>2. ASSUME NEW p \in DOMAIN f PROVE f[p] \in Int
    <3>1. w[p] \in Int /\ rate - RateAt(b, t) \in Int  BY <1>1, <1>2
    <3>2. f[p] = w[p] * (rate - RateAt(b, t))  BY <1>2
    <3> QED  BY <3>1, <3>2, Times
  <2> HIDE DEF f
  <2> QED  BY <2>1, <2>2 DEF Summable
<1> DEFINE e == [x \in {} |-> 0]
<1>6. Summable(e) /\ DOMAIN e = {}  BY FS_EmptySet DEF Summable
<1> HIDE DEF f, G, N, e
<1>7. SumFunction(f) = SumFunction(G)  BY <1>1, <1>2, <1>3, <1>4, SumWithin
<1>8. SumFunction(e) = SumFunction(N)  BY <1>1, <1>2, <1>3, <1>6, SumWithin
<1>9. SumFunction(e) = 0  BY <1>6, SumEmpty
<1>10. EarnedIncome(c, u) = 0 /\ Placement(c, u) = 0  BY TurnsEmpty
<1>11. SumFunction([p \in Exposed(b) |-> w[p] * (rate - RateAt(b, t))]) = SumFunction(Gains(c, w, u))
  BY <1>7 DEF f, G
<1>12. EarnedIncome(c, u) - 0 = SumFunction(Intos(c, w, u))  BY <1>8, <1>9, <1>10 DEF N
<1>13. 0 = Placement(c, u)  BY <1>10
<1> HIDE <1>7
<1> QED  BY <1>11, <1>12, <1>13 DEF Balanced

\* What really was in the month that ended stands, and the next begins with what
\* its rate brings.
LEMMA EndMonthFacts ==
  ASSUME Inv, NEW lazy \in BOOLEAN, NEW rate \in Int, EndMonth(lazy, rate)
  PROVE  /\ today \in Int /\ 1 <= today /\ today <= LastMonth /\ today' = today + 1
         /\ worth' = worth /\ spent' = spent /\ placed' = placed
         /\ gained' \in [1 .. LastMonth -> Int]
         /\ \A m \in 1 .. LastMonth : m # today + 1 => gained'[m] = gained[m]
         /\ today < LastMonth =>
              gained'[today + 1] = SumFunction(Gains(books', worth, today + 1))
<1>1. Turns(books, books', worth, today, rate)  BY TurnsIs
<1> DEFINE u == today + 1
           exposed == {p \in Position : Held(p) /\ Currency[p] = Other}
           was == LatestAtOrBefore(books.rate[Other], today)
           total == SumOver(exposed, LAMBDA p : worth[p] * (rate - was))
           G == SumFunction(Gains(books', worth, u))
<1>2. /\ today \in Int /\ 1 <= today /\ today <= LastMonth /\ LastMonth \in Nat
      /\ today' = u /\ u \in Int /\ 1 < u
      /\ worth' = worth /\ spent' = spent /\ placed' = placed
      /\ worth \in [Position -> Int] /\ gained \in [1 .. LastMonth -> Int]
  <2>1. /\ today <= LastMonth /\ today' = today + 1
        /\ worth' = worth /\ spent' = spent /\ placed' = placed
    BY DEF EndMonth
  <2>2. /\ today \in 1 .. LastMonth + 1 /\ LastMonth \in Nat
        /\ worth \in [Position -> Int] /\ gained \in [1 .. LastMonth -> Int]
    BY BooksAssumption DEF Inv, InTime
  <2>3. today \in Int /\ 1 <= today /\ today + 1 \in Int /\ 1 < today + 1  BY <2>2
  <2> QED  BY <2>1, <2>2, <2>3
<1>3. gained' = IF today = LastMonth THEN gained ELSE [gained EXCEPT ![u] = total]
  BY DEF EndMonth
<1>4. G = total
  <2> DEFINE f == [p \in Exposed(books) |-> worth[p] * (rate - RateAt(books, today))]
  <2>1. G = SumFunction(f)
    <3>1. \A v : v = today + 1 => Balanced(books', worth, v, 0, SumFunction(f), 0)
      BY <1>1, TurnsBalanced
    <3>2. Balanced(books', worth, u, 0, SumFunction(f), 0)  BY <3>1
    <3> HIDE DEF u, f
    <3> QED  BY <3>2 DEF Balanced
  <2>2. exposed = Exposed(books)  BY DEF Exposed, Held
  <2>3. total = SumFunction([p \in exposed |-> worth[p] * (rate - was)])  BY DEF SumOver
  <2>4. f = [p \in Exposed(books) |-> worth[p] * (rate - was)]  BY DEF RateAt
  <2> HIDE DEF exposed, was, total, G, f
  <2> QED  BY <2>1, <2>2, <2>3, <2>4
<1>5. G \in Int
  <2>1. BooksOK(books', u)  BY <1>1, TurnsOK
  <2> QED  BY <1>2, <2>1, FiguresTyped
<1>6. /\ gained' \in [1 .. LastMonth -> Int]
      /\ \A m \in 1 .. LastMonth : m # u => gained'[m] = gained[m]
      /\ today < LastMonth => gained'[u] = G
  <2> DEFINE D == 1 .. LastMonth
  <2>1. today < LastMonth => u \in D /\ today # LastMonth  BY <1>2
  <2>2. today = LastMonth => ~(today < LastMonth)  BY <1>2
  <2>3. gained \in [D -> Int] /\ total \in Int  BY <1>2, <1>4, <1>5
  <2> HIDE DEF D, u, total, G
  <2>4. CASE today = LastMonth  BY <1>3, <2>2, <2>3, <2>4 DEF D
  <2>5. CASE today # LastMonth
    <3>1. gained' = [gained EXCEPT ![u] = total]  BY <1>3, <2>5
    <3> QED  BY <1>4, <2>1, <2>3, <3>1 DEF D
  <2> QED  BY <2>4, <2>5
<1> QED  BY <1>2, <1>6

LEMMA EndMonthInv ==
  ASSUME Inv, NEW lazy \in BOOLEAN, NEW rate \in Int, EndMonth(lazy, rate)
  PROVE  Upheld
<1> DEFINE u == today + 1
<1>1. Turns(books, books', worth, today, rate)  BY TurnsIs
<1>2. /\ today \in Int /\ 1 <= today /\ today <= LastMonth /\ today' = u
      /\ worth' = worth /\ spent' = spent /\ placed' = placed
      /\ gained' \in [1 .. LastMonth -> Int]
      /\ \A m \in 1 .. LastMonth : m # u => gained'[m] = gained[m]
      /\ today < LastMonth => gained'[u] = SumFunction(Gains(books', worth, u))
  BY EndMonthFacts
<1>3. LastMonth \in Nat /\ u \in Int /\ 1 < u  BY <1>2, BooksAssumption
<1>4. InTime'  BY <1>2, <1>3 DEF Inv, InTime
<1>5. BooksOK(books', u)  BY <1>1, TurnsOK
<1>6. Ahead'
  <2> SUFFICES ASSUME NEW m \in 1 .. LastMonth, m > u PROVE spent'[m] = 0 /\ placed'[m] = 0
    BY <1>2 DEF Ahead
  <2>1. m > today  BY <1>2
  <2> QED  BY <1>2, <2>1 DEF Inv, Ahead
<1>7. ASSUME NEW m \in 2 .. today
      PROVE  /\ LivingExpenses(books', m) = spent'[m]
             /\ InvestmentReturn(books', m) = gained'[m] /\ Placement(books', m) = placed'[m]
  <2>1. m \in Int /\ 1 <= m /\ 1 < m /\ m <= today /\ m \in 1 .. LastMonth /\ m # u
    BY <1>2, <1>3
  <2>2. CASE m < today
    <3>1. Alike(books, today, books', today + 1, m)  BY <1>1, <2>1, <2>2, TurnsAlike
    <3>2. /\ InvestmentReturn(books', m) = InvestmentReturn(books, m)
          /\ LivingExpenses(books', m) = LivingExpenses(books, m)
          /\ Placement(books', m) = Placement(books, m)
      BY <2>1, <3>1, AlikeReport
    <3>3. m \in Past  BY <1>2, <2>1, <2>2 DEF Past
    <3>4. /\ InvestmentReturn(books, m) = gained[m] /\ LivingExpenses(books, m) = spent[m]
          /\ Placement(books, m) = placed[m]
      BY <3>3 DEF Inv, Reported, ExpensesAreSpending, ReturnsAreGains, PlacementIsNewMoney
    <3> QED  BY <1>2, <2>1, <3>2, <3>4
  <2>3. CASE m = today
    <3>0. 1 < today  BY <2>1, <2>3
    <3>1. Balanced(books, worth, today, spent[today], gained[today], placed[today])
      BY <1>2, <3>0 DEF Inv, Underway
    <3>2. /\ InvestmentReturn(books', today) = SumFunction(Gains(books, worth, today))
          /\ LivingExpenses(books', today) =
               EarnedIncome(books, today) - SumFunction(Intos(books, worth, today))
          /\ Placement(books', today) = Placement(books, today)
      BY <1>1, <3>0, TurnsReport
    <3> DEFINE E == EarnedIncome(books, today)  I == SumFunction(Intos(books, worth, today))
               s == spent[today]  L == LivingExpenses(books', today)
    <3>3. E \in Int /\ I \in Int
      BY <1>2, <3>0, FiguresTyped DEF Inv, InTime
    <3>4. s \in Int  BY <2>1, <2>3 DEF Inv, InTime
    <3>5. E - s = I /\ L = E - I  BY <3>1, <3>2 DEF Balanced
    <3> HIDE DEF E, I, s, L
    <3>6. L = s  BY <3>3, <3>4, <3>5
    <3>7. LivingExpenses(books', today) = spent[today]  BY <3>6 DEF L, s
    <3>8. /\ gained[today] = SumFunction(Gains(books, worth, today))
          /\ placed[today] = Placement(books, today)
      BY <3>1 DEF Balanced
    <3> QED  BY <1>2, <2>1, <2>3, <3>2, <3>7, <3>8
  <2> QED  BY <1>2, <2>1, <2>2, <2>3
<1>8. Reported'
  <2>1. Past' = 2 .. today  BY <1>2 DEF Past
  <2> QED  BY <1>7, <2>1 DEF Reported, ExpensesAreSpending, ReturnsAreGains, PlacementIsNewMoney
<1>9. ASSUME u <= LastMonth
      PROVE  Balanced(books', worth, u, spent[u], gained'[u], placed[u])
  <2> DEFINE f == [p \in Exposed(books) |-> worth[p] * (rate - RateAt(books, today))]
  <2>1. /\ EarnedIncome(books', u) - 0 = SumFunction(Intos(books', worth, u))
        /\ 0 = Placement(books', u)
    <3>1. \A v : v = today + 1 => Balanced(books', worth, v, 0, SumFunction(f), 0)
      BY <1>1, TurnsBalanced
    <3>2. Balanced(books', worth, u, 0, SumFunction(f), 0)  BY <3>1
    <3> HIDE DEF u, f
    <3> QED  BY <3>2 DEF Balanced
  <2>2. spent[u] = 0 /\ placed[u] = 0
    <3>1. u \in 1 .. LastMonth /\ u > today  BY <1>2, <1>3, <1>9
    <3> QED  BY <3>1 DEF Inv, Ahead
  <2>3. gained'[u] = SumFunction(Gains(books', worth, u))
    <3>1. today < LastMonth  BY <1>2, <1>3, <1>9
    <3> QED  BY <1>2, <3>1
  <2> HIDE DEF u
  <2> QED  BY <2>1, <2>2, <2>3 DEF Balanced
<1>10. Underway'  BY <1>2, <1>9 DEF Underway
<1>11. Inv'  BY <1>2, <1>4, <1>5, <1>6, <1>8, <1>10 DEF Inv
<1>12. ASSUME NEW m \in 1 .. today - 1 PROVE Report(books', m) = Report(books, m)
  <2>1. m \in Int /\ 1 <= m /\ m < today  BY <1>2
  <2>2. Alike(books, today, books', today + 1, m)  BY <1>1, <2>1, TurnsAlike
  <2> QED  BY <2>2, AlikeReport
<1> QED  BY <1>11, <1>12 DEF Upheld

----------------------------------------------------------------------------
(* The theorems *)

\* A household begins with an account that nothing has been recorded of.
LEMMA InitInv == Init => Inv
<1> SUFFICES ASSUME Init PROVE Inv  OBVIOUS
<1> DEFINE row == Row(Bank, "acquired", None, None)
<1>1. /\ today = 1 /\ DOMAIN books = Fields
      /\ DOMAIN books.position = {Bank} /\ books.position[Bank] = row
      /\ DOMAIN books.snapshot = {Bank} /\ DOMAIN books.snapshot[Bank] = {}
      /\ books.transaction = {} /\ books.income = {} /\ books.multi = TRUE
      /\ DOMAIN books.rate = {Other} /\ DOMAIN books.rate[Other] = {1} /\ books.rate[Other][1] = 1
  <2>1. /\ today = 1
        /\ books = [position    |-> Put(NoSeries, Bank, row),
                    snapshot    |-> Put(NoSeries, Bank, NoSeries),
                    transaction |-> {}, income |-> {},
                    rate |-> Put(NoSeries, Other, Put(NoSeries, 1, 1)), multi |-> TRUE]
    BY DEF Init
  <2> DEFINE r == Put(NoSeries, 1, 1)
             P == Put(NoSeries, Bank, row)  Q == Put(NoSeries, Bank, NoSeries)
             R == Put(NoSeries, Other, r)
  <2> HIDE DEF row
  <2>2. /\ DOMAIN books = Fields /\ books.position = P /\ books.snapshot = Q
        /\ books.transaction = {} /\ books.income = {} /\ books.multi = TRUE /\ books.rate = R
    BY <2>1 DEF Fields
  <2>3. DOMAIN NoSeries = {}  BY DEF NoSeries
  <2>4. DOMAIN P = {Bank} /\ P[Bank] = row  BY <2>3 DEF Put
  <2>5. DOMAIN Q = {Bank} /\ Q[Bank] = NoSeries  BY <2>3 DEF Put
  <2>6. DOMAIN r = {1} /\ r[1] = 1  BY <2>3 DEF Put
  <2> HIDE DEF r
  <2>7. DOMAIN R = {Other} /\ R[Other] = r  BY <2>3 DEF Put
  <2> HIDE DEF P, Q, R
  <2> QED  BY <2>1, <2>2, <2>3, <2>4, <2>5, <2>6, <2>7
<1>2. /\ Bank \in Position /\ Kind[Bank] = "bank_account" /\ GroupOf(Bank) = "asset"
      /\ Currency[Bank] \in {Home, Other} /\ LastMonth \in Nat /\ Cash \in Int
  BY BooksAssumption DEF GroupOf
<1>3. /\ row.group = "asset" /\ row.subtype = Kind[Bank] /\ row.status = "active"
      /\ row.entry = "acquired" /\ row.owner = "joint" /\ row.end = None
      /\ row.principal = None /\ row.placed = None /\ row.from = None
      /\ row.currency = Currency[Bank] /\ row \in Rows
  BY <1>2 DEF Row, Rows, Groups, Statuses
<1>4. InTime
  <2>1. today = 1 /\ worth = [p \in Position |-> IF p = Bank THEN Cash ELSE 0]
        /\ spent = Zeros /\ gained = Zeros /\ placed = Zeros
    BY DEF Init
  <2> QED  BY <1>2, <2>1 DEF InTime, Zeros
<1>5. PositionsOK(books, today)
  <2>1. RowOK(Bank, row, 1)  BY <1>2, <1>3 DEF RowOK
  <2>2. SeriesOK(Bank, row, books.snapshot[Bank], 1)  BY <1>1, <1>3 DEF SeriesOK
  <2>3. IsFiniteSet({Bank})  BY FS_Singleton
  <2> HIDE DEF row
  <2> QED  BY <1>1, <1>2, <2>1, <2>2, <2>3 DEF PositionsOK
<1>6. BankOK(books, today) /\ RatesOK(books, today)
  BY <1>1, <1>3 DEF BankOK, RatesOK
<1>7. TxnsOK(books, today) /\ IncomeOK(books, today)
  BY <1>1, FS_EmptySet DEF TxnsOK, IncomeOK
<1>8. RollsOK(books) /\ SettledOK(books)  BY <1>1, <1>3 DEF RollsOK, SettledOK
<1>9. BooksOK(books, today)  BY <1>1, <1>5, <1>6, <1>7, <1>8 DEF BooksOK
<1>10. Ahead
  <2>1. spent = Zeros /\ placed = Zeros  BY DEF Init
  <2> QED  BY <2>1 DEF Ahead, Zeros
<1>11. Past = {}  BY <1>1 DEF Past
<1>12. Reported
  BY <1>11 DEF Reported, ExpensesAreSpending, ReturnsAreGains, PlacementIsNewMoney
<1>13. Underway  BY <1>1 DEF Underway
<1> QED  BY <1>4, <1>9, <1>10, <1>12, <1>13 DEF Inv

LEMMA NextInv == Inv /\ Next => Upheld
<1> SUFFICES ASSUME Inv, Next PROVE Upheld  OBVIOUS
<1>1. CASE Earn  BY <1>1, EarnInv
<1>2. CASE Spend  BY <1>2, SpendInv
<1>3. ASSUME NEW p \in Position \ {Bank}, NEW v \in Amount, Acquire(p, v) \/ Arrive(p, v)
      PROVE  Upheld
  <2>1. v \in Int  BY BooksAssumption
  <2> QED  BY <1>3, <2>1, AcquireInv, ArriveInv
<1>4. ASSUME NEW p \in Position \ {Bank}, NEW d \in {-1, 1}, Mark(p, worth[p] + d)
      PROVE  Upheld
  <2>1. worth[p] \in Int  BY DEF Inv, InTime
  <2> DEFINE v == worth[p] + d
  <2>2. v \in Int /\ Mark(p, v)  BY <1>4, <2>1
  <2> HIDE DEF v
  <2> QED  BY <2>2, MarkInv
<1>5. ASSUME NEW p \in Position \ {Bank},
             Buy(p) \/ Sell(p) \/ Yield(p) \/ Fee(p) \/ Repay(p) \/ Settle(p)
      PROVE  Upheld
  BY <1>5, BuyInv, SellInv, YieldInv, FeeInv, RepayInv, SettleInv
<1>6. ASSUME NEW p \in Position \ {Bank}, NEW x \in Amount \cup {0}, SellOut(p, x)
      PROVE  Upheld
  <2>1. x \in Int  BY BooksAssumption
  <2> QED  BY <1>6, <2>1, SellOutInv
<1>7. ASSUME NEW p \in Position \ {Bank}, NEW i \in 0 .. 1, NEW q \in Position \ {p},
             NEW rolled \in SUBSET {"principal", "interest"}, Mature(p, i, q, rolled)
      PROVE  Upheld
  BY <1>7, MatureInv
<1>8. ASSUME NEW p \in Position \ {Bank}, NEW status, Vanish(p, status)
      PROVE  Upheld
  BY <1>8, VanishInv
<1>9. ASSUME NEW lazy \in BOOLEAN, NEW rate \in Rate, EndMonth(lazy, rate)
      PROVE  Upheld
  <2>1. rate \in Int  BY BooksAssumption
  <2> QED  BY <1>9, <2>1, EndMonthInv
<1> QED  BY <1>1, <1>2, <1>3, <1>4, <1>5, <1>6, <1>7, <1>8, <1>9 DEF Next

LEMMA StillInv == Inv /\ UNCHANGED vars => Inv'
BY DEF vars, Inv, InTime, Ahead, Reported, ExpensesAreSpending, ReturnsAreGains,
       PlacementIsNewMoney, Past, Underway

\* The books are kept as the engine expects, past reports show what was, and the
\* figures of the month under way stand for what has happened in it.
THEOREM Invariance == Spec => []Inv
<1>1. Inv /\ [Next]_vars => Inv'  BY NextInv, StillInv DEF Upheld
<1> QED  BY <1>1, InitInv, PTL DEF Spec

\* Living expenses, which nobody records, come out as what was spent
\* (LivingExpenses of monthly_reports_engine.go).
THEOREM ExpensesAreSpendingHolds == Spec => []ExpensesAreSpending
<1>1. Inv => ExpensesAreSpending  BY DEF Inv, Reported
<1> QED  BY <1>1, Invariance, PTL

\* Investment return is what investments gained, whatever was put in or taken out.
THEOREM ReturnsAreGainsHolds == Spec => []ReturnsAreGains
<1>1. Inv => ReturnsAreGains  BY DEF Inv, Reported
<1> QED  BY <1>1, Invariance, PTL

\* Investment placement is the new money: what is rolled over is not counted.
THEOREM PlacementIsNewMoneyHolds == Spec => []PlacementIsNewMoney
<1>1. Inv => PlacementIsNewMoney  BY DEF Inv, Reported
<1> QED  BY <1>1, Invariance, PTL

\* No month's advisory names an investment whose sale or maturity is booked.
THEOREM NoFalseAlarmHolds == Spec => []NoFalseAlarm
<1>1. Inv => NoFalseAlarm
  <2> SUFFICES ASSUME Inv, NEW m \in 1 .. today - 1, NEW p \in Unsettled(books, m)
               PROVE  FALSE
    BY DEF NoFalseAlarm
  <2>1. SettledOK(books) /\ m \in Int  BY DEF Inv, BooksOK
  <2>2. /\ p \in DOMAIN books.position /\ books.position[p].group = "investment"
        /\ books.position[p].end = m /\ books.position[p].status # "untracked"
        /\ ~\E x \in books.transaction : x.of = p /\ x.month = m /\ x.type \in {"sell", "maturity"}
    BY DEF Unsettled, InGroup, TerminatesAt, TrackingExit
  <2>3. books.position[p].end # None  BY <2>1, <2>2, NoneAssumption
  <2> QED  BY <2>1, <2>2, <2>3 DEF SettledOK
<1> QED  BY <1>1, Invariance, PTL

\* Nothing that happens later changes the report of a month that is over.
THEOREM PastIsSettledHolds == Spec => PastIsSettled
<1>1. Inv /\ [Next]_vars => [\A m \in 1 .. today - 1 : Report(books', m) = Report(books, m)]_books
  BY NextInv DEF Upheld, vars
<1> QED  BY <1>1, Invariance, PTL DEF Spec, PastIsSettled
=============================================================================
