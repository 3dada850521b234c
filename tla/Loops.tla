-------------------------------- MODULE Loops -------------------------------
(***************************************************************************)
(* What the code computes in loops, as facts about recursive functions.    *)
(* First, loops that carry a value from one round to the next: such a      *)
(* function exists, and what every round preserves holds to the end. Then  *)
(* the sums over a table, a portfolio or a panel of agents, as facts about *)
(* SumFunction of the community module Functions: the sum does not depend  *)
(* on the order, and what one entry more, one entry changed or one entry   *)
(* less does to it.                                                        *)
(*                                                                         *)
(* SumFunction is a recursive function over the subsets of the domain.     *)
(* That it exists, and every fact about it, is shown for the smallest      *)
(* subset that would be an exception; and so it is for the rounds of a     *)
(* loop.                                                                   *)
(***************************************************************************)
EXTENDS Functions, FiniteSetTheorems, WellFoundedInduction, TLAPS

-----------------------------------------------------------------------------
(* Loops that carry a value. *)

\* What holds before a loop and after each of its rounds, if it did so before the round,
\* holds all the way.
LEMMA Rounds ==
  ASSUME NEW n \in Nat, NEW good, 0 \in good, \A i \in 1 .. n : i - 1 \in good => i \in good
  PROVE  \A i \in 0 .. n : i \in good
<1> DEFINE bad == {i \in 0 .. n : i \notin good}
           Less == {pair \in Nat \X Nat : pair[1] < pair[2]}
<1> SUFFICES ASSUME bad # {}
             PROVE  FALSE
  OBVIOUS
<1>1. IsWellFoundedOn(Less, Nat)
  BY NatLessThanWellFounded DEF OpToRel
<1>2. PICK i \in bad : \A j \in bad : <<j, i>> \notin Less
  <2>1. bad \subseteq Nat
    OBVIOUS
  <2> HIDE DEF Less, bad
  <2> QED BY <1>1, <2>1, WFMin
<1>3. i \in 1 .. n
  OBVIOUS
<1>4. i - 1 \in bad
  BY <1>3
<1>5. <<i - 1, i>> \in Less
  BY <1>3
<1> QED BY <1>2, <1>4, <1>5

\* f gives what a loop carries after each of its n rounds.
Runs(f, n, base, step) == f = [i \in 0 .. n |-> IF i = 0 THEN base ELSE step[i][f[i - 1]]]

\* A loop that runs n times has a value after each of its rounds.
LEMMA LoopRuns ==
  ASSUME NEW n \in Nat, NEW X, NEW base \in X, NEW step \in [1 .. n -> [X -> X]]
  PROVE  \E f \in [0 .. n -> X] : Runs(f, n, base, step)
<1> DEFINE good == {k \in 0 .. n : \E f \in [0 .. k -> X] : Runs(f, k, base, step)}
<1>1. 0 \in good
  <2> DEFINE f == [i \in 0 .. 0 |-> base]
  <2>1. f \in [0 .. 0 -> X]
    OBVIOUS
  <2>2. Runs(f, 0, base, step)
    <3>1. \A i \in 0 .. 0 : base = IF i = 0 THEN base ELSE step[i][f[i - 1]]
      OBVIOUS
    <3> QED BY <3>1 DEF Runs
  <2> HIDE DEF f
  <2> QED BY <2>1, <2>2
<1>2. ASSUME NEW k \in 1 .. n, k - 1 \in good
      PROVE  k \in good
  <2>1. PICK f \in [0 .. k - 1 -> X] : Runs(f, k - 1, base, step)
    BY <1>2
  <2> DEFINE g == [i \in 0 .. k |-> IF i = k THEN step[k][f[k - 1]] ELSE f[i]]
  <2>2. k \in 1 .. n /\ k - 1 \in 0 .. k - 1 /\ f[k - 1] \in X
    OBVIOUS
  <2>3. step[k][f[k - 1]] \in X
    BY <2>2
  <2>4. g \in [0 .. k -> X]
    BY <2>3
  <2>5. \A i \in 0 .. k : g[i] = IF i = 0 THEN base ELSE step[i][g[i - 1]]
    <3> SUFFICES ASSUME NEW i \in 0 .. k
                 PROVE  g[i] = IF i = 0 THEN base ELSE step[i][g[i - 1]]
      OBVIOUS
    <3>1. CASE i = k
      <4>1. g[i] = step[k][f[k - 1]] /\ g[i - 1] = f[k - 1] /\ i # 0
        BY <3>1
      <4> HIDE DEF g
      <4> QED BY <3>1, <4>1
    <3>2. CASE i # k
      <4>1. i \in 0 .. k - 1 /\ g[i] = f[i]
        BY <3>2
      <4>2. f[i] = IF i = 0 THEN base ELSE step[i][f[i - 1]]
        BY <2>1, <4>1 DEF Runs
      <4>3. i # 0 => g[i - 1] = f[i - 1]
        BY <4>1
      <4> QED BY <4>1, <4>2, <4>3
    <3> QED BY <3>1, <3>2
  <2>6. Runs(g, k, base, step)
    <3>1. g = [i \in 0 .. k |-> g[i]]
      OBVIOUS
    <3> HIDE DEF g
    <3> QED BY <2>5, <3>1 DEF Runs
  <2> HIDE DEF g
  <2> QED BY <2>4, <2>6
<1>3. n \in good
  <2>1. \A k \in 1 .. n : k - 1 \in good => k \in good
    BY <1>2
  <2> HIDE DEF good
  <2>2. \A k \in 0 .. n : k \in good
    BY <1>1, <2>1, Rounds
  <2> QED BY <2>2
<1> QED BY <1>3

-----------------------------------------------------------------------------
(* Sums. *)

\* The element the fold takes next.
Taken(T) == CHOOSE x \in T : TRUE

\* g computes the sums of w over the subsets of S, one taken element at a time.
Adds(g, w, S) ==
  g = [T \in SUBSET S |-> IF T = {} THEN 0 ELSE w[Taken(T)] + g[T \ {Taken(T)}]]

\* A loop over a non-empty collection has an element to take.
LEMMA TakenIn ==
  ASSUME NEW T, T # {}
  PROVE  Taken(T) \in T
BY DEF Taken

\* Where some finite collections violate a claim, one of them is minimal.
LEMMA Smallest ==
  ASSUME NEW S, IsFiniteSet(S), NEW X, X \subseteq SUBSET S, X # {}
  PROVE  \E T \in X : \A U \in X : U \subseteq T => U = T
<1>1. IsWellFoundedOn(StrictSubsetOrdering(S), SUBSET S)
  BY FS_StrictSubsetOrderingWellFounded, FS_FiniteSubsetsOfFinite
<1>2. PICK T \in X : \A U \in X : <<U, T>> \notin StrictSubsetOrdering(S)
  BY <1>1, WFMin
<1> QED BY <1>2 DEF StrictSubsetOrdering

\* Two ways of adding up the same entries agree wherever both are defined.
LEMMA AddsAgree ==
  ASSUME NEW S, IsFiniteSet(S), NEW w, NEW U, NEW g, NEW h,
         Adds(g, w, S), Adds(h, w, U), NEW V \in SUBSET (S \cap U)
  PROVE  g[V] = h[V]
<1> DEFINE X == {T \in SUBSET (S \cap U) : g[T] # h[T]}
<1> SUFFICES ASSUME X # {}
             PROVE  FALSE
  OBVIOUS
<1>1. PICK T \in X : \A W \in X : W \subseteq T => W = T
  <2>1. X \subseteq SUBSET S
    OBVIOUS
  <2> HIDE DEF X
  <2> QED BY <2>1, Smallest
<1>2. T \in SUBSET S /\ T \in SUBSET U /\ g[T] # h[T]
  OBVIOUS
<1>3. T # {}
  BY <1>2 DEF Adds
<1>4. Taken(T) \in T
  BY <1>3, TakenIn
<1>5. g[T \ {Taken(T)}] = h[T \ {Taken(T)}]
  BY <1>1, <1>2, <1>4
<1>6. g[T] = w[Taken(T)] + g[T \ {Taken(T)}]
  BY <1>2, <1>3 DEF Adds
<1>7. h[T] = w[Taken(T)] + h[T \ {Taken(T)}]
  BY <1>2, <1>3 DEF Adds
<1> QED BY <1>2, <1>5, <1>6, <1>7

\* What adds up the whole collection adds up every part of it.
LEMMA AddsPart ==
  ASSUME NEW S, NEW w, NEW g, Adds(g, w, S), NEW T \in SUBSET S
  PROVE  \E h : Adds(h, w, T) /\ h[T] = g[T]
<1> DEFINE h == [V \in SUBSET T |-> g[V]]
<1>1. ASSUME NEW V \in SUBSET T
      PROVE  h[V] = IF V = {} THEN 0 ELSE w[Taken(V)] + h[V \ {Taken(V)}]
  <2>1. V \in SUBSET S /\ V \ {Taken(V)} \in SUBSET T
    OBVIOUS
  <2>2. g[V] = IF V = {} THEN 0 ELSE w[Taken(V)] + g[V \ {Taken(V)}]
    BY <2>1 DEF Adds
  <2> QED BY <2>1, <2>2
<1>2. Adds(h, w, T) /\ h[T] = g[T]
  BY <1>1 DEF Adds
<1> QED BY <1>2

\* Every finite collection of whole numbers can be added up.
LEMMA SumsExist ==
  ASSUME NEW S, IsFiniteSet(S), NEW w \in [S -> Int]
  PROVE  \E g \in [SUBSET S -> Int] : Adds(g, w, S)
<1> DEFINE Has(T) == \E g \in [SUBSET T -> Int] : Adds(g, w, T)
           X == {T \in SUBSET S : ~Has(T)}
<1> SUFFICES ASSUME X # {}
             PROVE  FALSE
  OBVIOUS
<1>1. PICK T \in X : \A W \in X : W \subseteq T => W = T
  <2>1. X \subseteq SUBSET S
    OBVIOUS
  <2> HIDE DEF X
  <2> QED BY <2>1, Smallest
<1>2. T \in SUBSET S /\ ~Has(T)
  OBVIOUS
<1>3. \A V \in SUBSET T : V # T => Has(V)
  BY <1>1, <1>2
<1> DEFINE Of(V) == CHOOSE g \in [SUBSET V -> Int] : Adds(g, w, V)
<1>4. \A V \in SUBSET T : V # T => Of(V) \in [SUBSET V -> Int] /\ Adds(Of(V), w, V)
  BY <1>3
<1> HIDE DEF Of, Has, X
<1> DEFINE g == [V \in SUBSET T |-> IF V = {} THEN 0
                                    ELSE w[Taken(V)] + Of(V \ {Taken(V)})[V \ {Taken(V)}]]
<1>5. \A V \in SUBSET T : V # {} => /\ V \ {Taken(V)} \in SUBSET T
                                    /\ V \ {Taken(V)} # T
                                    /\ w[Taken(V)] \in Int
  BY <1>2, TakenIn
<1>6. g \in [SUBSET T -> Int]
  <2>1. ASSUME NEW V \in SUBSET T, V # {}
        PROVE  w[Taken(V)] + Of(V \ {Taken(V)})[V \ {Taken(V)}] \in Int
    <3> DEFINE R == V \ {Taken(V)}
    <3>1. R \in SUBSET T /\ R # T
      BY <1>5, <2>1
    <3> HIDE DEF R
    <3>2. Of(R) \in [SUBSET R -> Int]
      BY <1>4, <3>1
    <3>3. Of(R)[R] \in Int
      BY <3>2
    <3> QED BY <1>5, <2>1, <3>3 DEF R
  <2> QED BY <2>1
<1>7. ASSUME NEW V \in SUBSET T, V # T
      PROVE  g[V] = Of(V)[V]
  <2>1. CASE V = {}
    <3>1. Adds(Of({}), w, {})
      BY <1>4, <1>7, <2>1
    <3> QED BY <2>1, <3>1 DEF Adds
  <2>2. CASE V # {}
    <3> DEFINE R == V \ {Taken(V)}
    <3>1. R \in SUBSET V /\ R \in SUBSET T /\ R # T
      BY <1>5, <2>2
    <3>2. Of(V)[R] = Of(R)[R]
      <4>1. Adds(Of(V), w, V) /\ Adds(Of(R), w, R) /\ R \in SUBSET (V \cap R)
        BY <1>4, <1>7, <3>1
      <4>2. IsFiniteSet(V)
        BY <1>2, FS_Subset
      <4> HIDE DEF R
      <4> QED BY <4>1, <4>2, AddsAgree
    <3>3. Of(V)[V] = w[Taken(V)] + Of(V)[R]
      BY <1>4, <1>7, <2>2 DEF Adds
    <3> QED BY <2>2, <3>2, <3>3
  <2> QED BY <2>1, <2>2
<1>8. ASSUME NEW V \in SUBSET T
      PROVE  g[V] = IF V = {} THEN 0 ELSE w[Taken(V)] + g[V \ {Taken(V)}]
  BY <1>5, <1>7
<1>9. Adds(g, w, T)
  <2>1. g = [V \in SUBSET T |-> g[V]]
    OBVIOUS
  <2> HIDE DEF g
  <2> QED BY <1>8, <2>1 DEF Adds
<1> QED BY <1>2, <1>6, <1>9 DEF Has

\* The fold of the community module is such a way of adding up.
LEMMA SumIs ==
  ASSUME NEW S, IsFiniteSet(S), NEW w \in [S -> Int], NEW g, Adds(g, w, S),
         NEW T \in SUBSET S
  PROVE  SumFunctionOnSet(w, T) = g[T]
<1> DEFINE iter == CHOOSE h : Adds(h, w, T)
<1>1. SumFunctionOnSet(w, T) = iter[T]
  BY DEF SumFunctionOnSet, FoldFunctionOnSet, MapThenFoldSet, Adds, Taken
<1>2. Adds(iter, w, T)
  BY AddsPart
<1> HIDE DEF iter
<1> QED BY <1>1, <1>2, AddsAgree

-----------------------------------------------------------------------------
(* What the loops' results do not depend on, and how they change. *)

\* Nothing adds up to zero.
LEMMA SumEmpty ==
  ASSUME NEW S, IsFiniteSet(S), NEW w \in [S -> Int]
  PROVE  SumFunctionOnSet(w, {}) = 0
<1>1. PICK g \in [SUBSET S -> Int] : Adds(g, w, S)
  BY SumsExist
<1>2. SumFunctionOnSet(w, {}) = g[{}]
  BY <1>1, SumIs
<1> QED BY <1>1, <1>2 DEF Adds

\* Whole numbers add up to a whole number.
LEMMA SumType ==
  ASSUME NEW S, IsFiniteSet(S), NEW w \in [S -> Int], NEW T \in SUBSET S
  PROVE  SumFunctionOnSet(w, T) \in Int
<1>1. PICK g \in [SUBSET S -> Int] : Adds(g, w, S)
  BY SumsExist
<1>2. SumFunctionOnSet(w, T) = g[T]
  BY <1>1, SumIs
<1> QED BY <1>1, <1>2

\* The order of the entries does not matter: any of them can be split off.
LEMMA SumSplit ==
  ASSUME NEW S, IsFiniteSet(S), NEW w \in [S -> Int], NEW R \in SUBSET S, NEW r \in R
  PROVE  SumFunctionOnSet(w, R) = w[r] + SumFunctionOnSet(w, R \ {r})
<1>1. PICK g \in [SUBSET S -> Int] : Adds(g, w, S)
  BY SumsExist
<1> DEFINE X == {T \in SUBSET S : \E x \in T : g[T] # w[x] + g[T \ {x}]}
<1>2. ASSUME X # {}
      PROVE  FALSE
  <2>1. PICK T \in X : \A V \in X : V \subseteq T => V = T
    <3>1. X \subseteq SUBSET S
      OBVIOUS
    <3> HIDE DEF X
    <3> QED BY <1>2, <3>1, Smallest
  <2>2. T \in SUBSET S
    OBVIOUS
  <2>3. PICK x \in T : g[T] # w[x] + g[T \ {x}]
    OBVIOUS
  <2> DEFINE c == Taken(T)
             B == T \ {x, c}
  <2>4. c \in T
    BY <2>3, TakenIn
  <2>5. g[T] = w[c] + g[T \ {c}]
    BY <1>1, <2>2, <2>4 DEF Adds
  <2>6. c # x
    BY <2>3, <2>5
  <2>7. \A V \in SUBSET S : V \subseteq T /\ V # T => \A y \in V : g[V] = w[y] + g[V \ {y}]
    BY <2>1
  <2> HIDE DEF c, X
  <2>8. g[T \ {c}] = w[x] + g[B]
    <3>1. T \ {c} \in SUBSET S /\ T \ {c} # T /\ x \in T \ {c} /\ (T \ {c}) \ {x} = B
      BY <2>2, <2>3, <2>4, <2>6
    <3> HIDE DEF B
    <3> QED BY <2>7, <3>1
  <2>9. g[T \ {x}] = w[c] + g[B]
    <3>1. T \ {x} \in SUBSET S /\ T \ {x} # T /\ c \in T \ {x} /\ (T \ {x}) \ {c} = B
      BY <2>2, <2>3, <2>4, <2>6
    <3> HIDE DEF B
    <3> QED BY <2>7, <3>1
  <2>10. w[x] \in Int /\ w[c] \in Int /\ g[B] \in Int
    BY <2>2, <2>3, <2>4
  <2> HIDE DEF B
  <2> QED BY <2>3, <2>5, <2>8, <2>9, <2>10
<1>3. g[R] = w[r] + g[R \ {r}]
  BY <1>2
<1>4. SumFunctionOnSet(w, R) = g[R] /\ SumFunctionOnSet(w, R \ {r}) = g[R \ {r}]
  <2>1. R \ {r} \in SUBSET S
    OBVIOUS
  <2> HIDE DEF X
  <2> QED BY <1>1, <2>1, SumIs
<1> QED BY <1>3, <1>4

\* Nor does it matter where else the entries are kept.
LEMMA SumSame ==
  ASSUME NEW S, IsFiniteSet(S), NEW w \in [S -> Int],
         NEW U, IsFiniteSet(U), NEW v \in [U -> Int],
         NEW T \in SUBSET (S \cap U), \A x \in T : w[x] = v[x]
  PROVE  SumFunctionOnSet(w, T) = SumFunctionOnSet(v, T)
<1>1. PICK g \in [SUBSET S -> Int] : Adds(g, w, S)
  BY SumsExist
<1>2. PICK h \in [SUBSET U -> Int] : Adds(h, v, U)
  BY SumsExist
<1>0. T \in SUBSET S /\ T \in SUBSET U
  OBVIOUS
<1>3. PICK also : Adds(also, v, T) /\ also[T] = h[T]
  BY <1>0, <1>2, AddsPart
<1>4. Adds(also, w, T)
  <2>1. \A V \in SUBSET T : V # {} => v[Taken(V)] = w[Taken(V)]
    BY TakenIn
  <2> QED BY <1>3, <2>1 DEF Adds
<1>5. g[T] = also[T]
  <2>1. T \in SUBSET (S \cap T)
    OBVIOUS
  <2> QED BY <1>1, <1>4, <2>1, AddsAgree
<1>6. SumFunctionOnSet(w, T) = g[T] /\ SumFunctionOnSet(v, T) = h[T]
  BY <1>0, <1>1, <1>2, SumIs
<1> QED BY <1>3, <1>5, <1>6

\* The sum of a whole table, portfolio or panel.
LEMMA SumAll ==
  ASSUME NEW S, IsFiniteSet(S), NEW w \in [S -> Int]
  PROVE  /\ SumFunction(w) \in Int
         /\ \A x \in S : SumFunction(w) = w[x] + SumFunctionOnSet(w, S \ {x})
<1>1. SumFunction(w) = SumFunctionOnSet(w, S)
  BY DEF SumFunction
<1> QED BY <1>1, SumType, SumSplit

\* Changing one entry changes the sum by as much.
LEMMA SumChanged ==
  ASSUME NEW S, IsFiniteSet(S), NEW w \in [S -> Int], NEW v \in [S -> Int], NEW r \in S,
         \A x \in S \ {r} : v[x] = w[x]
  PROVE  SumFunction(v) = SumFunction(w) - w[r] + v[r]
<1>1. SumFunction(w) = w[r] + SumFunctionOnSet(w, S \ {r})
  BY SumAll
<1>2. SumFunction(v) = v[r] + SumFunctionOnSet(v, S \ {r})
  BY SumAll
<1>3. SumFunctionOnSet(v, S \ {r}) = SumFunctionOnSet(w, S \ {r})
  <2>1. S \ {r} \in SUBSET (S \cap S)
    OBVIOUS
  <2> QED BY <2>1, SumSame
<1>4. SumFunctionOnSet(w, S \ {r}) \in Int /\ w[r] \in Int /\ v[r] \in Int
  BY SumType
<1> QED BY <1>1, <1>2, <1>3, <1>4

\* A new entry is added to the sum.
LEMMA SumExtended ==
  ASSUME NEW S, IsFiniteSet(S), NEW w \in [S -> Int], NEW r, r \notin S,
         NEW v \in [S \cup {r} -> Int], \A x \in S : v[x] = w[x]
  PROVE  SumFunction(v) = SumFunction(w) + v[r]
<1> DEFINE U == S \cup {r}
<1>0. IsFiniteSet(U) /\ v \in [U -> Int] /\ r \in U /\ U \ {r} = S /\ S \in SUBSET (U \cap S)
  BY FS_AddElement
<1> HIDE DEF U
<1>1. SumFunction(v) = v[r] + SumFunctionOnSet(v, S)
  BY <1>0, SumAll
<1>2. SumFunctionOnSet(v, S) = SumFunctionOnSet(w, S)
  BY <1>0, SumSame
<1>3. SumFunction(w) = SumFunctionOnSet(w, S) /\ SumFunction(w) \in Int /\ v[r] \in Int
  BY <1>0, SumAll DEF SumFunction
<1> QED BY <1>1, <1>2, <1>3

\* Entries that are, one by one, at most in some proportion to others are so in sum.
LEMMA SumScaled ==
  ASSUME NEW S, IsFiniteSet(S), NEW v \in [S -> Int], NEW w \in [S -> Int],
         NEW d \in Nat, NEW n \in Nat, \A x \in S : v[x] * d <= w[x] * n
  PROVE  SumFunction(v) * d <= SumFunction(w) * n
<1> DEFINE sumV(T) == SumFunctionOnSet(v, T)
           sumW(T) == SumFunctionOnSet(w, T)
           X == {T \in SUBSET S : ~ (sumV(T) * d <= sumW(T) * n)}
<1>1. ASSUME X # {}
      PROVE  FALSE
  <2>1. PICK T \in X : \A V \in X : V \subseteq T => V = T
    <3>1. X \subseteq SUBSET S
      OBVIOUS
    <3> HIDE DEF X
    <3> QED BY <1>1, <3>1, Smallest
  <2>2. T \in SUBSET S /\ ~ (sumV(T) * d <= sumW(T) * n)
    OBVIOUS
  <2>3. T # {}
    <3>1. sumV({}) = 0 /\ sumW({}) = 0
      BY SumEmpty
    <3>2. 0 * d <= 0 * n
      OBVIOUS
    <3> HIDE DEF sumV, sumW
    <3> QED BY <2>2, <3>1, <3>2
  <2>4. PICK r \in T : TRUE
    BY <2>3
  <2> DEFINE R == T \ {r}
  <2>5. R \in SUBSET S /\ R \subseteq T /\ R # T
    BY <2>2, <2>4
  <2>6. sumV(R) * d <= sumW(R) * n
    BY <2>1, <2>5
  <2>7. sumV(T) = v[r] + sumV(R) /\ sumW(T) = w[r] + sumW(R)
    BY <2>2, <2>4, SumSplit
  <2>8. sumV(R) \in Int /\ sumW(R) \in Int /\ v[r] \in Int /\ w[r] \in Int
    BY <2>2, <2>4, <2>5, SumType
  <2>9. v[r] * d <= w[r] * n
    BY <2>2, <2>4
  <2> HIDE DEF X, R, sumV, sumW
  <2> DEFINE vr == v[r]
             wr == w[r]
  <2>10. /\ (vr + sumV(R)) * d = vr * d + sumV(R) * d
         /\ (wr + sumW(R)) * n = wr * n + sumW(R) * n
         /\ vr * d \in Int /\ wr * n \in Int /\ sumV(R) * d \in Int /\ sumW(R) * n \in Int
    BY <2>8
  <2> QED BY <2>2, <2>6, <2>7, <2>9, <2>10
<1>2. sumV(S) * d <= sumW(S) * n
  BY <1>1
<1> QED BY <1>2 DEF SumFunction

\* One entry more of a list.
LEMMA SumNext ==
  ASSUME NEW S, IsFiniteSet(S), NEW j, j \notin S, NEW T, S \cup {j} = T,
         NEW old \in [S -> Int], NEW all \in [T -> Int], \A i \in S : all[i] = old[i]
  PROVE  SumFunction(all) = SumFunction(old) + all[j]
BY SumExtended

\* The entries of v are no larger than those of w.
NoLarger(v, w) == \A i \in DOMAIN v : v[i] <= w[i]

\* Fewer entries, none of them larger, come to no more.
LEMMA SumOfFewer ==
  ASSUME NEW n \in Nat, NEW k \in 0 .. n, NEW w \in [1 .. n -> Nat], NEW v \in [1 .. k -> Int],
         NoLarger(v, w)
  PROVE  SumFunction(v) \in Int /\ SumFunction(w) \in Int /\ SumFunction(v) <= SumFunction(w)
<1> DEFINE first(m) == [i \in 1 .. m |-> w[i]]
           good == {m \in 0 .. n - k : SumFunction(v) <= SumFunction(first(k + m))}
<1>1. \A m \in 0 .. n : first(m) \in [1 .. m -> Int] /\ IsFiniteSet(1 .. m)
  BY FS_Interval
<1>2. SumFunction(v) \in Int /\ \A m \in 0 .. n : SumFunction(first(m)) \in Int
  <2>1. IsFiniteSet(1 .. k)
    BY FS_Interval
  <2> HIDE DEF first
  <2> QED BY <1>1, <2>1, SumAll
<1>3. 0 \in good
  <2>1. \A i \in 1 .. k : v[i] * 1 <= first(k)[i] * 1
    BY DEF NoLarger
  <2>2. first(k) \in [1 .. k -> Int] /\ IsFiniteSet(1 .. k)
    BY <1>1
  <2> DEFINE f == first(k)
  <2> HIDE DEF f, first
  <2>3. SumFunction(v) * 1 <= SumFunction(f) * 1
    BY <2>1, <2>2, SumScaled DEF f
  <2>4. SumFunction(f) \in Int
    BY <1>2 DEF f
  <2>5. SumFunction(v) <= SumFunction(f)
    BY <1>2, <2>3, <2>4
  <2> QED BY <2>5 DEF f
<1>4. ASSUME NEW m \in 1 .. n - k, m - 1 \in good
      PROVE  m \in good
  <2> DEFINE j == k + m
  <2>0. j \in 1 .. n /\ j - 1 \in 0 .. n /\ j - 1 = k + (m - 1)
    OBVIOUS
  <2>1. j \in 1 .. n /\ j - 1 \in 0 .. n /\ j \notin 1 .. j - 1 /\ (1 .. j - 1) \cup {j} = 1 .. j
    <3> HIDE DEF j
    <3>1. j \notin 1 .. j - 1
      BY <2>0
    <3>2. \A i \in (1 .. j - 1) \cup {j} : i \in 1 .. j
      BY <2>0
    <3>3. \A i \in 1 .. j : i \in (1 .. j - 1) \cup {j}
      BY <2>0
    <3> QED BY <2>0, <3>1, <3>2, <3>3
  <2>2. first(j) \in [(1 .. j - 1) \cup {j} -> Int] /\ first(j - 1) \in [1 .. j - 1 -> Int]
    BY <1>1, <2>1
  <2>3. \A i \in 1 .. j - 1 : first(j)[i] = first(j - 1)[i]
    BY <2>1
  <2>4. first(j)[j] = w[j] /\ w[j] \in Nat
    BY <2>1
  <2>5. SumFunction(v) <= SumFunction(first(j - 1))
    <3>1. SumFunction(v) <= SumFunction(first(k + (m - 1)))
      BY <1>4
    <3> HIDE DEF first, j
    <3> QED BY <2>0, <3>1
  <2> HIDE DEF j, first, good
  <2>6. IsFiniteSet(1 .. j - 1)
    BY <1>1, <2>1
  <2>7. SumFunction(first(j)) = SumFunction(first(j - 1)) + first(j)[j]
    <3> DEFINE S == 1 .. j - 1
               T == 1 .. j
               old == first(j - 1)
               all == first(j)
    <3>1. IsFiniteSet(S) /\ j \notin S /\ S \cup {j} = T
      BY <2>1, <2>6
    <3>2. old \in [S -> Int] /\ all \in [T -> Int] /\ \A i \in S : all[i] = old[i]
      BY <2>1, <2>2, <2>3
    <3> HIDE DEF S, T, old, all
    <3>3. SumFunction(all) = SumFunction(old) + all[j]
      BY <3>1, <3>2, SumNext
    <3> QED BY <3>3 DEF old, all
  <2>8. SumFunction(first(j - 1)) \in Int /\ SumFunction(first(j)) \in Int
    BY <1>2, <2>1
  <2>9. SumFunction(v) <= SumFunction(first(j))
    BY <1>2, <2>4, <2>5, <2>7, <2>8
  <2> QED BY <2>9 DEF j, good
<1>5. n - k \in good
  <2>0. n - k \in Nat
    OBVIOUS
  <2> HIDE DEF good
  <2>1. n - k \in Nat /\ \A m \in 1 .. n - k : m - 1 \in good => m \in good
    BY <1>4, <2>0
  <2>2. \A m \in 0 .. n - k : m \in good
    BY <1>3, <2>1, Rounds
  <2> QED BY <2>1, <2>2
<1>6. first(n) = w /\ k + (n - k) = n /\ n \in 0 .. n
  OBVIOUS
<1>7. SumFunction(v) <= SumFunction(first(k + (n - k)))
  BY <1>5
<1> HIDE DEF first, good
<1> QED BY <1>2, <1>6, <1>7

\* The sum over a panel of three.
LEMMA SumOfThree ==
  ASSUME NEW S, NEW w \in [S -> Int], NEW x \in S, NEW y \in S, NEW z \in S,
         x # y, x # z, y # z, \A a \in S : a = x \/ a = y \/ a = z
  PROVE  SumFunction(w) = w[x] + w[y] + w[z]
<1> S = {x, y, z}
  OBVIOUS
<1>0. IsFiniteSet(S)
  <2>1. IsFiniteSet({x})
    BY FS_Singleton
  <2>2. IsFiniteSet({x} \cup {y})
    BY <2>1, FS_AddElement
  <2>3. IsFiniteSet(({x} \cup {y}) \cup {z})
    BY <2>2, FS_AddElement
  <2>4. S = ({x} \cup {y}) \cup {z}
    OBVIOUS
  <2> QED BY <2>3, <2>4
<1>1. S \in SUBSET S /\ {y, z} \in SUBSET S /\ {z} \in SUBSET S
  OBVIOUS
<1>2. S \ {x} = {y, z} /\ {y, z} \ {y} = {z} /\ {z} \ {z} = {}
  OBVIOUS
<1>3. SumFunction(w) = w[x] + SumFunctionOnSet(w, {y, z})
  <2>1. x \in S /\ w \in [S -> Int]
    OBVIOUS
  <2>2. SumFunction(w) = w[x] + SumFunctionOnSet(w, S \ {x})
    BY <1>0, <2>1, SumAll
  <2> QED BY <1>2, <2>2
<1>4. SumFunctionOnSet(w, {y, z}) = w[y] + SumFunctionOnSet(w, {z})
  <2>1. y \in {y, z} /\ w \in [S -> Int]
    OBVIOUS
  <2>2. SumFunctionOnSet(w, {y, z}) = w[y] + SumFunctionOnSet(w, {y, z} \ {y})
    BY <1>0, <1>1, <2>1, SumSplit
  <2> QED BY <1>2, <2>2
<1>5. SumFunctionOnSet(w, {z}) = w[z] + SumFunctionOnSet(w, {})
  <2>1. z \in {z} /\ w \in [S -> Int]
    OBVIOUS
  <2>2. SumFunctionOnSet(w, {z}) = w[z] + SumFunctionOnSet(w, {z} \ {z})
    BY <1>0, <1>1, <2>1, SumSplit
  <2> QED BY <1>2, <2>2
<1>6. SumFunctionOnSet(w, {}) = 0
  BY <1>0, SumEmpty
<1>7. w[x] \in Int /\ w[y] \in Int /\ w[z] \in Int
  OBVIOUS
<1> QED BY <1>3, <1>4, <1>5, <1>6, <1>7
=============================================================================
