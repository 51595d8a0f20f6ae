---------------------------- MODULE SumTheorems ----------------------------
(***************************************************************************)
(* Facts about sums over finite sets, for the chaincodes that add up rows, *)
(* items and outputs.  SumOver is recursive and picks its elements in an   *)
(* order of its own: every fact is proved over a least subset that would   *)
(* be a counterexample, in the set of subsets for which the fact holds.    *)
(***************************************************************************)
EXTENDS Sums, FiniteSetTheorems, WellFoundedInduction, TLAPS

(* Among subsets of a finite set there are least ones: the induction that  *)
(* every proof about sums is by.                                           *)
LEMMA LeastSet == ASSUME NEW S, IsFiniteSet(S), NEW Q \in SUBSET SUBSET S, Q # {}
                  PROVE  \E T \in Q : \A U \in Q : U \subseteq T => U = T
<1>1. IsWellFoundedOn(StrictSubsetOrdering(S), FiniteSubsetsOf(S)) BY FS_StrictSubsetOrderingWellFounded
<1>2. Q \subseteq FiniteSubsetsOf(S) BY FS_Subset DEF FiniteSubsetsOf
<1>3. PICK T \in Q : \A U \in Q : ~(<<U, T>> \in StrictSubsetOrdering(S)) BY <1>1, <1>2, WFMin
<1>4. \A U \in Q : U \subseteq T => U = T BY <1>3 DEF StrictSubsetOrdering
<1> QED BY <1>4

(* The recursive function behind the sum over T, and the element that it   *)
(* adds first.                                                             *)
First(s) == CHOOSE x \in s : TRUE
Adds(f, T, g) == g = [s \in SUBSET T |-> IF s = {} THEN 0 ELSE f[First(s)] + g[s \ {First(s)}]]
Adder(f, T) == CHOOSE g : Adds(f, T, g)

(* A sum is the value of its function at the whole set.                    *)
LEMMA SumIs == \A f, T : SumOver(f, T) = Adder(f, T)[T]
BY DEF SumOver, MapThenSumSet, MapThenFoldSet, Adder, Adds, First

(* The first element is one of the set.                                    *)
LEMMA FirstIn == \A s : s # {} => First(s) \in s
BY DEF First

(* There is one such function, and that of a subset is part of it.         *)
LEMMA AddsOnce ==
    ASSUME NEW f, NEW T, IsFiniteSet(T), NEW U \in SUBSET T, NEW g, Adds(f, T, g), NEW h, Adds(f, U, h)
    PROVE  \A s \in SUBSET U : g[s] = h[s]
<1> DEFINE Q == {s \in SUBSET U : g[s] # h[s]}
<1>1. SUFFICES ASSUME Q # {} PROVE FALSE OBVIOUS
<1>2. IsFiniteSet(U) BY FS_Subset
<1>3. PICK s \in Q : \A r \in Q : r \subseteq s => r = s
  <2>1. Q \in SUBSET SUBSET U OBVIOUS
  <2> HIDE DEF Q
  <2> QED BY <1>1, <1>2, <2>1, LeastSet
<1>4. s \in SUBSET U /\ s \in SUBSET T /\ g[s] # h[s] OBVIOUS
<1>5. g[s] = (IF s = {} THEN 0 ELSE f[First(s)] + g[s \ {First(s)}]) BY <1>4 DEF Adds
<1>6. h[s] = (IF s = {} THEN 0 ELSE f[First(s)] + h[s \ {First(s)}]) BY <1>4 DEF Adds
<1>7. s # {} BY <1>4, <1>5, <1>6
<1>8. s \ {First(s)} \in SUBSET U /\ s \ {First(s)} # s /\ s \ {First(s)} \subseteq s BY <1>4, <1>7, FirstIn
<1>9. g[s \ {First(s)}] = h[s \ {First(s)}] BY <1>3, <1>8
<1> QED BY <1>4, <1>5, <1>6, <1>7, <1>9

(* There is such a function over every finite set.                         *)
LEMMA AddsExists == ASSUME NEW f, NEW S, IsFiniteSet(S) PROVE Adds(f, S, Adder(f, S))
<1> DEFINE Q == {T \in SUBSET S : ~ \E g : Adds(f, T, g)}
<1>1. Q = {}
  <2> SUFFICES ASSUME Q # {} PROVE FALSE OBVIOUS
  <2>1. PICK T \in Q : \A U \in Q : U \subseteq T => U = T
    <3>1. Q \in SUBSET SUBSET S OBVIOUS
    <3> HIDE DEF Q
    <3> QED BY <3>1, LeastSet
  <2>2. T \in SUBSET S /\ (\A g : ~Adds(f, T, g)) /\ IsFiniteSet(T) BY FS_Subset
  <2>3. ASSUME NEW U \in SUBSET T, U # T PROVE Adds(f, U, Adder(f, U))
    <3>1. \E g : Adds(f, U, g) BY <2>1, <2>2, <2>3
    <3> HIDE DEF Q
    <3> QED BY <3>1 DEF Adder
  <2> HIDE DEF Q
  <2> DEFINE h == [s \in SUBSET T |-> IF s = {} THEN 0
                     ELSE f[First(s)] + Adder(f, s \ {First(s)})[s \ {First(s)}]]
  <2>4. ASSUME NEW s \in SUBSET T, s # {}
        PROVE  h[s \ {First(s)}] = Adder(f, s \ {First(s)})[s \ {First(s)}]
    <3> DEFINE r == s \ {First(s)}
    <3>1. r \in SUBSET T /\ r # T BY <2>4, FirstIn
    <3>2. Adds(f, r, Adder(f, r)) BY <2>3, <3>1
    <3>3. Adder(f, r)[r] = (IF r = {} THEN 0 ELSE f[First(r)] + Adder(f, r)[r \ {First(r)}]) BY <3>2 DEF Adds
    <3>4. h[r] = IF r = {} THEN 0 ELSE f[First(r)] + Adder(f, r \ {First(r)})[r \ {First(r)}] BY <3>1
    <3>5. CASE r = {} BY <3>3, <3>4, <3>5
    <3>6. CASE r # {}
      <4>1. r \ {First(r)} \in SUBSET r /\ r \ {First(r)} \in SUBSET T /\ r \ {First(r)} # T BY <3>1, <3>6, FirstIn
      <4>2. Adds(f, r \ {First(r)}, Adder(f, r \ {First(r)})) BY <2>3, <4>1
      <4>3. IsFiniteSet(r) BY <2>2, <3>1, FS_Subset
      <4>4. Adder(f, r)[r \ {First(r)}] = Adder(f, r \ {First(r)})[r \ {First(r)}]
        <5> HIDE DEF r
        <5> QED BY <3>2, <4>1, <4>2, <4>3, AddsOnce
      <4>5. Adder(f, r)[r] = h[r]
        <5> HIDE DEF r, h
        <5> QED BY <3>3, <3>4, <3>6, <4>4
      <4> QED BY <4>5
    <3> QED BY <3>5, <3>6
  <2>5. h = [s \in SUBSET T |-> IF s = {} THEN 0 ELSE f[First(s)] + h[s \ {First(s)}]]
    <3>1. \A s \in SUBSET T : h[s] = IF s = {} THEN 0 ELSE f[First(s)] + h[s \ {First(s)}] BY <2>4
    <3>2. h = [s \in SUBSET T |-> h[s]] OBVIOUS
    <3> HIDE DEF h
    <3> QED BY <3>1, <3>2
  <2>6. Adds(f, T, h)
    <3> HIDE DEF h
    <3> QED BY <2>5 DEF Adds
  <2> QED BY <2>2, <2>6
<1>2. \E g : Adds(f, S, g) BY <1>1
<1> QED BY <1>2 DEF Adder

(* The sum over no element, and over one more than others.                 *)
(* Nothing adds up to 0.                                                   *)
LEMMA SumEmpty == \A f : SumOver(f, {}) = 0
<1> TAKE f
<1>1. Adds(f, {}, Adder(f, {})) BY FS_EmptySet, AddsExists
<1>2. Adder(f, {})[{}] = 0 BY <1>1 DEF Adds
<1> QED BY <1>2, SumIs

(* The first element and the sum of the rest.                              *)
LEMMA SumFirst == ASSUME NEW f, NEW S, IsFiniteSet(S), S # {}
                  PROVE  First(S) \in S /\ SumOver(f, S) = f[First(S)] + SumOver(f, S \ {First(S)})
<1>1. First(S) \in S BY FirstIn
<1>2. Adds(f, S, Adder(f, S)) BY AddsExists
<1>3. IsFiniteSet(S \ {First(S)}) /\ S \ {First(S)} \in SUBSET S BY FS_Subset
<1>4. Adds(f, S \ {First(S)}, Adder(f, S \ {First(S)})) BY <1>3, AddsExists
<1>5. Adder(f, S)[S \ {First(S)}] = Adder(f, S \ {First(S)})[S \ {First(S)}] BY <1>2, <1>3, <1>4, AddsOnce
<1>6. Adder(f, S)[S] = f[First(S)] + Adder(f, S)[S \ {First(S)}] BY <1>2 DEF Adds
<1>7. SumOver(f, S) = Adder(f, S)[S] /\ SumOver(f, S \ {First(S)}) = Adder(f, S \ {First(S)})[S \ {First(S)}] BY SumIs
<1> QED BY <1>1, <1>5, <1>6, <1>7

(* Induction over the subsets of a finite set.                             *)
LEMMA SubsetInduction ==
    ASSUME NEW S, IsFiniteSet(S), NEW G,
           {} \in G, \A T \in SUBSET S : T # {} /\ (\A x \in T : T \ {x} \in G) => T \in G
    PROVE  SUBSET S \subseteq G
<1> DEFINE Q == (SUBSET S) \ G
<1>1. SUFFICES ASSUME Q # {} PROVE FALSE OBVIOUS
<1>2. Q \in SUBSET SUBSET S OBVIOUS
<1>3. PICK T \in Q : \A U \in Q : U \subseteq T => U = T
  <2> HIDE DEF Q
  <2> QED BY <1>1, <1>2, LeastSet
<1>4. T # {} OBVIOUS
<1>5. \A x \in T : T \ {x} \in G
  <2> TAKE x \in T
  <2>1. T \ {x} \in SUBSET S /\ T \ {x} \subseteq T /\ T \ {x} # T OBVIOUS
  <2> QED BY <2>1, <1>3
<1> QED BY <1>4, <1>5

Ints(f, S) == \A x \in S : f[x] \in Int

(* A sum of integers is one.                                               *)
LEMMA SumInt == ASSUME NEW S, IsFiniteSet(S), NEW f, Ints(f, S) PROVE SumOver(f, S) \in Int
<1> DEFINE G == {T \in SUBSET S : SumOver(f, T) \in Int}
<1>1. {} \in G BY SumEmpty
<1>2. ASSUME NEW T \in SUBSET S, T # {}, \A x \in T : T \ {x} \in G PROVE T \in G
  <2>1. IsFiniteSet(T) BY FS_Subset
  <2>2. First(T) \in T /\ SumOver(f, T) = f[First(T)] + SumOver(f, T \ {First(T)}) BY <1>2, <2>1, SumFirst
  <2>3. SumOver(f, T \ {First(T)}) \in Int BY <1>2, <2>2
  <2> QED BY <2>2, <2>3 DEF Ints
<1>3. SUBSET S \subseteq G
  <2> HIDE DEF G
  <2> QED BY <1>1, <1>2, SubsetInduction
<1> QED BY <1>3

(* Any element may be taken out first.                                     *)
LEMMA SumRemove == ASSUME NEW S, IsFiniteSet(S), NEW f, Ints(f, S), NEW x \in S
                     PROVE  SumOver(f, S) = f[x] + SumOver(f, S \ {x}) /\ SumOver(f, S \ {x}) \in Int
<1> DEFINE G == {T \in SUBSET S : \A y \in T : SumOver(f, T) = f[y] + SumOver(f, T \ {y})}
<1>1. {} \in G OBVIOUS
<1>2. ASSUME NEW T \in SUBSET S, T # {}, \A y \in T : T \ {y} \in G PROVE T \in G
  <2> SUFFICES ASSUME NEW y \in T PROVE SumOver(f, T) = f[y] + SumOver(f, T \ {y}) OBVIOUS
  <2>1. IsFiniteSet(T) BY FS_Subset
  <2>2. PICK z : z \in T /\ SumOver(f, T) = f[z] + SumOver(f, T \ {z})
    <3> HIDE DEF G
    <3>1. First(T) \in T /\ SumOver(f, T) = f[First(T)] + SumOver(f, T \ {First(T)}) BY <1>2, <2>1, SumFirst
    <3> QED BY <3>1
  <2>3. CASE z = y BY <2>2, <2>3
  <2>4. CASE z # y
    <3>1. (T \ {z}) \ {y} = (T \ {y}) \ {z} /\ y \in T \ {z} /\ z \in T \ {y} BY <2>2, <2>4
    <3>2. SumOver(f, T \ {z}) = f[y] + SumOver(f, (T \ {y}) \ {z}) BY <1>2, <3>1
    <3>3. SumOver(f, T \ {y}) = f[z] + SumOver(f, (T \ {y}) \ {z}) BY <1>2, <3>1
    <3>4. (T \ {y}) \ {z} \in SUBSET S OBVIOUS
    <3>5. IsFiniteSet((T \ {y}) \ {z}) BY <3>4, FS_Subset
    <3>6. SumOver(f, (T \ {y}) \ {z}) \in Int BY <3>4, <3>5, SumInt DEF Ints
    <3>7. f[y] \in Int /\ f[z] \in Int BY <2>2 DEF Ints
    <3> QED BY <2>2, <3>2, <3>3, <3>6, <3>7
  <2> QED BY <2>3, <2>4
<1>3. SUBSET S \subseteq G
  <2> HIDE DEF G
  <2> QED BY <1>1, <1>2, SubsetInduction
<1>4. S \ {x} \in SUBSET S OBVIOUS
<1>5. IsFiniteSet(S \ {x}) BY <1>4, FS_Subset
<1>6. SumOver(f, S \ {x}) \in Int BY <1>5, SumInt DEF Ints
<1> QED BY <1>3, <1>6

(* A new element adds its value.                                           *)
LEMMA SumInsert == ASSUME NEW S, IsFiniteSet(S), NEW x, x \notin S, NEW f, Ints(f, S \cup {x})
                     PROVE  SumOver(f, S \cup {x}) = f[x] + SumOver(f, S)
<1>1. IsFiniteSet(S \cup {x}) /\ x \in S \cup {x} /\ (S \cup {x}) \ {x} = S BY FS_AddElement
<1> QED BY <1>1, SumRemove

(* A sum depends on nothing but the values it adds up.                     *)
LEMMA SumSame == ASSUME NEW S, IsFiniteSet(S), NEW f, NEW g, \A x \in S : f[x] = g[x]
                   PROVE  SumOver(f, S) = SumOver(g, S)
<1> DEFINE G == {T \in SUBSET S : SumOver(f, T) = SumOver(g, T)}
<1>1. {} \in G BY SumEmpty
<1>2. ASSUME NEW T \in SUBSET S, T # {}, \A x \in T : T \ {x} \in G PROVE T \in G
  <2>1. IsFiniteSet(T) BY FS_Subset
  <2>2. First(T) \in T /\ SumOver(f, T) = f[First(T)] + SumOver(f, T \ {First(T)})
        /\ SumOver(g, T) = g[First(T)] + SumOver(g, T \ {First(T)}) BY <1>2, <2>1, SumFirst
  <2>3. SumOver(f, T \ {First(T)}) = SumOver(g, T \ {First(T)}) BY <1>2, <2>2
  <2> QED BY <2>2, <2>3
<1>3. SUBSET S \subseteq G
  <2> HIDE DEF G
  <2> QED BY <1>1, <1>2, SubsetInduction
<1> QED BY <1>3

(* A change of one value changes the sum by as much.                       *)
ChangesAt(x, f, g, S) == /\ IsFiniteSet(S) /\ x \in S /\ Ints(f, S) /\ Ints(g, S)
                         /\ \A y \in S \ {x} : g[y] = f[y]

(* The sum after the change.                                               *)
LEMMA SumChange ==
    ASSUME NEW S, NEW x, NEW f, NEW g, ChangesAt(x, f, g, S)
    PROVE  SumOver(g, S) = SumOver(f, S) - f[x] + g[x] /\ SumOver(f, S) \in Int /\ SumOver(g, S) \in Int
<1>0. IsFiniteSet(S) /\ x \in S /\ Ints(f, S) /\ Ints(g, S) BY DEF ChangesAt
<1>1. SumOver(f, S) = f[x] + SumOver(f, S \ {x}) /\ SumOver(f, S \ {x}) \in Int BY <1>0, SumRemove
<1>3. SumOver(g, S) = g[x] + SumOver(g, S \ {x}) BY <1>0, SumRemove
<1>4. IsFiniteSet(S \ {x}) BY <1>0, FS_RemoveElement
<1>5. SumOver(g, S \ {x}) = SumOver(f, S \ {x}) BY <1>4, SumSame DEF ChangesAt
<1>6. f[x] \in Int /\ g[x] \in Int BY <1>0 DEF Ints
<1> QED BY <1>1, <1>3, <1>5, <1>6

(* What one value loses and another one gains leaves the sum.              *)
MovesFromTo(x, y, v, f, g, S) ==
    /\ IsFiniteSet(S) /\ x \in S /\ y \in S /\ x # y /\ Ints(f, S) /\ Ints(g, S) /\ v \in Int
    /\ g[x] = f[x] - v /\ g[y] = f[y] + v
    /\ \A z \in S \ {x, y} : g[z] = f[z]

(* The sum before and after the move.                                      *)
LEMMA SumMove == ASSUME NEW S, NEW x, NEW y, NEW v, NEW f, NEW g, MovesFromTo(x, y, v, f, g, S)
                 PROVE  SumOver(g, S) = SumOver(f, S)
<1> DEFINE h == [z \in S |-> IF z = x THEN f[x] - v ELSE f[z]]
<1>0. IsFiniteSet(S) /\ x \in S /\ y \in S /\ x # y /\ Ints(f, S) /\ Ints(g, S) /\ v \in Int BY DEF MovesFromTo
<1>1. f[x] \in Int /\ f[y] \in Int /\ g[y] \in Int BY <1>0 DEF Ints
<1>2. h[x] = f[x] - v /\ h[x] \in Int /\ h[y] = f[y] /\ \A z \in S \ {x} : h[z] = f[z] BY <1>0, <1>1
<1>3. Ints(h, S) BY <1>0, <1>1 DEF Ints
<1>4. g[y] = f[y] + v /\ \A z \in S \ {y} : g[z] = h[z] BY <1>0, <1>1 DEF MovesFromTo
<1> HIDE DEF h
<1>5. ChangesAt(x, f, h, S) /\ ChangesAt(y, h, g, S) BY <1>0, <1>2, <1>3, <1>4 DEF ChangesAt
<1>6. SumOver(h, S) = SumOver(f, S) - f[x] + h[x] /\ SumOver(f, S) \in Int BY <1>5, SumChange
<1>7. SumOver(g, S) = SumOver(h, S) - h[y] + g[y] BY <1>5, SumChange
<1> QED BY <1>0, <1>1, <1>2, <1>4, <1>6, <1>7

(* Sums are added element by element.                                      *)
LEMMA SumPlus == ASSUME NEW S, IsFiniteSet(S), NEW f, Ints(f, S), NEW g, Ints(g, S), NEW h,
                          \A x \in S : h[x] = f[x] + g[x]
                   PROVE  SumOver(h, S) = SumOver(f, S) + SumOver(g, S)
<1> DEFINE G == {T \in SUBSET S : SumOver(h, T) = SumOver(f, T) + SumOver(g, T)}
<1>1. {} \in G BY SumEmpty
<1>2. ASSUME NEW T \in SUBSET S, T # {}, \A x \in T : T \ {x} \in G PROVE T \in G
  <2>1. IsFiniteSet(T) BY FS_Subset
  <2>2. PICK x \in T : TRUE BY <1>2
  <2>3. Ints(f, T) /\ Ints(g, T) /\ Ints(h, T) BY DEF Ints
  <2>4. SumOver(f, T) = f[x] + SumOver(f, T \ {x}) /\ SumOver(f, T \ {x}) \in Int BY <2>1, <2>3, SumRemove
  <2>5. SumOver(g, T) = g[x] + SumOver(g, T \ {x}) /\ SumOver(g, T \ {x}) \in Int BY <2>1, <2>3, SumRemove
  <2>6. SumOver(h, T) = h[x] + SumOver(h, T \ {x}) BY <2>1, <2>3, SumRemove
  <2>7. SumOver(h, T \ {x}) = SumOver(f, T \ {x}) + SumOver(g, T \ {x}) BY <1>2
  <2>8. f[x] \in Int /\ g[x] \in Int /\ h[x] = f[x] + g[x] BY DEF Ints
  <2> QED BY <2>4, <2>5, <2>6, <2>7, <2>8
<1>3. SUBSET S \subseteq G
  <2> HIDE DEF G
  <2> QED BY <1>1, <1>2, SubsetInduction
<1> QED BY <1>3

(* Larger values make no smaller sum.                                      *)
LEMMA SumMono == ASSUME NEW S, IsFiniteSet(S), NEW f, Ints(f, S), NEW g, Ints(g, S),
                          \A x \in S : f[x] <= g[x]
                   PROVE  SumOver(f, S) <= SumOver(g, S)
<1> DEFINE G == {T \in SUBSET S : SumOver(f, T) <= SumOver(g, T)}
<1>1. {} \in G BY SumEmpty
<1>2. ASSUME NEW T \in SUBSET S, T # {}, \A x \in T : T \ {x} \in G PROVE T \in G
  <2>1. IsFiniteSet(T) BY FS_Subset
  <2>2. PICK x \in T : TRUE BY <1>2
  <2>3. Ints(f, T) /\ Ints(g, T) BY DEF Ints
  <2>4. SumOver(f, T) = f[x] + SumOver(f, T \ {x}) /\ SumOver(f, T \ {x}) \in Int BY <2>1, <2>3, SumRemove
  <2>5. SumOver(g, T) = g[x] + SumOver(g, T \ {x}) /\ SumOver(g, T \ {x}) \in Int BY <2>1, <2>3, SumRemove
  <2>6. SumOver(f, T \ {x}) <= SumOver(g, T \ {x}) BY <1>2
  <2>7. f[x] \in Int /\ g[x] \in Int /\ f[x] <= g[x] BY DEF Ints
  <2> QED BY <2>4, <2>5, <2>6, <2>7
<1>3. SUBSET S \subseteq G
  <2> HIDE DEF G
  <2> QED BY <1>1, <1>2, SubsetInduction
<1> QED BY <1>3

(* A sum of zeros is zero.                                                 *)
LEMMA SumZero == ASSUME NEW S, IsFiniteSet(S), NEW f, \A x \in S : f[x] = 0
                   PROVE  SumOver(f, S) = 0
<1> DEFINE G == {T \in SUBSET S : SumOver(f, T) = 0}
<1>1. {} \in G BY SumEmpty
<1>2. ASSUME NEW T \in SUBSET S, T # {}, \A x \in T : T \ {x} \in G PROVE T \in G
  <2>1. IsFiniteSet(T) BY FS_Subset
  <2>2. First(T) \in T /\ SumOver(f, T) = f[First(T)] + SumOver(f, T \ {First(T)}) BY <1>2, <2>1, SumFirst
  <2>3. SumOver(f, T \ {First(T)}) = 0 /\ f[First(T)] = 0 BY <1>2, <2>2
  <2> QED BY <2>2, <2>3
<1>3. SUBSET S \subseteq G
  <2> HIDE DEF G
  <2> QED BY <1>1, <1>2, SubsetInduction
<1> QED BY <1>3

(* The sum over a set is that over a part and that over the rest.          *)
LEMMA SumUnion == ASSUME NEW S, IsFiniteSet(S), NEW R, IsFiniteSet(R), S \cap R = {}, NEW f, Ints(f, S \cup R)
                    PROVE  SumOver(f, S \cup R) = SumOver(f, S) + SumOver(f, R)
<1> DEFINE G == {T \in SUBSET S : SumOver(f, T \cup R) = SumOver(f, T) + SumOver(f, R)}
<1>0. SumOver(f, R) \in Int BY SumInt DEF Ints
<1>1. {} \in G
  <2>1. {} \cup R = R OBVIOUS
  <2> QED BY <2>1, <1>0, SumEmpty
<1>2. ASSUME NEW T \in SUBSET S, T # {}, \A x \in T : T \ {x} \in G PROVE T \in G
  <2>1. IsFiniteSet(T) /\ IsFiniteSet(T \cup R) BY FS_Subset, FS_Union
  <2>2. PICK x \in T : TRUE BY <1>2
  <2>3. Ints(f, T) /\ Ints(f, T \cup R) /\ f[x] \in Int BY DEF Ints
  <2>4. SumOver(f, T) = f[x] + SumOver(f, T \ {x}) /\ SumOver(f, T \ {x}) \in Int BY <2>1, <2>3, SumRemove
  <2>5. (T \cup R) \ {x} = (T \ {x}) \cup R /\ x \in T \cup R OBVIOUS
  <2>6. SumOver(f, T \cup R) = f[x] + SumOver(f, (T \ {x}) \cup R) BY <2>1, <2>3, <2>5, SumRemove
  <2>7. SumOver(f, (T \ {x}) \cup R) = SumOver(f, T \ {x}) + SumOver(f, R) BY <1>2
  <2> QED BY <2>3, <2>4, <2>6, <2>7, <1>0
<1>3. SUBSET S \subseteq G
  <2> HIDE DEF G
  <2> QED BY <1>1, <1>2, SubsetInduction
<1> QED BY <1>3

(* Counted values add up to a count.                                       *)
LEMMA SumNat == ASSUME NEW S, IsFiniteSet(S), NEW f, \A x \in S : f[x] \in Nat
                PROVE  SumOver(f, S) \in Nat
<1> DEFINE z == [x \in S |-> 0]
<1>1. Ints(f, S) /\ Ints(z, S) /\ \A x \in S : z[x] <= f[x] BY DEF Ints
<1>2. \A x \in S : z[x] = 0 OBVIOUS
<1> HIDE DEF z
<1>3. SumOver(z, S) = 0 BY <1>2, SumZero
<1>4. SumOver(z, S) <= SumOver(f, S) BY <1>1, SumMono
<1>5. SumOver(f, S) \in Int BY <1>1, SumInt
<1> QED BY <1>3, <1>4, <1>5

(* Where all other values are 0, the sum is the one value.                 *)
LEMMA SumOne == ASSUME NEW S, IsFiniteSet(S), NEW x \in S, NEW f, f[x] \in Int,
                       \A y \in S \ {x} : f[y] = 0
                PROVE  SumOver(f, S) = f[x]
<1>1. Ints(f, S) BY DEF Ints
<1>2. SumOver(f, S) = f[x] + SumOver(f, S \ {x}) BY <1>1, SumRemove
<1>3. IsFiniteSet(S \ {x}) BY FS_RemoveElement
<1>4. SumOver(f, S \ {x}) = 0 BY <1>3, SumZero
<1> QED BY <1>2, <1>4

(* A sum over the places of some values is the sum over the values, when   *)
(* no value has two places.                                                *)
Places(p, f, h, S) == /\ IsFiniteSet(S)
                      /\ \A x \in S : f[p[x]] \in Int /\ h[x] = f[p[x]]
                      /\ \A x, y \in S : p[x] = p[y] => x = y

(* The sum over the places and the sum over the values.                    *)
LEMMA SumPlaces ==
    ASSUME NEW S, NEW p, NEW f, NEW h, Places(p, f, h, S)
    PROVE  IsFiniteSet({p[x] : x \in S}) /\ SumOver(f, {p[x] : x \in S}) = SumOver(h, S)
<1> USE DEF Places
<1> DEFINE V(T) == {p[x] : x \in T}
           G == {T \in SUBSET S : IsFiniteSet(V(T)) /\ SumOver(f, V(T)) = SumOver(h, T)}
<1>1. {} \in G
  <2>1. V({}) = {} OBVIOUS
  <2> QED BY <2>1, SumEmpty, FS_EmptySet
<1>2. ASSUME NEW T \in SUBSET S, T # {}, \A x \in T : T \ {x} \in G PROVE T \in G
  <2>1. PICK x \in T : TRUE BY <1>2
  <2>2. V(T) = V(T \ {x}) \cup {p[x]} /\ p[x] \notin V(T \ {x}) OBVIOUS
  <2>3. IsFiniteSet(V(T \ {x})) /\ SumOver(f, V(T \ {x})) = SumOver(h, T \ {x}) BY <1>2
  <2>4. Ints(f, V(T)) /\ Ints(h, T) BY DEF Ints
  <2>5. h[x] = f[p[x]] OBVIOUS
  <2>6. IsFiniteSet(T) BY FS_Subset
  <2> DEFINE W == V(T \ {x})
  <2> HIDE DEF V, W, G
  <2>a. IsFiniteSet(W) /\ V(T) = W \cup {p[x]} /\ p[x] \notin W BY <2>2, <2>3 DEF W
  <2>b. IsFiniteSet(W \cup {p[x]}) BY <2>a, FS_AddElement
  <2>7. IsFiniteSet(V(T)) BY <2>a, <2>b
  <2>c. Ints(f, W \cup {p[x]}) BY <2>4, <2>a
  <2>d. SumOver(f, W \cup {p[x]}) = f[p[x]] + SumOver(f, W) BY <2>a, <2>c, SumInsert
  <2>8. SumOver(f, V(T)) = f[p[x]] + SumOver(f, V(T \ {x})) BY <2>a, <2>d DEF W
  <2>9. SumOver(h, T) = h[x] + SumOver(h, T \ {x}) BY <2>4, <2>6, SumRemove
  <2> QED BY <2>3, <2>5, <2>7, <2>8, <2>9 DEF G
<1>3. SUBSET S \subseteq G
  <2> HIDE DEF G
  <2> QED BY <1>1, <1>2, SubsetInduction
<1> QED BY <1>3

(* The sum over rows of the sums over columns is that over columns of the  *)
(* sums over rows.                                                         *)
LEMMA SumSwap ==
    ASSUME NEW S, IsFiniteSet(S), NEW R, IsFiniteSet(R),
           NEW f, \A x \in S : \A y \in R : f[x][y] \in Int
    PROVE  SumOver([x \in S |-> SumOver([y \in R |-> f[x][y]], R)], S)
         = SumOver([y \in R |-> SumOver([x \in S |-> f[x][y]], S)], R)
<1> DEFINE row == [x \in S |-> SumOver([y \in R |-> f[x][y]], R)]
           col(T) == [y \in R |-> SumOver([x \in S |-> f[x][y]], T)]
           G == {T \in SUBSET S : SumOver(row, T) = SumOver(col(T), R)}
<1>0. Ints(row, S)
  <2>1. ASSUME NEW x \in S PROVE row[x] \in Int
    <3>1. Ints([y \in R |-> f[x][y]], R) BY DEF Ints
    <3>2. SumOver([y \in R |-> f[x][y]], R) \in Int BY <3>1, SumInt
    <3> QED BY <3>2
  <2> QED BY <2>1 DEF Ints
<1>1. {} \in G
  <2>1. SumOver(row, {}) = 0 BY SumEmpty
  <2>2. \A y \in R : col({})[y] = 0 BY SumEmpty
  <2> HIDE DEF col, row
  <2>3. SumOver(col({}), R) = 0 BY <2>2, SumZero
  <2> QED BY <2>1, <2>3
<1>2. ASSUME NEW T \in SUBSET S, T # {}, \A x \in T : T \ {x} \in G PROVE T \in G
  <2>1. PICK x \in T : TRUE BY <1>2
  <2>2. IsFiniteSet(T) /\ IsFiniteSet(T \ {x}) BY FS_Subset
  <2> DEFINE one == [y \in R |-> f[x][y]]
  <2>3. ASSUME NEW y \in R
        PROVE  col(T)[y] = one[y] + col(T \ {x})[y] /\ one[y] \in Int /\ col(T \ {x})[y] \in Int
    <3> DEFINE c == [z \in S |-> f[z][y]]
    <3>1. Ints(c, T) /\ c[x] = f[x][y] /\ c[x] \in Int BY DEF Ints
    <3>2. SumOver(c, T) = c[x] + SumOver(c, T \ {x}) /\ SumOver(c, T \ {x}) \in Int
      <4> HIDE DEF c
      <4> QED BY <3>1, <2>2, SumRemove
    <3> QED BY <3>1, <3>2
  <2>4. Ints(one, R) /\ Ints(col(T \ {x}), R) /\ \A y \in R : col(T)[y] = one[y] + col(T \ {x})[y]
        BY <2>3 DEF Ints
  <2>5. row[x] = SumOver(one, R) OBVIOUS
  <2>6. SumOver(row, T \ {x}) = SumOver(col(T \ {x}), R) BY <1>2
  <2> HIDE DEF col, row, one
  <2>7. SumOver(col(T), R) = SumOver(one, R) + SumOver(col(T \ {x}), R) BY <2>4, SumPlus
  <2>8. Ints(row, T) BY <1>0 DEF Ints
  <2>9. SumOver(row, T) = row[x] + SumOver(row, T \ {x}) BY <2>2, <2>8, SumRemove
  <2> QED BY <2>5, <2>6, <2>7, <2>9
<1>3. SUBSET S \subseteq G
  <2> HIDE DEF G
  <2> QED BY <1>1, <1>2, SubsetInduction
<1>4. S \in G BY <1>3
<1> QED BY <1>4

(* Induction over the natural numbers, for a set of them.                  *)
LEMMA NatSetInduction == ASSUME NEW G, 0 \in G, \A n \in Nat : n \in G => n + 1 \in G
                         PROVE  Nat \subseteq G
<1> DEFINE Q == Nat \ G
<1>1. SUFFICES ASSUME Q # {} PROVE FALSE OBVIOUS
<1>2. PICK m \in Q : \A n \in Q : ~(<<n, m>> \in OpToRel(<, Nat))
  <2>1. Q \subseteq Nat OBVIOUS
  <2> HIDE DEF Q
  <2> QED BY <1>1, <2>1, NatLessThanWellFounded, WFMin
<1>3. m # 0 /\ m - 1 \in Nat BY SMT
<1>4. <<m - 1, m>> \in OpToRel(<, Nat) BY <1>3 DEF OpToRel
<1>5. m - 1 \in G BY <1>2, <1>3, <1>4
<1> QED BY <1>3, <1>5

(* The sum of the first n + 1 values of a sequence.                        *)
LEMMA SumUpTo == ASSUME NEW n \in Nat, NEW f, \A i \in 1..(n + 1) : f[i] \in Int
                 PROVE  SumOver(f, 1..(n + 1)) = SumOver(f, 1..n) + f[n + 1] /\ SumOver(f, 1..n) \in Int
<1>1. 1..(n + 1) = (1..n) \cup {n + 1} /\ n + 1 \notin 1..n OBVIOUS
<1>2. IsFiniteSet(1..n) BY FS_Interval
<1>3. Ints(f, 1..(n + 1)) /\ Ints(f, 1..n) BY DEF Ints
<1>4. SumOver(f, 1..(n + 1)) = f[n + 1] + SumOver(f, 1..n) BY <1>1, <1>2, <1>3, SumInsert
<1>5. SumOver(f, 1..n) \in Int BY <1>2, <1>3, SumInt
<1>6. f[n + 1] \in Int OBVIOUS
<1> QED BY <1>4, <1>5, <1>6

(* What is counted up to k is no more than what is counted up to m.        *)
LEMMA SumPrefix ==
    ASSUME NEW m \in Nat, NEW f, \A i \in 1..m : f[i] \in Nat, NEW k \in Nat, k <= m
    PROVE  SumOver(f, 1..k) \in Nat /\ SumOver(f, 1..m) \in Nat /\ SumOver(f, 1..k) <= SumOver(f, 1..m)
<1>1. IsFiniteSet(1..k) /\ IsFiniteSet(1..m) BY FS_Interval
<1>2. k + 1 \in Int OBVIOUS
<1>3. IsFiniteSet((k + 1)..m) BY <1>2, FS_Interval
<1>4. 1..m = (1..k) \cup ((k + 1)..m) /\ (1..k) \cap ((k + 1)..m) = {} OBVIOUS
<1>5. (\A i \in 1..k : f[i] \in Nat) /\ (\A i \in (k + 1)..m : f[i] \in Nat) OBVIOUS
<1>6. SumOver(f, 1..k) \in Nat BY <1>1, <1>5, SumNat
<1>7. SumOver(f, (k + 1)..m) \in Nat BY <1>3, <1>5, SumNat
<1>8. Ints(f, (1..k) \cup ((k + 1)..m)) BY <1>5 DEF Ints
<1>9. SumOver(f, (1..k) \cup ((k + 1)..m)) = SumOver(f, 1..k) + SumOver(f, (k + 1)..m)
      BY <1>1, <1>3, <1>4, <1>8, SumUnion
<1>10. SumOver(f, 1..m) = SumOver(f, 1..k) + SumOver(f, (k + 1)..m) BY <1>4, <1>9
<1> QED BY <1>6, <1>7, <1>10

(* A finite set of integers that is not empty has a greatest element.      *)
LEMMA MaxIsGreatest == ASSUME NEW S, IsFiniteSet(S), S \subseteq Int, S # {}
                       PROVE  Max(S) \in S /\ \A y \in S : Max(S) >= y
<1> DEFINE G == {T \in SUBSET S : T # {} => \E x \in T : \A y \in T : x >= y}
<1>1. {} \in G OBVIOUS
<1>2. ASSUME NEW T \in SUBSET S, T # {}, \A x \in T : T \ {x} \in G PROVE T \in G
  <2>1. PICK x \in T : TRUE BY <1>2
  <2>2. CASE T \ {x} = {}
    <3>1. \A y \in T : x >= y BY <2>2
    <3> QED BY <3>1, <2>1
  <2>3. CASE T \ {x} # {}
    <3>1. PICK z \in T \ {x} : \A y \in T \ {x} : z >= y BY <1>2, <2>3
    <3>2. CASE x >= z
      <4>1. \A y \in T : x >= y BY <3>1, <3>2
      <4> QED BY <4>1
    <3>3. CASE ~(x >= z)
      <4>1. \A y \in T : z >= y BY <3>1, <3>3
      <4> QED BY <4>1
    <3> QED BY <3>2, <3>3
  <2> QED BY <2>2, <2>3
<1>3. SUBSET S \subseteq G
  <2> HIDE DEF G
  <2> QED BY <1>1, <1>2, SubsetInduction
<1>4. \E x \in S : \A y \in S : x >= y BY <1>3
<1> QED BY <1>4 DEF Max

(* The lesser of two.                                                      *)
LEMMA MinOfTwo == \A a, b \in Int : Min({a, b}) = IF a <= b THEN a ELSE b
<1> TAKE a, b \in Int
<1> DEFINE m == IF a <= b THEN a ELSE b
<1>1. m \in {a, b} /\ \A y \in {a, b} : m <= y OBVIOUS
<1>2. \E x \in {a, b} : \A y \in {a, b} : x =< y BY <1>1
<1>3. Min({a, b}) \in {a, b} /\ \A y \in {a, b} : Min({a, b}) =< y BY <1>2 DEF Min
<1> QED BY <1>3
=============================================================================
