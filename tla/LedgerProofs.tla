----------------------------- MODULE LedgerProofs ------------------------------
(***************************************************************************)
(* The accounting of fills (PortfolioLedger) for any set of lots and any   *)
(* numbers: a sale removes exactly the shares sold and the cost it         *)
(* allocates, never adds principal, and is first in, first out             *)
(* (SurvivorsKeep, OlderFirst, FifoSale).                                  *)
(*                                                                         *)
(* The ledger adds up sets of lots, and a sum is a recursive function. The *)
(* first part proves by induction on finite sets what such a sum is: the   *)
(* choice of the next term does not matter (SumRemove), so that sums can   *)
(* be split, compared and changed term by term. SumFunctionOnSet(f, S)     *)
(* adds up f[x] for x \in S.                                               *)
(***************************************************************************)
EXTENDS PortfolioLedger, FiniteSetTheorems, WellFoundedInduction, TLAPS

(***************************************************************************)
(* Induction.  A set of numbers has a least one, and so a set of finite    *)
(* sets has a smallest one.                                                *)
(***************************************************************************)
LEMMA LeastNat ==
    ASSUME NEW T, T \subseteq Nat, T # {}
    PROVE  \E x \in T : \A y \in T : x <= y
<1> DEFINE R == OpToRel(<, Nat)
<1>1. \A y, x \in Nat : y < x => <<y, x>> \in R
  BY DEF OpToRel
<1>2. IsWellFoundedOn(R, Nat)
  BY NatLessThanWellFounded
<1> HIDE DEF R
<1>3. PICK x \in T : \A y \in T : ~ (<<y, x>> \in R)
  BY <1>2, WFMin
<1>4. ASSUME NEW y \in T PROVE x <= y
  <2>1. ~ (y < x)  BY <1>1, <1>3, <1>4
  <2>2. x \in Nat /\ y \in Nat  BY <1>4
  <2> QED  BY <2>1, <2>2
<1> QED  BY <1>4

(* Some set of a collection of finite sets leaves it with any element. *)
LEMMA SmallestSet ==
    ASSUME NEW S, IsFiniteSet(S), NEW X, X \subseteq SUBSET S, X # {}
    PROVE  \E s \in X : \A x \in s : s \ {x} \notin X
<1> DEFINE T == {Cardinality(s) : s \in X}
<1>1. \A s \in X : IsFiniteSet(s) /\ Cardinality(s) \in Nat
  BY FS_Subset, FS_CardinalityType
<1>2. T \subseteq Nat /\ T # {}  BY <1>1
<1>3. PICK n \in T : \A m \in T : n <= m
  <2> HIDE DEF T
  <2> QED  BY <1>2, LeastNat
<1>4. PICK s \in X : n = Cardinality(s)  BY <1>3
<1>5. ASSUME NEW x \in s PROVE s \ {x} \notin X
  <2>1. Cardinality(s \ {x}) = Cardinality(s) - 1  BY <1>1, <1>5, FS_RemoveElement
  <2>2. s \ {x} \in X => Cardinality(s) <= Cardinality(s \ {x})  BY <1>3, <1>4
  <2> QED  BY <1>1, <2>1, <2>2
<1> QED  BY <1>4, <1>5

(* To show S \in X: a set is in X when some set with one element less is.  *)
LEMMA SetInduction ==
    ASSUME NEW S, IsFiniteSet(S), NEW X, {} \in X,
           \A s \in SUBSET S : s # {} => \E x \in s : s \ {x} \in X => s \in X
    PROVE  SUBSET S \subseteq X
<1> SUFFICES ASSUME NEW t \in SUBSET S, t \notin X PROVE FALSE  OBVIOUS
<1> DEFINE Y == {s \in SUBSET S : s \notin X}
<1>1. PICK s \in Y : \A x \in s : s \ {x} \notin Y
  <2>1. Y \subseteq SUBSET S /\ Y # {}  OBVIOUS
  <2> HIDE DEF Y
  <2> QED  BY <2>1, SmallestSet
<1>2. s \in SUBSET S /\ s \notin X  BY <1>1
<1>3. \A x \in s : s \ {x} \in SUBSET S  BY <1>2
<1>4. s # {} /\ \A x \in s : s \ {x} \in X  BY <1>1, <1>2, <1>3
<1> QED  BY <1>2, <1>4

(* The same, from all the smaller sets. *)
LEMMA StrongSetInduction ==
    ASSUME NEW S, IsFiniteSet(S), NEW X,
           \A s \in SUBSET S : (\A t \in SUBSET s : t # s => t \in X) => s \in X
    PROVE  SUBSET S \subseteq X
<1> DEFINE Y == {s \in SUBSET S : \A t \in SUBSET s : t \in X}
<1>1. {} \in Y
  <2>1. \A t \in SUBSET {} : t = {}  OBVIOUS
  <2>2. {} \in X  BY <2>1
  <2> QED  BY <2>1, <2>2
<1>2. ASSUME NEW s \in SUBSET S, s # {},
             \A x \in s : s \ {x} \in Y
      PROVE  s \in Y
  <2>1. ASSUME NEW t \in SUBSET s, t # s PROVE t \in X
    <3>1. PICK x \in s : x \notin t  BY <2>1
    <3>2. t \in SUBSET (s \ {x})  BY <3>1
    <3> QED  BY <1>2, <3>1, <3>2
  <2>2. s \in X  BY <2>1
  <2> QED  BY <2>1, <2>2
<1>3. SUBSET S \subseteq Y
  <2> DEFINE Z == {s \in SUBSET S : s \notin Y}
  <2> SUFFICES ASSUME Z # {} PROVE FALSE  BY DEF Z
  <2>1. PICK s \in Z : \A x \in s : s \ {x} \notin Z
    <3>1. Z \subseteq SUBSET S  OBVIOUS
    <3> HIDE DEF Z
    <3> QED  BY <3>1, SmallestSet
  <2>2. s \in SUBSET S /\ s \notin Y  BY <2>1
  <2>3. \A x \in s : s \ {x} \in SUBSET S  BY <2>2
  <2> HIDE DEF Y
  <2>4. \A x \in s : s \ {x} \in Y  BY <2>1, <2>3
  <2>5. s # {}  BY <1>1, <2>2
  <2> QED  BY <1>2, <2>2, <2>4, <2>5
<1> QED  BY <1>3

-----------------------------------------------------------------------------
(* The fold that defines a sum has the equation one expects of it. *)

Pick(s) == CHOOSE x \in s : TRUE
Equation(f, S, i) == [s \in SUBSET S |-> IF s = {} THEN 0 ELSE f[Pick(s)] + i[s \ {Pick(s)}]]
Fold(f, S) == CHOOSE i : i = Equation(f, S, i)
Solved(f, S) ==
    /\ Fold(f, S) = Equation(f, S, Fold(f, S))
    /\ \A s \in SUBSET S : Fold(f, S)[s] = Fold(f, s)[s]

LEMMA Picked == ASSUME NEW s, s # {} PROVE Pick(s) \in s
BY DEF Pick

(* The recursive function that folds a set exists: each step takes out     *)
(* what CHOOSE picks.                                                      *)
LEMMA FoldExists ==
    ASSUME NEW f, NEW S, \A s \in SUBSET S : s # S => Solved(f, s)
    PROVE  Fold(f, S) = Equation(f, S, Fold(f, S))
<1> DEFINE i == [s \in SUBSET S |->
                    IF s # S THEN Fold(f, s)[s]
                    ELSE IF S = {} THEN 0
                    ELSE f[Pick(S)] + Fold(f, S \ {Pick(S)})[S \ {Pick(S)}]]
<1>1. ASSUME NEW s \in SUBSET S
      PROVE  i[s] = IF s = {} THEN 0 ELSE f[Pick(s)] + i[s \ {Pick(s)}]
  <2> DEFINE t == s \ {Pick(s)}
  <2>1. s # {} => t \in SUBSET S /\ t # S /\ t # s /\ t \in SUBSET s  BY Picked
  <2>2. CASE s = S  BY <2>1, <2>2
  <2>3. CASE s # S
    <3>1. i[s] = Fold(f, s)[s]  BY <2>3
    <3>2. Fold(f, s) = Equation(f, s, Fold(f, s))  BY <2>3 DEF Solved
    <3>3. s # {} => Fold(f, s)[t] = Fold(f, t)[t]  BY <2>1, <2>3 DEF Solved
    <3>4. Fold(f, s)[s] = IF s = {} THEN 0 ELSE f[Pick(s)] + Fold(f, s)[t]
      <4> HIDE DEF t
      <4>1. s \in SUBSET s  OBVIOUS
      <4> DEFINE F == Fold(f, s)
      <4>2. F = Equation(f, s, F)  BY <3>2
      <4> HIDE DEF F
      <4>3. F[s] = Equation(f, s, F)[s]  BY <4>2
      <4>4. Equation(f, s, F)[s] = IF s = {} THEN 0 ELSE f[Pick(s)] + F[t]
        BY <4>1 DEF Equation, t
      <4> QED  BY <4>3, <4>4 DEF F
    <3>5. s # {} => i[t] = Fold(f, t)[t]  BY <2>1
    <3> QED  BY <3>1, <3>3, <3>4, <3>5
  <2> QED  BY <2>2, <2>3
<1>2. i = Equation(f, S, i)
  <2>1. i = [s \in SUBSET S |-> i[s]]  OBVIOUS
  <2> HIDE DEF i
  <2>2. [s \in SUBSET S |-> i[s]]
        = [s \in SUBSET S |-> IF s = {} THEN 0 ELSE f[Pick(s)] + i[s \ {Pick(s)}]]
    BY <1>1
  <2> QED  BY <2>1, <2>2 DEF Equation
<1> HIDE DEF i
<1> QED  BY <1>2 DEF Fold

(* It satisfies its own equation, at every subset of the set. *)
LEMMA FoldSolved ==
    ASSUME NEW f, NEW S, IsFiniteSet(S)
    PROVE  Solved(f, S)
<1> DEFINE Bad == {s \in SUBSET S : ~Solved(f, s)}
<1> SUFFICES ASSUME Bad # {} PROVE FALSE  OBVIOUS
<1>1. PICK s \in Bad : \A t \in SUBSET s : t # s => t \notin Bad
  <2> DEFINE T == {Cardinality(t) : t \in Bad}
  <2>1. \A t \in Bad : IsFiniteSet(t) /\ Cardinality(t) \in Nat
    BY FS_Subset, FS_CardinalityType
  <2>2. T \subseteq Nat /\ T # {}  BY <2>1
  <2>3. PICK n \in T : \A m \in T : n <= m
    <3> HIDE DEF T
    <3> QED  BY <2>2, LeastNat
  <2>4. PICK s \in Bad : n = Cardinality(s)  BY <2>3
  <2>5. ASSUME NEW t \in SUBSET s, t # s, t \in Bad PROVE FALSE
    <3>1. Cardinality(t) < Cardinality(s)  BY <2>1, <2>5, FS_Subset
    <3>2. Cardinality(s) <= Cardinality(t)  BY <2>3, <2>4, <2>5
    <3> QED  BY <2>1, <2>5, <3>1, <3>2
  <2> QED  BY <2>5
<1>2. \A t \in SUBSET s : t # s => Solved(f, t)  BY <1>1
<1> HIDE DEF Bad
<1>3. Fold(f, s) = Equation(f, s, Fold(f, s))  BY <1>2, FoldExists
<1>4. \A t \in SUBSET s : t # s => Fold(f, s)[t] = Fold(f, t)[t]
  <2> DEFINE X == {t \in SUBSET s : t # s => Fold(f, s)[t] = Fold(f, t)[t]}
  <2>1. ASSUME NEW t \in SUBSET s, t # s
        PROVE  /\ Fold(f, s)[t] = IF t = {} THEN 0 ELSE f[Pick(t)] + Fold(f, s)[t \ {Pick(t)}]
               /\ Fold(f, t)[t] = IF t = {} THEN 0 ELSE f[Pick(t)] + Fold(f, t)[t \ {Pick(t)}]
    <3>1. Fold(f, t) = Equation(f, t, Fold(f, t))  BY <1>2, <2>1 DEF Solved
    <3>2. t \in SUBSET t  OBVIOUS
    <3> DEFINE F == Fold(f, s)
               G == Fold(f, t)
    <3>3. F = Equation(f, s, F) /\ G = Equation(f, t, G)  BY <1>3, <3>1
    <3> HIDE DEF F, G
    <3>4. F[t] = Equation(f, s, F)[t] /\ G[t] = Equation(f, t, G)[t]  BY <3>3
    <3>5. /\ Equation(f, s, F)[t] = IF t = {} THEN 0 ELSE f[Pick(t)] + F[t \ {Pick(t)}]
          /\ Equation(f, t, G)[t] = IF t = {} THEN 0 ELSE f[Pick(t)] + G[t \ {Pick(t)}]
      BY <3>2 DEF Equation
    <3> QED  BY <3>4, <3>5 DEF F, G
  <2>2. {} \in X
    <3>1. {} \in SUBSET s  OBVIOUS
    <3>2. {} # s => Fold(f, s)[{}] = Fold(f, {})[{}]  BY <2>1, <3>1
    <3> QED  BY <3>1, <3>2
  <2>3. ASSUME NEW t \in SUBSET s, t # {} PROVE \E x \in t : t \ {x} \in X => t \in X
    <3> DEFINE r == t \ {Pick(t)}
    <3>1. Pick(t) \in t /\ r \in SUBSET s /\ r \in SUBSET t /\ r # t  BY <2>3, Picked
    <3>2. ASSUME r \in X, t # s PROVE Fold(f, s)[t] = Fold(f, t)[t]
      <4>1. Fold(f, s)[r] = Fold(f, r)[r]  BY <3>1, <3>2
      <4>2. Fold(f, t)[r] = Fold(f, r)[r]  BY <1>2, <3>1, <3>2 DEF Solved
      <4> QED  BY <2>1, <2>3, <3>2, <4>1, <4>2
    <3>3. r \in X => t \in X  BY <3>2
    <3> HIDE DEF X
    <3> QED  BY <3>1, <3>3
  <2>4. IsFiniteSet(s)  BY <1>1, FS_Subset DEF Bad
  <2>5. SUBSET s \subseteq X
    <3> HIDE DEF X
    <3> QED  BY <2>2, <2>3, <2>4, SetInduction
  <2> QED  BY <2>5
<1>5. Solved(f, s)
  <2>1. \A t \in SUBSET s : Fold(f, s)[t] = Fold(f, t)[t]  BY <1>4
  <2> QED  BY <1>3, <2>1 DEF Solved
<1> QED  BY <1>1, <1>5 DEF Bad

(* SumFunctionOnSet is that function. *)
LEMMA SumIsFold ==
    ASSUME NEW f, NEW S
    PROVE  SumFunctionOnSet(f, S) = Fold(f, S)[S]
BY DEF SumFunctionOnSet, FoldFunctionOnSet, MapThenFoldSet, Fold, Equation, Pick

(* A sum is what was picked, and the sum of the rest. *)
LEMMA SumPicked ==
    ASSUME NEW f, NEW S, IsFiniteSet(S)
    PROVE  SumFunctionOnSet(f, S)
           = IF S = {} THEN 0 ELSE f[Pick(S)] + SumFunctionOnSet(f, S \ {Pick(S)})
<1> DEFINE T == S \ {Pick(S)}
           F == Fold(f, S)
<1>1. F = Equation(f, S, F) /\ \A s \in SUBSET S : F[s] = Fold(f, s)[s]
  BY FoldSolved DEF Solved
<1> HIDE DEF F
<1>2. F[S] = Equation(f, S, F)[S]  BY <1>1
<1>3. S \in SUBSET S  OBVIOUS
<1>4. F[S] = IF S = {} THEN 0 ELSE f[Pick(S)] + F[T]
  BY <1>2, <1>3 DEF Equation
<1>5. F[S] = SumFunctionOnSet(f, S)  BY SumIsFold DEF F
<1>6. F[T] = SumFunctionOnSet(f, T)
  <2>1. T \in SUBSET S  OBVIOUS
  <2> HIDE DEF T
  <2> QED  BY <1>1, <2>1, SumIsFold
<1> QED  BY <1>4, <1>5, <1>6

-----------------------------------------------------------------------------
(* Adding up whole numbers: no element, one more or less. *)

LEMMA SumEmpty == ASSUME NEW f PROVE SumFunctionOnSet(f, {}) = 0
BY SumPicked, FS_EmptySet

(* A sum of integers is an integer. *)
LEMMA SumInt ==
    ASSUME NEW f, NEW S, IsFiniteSet(S), \A x \in S : f[x] \in Int
    PROVE  SumFunctionOnSet(f, S) \in Int
<1> DEFINE X == {s \in SUBSET S : SumFunctionOnSet(f, s) \in Int}
<1>1. {} \in X  BY SumEmpty
<1>2. ASSUME NEW s \in SUBSET S, s # {} PROVE \E x \in s : s \ {x} \in X => s \in X
  <2>1. IsFiniteSet(s)  BY FS_Subset
  <2>2. SumFunctionOnSet(f, s) = f[Pick(s)] + SumFunctionOnSet(f, s \ {Pick(s)})
    BY <1>2, <2>1, SumPicked
  <2>3. Pick(s) \in s /\ f[Pick(s)] \in Int  BY <1>2, Picked
  <2>4. s \ {Pick(s)} \in X => s \in X  BY <2>2, <2>3
  <2> HIDE DEF X
  <2> QED  BY <2>3, <2>4
<1>3. SUBSET S \subseteq X
  <2> HIDE DEF X
  <2> QED  BY <1>1, <1>2, SetInduction
<1> QED  BY <1>3

(* A sum is any of its terms, and the sum of the rest: the order does not  *)
(* matter.                                                                 *)
LEMMA SumRemove ==
    ASSUME NEW f, NEW S, IsFiniteSet(S), \A x \in S : f[x] \in Int, NEW x \in S
    PROVE  SumFunctionOnSet(f, S) = f[x] + SumFunctionOnSet(f, S \ {x})
<1> DEFINE Sum(s) == SumFunctionOnSet(f, s)
           X == {s \in SUBSET S : \A y \in s : Sum(s) = f[y] + Sum(s \ {y})}
<1>1. ASSUME NEW s \in SUBSET S, \A t \in SUBSET s : t # s => t \in X,
             NEW y \in s
      PROVE  Sum(s) = f[y] + Sum(s \ {y})
  <2> DEFINE p == Pick(s)
  <2>1. p \in s  BY Picked
  <2>2. IsFiniteSet(s) /\ Sum(s) = f[p] + Sum(s \ {p})  BY FS_Subset, SumPicked
  <2>3. CASE y = p  BY <2>2, <2>3
  <2>4. CASE y # p
    <3> HIDE DEF p
    <3> DEFINE r == (s \ {p}) \ {y}
    <3>1. y \in s \ {p} /\ p \in s \ {y} /\ r = (s \ {y}) \ {p}  BY <2>1, <2>4
    <3>2. s \ {p} \in X /\ s \ {y} \in X  BY <1>1, <2>1
    <3>3. Sum(s \ {p}) = f[y] + Sum(r)  BY <3>1, <3>2
    <3>4. Sum(s \ {y}) = f[p] + Sum(r)  BY <3>1, <3>2
    <3>5. f[p] \in Int /\ f[y] \in Int  BY <2>1
    <3>6. Sum(r) \in Int
      <4>1. IsFiniteSet(r) /\ \A z \in r : f[z] \in Int  BY <2>2, FS_Subset
      <4> HIDE DEF r
      <4> QED  BY <4>1, SumInt
    <3> HIDE DEF r, Sum
    <3> QED  BY <2>2, <3>3, <3>4, <3>5, <3>6
  <2> QED  BY <2>3, <2>4
<1>2. \A s \in SUBSET S : (\A t \in SUBSET s : t # s => t \in X) => s \in X  BY <1>1
<1>3. SUBSET S \subseteq X
  <2> HIDE DEF X
  <2> QED  BY <1>2, StrongSetInduction
<1> QED  BY <1>3

(* One more term. *)
LEMMA SumAdd ==
    ASSUME NEW f, NEW S, IsFiniteSet(S), NEW x, x \notin S, \A y \in S \cup {x} : f[y] \in Int
    PROVE  SumFunctionOnSet(f, S \cup {x}) = f[x] + SumFunctionOnSet(f, S)
<1> DEFINE T == S \cup {x}
<1>1. IsFiniteSet(T)  BY FS_AddElement
<1>2. x \in T /\ T \ {x} = S /\ \A y \in T : f[y] \in Int  OBVIOUS
<1> HIDE DEF T
<1>3. SumFunctionOnSet(f, T) = f[x] + SumFunctionOnSet(f, T \ {x})  BY <1>1, <1>2, SumRemove
<1> QED  BY <1>2, <1>3 DEF T

LEMMA SumOne ==
    ASSUME NEW f, NEW x, f[x] \in Int
    PROVE  SumFunctionOnSet(f, {x}) = f[x]
<1>1. SumFunctionOnSet(f, {} \cup {x}) = f[x] + SumFunctionOnSet(f, {})
  BY FS_EmptySet, SumAdd
<1>2. {} \cup {x} = {x}  OBVIOUS
<1> QED  BY <1>1, <1>2, SumEmpty

(* The sum depends on the terms only. *)
LEMMA SumSame ==
    ASSUME NEW f, NEW g, NEW S, IsFiniteSet(S), \A x \in S : f[x] = g[x]
    PROVE  SumFunctionOnSet(f, S) = SumFunctionOnSet(g, S)
<1> DEFINE X == {s \in SUBSET S : SumFunctionOnSet(f, s) = SumFunctionOnSet(g, s)}
<1>1. {} \in X  BY SumEmpty
<1>2. ASSUME NEW s \in SUBSET S, s # {} PROVE \E x \in s : s \ {x} \in X => s \in X
  <2>1. IsFiniteSet(s)  BY FS_Subset
  <2>2. /\ SumFunctionOnSet(f, s) = f[Pick(s)] + SumFunctionOnSet(f, s \ {Pick(s)})
        /\ SumFunctionOnSet(g, s) = g[Pick(s)] + SumFunctionOnSet(g, s \ {Pick(s)})
    BY <1>2, <2>1, SumPicked
  <2>3. Pick(s) \in s /\ f[Pick(s)] = g[Pick(s)]  BY <1>2, Picked
  <2>4. s \ {Pick(s)} \in X => s \in X  BY <2>2, <2>3
  <2> HIDE DEF X
  <2> QED  BY <2>3, <2>4
<1>3. SUBSET S \subseteq X
  <2> HIDE DEF X
  <2> QED  BY <1>1, <1>2, SetInduction
<1> QED  BY <1>3

(* Sums are added term by term. *)
LEMMA SumPlus ==
    ASSUME NEW f, NEW g, NEW h, NEW S, IsFiniteSet(S),
           \A x \in S : f[x] \in Int /\ g[x] \in Int /\ h[x] = f[x] + g[x]
    PROVE  SumFunctionOnSet(h, S) = SumFunctionOnSet(f, S) + SumFunctionOnSet(g, S)
<1> DEFINE Fits(s) == SumFunctionOnSet(h, s) = SumFunctionOnSet(f, s) + SumFunctionOnSet(g, s)
           X == {s \in SUBSET S : Fits(s)}
<1>1. {} \in X  BY SumEmpty
<1>2. ASSUME NEW s \in SUBSET S, s # {} PROVE \E x \in s : s \ {x} \in X => s \in X
  <2> DEFINE p == Pick(s)
             r == s \ {p}
  <2>1. IsFiniteSet(s) /\ IsFiniteSet(r)  BY FS_Subset
  <2>2. /\ SumFunctionOnSet(f, s) = f[p] + SumFunctionOnSet(f, r)
        /\ SumFunctionOnSet(g, s) = g[p] + SumFunctionOnSet(g, r)
        /\ SumFunctionOnSet(h, s) = h[p] + SumFunctionOnSet(h, r)
    BY <1>2, <2>1, SumPicked
  <2>3. p \in s  BY <1>2, Picked
  <2> HIDE DEF p
  <2>4. SumFunctionOnSet(f, r) \in Int /\ SumFunctionOnSet(g, r) \in Int
    <3>1. \A x \in r : f[x] \in Int /\ g[x] \in Int  OBVIOUS
    <3> HIDE DEF r
    <3> QED  BY <2>1, <3>1, SumInt
  <2>5. f[p] \in Int /\ g[p] \in Int /\ h[p] = f[p] + g[p]  BY <2>3
  <2>6. Fits(r) => Fits(s)
    <3> HIDE DEF r
    <3> QED  BY <2>2, <2>4, <2>5
  <2>7. r \in X => s \in X  BY <2>6
  <2> QED  BY <2>3, <2>7
<1>3. SUBSET S \subseteq X
  <2> HIDE DEF X
  <2> QED  BY <1>1, <1>2, SetInduction
<1> QED  BY <1>3

(* g is t/c of f. *)
LEMMA SumShare ==
    ASSUME NEW f, NEW g, NEW S, IsFiniteSet(S), NEW c \in Int, NEW t \in Int,
           \A x \in S : f[x] \in Int /\ g[x] \in Int /\ c * g[x] = t * f[x]
    PROVE  c * SumFunctionOnSet(g, S) = t * SumFunctionOnSet(f, S)
<1> DEFINE Fits(s) == c * SumFunctionOnSet(g, s) = t * SumFunctionOnSet(f, s)
           X == {s \in SUBSET S : Fits(s)}
<1>1. {} \in X  BY SumEmpty
<1>2. ASSUME NEW s \in SUBSET S, s # {} PROVE \E x \in s : s \ {x} \in X => s \in X
  <2> DEFINE p == Pick(s)
             r == s \ {p}
  <2>1. IsFiniteSet(s) /\ IsFiniteSet(r)  BY FS_Subset
  <2>2. /\ SumFunctionOnSet(f, s) = f[p] + SumFunctionOnSet(f, r)
        /\ SumFunctionOnSet(g, s) = g[p] + SumFunctionOnSet(g, r)
    BY <1>2, <2>1, SumPicked
  <2>3. p \in s  BY <1>2, Picked
  <2> HIDE DEF p
  <2>4. SumFunctionOnSet(f, r) \in Int /\ SumFunctionOnSet(g, r) \in Int
    <3>1. \A x \in r : f[x] \in Int /\ g[x] \in Int  OBVIOUS
    <3> HIDE DEF r
    <3> QED  BY <2>1, <3>1, SumInt
  <2>5. f[p] \in Int /\ g[p] \in Int /\ c * g[p] = t * f[p]  BY <2>3
  <2>6. Fits(r) => Fits(s)
    <3> DEFINE i == f[p]
               j == g[p]
               k == SumFunctionOnSet(f, r)
               l == SumFunctionOnSet(g, r)
    <3> SUFFICES ASSUME c * l = t * k PROVE c * (j + l) = t * (i + k)
      BY <2>2
    <3>1. i \in Int /\ j \in Int /\ k \in Int /\ l \in Int /\ c * j = t * i
      BY <2>4, <2>5
    <3> HIDE DEF i, j, k, l
    <3> QED  BY <3>1
  <2>7. r \in X => s \in X  BY <2>6
  <2> QED  BY <2>3, <2>7
<1>3. SUBSET S \subseteq X
  <2> HIDE DEF X
  <2> QED  BY <1>1, <1>2, SetInduction
<1> QED  BY <1>3

(* The sum over two disjoint sets. *)
LEMMA SumUnion ==
    ASSUME NEW f, NEW S, NEW T, IsFiniteSet(S), IsFiniteSet(T), S \cap T = {},
           \A x \in S \cup T : f[x] \in Int
    PROVE  SumFunctionOnSet(f, S \cup T) = SumFunctionOnSet(f, S) + SumFunctionOnSet(f, T)
<1> DEFINE Fits(s) == SumFunctionOnSet(f, s \cup T) = SumFunctionOnSet(f, s) + SumFunctionOnSet(f, T)
           X == {s \in SUBSET S : Fits(s)}
<1>1. {} \in X
  <2>1. {} \cup T = T /\ {} \in SUBSET S  OBVIOUS
  <2>2. SumFunctionOnSet(f, T) \in Int  BY SumInt
  <2> QED  BY <2>1, <2>2, SumEmpty
<1>2. ASSUME NEW s \in SUBSET S, s # {} PROVE \E x \in s : s \ {x} \in X => s \in X
  <2>1. PICK p \in s : TRUE  BY <1>2
  <2> DEFINE r == s \ {p}
             u == s \cup T
  <2>2. IsFiniteSet(s) /\ IsFiniteSet(r) /\ IsFiniteSet(u)  BY FS_Subset, FS_Union
  <2>3. u \ {p} = r \cup T /\ p \in u /\ p \in s
        /\ \A x \in u : f[x] \in Int
    BY <2>1
  <2>4. SumFunctionOnSet(f, u) = f[p] + SumFunctionOnSet(f, u \ {p})
    <3> HIDE DEF u
    <3> QED  BY <2>2, <2>3, SumRemove
  <2>5. SumFunctionOnSet(f, s) = f[p] + SumFunctionOnSet(f, r)
    BY <2>2, <2>3, SumRemove
  <2>6. SumFunctionOnSet(f, r) \in Int /\ SumFunctionOnSet(f, T) \in Int
    <3>1. \A x \in r : f[x] \in Int  OBVIOUS
    <3> HIDE DEF r
    <3> QED  BY <2>2, <3>1, SumInt
  <2>7. Fits(r) => Fits(s)
    <3>1. f[p] \in Int  BY <2>3
    <3>2. SumFunctionOnSet(f, u) = f[p] + SumFunctionOnSet(f, r \cup T)
      <4> HIDE DEF r, u
      <4> QED  BY <2>3, <2>4
    <3> DEFINE i == SumFunctionOnSet(f, u)
               j == SumFunctionOnSet(f, r \cup T)
               k == SumFunctionOnSet(f, r)
               l == SumFunctionOnSet(f, s)
               m == SumFunctionOnSet(f, T)
    <3>3. i = f[p] + j /\ l = f[p] + k  BY <2>5, <3>2
    <3>4. j = k + m => i = l + m
      <4>1. k \in Int /\ m \in Int  BY <2>6
      <4> HIDE DEF i, j, k, l, m, r, u
      <4> QED  BY <3>1, <3>3, <4>1
    <3> QED  BY <3>4
  <2>8. r \in X => s \in X  BY <2>7
  <2> HIDE DEF X
  <2> QED  BY <2>1, <2>8
<1>3. SUBSET S \subseteq X
  <2> HIDE DEF X
  <2> QED  BY <1>1, <1>2, SetInduction
<1> QED  BY <1>3

LEMMA FiniteImage ==
    ASSUME NEW S, IsFiniteSet(S), NEW h
    PROVE  IsFiniteSet({h[x] : x \in S})
<1> DEFINE T == {h[x] : x \in S}
           g == [x \in S |-> h[x]]
<1>1. g \in Surjection(S, T)
  <2>1. g \in [S -> T]  OBVIOUS
  <2>2. \A t \in T : \E x \in S : g[x] = t  OBVIOUS
  <2> HIDE DEF g, T
  <2> QED  BY <2>1, <2>2 DEF Surjection
<1> HIDE DEF g, T
<1>2. IsFiniteSet(T)  BY <1>1, FS_Surjection
<1> QED  BY <1>2 DEF T

(* h renames the elements of S. *)
LEMMA SumImage ==
    ASSUME NEW f, NEW g, NEW h, NEW S, IsFiniteSet(S),
           \A x, y \in S : h[x] = h[y] => x = y,
           \A x \in S : f[x] \in Int /\ g[h[x]] = f[x]
    PROVE  SumFunctionOnSet(g, {h[x] : x \in S}) = SumFunctionOnSet(f, S)
<1> DEFINE Im(s) == {h[x] : x \in s}
           Fits(s) == SumFunctionOnSet(g, Im(s)) = SumFunctionOnSet(f, s)
           X == {s \in SUBSET S : Fits(s)}
<1>1. {} \in X
  <2>1. Im({}) = {} /\ {} \in SUBSET S  OBVIOUS
  <2> HIDE DEF Im
  <2> QED  BY <2>1, SumEmpty
<1>2. ASSUME NEW s \in SUBSET S, s # {} PROVE \E x \in s : s \ {x} \in X => s \in X
  <2>1. PICK p \in s : TRUE  BY <1>2
  <2> DEFINE r == s \ {p}
  <2>2. IsFiniteSet(s) /\ IsFiniteSet(r) /\ IsFiniteSet(Im(s))  BY FS_Subset, FiniteImage, SMTT(30)
  <2>3. Im(s) \ {h[p]} = Im(r) /\ h[p] \in Im(s) /\ \A z \in Im(s) : g[z] \in Int
    BY <2>1
  <2>4. SumFunctionOnSet(f, s) = f[p] + SumFunctionOnSet(f, r)
    <3>1. p \in s /\ \A x \in s : f[x] \in Int  BY <2>1
    <3> QED  BY <2>2, <3>1, SumRemove
  <2>5. g[h[p]] = f[p]  BY <2>1
  <2> HIDE DEF Im
  <2>6. SumFunctionOnSet(g, Im(s)) = g[h[p]] + SumFunctionOnSet(g, Im(r))
    <3> DEFINE t == Im(s)
               y == h[p]
    <3>1. IsFiniteSet(t) /\ y \in t /\ (\A z \in t : g[z] \in Int) /\ t \ {y} = Im(r)
      BY <2>2, <2>3
    <3> HIDE DEF t, y
    <3>2. SumFunctionOnSet(g, t) = g[y] + SumFunctionOnSet(g, t \ {y})
      BY <3>1, SumRemove
    <3> QED  BY <3>1, <3>2 DEF t, y
  <2>7. r \in X => s \in X  BY <2>4, <2>5, <2>6
  <2> HIDE DEF X
  <2> QED  BY <2>1, <2>7
<1>3. SUBSET S \subseteq X
  <2> HIDE DEF X
  <2> QED  BY <1>1, <1>2, SetInduction
<1> QED  BY <1>3

(* Terms that are zero add up to zero. *)
LEMMA SumZero ==
    ASSUME NEW f, NEW S, IsFiniteSet(S), \A x \in S : f[x] = 0
    PROVE  SumFunctionOnSet(f, S) = 0
<1> DEFINE X == {s \in SUBSET S : SumFunctionOnSet(f, s) = 0}
<1>1. {} \in X  BY SumEmpty
<1>2. ASSUME NEW s \in SUBSET S, s # {} PROVE \E x \in s : s \ {x} \in X => s \in X
  <2>1. IsFiniteSet(s)  BY FS_Subset
  <2>2. SumFunctionOnSet(f, s) = f[Pick(s)] + SumFunctionOnSet(f, s \ {Pick(s)})
    BY <1>2, <2>1, SumPicked
  <2>3. Pick(s) \in s /\ f[Pick(s)] = 0  BY <1>2, Picked
  <2>4. s \ {Pick(s)} \in X => s \in X  BY <2>2, <2>3
  <2> HIDE DEF X
  <2> QED  BY <2>3, <2>4
<1>3. SUBSET S \subseteq X
  <2> HIDE DEF X
  <2> QED  BY <1>1, <1>2, SetInduction
<1> QED  BY <1>3

(* What adds nothing can be left out. *)
LEMMA SumPart ==
    ASSUME NEW f, NEW S, NEW T, IsFiniteSet(S), T \subseteq S,
           \A x \in S : f[x] \in Int, \A x \in S \ T : f[x] = 0
    PROVE  SumFunctionOnSet(f, S) = SumFunctionOnSet(f, T)
<1>1. IsFiniteSet(T) /\ IsFiniteSet(S \ T)  BY FS_Subset
<1>2. (S \ T) \cup T = S /\ (S \ T) \cap T = {}  OBVIOUS
<1>3. SumFunctionOnSet(f, S) = SumFunctionOnSet(f, S \ T) + SumFunctionOnSet(f, T)
  <2> DEFINE U == S \ T
  <2>1. U \cup T = S /\ U \cap T = {} /\ IsFiniteSet(U)  BY <1>1, <1>2
  <2> HIDE DEF U
  <2>2. SumFunctionOnSet(f, U \cup T) = SumFunctionOnSet(f, U) + SumFunctionOnSet(f, T)
    BY <1>1, <2>1, SumUnion
  <2> QED  BY <2>1, <2>2 DEF U
<1>4. SumFunctionOnSet(f, S \ T) = 0  BY <1>1, SumZero
<1>5. SumFunctionOnSet(f, T) \in Int
  <2>1. \A x \in T : f[x] \in Int  OBVIOUS
  <2> QED  BY <1>1, <2>1, SumInt
<1> QED  BY <1>3, <1>4, <1>5

(* A sum of naturals is a natural. *)
LEMMA SumNat ==
    ASSUME NEW f, NEW S, IsFiniteSet(S), \A x \in S : f[x] \in Nat
    PROVE  SumFunctionOnSet(f, S) \in Nat
<1> DEFINE X == {s \in SUBSET S : SumFunctionOnSet(f, s) \in Nat}
<1>1. {} \in X  BY SumEmpty
<1>2. ASSUME NEW s \in SUBSET S, s # {} PROVE \E x \in s : s \ {x} \in X => s \in X
  <2>1. IsFiniteSet(s)  BY FS_Subset
  <2>2. SumFunctionOnSet(f, s) = f[Pick(s)] + SumFunctionOnSet(f, s \ {Pick(s)})
    BY <1>2, <2>1, SumPicked
  <2>3. Pick(s) \in s /\ f[Pick(s)] \in Nat  BY <1>2, Picked
  <2>4. s \ {Pick(s)} \in X => s \in X  BY <2>2, <2>3
  <2> HIDE DEF X
  <2> QED  BY <2>3, <2>4
<1>3. SUBSET S \subseteq X
  <2> HIDE DEF X
  <2> QED  BY <1>1, <1>2, SetInduction
<1> QED  BY <1>3

(* Fewer terms, a smaller sum. *)
LEMMA SumPartLeq ==
    ASSUME NEW f, NEW S, NEW T, IsFiniteSet(S), T \subseteq S, \A x \in S : f[x] \in Nat
    PROVE  SumFunctionOnSet(f, T) <= SumFunctionOnSet(f, S)
<1> DEFINE U == S \ T
<1>1. IsFiniteSet(T) /\ IsFiniteSet(U)  BY FS_Subset
<1>2. U \cup T = S /\ U \cap T = {} /\ \A x \in U \cup T : f[x] \in Int  OBVIOUS
<1>3. (\A x \in U : f[x] \in Nat) /\ (\A x \in T : f[x] \in Nat)  OBVIOUS
<1> HIDE DEF U
<1>4. SumFunctionOnSet(f, U \cup T) = SumFunctionOnSet(f, U) + SumFunctionOnSet(f, T)
  BY <1>1, <1>2, SumUnion
<1>5. SumFunctionOnSet(f, U) \in Nat /\ SumFunctionOnSet(f, T) \in Nat
  BY <1>1, <1>3, SumNat
<1>6. SumFunctionOnSet(f, S) = SumFunctionOnSet(f, U) + SumFunctionOnSet(f, T)
  BY <1>2, <1>4
<1> QED  BY <1>5, <1>6

(* Smaller terms, a smaller sum. *)
LEMMA SumLeq ==
    ASSUME NEW f, NEW g, NEW S, IsFiniteSet(S),
           \A x \in S : f[x] \in Int /\ g[x] \in Int /\ f[x] <= g[x]
    PROVE  SumFunctionOnSet(f, S) <= SumFunctionOnSet(g, S)
<1> DEFINE h == [x \in S |-> g[x] - f[x]]
<1>1. /\ \A x \in S : h[x] \in Nat
      /\ \A x \in S : f[x] \in Int /\ h[x] \in Int /\ g[x] = f[x] + h[x]
  OBVIOUS
<1> HIDE DEF h
<1>2. SumFunctionOnSet(g, S) = SumFunctionOnSet(f, S) + SumFunctionOnSet(h, S)
  BY <1>1, SumPlus
<1>3. SumFunctionOnSet(h, S) \in Nat  BY <1>1, SumNat
<1>4. SumFunctionOnSet(f, S) \in Int  BY <1>1, SumInt
<1> QED  BY <1>2, <1>3, <1>4

-----------------------------------------------------------------------------
(* Quotients. *)

(* The quotient is rounded down. *)
LEMMA DivParts ==
    ASSUME NEW a \in Int, NEW b \in Nat \ {0}
    PROVE  a \div b \in Int /\ b * (a \div b) <= a
OBVIOUS

LEMMA ProductNat ==
    ASSUME NEW a \in Nat, NEW b \in Nat
    PROVE  a * b \in Nat /\ (a > 0 /\ b > 0 => a * b > 0)
OBVIOUS

LEMMA ProductOrder ==
    ASSUME NEW a \in Int, NEW b \in Int, NEW c \in Nat, a <= b
    PROVE  c * a <= c * b
OBVIOUS

LEMMA ProductCancel ==
    ASSUME NEW a \in Int, NEW b \in Int, NEW c \in Nat \ {0}, c * a = c * b
    PROVE  a = b
OBVIOUS

LEMMA DivNat ==
    ASSUME NEW a \in Nat, NEW b \in Nat \ {0}
    PROVE  a \div b \in Nat
OBVIOUS

(* A product divided by one of its factors. *)
LEMMA DivWhole ==
    ASSUME NEW a \in Int, NEW b \in Nat \ {0}
    PROVE  (a * b) \div b = a
OBVIOUS

(* A division that leaves nothing. *)
LEMMA DivExact ==
    ASSUME NEW a \in Int, NEW b \in Nat \ {0}, a % b = 0
    PROVE  b * (a \div b) = a /\ (a > 0 => a \div b > 0)
OBVIOUS

(* A part n of q of an amount is at most the amount: what a partial sale   *)
(* allocates and what it leaves.                                           *)
LEMMA DivPart ==
    ASSUME NEW a \in Nat, NEW k \in Nat, NEW b \in Nat \ {0}, k <= b
    PROVE  (a * k) \div b \in 0..a
<1>1. a * k <= a * b  BY ProductOrder
<1>2. a * k \in Nat  BY ProductNat
<1> DEFINE d == (a * k) \div b
<1>3. d \in Nat /\ b * d <= a * k
   BY <1>2, DivParts, DivNat
<1> HIDE DEF d
<1>4. ~ (d > a)
  <2> SUFFICES ASSUME d >= a + 1 PROVE FALSE  BY <1>3
  <2>1. b * (a + 1) <= b * d  BY <1>3, ProductOrder
  <2> QED  BY <1>1, <1>3, <2>1
<1> QED  BY <1>3, <1>4 DEF d

(* What Min and Max of two numbers are. *)
LEMMA MinMax ==
    ASSUME NEW a \in Int, NEW b \in Int
    PROVE  /\ Min({a, b}) = IF a <= b THEN a ELSE b
           /\ Max({a, b}) = IF a >= b THEN a ELSE b
<1> DEFINE m == IF a <= b THEN a ELSE b
           n == IF a >= b THEN a ELSE b
<1>1. \A x \in {a, b} : (\A y \in {a, b} : x <= y) <=> x = m  OBVIOUS
<1>2. \A x \in {a, b} : (\A y \in {a, b} : x >= y) <=> x = n  OBVIOUS
<1>3. m \in {a, b} /\ n \in {a, b}  OBVIOUS
<1> HIDE DEF m, n
<1>4. Min({a, b}) = m  BY <1>1, <1>3 DEF Min
<1>5. Max({a, b}) = n  BY <1>2, <1>3 DEF Max
<1> QED  BY <1>4, <1>5 DEF m, n

-----------------------------------------------------------------------------
(* Lots. *)

LotRecords ==
    [id : Seq(Nat) \ {<<>>}, acquired : Nat, sellable : Nat, qty : Nat \ {0}, cost : Nat,
     principal : Nat]

(* Open lots of a portfolio: none is empty, and no two have one id. *)
OpenLots(lots) ==
    /\ IsFiniteSet(lots)
    /\ lots \subseteq LotRecords
    /\ \A lot \in lots : lot.sellable >= lot.acquired
    /\ \A a, b \in lots : a.id = b.id => a = b

LEMMA OpenPart ==
    ASSUME NEW lots, OpenLots(lots), NEW part, part \subseteq lots
    PROVE  OpenLots(part)
BY FS_Subset DEF OpenLots

(* The sums over some lots, by one function for all of them. *)
LEMMA AmountsOn ==
    ASSUME NEW all, NEW lots, lots \subseteq all, IsFiniteSet(lots)
    PROVE  /\ Quantity(lots) = SumFunctionOnSet([l \in all |-> l.qty], lots)
           /\ Cost(lots) = SumFunctionOnSet([l \in all |-> l.cost], lots)
           /\ Principal(lots) = SumFunctionOnSet([l \in all |-> l.principal], lots)
<1>1. SumFunctionOnSet([l \in lots |-> l.qty], lots) = SumFunctionOnSet([l \in all |-> l.qty], lots)
  <2> DEFINE f == [l \in lots |-> l.qty]
             g == [l \in all |-> l.qty]
  <2>1. \A l \in lots : f[l] = g[l]  OBVIOUS
  <2> HIDE DEF f, g
  <2>2. SumFunctionOnSet(f, lots) = SumFunctionOnSet(g, lots)  BY <2>1, SumSame
  <2> QED  BY <2>2 DEF f, g
<1>2. SumFunctionOnSet([l \in lots |-> l.cost], lots) = SumFunctionOnSet([l \in all |-> l.cost], lots)
  <2> DEFINE f == [l \in lots |-> l.cost]
             g == [l \in all |-> l.cost]
  <2>1. \A l \in lots : f[l] = g[l]  OBVIOUS
  <2> HIDE DEF f, g
  <2>2. SumFunctionOnSet(f, lots) = SumFunctionOnSet(g, lots)  BY <2>1, SumSame
  <2> QED  BY <2>2 DEF f, g
<1>3. SumFunctionOnSet([l \in lots |-> l.principal], lots)
      = SumFunctionOnSet([l \in all |-> l.principal], lots)
  <2> DEFINE f == [l \in lots |-> l.principal]
             g == [l \in all |-> l.principal]
  <2>1. \A l \in lots : f[l] = g[l]  OBVIOUS
  <2> HIDE DEF f, g
  <2>2. SumFunctionOnSet(f, lots) = SumFunctionOnSet(g, lots)  BY <2>1, SumSame
  <2> QED  BY <2>2 DEF f, g
<1>4. /\ SumFunction([l \in lots |-> l.qty]) = SumFunctionOnSet([l \in lots |-> l.qty], lots)
      /\ SumFunction([l \in lots |-> l.cost]) = SumFunctionOnSet([l \in lots |-> l.cost], lots)
      /\ SumFunction([l \in lots |-> l.principal])
         = SumFunctionOnSet([l \in lots |-> l.principal], lots)
  BY DEF SumFunction
<1> QED  BY <1>1, <1>2, <1>3, <1>4 DEF Quantity, Cost, Principal

(* Shares, cost and principal of some lots are naturals. *)
LEMMA AmountsNat ==
    ASSUME NEW lots, OpenLots(lots)
    PROVE  Quantity(lots) \in Nat /\ Cost(lots) \in Nat /\ Principal(lots) \in Nat
<1> DEFINE f == [l \in lots |-> l.qty]
           g == [l \in lots |-> l.cost]
           h == [l \in lots |-> l.principal]
<1>1. IsFiniteSet(lots) /\ \A l \in lots : f[l] \in Nat /\ g[l] \in Nat /\ h[l] \in Nat
  BY DEF OpenLots, LotRecords
<1>2. /\ Quantity(lots) = SumFunctionOnSet(f, lots)
      /\ Cost(lots) = SumFunctionOnSet(g, lots)
      /\ Principal(lots) = SumFunctionOnSet(h, lots)
  BY <1>1, AmountsOn
<1> HIDE DEF f, g, h
<1> QED  BY <1>1, <1>2, SumNat

(* They add up over lots held apart. *)
LEMMA AmountsUnion ==
    ASSUME NEW s, NEW t, OpenLots(s), OpenLots(t), s \cap t = {}
    PROVE  /\ Quantity(s \cup t) = Quantity(s) + Quantity(t)
           /\ Cost(s \cup t) = Cost(s) + Cost(t)
           /\ Principal(s \cup t) = Principal(s) + Principal(t)
<1> DEFINE u == s \cup t
           f == [l \in u |-> l.qty]
           g == [l \in u |-> l.cost]
           h == [l \in u |-> l.principal]
<1>1. IsFiniteSet(s) /\ IsFiniteSet(t) /\ IsFiniteSet(s \cup t)  BY FS_Union DEF OpenLots
<1>2. \A l \in s \cup t : f[l] \in Int /\ g[l] \in Int /\ h[l] \in Int
  BY DEF OpenLots, LotRecords
<1>3. s \subseteq u /\ t \subseteq u /\ u \subseteq u  OBVIOUS
<1>4. /\ Quantity(s \cup t) = SumFunctionOnSet(f, s \cup t)
      /\ Cost(s \cup t) = SumFunctionOnSet(g, s \cup t)
      /\ Principal(s \cup t) = SumFunctionOnSet(h, s \cup t)
  BY <1>1, AmountsOn
<1>5. /\ Quantity(s) = SumFunctionOnSet(f, s)
      /\ Cost(s) = SumFunctionOnSet(g, s)
      /\ Principal(s) = SumFunctionOnSet(h, s)
  BY <1>1, AmountsOn
<1>6. /\ Quantity(t) = SumFunctionOnSet(f, t)
      /\ Cost(t) = SumFunctionOnSet(g, t)
      /\ Principal(t) = SumFunctionOnSet(h, t)
  BY <1>1, AmountsOn
<1> HIDE DEF f, g, h, u
<1>7. /\ SumFunctionOnSet(f, s \cup t) = SumFunctionOnSet(f, s) + SumFunctionOnSet(f, t)
      /\ SumFunctionOnSet(g, s \cup t) = SumFunctionOnSet(g, s) + SumFunctionOnSet(g, t)
      /\ SumFunctionOnSet(h, s \cup t) = SumFunctionOnSet(h, s) + SumFunctionOnSet(h, t)
  BY <1>1, <1>2, SumUnion
<1> QED  BY <1>4, <1>5, <1>6, <1>7

(* They are those of a part and of the rest. *)
LEMMA AmountsParted ==
    ASSUME NEW lots, OpenLots(lots), NEW part, part \subseteq lots
    PROVE  /\ Quantity(lots) = Quantity(part) + Quantity(lots \ part)
           /\ Cost(lots) = Cost(part) + Cost(lots \ part)
           /\ Principal(lots) = Principal(part) + Principal(lots \ part)
<1> DEFINE rest == lots \ part
<1>1. OpenLots(part) /\ OpenLots(rest)  BY OpenPart
<1>2. part \cap rest = {} /\ part \cup rest = lots  OBVIOUS
<1> HIDE DEF rest
<1>3. /\ Quantity(part \cup rest) = Quantity(part) + Quantity(rest)
      /\ Cost(part \cup rest) = Cost(part) + Cost(rest)
      /\ Principal(part \cup rest) = Principal(part) + Principal(rest)
  BY <1>1, <1>2, AmountsUnion
<1> QED  BY <1>2, <1>3 DEF rest

LEMMA AmountsOne ==
    ASSUME NEW lot \in LotRecords
    PROVE  Quantity({lot}) = lot.qty /\ Cost({lot}) = lot.cost /\ Principal({lot}) = lot.principal
<1> DEFINE f == [l \in {lot} |-> l.qty]
           g == [l \in {lot} |-> l.cost]
           h == [l \in {lot} |-> l.principal]
<1>1. f[lot] = lot.qty /\ g[lot] = lot.cost /\ h[lot] = lot.principal  OBVIOUS
<1>2. f[lot] \in Int /\ g[lot] \in Int /\ h[lot] \in Int  BY <1>1 DEF LotRecords
<1>3. /\ Quantity({lot}) = SumFunctionOnSet(f, {lot})
      /\ Cost({lot}) = SumFunctionOnSet(g, {lot})
      /\ Principal({lot}) = SumFunctionOnSet(h, {lot})
  BY FS_Singleton, AmountsOn
<1> HIDE DEF f, g, h
<1> QED  BY <1>1, <1>2, <1>3, SumOne

(* Of no lots nothing is held. *)
LEMMA NoneHeld == Quantity({}) = 0 /\ Cost({}) = 0 /\ Principal({}) = 0
<1>1. /\ Quantity({}) = SumFunctionOnSet([lot \in {} |-> lot.qty], {})
      /\ Cost({}) = SumFunctionOnSet([lot \in {} |-> lot.cost], {})
      /\ Principal({}) = SumFunctionOnSet([lot \in {} |-> lot.principal], {})
  BY DEF Quantity, Cost, Principal, SumFunction
<1> QED  BY <1>1, SumEmpty

(* What can be sold by a date is a part of the lots. *)
LEMMA EligiblePart ==
    ASSUME NEW lots, OpenLots(lots), NEW d
    PROVE  /\ OpenLots(Eligible(lots, d)) /\ Eligible(lots, d) \subseteq lots
           /\ Quantity(Eligible(lots, d)) \in Nat
           /\ Quantity(Eligible(lots, d)) <= Quantity(lots)
<1>1. Eligible(lots, d) \subseteq lots  BY DEF Eligible
<1>2. OpenLots(Eligible(lots, d)) /\ OpenLots(lots \ Eligible(lots, d))  BY <1>1, OpenPart
<1>3. /\ Quantity(Eligible(lots, d)) \in Nat
      /\ Quantity(lots \ Eligible(lots, d)) \in Nat
  BY <1>2, AmountsNat
<1>4. Quantity(lots) = Quantity(Eligible(lots, d)) + Quantity(lots \ Eligible(lots, d))
  BY <1>1, AmountsParted
<1> QED  BY <1>1, <1>2, <1>3, <1>4

LEMMA EligibleUnion ==
    ASSUME NEW s, NEW t, OpenLots(s), OpenLots(t), s \cap t = {}, NEW d
    PROVE  Quantity(Eligible(s \cup t, d)) = Quantity(Eligible(s, d)) + Quantity(Eligible(t, d))
<1>1. Eligible(s \cup t, d) = Eligible(s, d) \cup Eligible(t, d)  BY DEF Eligible
<1>2. OpenLots(Eligible(s, d)) /\ OpenLots(Eligible(t, d))  BY EligiblePart
<1>3. Eligible(s, d) \cap Eligible(t, d) = {}  BY DEF Eligible
<1> QED  BY <1>1, <1>2, <1>3, AmountsUnion

-----------------------------------------------------------------------------
(* The order of a sale is a strict total order on open lots. *)

(* Ids of one length are ordered totally. *)
LEMMA LessTotal ==
    ASSUME NEW s \in Seq(Nat), NEW t \in Seq(Nat), Len(s) = Len(t), s # t
    PROVE  Less(s, t) \/ Less(t, s)
<1> DEFINE D == {i \in 1..Len(s) : s[i] # t[i]}
<1>1. DOMAIN s = 1..Len(s) /\ DOMAIN t = 1..Len(s) /\ Len(s) \in Nat
      /\ \A i \in 1..Len(s) : s[i] \in Nat /\ t[i] \in Nat
  OBVIOUS
<1>2. D # {}
  <2> SUFFICES ASSUME \A i \in 1..Len(s) : s[i] = t[i] PROVE FALSE  OBVIOUS
  <2>1. s = [i \in 1..Len(s) |-> s[i]] /\ t = [i \in 1..Len(s) |-> t[i]]  OBVIOUS
  <2> QED  BY <2>1
<1>3. D \subseteq Nat  OBVIOUS
<1>4. PICK i \in D : \A j \in D : i <= j
  <2> HIDE DEF D
  <2> QED  BY <1>2, <1>3, LeastNat
<1>5. i \in 1..Len(s) /\ s[i] # t[i] /\ \A j \in 1..(i - 1) : s[j] = t[j]
  <2>1. ASSUME NEW j \in 1..(i - 1), s[j] # t[j] PROVE FALSE
    <3>1. j \in D /\ j < i  BY <1>1, <2>1
    <3> QED  BY <1>4, <3>1
  <2> QED  BY <2>1
<1>6. s[i] < t[i] \/ t[i] < s[i]  BY <1>1, <1>5
<1> QED  BY <1>1, <1>5, <1>6 DEF Less

LEMMA LessTransitive ==
    ASSUME NEW s \in Seq(Nat), NEW t \in Seq(Nat), NEW u \in Seq(Nat),
           Len(s) = Len(t), Len(t) = Len(u), Less(s, t), Less(t, u)
    PROVE  Less(s, u)
<1>0. DOMAIN s = 1..Len(s) /\ DOMAIN t = 1..Len(s) /\ DOMAIN u = 1..Len(s)  OBVIOUS
<1>3. \A k \in 1..Len(s) : s[k] \in Nat /\ t[k] \in Nat /\ u[k] \in Nat
  <2>1. \A k \in 1..Len(s) : s[k] \in Nat  OBVIOUS
  <2>2. \A k \in 1..Len(t) : t[k] \in Nat  OBVIOUS
  <2>3. \A k \in 1..Len(u) : u[k] \in Nat  OBVIOUS
  <2> QED  BY <2>1, <2>2, <2>3
<1>1. PICK i \in 1..Len(s) : s[i] < t[i] /\ \A k \in 1..(i - 1) : s[k] = t[k]
  BY <1>0 DEF Less
<1>2. PICK j \in 1..Len(s) : t[j] < u[j] /\ \A k \in 1..(j - 1) : t[k] = u[k]
  BY <1>0 DEF Less
<1>4. DOMAIN s = 1..Len(s) /\ Len(s) \in Nat /\ i \in Nat /\ j \in Nat  OBVIOUS
<1>5. CASE i <= j
  <2>1. s[i] < u[i]
    <3>1. CASE i = j  BY <1>1, <1>2, <1>3, <3>1
    <3>2. CASE i < j
      <4>1. t[i] = u[i]  BY <1>2, <1>4, <3>2
      <4> QED  BY <1>1, <4>1
    <3> QED  BY <1>4, <1>5, <3>1, <3>2
  <2>2. ASSUME NEW k \in 1..(i - 1) PROVE s[k] = u[k]
    <3>1. k \in 1..(j - 1)  BY <1>4, <1>5
    <3> QED  BY <1>1, <1>2, <3>1
  <2> QED  BY <1>4, <2>1, <2>2 DEF Less
<1>6. CASE j < i
  <2>1. s[j] = t[j]  BY <1>1, <1>4, <1>6, SMTT(30)
  <2>2. s[j] < u[j]  BY <1>2, <2>1
  <2>3. ASSUME NEW k \in 1..(j - 1) PROVE s[k] = u[k]
    <3>1. k \in 1..(i - 1)  BY <1>4, <1>6
    <3> QED  BY <1>1, <1>2, <3>1
  <2> QED  BY <1>4, <2>2, <2>3 DEF Less
<1> QED  BY <1>4, <1>5, <1>6

LEMMA LessIrreflexive ==
    ASSUME NEW s \in Seq(Nat)
    PROVE  ~ Less(s, s)
<1>1. \A i \in DOMAIN s : s[i] \in Nat  OBVIOUS
<1> QED  BY <1>1 DEF Less

(* The order of the queue (sorted by acquisition time and id in            *)
(* apply_sell) is total on lots of different ids.                          *)
LEMMA PrecedesTotal ==
    ASSUME NEW lots, OpenLots(lots), NEW l \in lots, NEW m \in lots, l # m, NEW cf \in BOOLEAN
    PROVE  Precedes(l, m, cf) \/ Precedes(m, l, cf)
<1>1. /\ l.id \in Seq(Nat) /\ m.id \in Seq(Nat) /\ l.id # m.id
      /\ l.acquired \in Nat /\ m.acquired \in Nat
  BY DEF OpenLots, LotRecords
<1>2. Len(l.id) \in Nat /\ Len(m.id) \in Nat  BY <1>1
<1>3. CASE l.acquired # m.acquired  BY <1>1, <1>3 DEF Precedes
<1>4. CASE l.acquired = m.acquired /\ Len(l.id) = Len(m.id)
  BY <1>1, <1>4, LessTotal DEF Precedes
<1>5. CASE l.acquired = m.acquired /\ Len(l.id) # Len(m.id)
  BY <1>2, <1>5 DEF Precedes
<1> QED  BY <1>3, <1>4, <1>5

LEMMA PrecedesTransitive ==
    ASSUME NEW k \in LotRecords, NEW l \in LotRecords, NEW m \in LotRecords,
           NEW cf \in BOOLEAN, Precedes(k, l, cf), Precedes(l, m, cf)
    PROVE  Precedes(k, m, cf)
<1>1. /\ k.id \in Seq(Nat) /\ l.id \in Seq(Nat) /\ m.id \in Seq(Nat)
      /\ k.acquired \in Nat /\ l.acquired \in Nat /\ m.acquired \in Nat
  BY DEF LotRecords
<1>2. Len(k.id) \in Nat /\ Len(l.id) \in Nat /\ Len(m.id) \in Nat  BY <1>1
<1>3. CASE k.acquired < l.acquired \/ l.acquired < m.acquired
  BY <1>1, <1>3 DEF Precedes
<1>4. CASE k.acquired = l.acquired /\ l.acquired = m.acquired
  <2>1. CASE Len(k.id) = Len(l.id) /\ Len(l.id) = Len(m.id)
    <3>1. Less(k.id, l.id) /\ Less(l.id, m.id)  BY <1>1, <1>4, <2>1 DEF Precedes
    <3>2. Less(k.id, m.id)  BY <1>1, <2>1, <3>1, LessTransitive
    <3> QED  BY <1>4, <2>1, <3>2 DEF Precedes
  <2>2. CASE ~ (Len(k.id) = Len(l.id) /\ Len(l.id) = Len(m.id))
    <3>1. /\ Len(k.id) # Len(l.id) => (Len(k.id) > Len(l.id)) = cf
          /\ Len(l.id) # Len(m.id) => (Len(l.id) > Len(m.id)) = cf
      BY <1>1, <1>4 DEF Precedes
    <3>2. Len(k.id) # Len(m.id) /\ (Len(k.id) > Len(m.id)) = cf  BY <1>2, <2>2, <3>1
    <3> QED  BY <1>4, <3>2 DEF Precedes
  <2> QED  BY <2>1, <2>2
<1> QED  BY <1>1, <1>3, <1>4 DEF Precedes

LEMMA PrecedesIrreflexive ==
    ASSUME NEW l \in LotRecords, NEW cf \in BOOLEAN
    PROVE  ~ Precedes(l, l, cf)
<1>1. l.id \in Seq(Nat) /\ l.acquired \in Nat  BY DEF LotRecords
<1> QED  BY <1>1, LessIrreflexive DEF Precedes

(* The lot a sale reaches last. *)
LEMMA LastLot ==
    ASSUME NEW lots, OpenLots(lots), lots # {}, NEW cf \in BOOLEAN
    PROVE  \E z \in lots : \A l \in lots \ {z} : Precedes(l, z, cf)
<1> DEFINE IsLast(s, z) == \A l \in s \ {z} : Precedes(l, z, cf)
           X == {s \in SUBSET lots : s # {} => \E z \in s : IsLast(s, z)}
<1>1. {} \in X  OBVIOUS
<1>2. ASSUME NEW s \in SUBSET lots, s # {} PROVE \E x \in s : s \ {x} \in X => s \in X
  <2>1. PICK x \in s : TRUE  BY <1>2
  <2>2. ASSUME s \ {x} \in X PROVE \E z \in s : IsLast(s, z)
    <3>1. CASE s \ {x} = {}  BY <2>1, <3>1
    <3>2. CASE s \ {x} # {}
      <4>1. PICK z \in s \ {x} : IsLast(s \ {x}, z)  BY <2>2, <3>2
      <4>2. x \in lots /\ z \in lots /\ x # z  BY <2>1
      <4>3. CASE Precedes(x, z, cf)
        <5>1. IsLast(s, z)  BY <4>1, <4>3
        <5> QED  BY <4>1, <5>1
      <4>4. CASE Precedes(z, x, cf)
        <5>1. ASSUME NEW l \in s \ {x} PROVE Precedes(l, x, cf)
          <6>1. l = z \/ Precedes(l, z, cf)  BY <4>1
          <6>2. l \in LotRecords /\ z \in LotRecords /\ x \in LotRecords
            BY <4>2 DEF OpenLots
          <6> QED  BY <4>4, <6>1, <6>2, PrecedesTransitive
        <5>2. IsLast(s, x)  BY <5>1
        <5> QED  BY <2>1, <5>2
      <4> QED  BY <4>2, <4>3, <4>4, PrecedesTotal
    <3> QED  BY <3>1, <3>2
  <2>3. s \ {x} \in X => s \in X  BY <2>2
  <2> HIDE DEF X
  <2> QED  BY <2>1, <2>3
<1>3. IsFiniteSet(lots)  BY DEF OpenLots
<1>4. SUBSET lots \subseteq X
  <2> HIDE DEF X
  <2> QED  BY <1>1, <1>2, <1>3, SetInduction
<1>5. lots \in SUBSET lots  OBVIOUS
<1>6. lots \in X  BY <1>4, <1>5
<1> QED  BY <1>6

-----------------------------------------------------------------------------
(* What a sale takes. *)

(* A sale takes from a lot what the lots ahead leave to sell, and no more  *)
(* than the lot has.                                                       *)
LEMMA ConsumedRange ==
    ASSUME NEW queue, OpenLots(queue), NEW lot \in LotRecords, NEW qty \in Nat, NEW cf \in BOOLEAN
    PROVE  LET ahead == Quantity({l \in queue : Precedes(l, lot, cf)})
           IN  /\ ahead \in Nat
               /\ Consumed(queue, lot, qty, cf) \in 0..lot.qty
               /\ Consumed(queue, lot, qty, cf)
                  = IF qty <= ahead THEN 0
                    ELSE IF qty - ahead <= lot.qty THEN qty - ahead ELSE lot.qty
<1> DEFINE ahead == Quantity({l \in queue : Precedes(l, lot, cf)})
<1>1. ahead \in Nat
  <2>1. OpenLots({l \in queue : Precedes(l, lot, cf)})  BY OpenPart
  <2> QED  BY <2>1, AmountsNat
<1>2. lot.qty \in Nat  BY DEF LotRecords
<1>3. Consumed(queue, lot, qty, cf) = Min({lot.qty, Max({0, qty - ahead})})  BY DEF Consumed
<1> HIDE DEF ahead
<1> DEFINE m == IF 0 >= qty - ahead THEN 0 ELSE qty - ahead
<1>4. Max({0, qty - ahead}) = m
  <2> DEFINE d == qty - ahead
  <2>1. d \in Int  BY <1>1
  <2> HIDE DEF d
  <2>2. Max({0, d}) = IF 0 >= d THEN 0 ELSE d  BY <2>1, MinMax
  <2> QED  BY <2>2 DEF d
<1>5. m \in Int  BY <1>1
<1>6. Min({lot.qty, m}) = IF lot.qty <= m THEN lot.qty ELSE m
  <2> HIDE DEF m
  <2> QED  BY <1>2, <1>5, MinMax
<1>7. /\ Consumed(queue, lot, qty, cf) \in 0..lot.qty
      /\ Consumed(queue, lot, qty, cf)
         = IF qty <= ahead THEN 0 ELSE IF qty - ahead <= lot.qty THEN qty - ahead ELSE lot.qty
  <2> DEFINE c == Consumed(queue, lot, qty, cf)
  <2>1. c = IF lot.qty <= m THEN lot.qty ELSE m  BY <1>3, <1>4, <1>6
  <2> HIDE DEF c
  <2>2. c = IF qty <= ahead THEN 0 ELSE IF qty - ahead <= lot.qty THEN qty - ahead ELSE lot.qty
    BY <1>1, <1>2, <2>1
  <2>3. c \in 0..lot.qty  BY <1>1, <1>2, <2>2
  <2> QED  BY <2>2, <2>3 DEF c
<1> QED  BY <1>1, <1>7 DEF ahead

(* First in, first out: a sale takes as much as it asks for, as far as the  *)
(* queue goes.                                                              *)
LEMMA ConsumedInAll ==
    ASSUME NEW queue, OpenLots(queue), NEW qty \in Nat, NEW cf \in BOOLEAN
    PROVE  SumFunctionOnSet([l \in queue |-> Consumed(queue, l, qty, cf)], queue)
           = IF qty <= Quantity(queue) THEN qty ELSE Quantity(queue)
<1> DEFINE Taken(s) == [l \in s |-> Consumed(s, l, qty, cf)]
           InAll(s) == SumFunctionOnSet(Taken(s), s)
           Fits(s) == InAll(s) = IF qty <= Quantity(s) THEN qty ELSE Quantity(s)
           X == {s \in SUBSET queue : Fits(s)}
<1>1. {} \in X
  <2>1. InAll({}) = 0  BY SumEmpty
  <2>2. Quantity({}) = 0
    <3>1. IsFiniteSet({}) /\ {} \subseteq {}  BY FS_EmptySet
    <3>2. Quantity({}) = SumFunctionOnSet([l \in {} |-> l.qty], {})  BY <3>1, AmountsOn
    <3> QED  BY <3>2, SumEmpty
  <2>3. Fits({})  BY <2>1, <2>2
  <2> QED  BY <2>3
<1>2. ASSUME NEW s \in SUBSET queue, s # {} PROVE \E x \in s : s \ {x} \in X => s \in X
  <2>1. OpenLots(s)  BY OpenPart
  <2>2. PICK z \in s : \A l \in s \ {z} : Precedes(l, z, cf)  BY <1>2, <2>1, LastLot
  <2> DEFINE r == s \ {z}
  <2>3. OpenLots(r) /\ IsFiniteSet(s) /\ IsFiniteSet(r) /\ s \subseteq LotRecords
    BY <2>1, OpenPart DEF OpenLots
  <2>4. Quantity(s) = z.qty + Quantity(r) /\ z.qty \in Nat /\ Quantity(r) \in Nat
    <3>1. {z} \subseteq s /\ s \ {z} = r /\ z \in LotRecords  BY <2>3
    <3>2. Quantity(s) = Quantity({z}) + Quantity(r)  BY <2>1, <3>1, AmountsParted
    <3> QED  BY <2>3, <3>1, <3>2, AmountsOne, AmountsNat DEF LotRecords
  <2>5. ASSUME NEW l \in r PROVE Consumed(s, l, qty, cf) = Consumed(r, l, qty, cf)
    <3>1. ~ Precedes(z, l, cf)
      BY <2>2, <2>3, <2>5, PrecedesTransitive, PrecedesIrreflexive
    <3>2. {k \in s : Precedes(k, l, cf)} = {k \in r : Precedes(k, l, cf)}  BY <3>1
    <3> QED  BY <3>2 DEF Consumed
  <2>6. Consumed(s, z, qty, cf)
        = IF qty <= Quantity(r) THEN 0
          ELSE IF qty - Quantity(r) <= z.qty THEN qty - Quantity(r) ELSE z.qty
    <3>1. {k \in s : Precedes(k, z, cf)} = r  BY <2>2, <2>3, PrecedesIrreflexive
    <3> QED  BY <2>1, <2>3, <3>1, ConsumedRange
  <2>7. InAll(s) = Consumed(s, z, qty, cf) + InAll(r)
    <3> DEFINE f == Taken(s)
               g == Taken(r)
    <3>1. f[z] = Consumed(s, z, qty, cf)  OBVIOUS
    <3>2. \A l \in s : f[l] \in Int
      <4>1. \A l \in s : Consumed(s, l, qty, cf) \in 0..l.qty  BY <2>1, <2>3, ConsumedRange
      <4> QED  BY <4>1
    <3>3. \A l \in r : f[l] = g[l]  BY <2>5
    <3> HIDE DEF f, g
    <3>4. SumFunctionOnSet(f, s) = f[z] + SumFunctionOnSet(f, r)  BY <2>3, <3>2, SumRemove
    <3>5. SumFunctionOnSet(f, r) = SumFunctionOnSet(g, r)  BY <2>3, <3>3, SumSame
    <3> QED  BY <3>1, <3>4, <3>5 DEF f, g
  <2>8. Fits(r) => Fits(s)
    <3> HIDE DEF InAll, r
    <3> QED  BY <2>4, <2>6, <2>7
  <2>9. r \in X => s \in X  BY <2>8
  <2> HIDE DEF X
  <2> QED  BY <2>9
<1>3. IsFiniteSet(queue)  BY DEF OpenLots
<1>4. SUBSET queue \subseteq X
  <2> HIDE DEF X
  <2> QED  BY <1>1, <1>2, <1>3, SetInduction
<1>5. queue \in SUBSET queue  OBVIOUS
<1>6. Fits(queue)  BY <1>4, <1>5
<1> QED  BY <1>6

(* A lot of the queue after the sale. *)
LEMMA RemainderParts ==
    ASSUME NEW lot \in LotRecords, NEW k \in 0..lot.qty
    PROVE  /\ AllocatedCost(lot, k) \in 0..lot.cost
           /\ k = lot.qty => AllocatedCost(lot, k) = lot.cost
           /\ Remainder(lot, k).id = lot.id
           /\ Remainder(lot, k).qty = lot.qty - k
           /\ Remainder(lot, k).cost = lot.cost - AllocatedCost(lot, k)
           /\ Remainder(lot, k).principal \in 0..lot.principal
           /\ Remainder(lot, k).acquired = lot.acquired
           /\ Remainder(lot, k).sellable = lot.sellable
           /\ k < lot.qty => Remainder(lot, k) \in LotRecords
<1>1. /\ lot.qty \in Nat \ {0} /\ lot.cost \in Nat /\ lot.principal \in Nat
      /\ k \in Nat /\ k <= lot.qty /\ lot.qty - k \in Nat /\ lot.qty - k <= lot.qty
  BY DEF LotRecords
<1> DEFINE left == (lot.principal * (lot.qty - k)) \div lot.qty
<1>2. left \in 0..lot.principal
  <2> DEFINE n == lot.qty - k
             p == lot.principal
             q == lot.qty
  <2>1. n \in Nat /\ n <= q /\ p \in Nat /\ q \in Nat \ {0}  BY <1>1
  <2> HIDE DEF n, p, q
  <2>2. (p * n) \div q \in 0..p  BY <2>1, DivPart
  <2> QED  BY <2>2 DEF n, p, q
<1>3. AllocatedCost(lot, k) \in 0..lot.cost
  <2> DEFINE p == lot.cost
             q == lot.qty
  <2>1. k \in Nat /\ k <= q /\ p \in Nat /\ q \in Nat \ {0}  BY <1>1
  <2> HIDE DEF p, q
  <2>2. (p * k) \div q \in 0..p  BY <2>1, DivPart
  <2> QED  BY <2>2 DEF p, q, AllocatedCost
<1>4. k = lot.qty => AllocatedCost(lot, k) = lot.cost
  <2> DEFINE p == lot.cost
             q == lot.qty
  <2>1. p \in Int /\ q \in Nat \ {0}  BY <1>1
  <2> HIDE DEF p, q
  <2>2. (p * q) \div q = p  BY <2>1, DivWhole
  <2> QED  BY <2>2 DEF p, q, AllocatedCost
<1>5. /\ Remainder(lot, k).id = lot.id
      /\ Remainder(lot, k).qty = lot.qty - k
      /\ Remainder(lot, k).cost = lot.cost - AllocatedCost(lot, k)
      /\ Remainder(lot, k).principal = left
      /\ Remainder(lot, k).acquired = lot.acquired
      /\ Remainder(lot, k).sellable = lot.sellable
  BY DEF Remainder, LotRecords
<1>6. lot.cost - AllocatedCost(lot, k) \in Nat  BY <1>1, <1>3
<1>7. k < lot.qty => Remainder(lot, k) \in LotRecords
  <2>1. ASSUME NEW q \in Nat \ {0}, NEW c \in Nat, NEW p \in Nat
        PROVE  [lot EXCEPT !.qty = q, !.cost = c, !.principal = p] \in LotRecords
    BY DEF LotRecords
  <2>2. k < lot.qty => lot.qty - k \in Nat \ {0}  BY <1>1
  <2>3. left \in Nat  BY <1>1, <1>2
  <2> QED  BY <1>6, <2>1, <2>2, <2>3 DEF Remainder
<1> QED  BY <1>2, <1>3, <1>4, <1>5, <1>7

(* apply_sell removes the shares sold, the cost it allocates to them, and  *)
(* never adds principal; what is left of a lot keeps its id.               *)
THEOREM SurvivorsKeep ==
    ASSUME NEW queue, OpenLots(queue), NEW qty \in 0..Quantity(queue), NEW cf \in BOOLEAN
    PROVE  LET rest == Survivors(queue, qty, cf)
           IN  /\ OpenLots(rest)
               /\ Quantity(rest) = Quantity(queue) - qty
               /\ Cost(rest) = Cost(queue) - SoldCost(queue, qty, cf)
               /\ SoldCost(queue, qty, cf) \in Int
               /\ Principal(rest) <= Principal(queue)
               /\ \A lot \in rest : \E l \in queue :
                     /\ lot.id = l.id /\ lot.qty = l.qty - Consumed(queue, l, qty, cf)
                     /\ Consumed(queue, l, qty, cf) < l.qty
<1> DEFINE taken == [l \in queue |-> Consumed(queue, l, qty, cf)]
           kept == {l \in queue : taken[l] < l.qty}
           after == [l \in queue |-> Remainder(l, taken[l])]
           rest == {after[l] : l \in kept}
<1>1. IsFiniteSet(queue) /\ queue \subseteq LotRecords /\ qty \in Nat
      /\ Quantity(queue) \in Nat /\ qty <= Quantity(queue)
  BY AmountsNat DEF OpenLots
<1>2. ASSUME NEW l \in queue PROVE taken[l] \in 0..l.qty  BY <1>1, ConsumedRange
<1>3. Survivors(queue, qty, cf) = rest  BY DEF Survivors
<1>4. ASSUME NEW l \in queue
      PROVE  /\ l.qty \in Nat /\ l.cost \in Nat /\ l.principal \in Nat
             /\ AllocatedCost(l, taken[l]) \in 0..l.cost
             /\ taken[l] = l.qty => AllocatedCost(l, taken[l]) = l.cost
             /\ after[l].id = l.id
             /\ after[l].qty = l.qty - taken[l]
             /\ after[l].cost = l.cost - AllocatedCost(l, taken[l])
             /\ after[l].principal \in 0..l.principal
             /\ after[l].acquired = l.acquired
             /\ after[l].sellable = l.sellable
             /\ taken[l] < l.qty => after[l] \in LotRecords
  <2>1. l \in LotRecords /\ after[l] = Remainder(l, taken[l]) /\ taken[l] \in 0..l.qty  BY <1>1, <1>2
  <2> HIDE DEF taken, after
  <2>2. l.qty \in Nat /\ l.cost \in Nat /\ l.principal \in Nat  BY <2>1 DEF LotRecords
  <2> QED  BY <2>1, <2>2, RemainderParts
<1>5. IsFiniteSet(kept) /\ IsFiniteSet(rest)
  <2>1. IsFiniteSet(kept)  BY <1>1, FS_Subset
  <2> HIDE DEF kept, after
  <2> QED  BY <2>1, FiniteImage
<1>6. \A l, m \in queue : l.id = m.id => l = m  BY DEF OpenLots
<1>7. OpenLots(rest)
  <2>1. \A l \in queue : l.sellable >= l.acquired  BY DEF OpenLots
  <2> HIDE DEF taken, after
  <2>2. rest \subseteq LotRecords  BY <1>4
  <2>3. \A lot \in rest : lot.sellable >= lot.acquired  BY <1>4, <2>1
  <2>4. \A a, b \in rest : a.id = b.id => a = b  BY <1>4, <1>6
  <2> HIDE DEF rest
  <2> QED  BY <1>5, <2>2, <2>3, <2>4 DEF OpenLots
<1>8. SumFunctionOnSet(taken, queue) = qty  BY <1>1, ConsumedInAll
<1> HIDE DEF taken
<1> DEFINE leftQty == [l \in queue |-> after[l].qty]
           leftCost == [l \in queue |-> after[l].cost]
           leftPrin == [l \in queue |-> after[l].principal]
           fullQty == [l \in queue |-> l.qty]
           fullCost == [l \in queue |-> l.cost]
           fullPrin == [l \in queue |-> l.principal]
           soldCost == [l \in queue |-> AllocatedCost(l, taken[l])]
           restQty == [l \in rest |-> l.qty]
           restCost == [l \in rest |-> l.cost]
           restPrin == [l \in rest |-> l.principal]
<1>9. ASSUME NEW l \in queue
      PROVE  /\ leftQty[l] \in Int /\ leftCost[l] \in Int /\ leftPrin[l] \in Nat
             /\ fullQty[l] \in Int /\ fullCost[l] \in Int /\ fullPrin[l] \in Int
             /\ taken[l] \in Int /\ soldCost[l] \in Int
             /\ fullQty[l] = leftQty[l] + taken[l] /\ fullCost[l] = leftCost[l] + soldCost[l] /\ leftPrin[l] <= fullPrin[l]
             /\ taken[l] = l.qty => leftQty[l] = 0 /\ leftCost[l] = 0
  <2> HIDE DEF after
  <2> QED  BY <1>2, <1>4
<1>10. \A l \in kept : restQty[after[l]] = leftQty[l] /\ restCost[after[l]] = leftCost[l] /\ restPrin[after[l]] = leftPrin[l]
  <2> HIDE DEF after
  <2> QED  OBVIOUS
<1>11. \A l, m \in kept : after[l] = after[m] => l = m
  <2> HIDE DEF after
  <2> QED  BY <1>4, <1>6
<1>12. kept \subseteq queue /\ \A l \in queue \ kept : taken[l] = l.qty
  <2> SUFFICES ASSUME NEW l \in queue, ~ (taken[l] < l.qty) PROVE taken[l] = l.qty  OBVIOUS
  <2>1. taken[l] \in 0..l.qty /\ l.qty \in Nat  BY <1>2, <1>4
  <2> QED  BY <2>1
<1>13. /\ Quantity(queue) = SumFunctionOnSet(fullQty, queue)
       /\ Cost(queue) = SumFunctionOnSet(fullCost, queue)
       /\ Principal(queue) = SumFunctionOnSet(fullPrin, queue)
       /\ Quantity(rest) = SumFunctionOnSet(restQty, rest)
       /\ Cost(rest) = SumFunctionOnSet(restCost, rest)
       /\ Principal(rest) = SumFunctionOnSet(restPrin, rest)
  <2> HIDE DEF rest
  <2> QED  BY <1>1, <1>5, AmountsOn
<1>14. SoldCost(queue, qty, cf) = SumFunctionOnSet(soldCost, queue)
  BY DEF SoldCost, SumFunction, taken
<1>15. \A lot \in rest : \E l \in queue :
          lot.id = l.id /\ lot.qty = l.qty - taken[l] /\ taken[l] < l.qty
  <2> HIDE DEF after
  <2> QED  BY <1>4
<1> HIDE DEF leftQty, leftCost, leftPrin, fullQty, fullCost, fullPrin, soldCost, restQty, restCost, restPrin, after, kept
<1>16. /\ SumFunctionOnSet(restQty, rest) = SumFunctionOnSet(leftQty, kept)
       /\ SumFunctionOnSet(restCost, rest) = SumFunctionOnSet(leftCost, kept)
       /\ SumFunctionOnSet(restPrin, rest) = SumFunctionOnSet(leftPrin, kept)
  <2>1. \A l \in kept : leftQty[l] \in Int /\ leftCost[l] \in Int /\ leftPrin[l] \in Int  BY <1>9, <1>12
  <2> QED  BY <1>5, <1>10, <1>11, <2>1, SumImage
<1>17. /\ SumFunctionOnSet(leftQty, kept) = SumFunctionOnSet(leftQty, queue)
       /\ SumFunctionOnSet(leftCost, kept) = SumFunctionOnSet(leftCost, queue)
       /\ SumFunctionOnSet(leftPrin, kept) <= SumFunctionOnSet(leftPrin, queue)
  <2>1. \A l \in queue : leftQty[l] \in Int /\ leftCost[l] \in Int /\ leftPrin[l] \in Nat  BY <1>9
  <2>2. \A l \in queue \ kept : leftQty[l] = 0 /\ leftCost[l] = 0  BY <1>9, <1>12
  <2> QED  BY <1>1, <1>12, <2>1, <2>2, SumPart, SumPartLeq
<1>18. /\ SumFunctionOnSet(fullQty, queue) = SumFunctionOnSet(leftQty, queue) + SumFunctionOnSet(taken, queue)
       /\ SumFunctionOnSet(fullCost, queue) = SumFunctionOnSet(leftCost, queue) + SumFunctionOnSet(soldCost, queue)
       /\ SumFunctionOnSet(leftPrin, queue) <= SumFunctionOnSet(fullPrin, queue)
  <2>1. /\ \A l \in queue : leftQty[l] \in Int /\ taken[l] \in Int /\ fullQty[l] = leftQty[l] + taken[l]
        /\ \A l \in queue : leftCost[l] \in Int /\ soldCost[l] \in Int /\ fullCost[l] = leftCost[l] + soldCost[l]
        /\ \A l \in queue : leftPrin[l] \in Int /\ fullPrin[l] \in Int /\ leftPrin[l] <= fullPrin[l]
    BY <1>9
  <2>2. SumFunctionOnSet(fullQty, queue) = SumFunctionOnSet(leftQty, queue) + SumFunctionOnSet(taken, queue)
    BY <1>1, <2>1, SumPlus
  <2>3. SumFunctionOnSet(fullCost, queue) = SumFunctionOnSet(leftCost, queue) + SumFunctionOnSet(soldCost, queue)
    BY <1>1, <2>1, SumPlus
  <2>4. SumFunctionOnSet(leftPrin, queue) <= SumFunctionOnSet(fullPrin, queue)  BY <1>1, <2>1, SumLeq
  <2> QED  BY <2>2, <2>3, <2>4
<1>19. /\ SumFunctionOnSet(leftQty, queue) \in Int /\ SumFunctionOnSet(leftCost, queue) \in Int
       /\ SumFunctionOnSet(soldCost, queue) \in Int /\ SumFunctionOnSet(leftPrin, queue) \in Int
       /\ SumFunctionOnSet(fullPrin, queue) \in Int /\ SumFunctionOnSet(leftPrin, kept) \in Int
  <2>1. \A l \in queue : /\ leftQty[l] \in Int /\ leftCost[l] \in Int /\ soldCost[l] \in Int
                         /\ leftPrin[l] \in Int /\ fullPrin[l] \in Int
    BY <1>9
  <2>2. \A l \in kept : leftPrin[l] \in Int  BY <1>12, <2>1
  <2> QED  BY <1>1, <1>5, <2>1, <2>2, SumInt
<1>20. /\ Quantity(rest) = Quantity(queue) - qty
       /\ Cost(rest) = Cost(queue) - SoldCost(queue, qty, cf)
       /\ SoldCost(queue, qty, cf) \in Int
       /\ Principal(rest) <= Principal(queue)
  <2> HIDE DEF rest
  <2> QED  BY <1>1, <1>8, <1>13, <1>14, <1>16, <1>17, <1>18, <1>19
<1>21. \A lot \in rest : \E l \in queue :
          /\ lot.id = l.id /\ lot.qty = l.qty - Consumed(queue, l, qty, cf)
          /\ Consumed(queue, l, qty, cf) < l.qty
  <2> HIDE DEF rest
  <2> QED  BY <1>15 DEF taken
<1> HIDE DEF rest
<1> QED  BY <1>3, <1>7, <1>20, <1>21

(* A sale takes its shares from those that can be sold, now and later. *)
LEMMA SaleUnlocked ==
    ASSUME NEW lots, OpenLots(lots), NEW day \in Nat, NEW queue, queue = Eligible(lots, day),
           NEW qty \in 0..Quantity(queue), NEW cf \in BOOLEAN, NEW d \in Nat, d >= day
    PROVE  Quantity(Eligible((lots \ queue) \cup Survivors(queue, qty, cf), d))
           = Quantity(Eligible(lots, d)) - qty
<1> DEFINE rest == Survivors(queue, qty, cf)
           others == lots \ queue
<1>1. queue \subseteq lots /\ OpenLots(queue) /\ OpenLots(others)
  <2>1. queue \subseteq lots  BY DEF Eligible
  <2> QED  BY <2>1, OpenPart
<1>2. /\ OpenLots(rest) /\ Quantity(rest) = Quantity(queue) - qty
      /\ \A lot \in rest : \E l \in queue : lot.id = l.id
  BY <1>1, SurvivorsKeep
<1>3. others \cap rest = {}
  <2> HIDE DEF rest
  <2> SUFFICES ASSUME NEW k \in rest, k \in others PROVE FALSE  OBVIOUS
  <2>1. PICK l \in queue : k.id = l.id  BY <1>2
  <2>2. k = l  BY <1>1, <2>1 DEF OpenLots
  <2> QED  BY <2>1, <2>2
<1>4. Eligible(queue, d) = queue
  <2>1. ASSUME NEW l \in queue PROVE l.sellable <= d
    <3>1. l.sellable \in Nat /\ l.sellable <= day  BY <1>1 DEF OpenLots, LotRecords, Eligible
    <3> QED  BY <3>1
  <2> QED  BY <2>1 DEF Eligible
<1>5. Eligible(rest, d) = rest
  <2>1. ASSUME NEW lot \in rest PROVE lot.sellable <= d
    <3>1. PICK l \in queue : lot = Remainder(l, Consumed(queue, l, qty, cf))
      BY DEF Survivors
    <3>2. l \in LotRecords  BY <1>1 DEF OpenLots
    <3>3. Consumed(queue, l, qty, cf) \in 0..l.qty
      <4>1. Quantity(queue) \in Nat  BY <1>1, AmountsNat
      <4>2. qty \in Nat  BY <4>1
      <4> QED  BY <1>1, <3>2, <4>2, ConsumedRange
    <3>4. lot.sellable = l.sellable  BY <3>1, <3>2, <3>3, RemainderParts
    <3> QED  BY <1>4, <3>4 DEF Eligible
  <2> QED  BY <2>1 DEF Eligible
<1>6. /\ Quantity(Eligible(others \cup rest, d)) = Quantity(Eligible(others, d)) + Quantity(rest)
      /\ Quantity(Eligible(others \cup queue, d)) = Quantity(Eligible(others, d)) + Quantity(queue)
  <2> HIDE DEF rest
  <2>1. others \cap queue = {}  OBVIOUS
  <2> HIDE DEF others
  <2> QED  BY <1>1, <1>2, <1>3, <1>4, <1>5, <2>1, EligibleUnion
<1>7. others \cup queue = lots  BY <1>1
<1>8. Quantity(Eligible(others, d)) \in Nat /\ Quantity(queue) \in Nat
  BY <1>1, EligiblePart, AmountsNat
<1>9. qty \in Int  OBVIOUS
<1> HIDE DEF rest, others
<1>10. Quantity(Eligible(lots, d)) = Quantity(Eligible(others, d)) + Quantity(queue)
  BY <1>6, <1>7, Zenon
<1>11. Quantity(Eligible(others \cup rest, d)) = Quantity(Eligible(lots, d)) - qty
  BY ONLY <1>2, <1>6, <1>8, <1>9, <1>10
<1> QED  BY <1>11 DEF rest, others

(* FIFO: a sale that touches a lot has emptied every lot before it. *)
LEMMA OlderFirst ==
    ASSUME NEW queue, OpenLots(queue), NEW older \in queue, NEW lot \in queue,
           NEW qty \in Nat, NEW cf \in BOOLEAN, Precedes(older, lot, cf),
           Consumed(queue, lot, qty, cf) > 0
    PROVE  Consumed(queue, older, qty, cf) = older.qty
<1> DEFINE A == {l \in queue : Precedes(l, older, cf)}
           B == {l \in queue : Precedes(l, lot, cf)}
           C == A \cup {older}
<1>1. queue \subseteq LotRecords  BY DEF OpenLots
<1>2. older \in LotRecords /\ lot \in LotRecords /\ older.qty \in Nat \ {0} /\ lot.qty \in Nat
  BY <1>1 DEF LotRecords
<1>3. older \notin A  BY <1>2, PrecedesIrreflexive
<1>4. C \subseteq B
  <2>1. ASSUME NEW l \in A PROVE l \in B
    <3>1. l \in queue /\ l \in LotRecords /\ Precedes(l, older, cf)  BY <1>1
    <3>2. Precedes(l, lot, cf)  BY <1>2, <3>1, PrecedesTransitive
    <3> QED  BY <3>1, <3>2
  <2> QED  BY <2>1
<1>5. OpenLots(A) /\ OpenLots(B) /\ OpenLots({older})
  <2>1. A \subseteq queue /\ B \subseteq queue /\ {older} \subseteq queue  OBVIOUS
  <2> HIDE DEF A, B
  <2> QED  BY <2>1, OpenPart
<1>6. /\ Consumed(queue, lot, qty, cf)
         = IF qty <= Quantity(B) THEN 0
           ELSE IF qty - Quantity(B) <= lot.qty THEN qty - Quantity(B) ELSE lot.qty
      /\ Consumed(queue, older, qty, cf)
         = IF qty <= Quantity(A) THEN 0
           ELSE IF qty - Quantity(A) <= older.qty THEN qty - Quantity(A) ELSE older.qty
  BY <1>2, ConsumedRange
<1> HIDE DEF A, B
<1>7. Quantity(C) = Quantity(A) + older.qty
  <2>1. A \cap {older} = {} /\ Quantity({older}) = older.qty  BY <1>2, <1>3, AmountsOne
  <2>2. Quantity(C) = Quantity(A) + Quantity({older})  BY <1>5, <2>1, AmountsUnion
  <2> QED  BY <2>1, <2>2
<1>8. Quantity(B) = Quantity(C) + Quantity(B \ C)
  <2> HIDE DEF C
  <2> QED  BY <1>4, <1>5, AmountsParted
<1>9. Quantity(A) \in Nat /\ Quantity(B) \in Nat /\ Quantity(B \ C) \in Nat
  <2>1. B \ C \subseteq B  OBVIOUS
  <2>2. OpenLots(B \ C)
    <3> HIDE DEF C
    <3> QED  BY <1>5, <2>1, OpenPart
  <2> HIDE DEF C
  <2> QED  BY <1>5, <2>2, AmountsNat
<1> HIDE DEF C
<1>10. qty > Quantity(B)  BY <1>6, <1>9
<1> QED  BY <1>2, <1>6, <1>7, <1>8, <1>9, <1>10

OfId(lots, id) == {l \in lots : l.id = id}

(* FIFO on the lots of a portfolio: a lot that lost shares could be sold,   *)
(* and nothing is left of the lots acquired before it that could be too.    *)
THEOREM FifoSale ==
    ASSUME NEW lots, OpenLots(lots), NEW day, NEW queue, queue = Eligible(lots, day),
           NEW qty \in 0..Quantity(queue), NEW cf \in BOOLEAN,
           NEW all, all = (lots \ queue) \cup Survivors(queue, qty, cf), OpenLots(all),
           NEW lot \in lots, Quantity(OfId(all, lot.id)) < lot.qty
    PROVE  /\ lot \in queue
           /\ \A older \in queue :
                 older.acquired < lot.acquired => OfId(all, older.id) = {}
<1>1. queue \subseteq lots  BY DEF Eligible
<1>2. OpenLots(queue)  BY <1>1, OpenPart
<1>3. qty \in Nat  BY <1>2, AmountsNat
<1>4. ASSUME NEW l \in all, l.id = lot.id PROVE l.qty < lot.qty
  <2>1. OfId(all, lot.id) = {l}  BY <1>4 DEF OpenLots, OfId
  <2>2. l \in LotRecords  BY <1>4 DEF OpenLots
  <2>3. Quantity({l}) = l.qty  BY <2>2, AmountsOne
  <2> QED  BY <2>1, <2>3
<1>5. lot \in LotRecords /\ lot.qty \in Nat \ {0}  BY DEF OpenLots, LotRecords
<1>6. lot \in queue
  <2> SUFFICES ASSUME lot \notin queue PROVE FALSE  OBVIOUS
  <2>1. lot \in all  OBVIOUS
  <2> QED  BY <1>4, <1>5, <2>1
<1>7. Consumed(queue, lot, qty, cf) > 0
  <2>1. Consumed(queue, lot, qty, cf) \in 0..lot.qty  BY <1>2, <1>3, <1>5, ConsumedRange
  <2> SUFFICES ASSUME Consumed(queue, lot, qty, cf) = 0 PROVE FALSE  BY <1>5, <2>1
  <2> DEFINE r == Remainder(lot, 0)
  <2>2. r \in Survivors(queue, qty, cf)  BY <1>5, <1>6 DEF Survivors
  <2>3. 0 \in 0..lot.qty  BY <1>5
  <2>4. r.id = lot.id /\ r.qty = lot.qty - 0  BY <1>5, <2>3, RemainderParts
  <2> HIDE DEF r
  <2>5. r \in all  BY <2>2
  <2> QED  BY <1>4, <1>5, <2>4, <2>5
<1>8. ASSUME NEW older \in queue, older.acquired < lot.acquired, NEW l \in all, l.id = older.id
      PROVE  FALSE
  <2>1. Precedes(older, lot, cf)  BY <1>8 DEF Precedes
  <2>2. Consumed(queue, older, qty, cf) = older.qty  BY <1>2, <1>3, <1>6, <1>7, <2>1, OlderFirst
  <2>3. older.qty \in Nat  BY <1>2 DEF OpenLots, LotRecords
  <2>4. CASE l \in lots \ queue
    <3>1. l = older  BY <1>1, <1>8, <2>4 DEF OpenLots
    <3> QED  BY <2>4, <3>1
  <2>5. CASE l \in Survivors(queue, qty, cf)
    <3>1. PICK m \in queue : l.id = m.id /\ Consumed(queue, m, qty, cf) < m.qty
      BY <1>2, <2>5, SurvivorsKeep
    <3>2. m = older  BY <1>2, <1>8, <3>1 DEF OpenLots
    <3> QED  BY <2>2, <2>3, <3>1, <3>2
  <2> QED  BY <1>8, <2>4, <2>5
<1> QED  BY <1>6, <1>8 DEF OfId
================================================================================
