---------------------------- MODULE RowsAndSums ----------------------------
(***************************************************************************)
(* Facts the other proofs share: about Over, about sequences, and about    *)
(* SumFunctionOnSet, the sums over cabins, holds and items in the          *)
(* conservation laws.  The sum is a recursive function on the subsets of a *)
(* set; for a finite set strict inclusion is well founded, so every set of *)
(* subsets has a minimal element, which is what induction needs.           *)
(***************************************************************************)
EXTENDS Rows, Integers, SequencesExt, FiniteSetsExt, FiniteSetTheorems, TLAPS

LEMMA OverIs ==
    ASSUME NEW f, NEW g
    PROVE  /\ DOMAIN Over(f, g) = DOMAIN f \cup DOMAIN g
           /\ \A x \in DOMAIN f : Over(f, g)[x] = f[x]
           /\ \A x \in DOMAIN g \ DOMAIN f : Over(f, g)[x] = g[x]
BY DEF Over

LEMMA OverType ==
    ASSUME NEW K, NEW V, NEW g \in [K -> V], NEW f,
           DOMAIN f \subseteq K, \A x \in DOMAIN f : f[x] \in V
    PROVE  Over(f, g) \in [K -> V]
BY DEF Over

LEMMA AppendIs ==
    ASSUME NEW T, NEW s \in Seq(T), NEW e \in T
    PROVE  /\ Append(s, e) \in Seq(T) /\ Len(Append(s, e)) = Len(s) + 1
           /\ Range(Append(s, e)) = Range(s) \cup {e}
<1>1. Append(s, e) \in Seq(T) /\ Len(Append(s, e)) = Len(s) + 1 /\ Len(s) \in Nat
  OBVIOUS
<1>2. /\ DOMAIN s = 1 .. Len(s) /\ DOMAIN Append(s, e) = 1 .. (Len(s) + 1)
      /\ \A i \in 1 .. Len(s) : Append(s, e)[i] = s[i]
      /\ Append(s, e)[Len(s) + 1] = e
  OBVIOUS
<1>3. Range(Append(s, e)) = Range(s) \cup {e}
  BY <1>1, <1>2 DEF Range
<1>4. QED
  BY <1>1, <1>3

-----------------------------------------------------------------------------
(* Induction over the subsets of a finite set *)

\* Strong induction: Good are the subsets of S that have the property.
LEMMA SubsetInduction ==
    ASSUME NEW S, IsFiniteSet(S), NEW Good,
           \A T \in SUBSET S : (\A U \in SUBSET T : U # T => U \in Good) => T \in Good
    PROVE  \A T \in SUBSET S : T \in Good
<1> DEFINE R == StrictSubsetOrdering(S)
<1> DEFINE Bad == {T \in SUBSET S : T \notin Good}
<1>1. IsWellFoundedOn(R, SUBSET S)
  BY FS_StrictSubsetOrderingWellFounded, FS_FiniteSubsetsOfFinite
<1>2. SUFFICES ASSUME Bad # {} PROVE FALSE
  OBVIOUS
<1>3. PICK T \in Bad : \A U \in Bad : <<U, T>> \notin R
  <2> HIDE DEF R
  <2>1. Bad \subseteq SUBSET S
    OBVIOUS
  <2> HIDE DEF Bad
  <2>2. QED
    BY <1>1, <1>2, <2>1, WFMin
<1>4. ASSUME NEW U \in SUBSET T, U # T PROVE U \in Good
  <2>1. U \in SUBSET S /\ T \in SUBSET S
    OBVIOUS
  <2>2. <<U, T>> \in R
    BY <1>4, <2>1 DEF StrictSubsetOrdering
  <2>3. QED
    BY <1>3, <2>1, <2>2
<1>5. QED
  BY <1>4

-----------------------------------------------------------------------------
(* The recursion *)

Pick(s) == CHOOSE x \in s : TRUE

\* g sums f over every subset of S.
Unfolds(g, f, S) ==
    g = [s \in SUBSET S |-> IF s = {} THEN 0 ELSE f[Pick(s)] + g[s \ {Pick(s)}]]

LEMMA Picked == ASSUME NEW s, s # {} PROVE Pick(s) \in s
BY DEF Pick

LEMMA UnfoldsAgree ==
    ASSUME NEW S, IsFiniteSet(S), NEW U \in SUBSET S, NEW V \in SUBSET S, NEW f,
           NEW g, NEW h, Unfolds(g, f, U), Unfolds(h, f, V), NEW s \in SUBSET (U \cap V)
    PROVE  g[s] = h[s]
<1> DEFINE Good == {T \in SUBSET S : T \subseteq U \cap V => g[T] = h[T]}
<1>1. ASSUME NEW T \in SUBSET S, \A W \in SUBSET T : W # T => W \in Good
      PROVE  T \in Good
  <2> SUFFICES ASSUME T \subseteq U \cap V PROVE g[T] = h[T]
    OBVIOUS
  <2>1. CASE T = {}
    BY <2>1 DEF Unfolds
  <2>2. CASE T # {}
    <3> DEFINE W == T \ {Pick(T)}
    <3>1. W \in SUBSET T /\ W # T /\ W \subseteq U \cap V
      BY <2>2, Picked
    <3>2. g[W] = h[W]
      BY <1>1, <3>1
    <3>3. g[T] = f[Pick(T)] + g[W] /\ h[T] = f[Pick(T)] + h[W]
      BY <2>2 DEF Unfolds
    <3>4. QED
      BY <3>2, <3>3
  <2>3. QED
    BY <2>1, <2>2
<1> HIDE DEF Good
<1>2. s \in Good
  BY <1>1, SubsetInduction
<1>3. QED
  BY <1>2 DEF Good

LEMMA UnfoldsExists ==
    ASSUME NEW S, IsFiniteSet(S), NEW f
    PROVE  \E g : Unfolds(g, f, S)
<1> DEFINE Good == {T \in SUBSET S : \E g : Unfolds(g, f, T)}
<1>1. ASSUME NEW T \in SUBSET S, \A U \in SUBSET T : U # T => U \in Good
      PROVE  T \in Good
  <2> DEFINE G(u) == CHOOSE g : Unfolds(g, f, u)
  <2> DEFINE V(s) == IF s = {} THEN 0 ELSE f[Pick(s)] + G(s \ {Pick(s)})[s \ {Pick(s)}]
  <2> DEFINE g == [s \in SUBSET T |-> V(s)]
  <2>1. \A u \in SUBSET T : u # T => Unfolds(G(u), f, u)
    BY <1>1
  <2>2. ASSUME NEW u \in SUBSET T, u # T PROVE g[u] = G(u)[u]
    <3>1. Unfolds(G(u), f, u)
      BY <2>1, <2>2
    <3>2. CASE u = {}
      BY <3>1, <3>2 DEF Unfolds
    <3>3. CASE u # {}
      <4> DEFINE w == u \ {Pick(u)}
      <4>1. w \in SUBSET T /\ w # T /\ w \in SUBSET u
        BY <2>2, <3>3, Picked
      <4>2. Unfolds(G(w), f, w)
        BY <2>1, <4>1
      <4>3. G(u)[u] = f[Pick(u)] + G(u)[w]
        BY <3>1, <3>3 DEF Unfolds
      <4>4. G(u)[w] = G(w)[w]
        <5>1. u \in SUBSET S /\ w \in SUBSET S /\ w \in SUBSET (u \cap w)
          BY <2>2, <4>1
        <5> HIDE DEF G, w
        <5>2. QED
          BY <3>1, <4>2, <5>1, UnfoldsAgree
      <4>5. QED
        BY <3>3, <4>3, <4>4
    <3>4. QED
      BY <3>2, <3>3
  <2>3. ASSUME NEW s \in SUBSET T, s # {}
        PROVE  g[s] = f[Pick(s)] + g[s \ {Pick(s)}]
    <3>1. s \ {Pick(s)} \in SUBSET T /\ s \ {Pick(s)} # T
      BY <2>3, Picked
    <3>2. g[s] = f[Pick(s)] + G(s \ {Pick(s)})[s \ {Pick(s)}]
      BY <2>3
    <3> HIDE DEF g, G
    <3>3. QED
      BY <2>2, <3>1, <3>2
  <2>4. g[{}] = 0
    OBVIOUS
  <2>5. g = [s \in SUBSET T |-> g[s]]
    OBVIOUS
  <2> HIDE DEF g
  <2>6. Unfolds(g, f, T)
    BY <2>3, <2>4, <2>5 DEF Unfolds
  <2>7. QED
    BY <2>6
<1> HIDE DEF Good
<1>2. S \in Good
  BY <1>1, SubsetInduction
<1>3. QED
  BY <1>2 DEF Good

LEMMA SumUnfolds ==
    ASSUME NEW S, IsFiniteSet(S), NEW f
    PROVE  \E g : Unfolds(g, f, S) /\ SumFunctionOnSet(f, S) = g[S]
<1> DEFINE iter == CHOOSE g : Unfolds(g, f, S)
<1>1. Unfolds(iter, f, S)
  BY UnfoldsExists
<1>2. SumFunctionOnSet(f, S) = iter[S]
  BY DEF SumFunctionOnSet, FoldFunctionOnSet, MapThenFoldSet, Unfolds, Pick
<1>3. QED
  BY <1>1, <1>2

-----------------------------------------------------------------------------
(* Sums of integers *)

LEMMA SumEmpty == ASSUME NEW f PROVE SumFunctionOnSet(f, {}) = 0
<1>1. IsFiniteSet({})
  BY FS_EmptySet
<1>2. PICK g : Unfolds(g, f, {}) /\ SumFunctionOnSet(f, {}) = g[{}]
  BY <1>1, SumUnfolds
<1>3. QED
  BY <1>2 DEF Unfolds

LEMMA SumPick ==
    ASSUME NEW S, IsFiniteSet(S), S # {}, NEW f
    PROVE  SumFunctionOnSet(f, S) = f[Pick(S)] + SumFunctionOnSet(f, S \ {Pick(S)})
<1> DEFINE T == S \ {Pick(S)}
<1>1. IsFiniteSet(T) /\ T \in SUBSET S /\ T \in SUBSET (S \cap T) /\ S \in SUBSET S
  BY FS_Subset
<1>2. PICK g : Unfolds(g, f, S) /\ SumFunctionOnSet(f, S) = g[S]
  BY SumUnfolds
<1>3. PICK h : Unfolds(h, f, T) /\ SumFunctionOnSet(f, T) = h[T]
  BY <1>1, SumUnfolds
<1>4. g[S] = f[Pick(S)] + g[T]
  BY <1>2 DEF Unfolds
<1>5. g[T] = h[T]
  <2> HIDE DEF T
  <2>1. QED
    BY <1>1, <1>2, <1>3, UnfoldsAgree
<1>6. QED
  BY <1>2, <1>3, <1>4, <1>5

LEMMA SumType ==
    ASSUME NEW S, IsFiniteSet(S), NEW f, \A x \in S : f[x] \in Int
    PROVE  SumFunctionOnSet(f, S) \in Int
<1> DEFINE Good == {T \in SUBSET S : SumFunctionOnSet(f, T) \in Int}
<1>1. ASSUME NEW T \in SUBSET S, \A U \in SUBSET T : U # T => U \in Good
      PROVE  T \in Good
  <2>1. CASE T = {}
    BY <2>1, SumEmpty
  <2>2. CASE T # {}
    <3>1. IsFiniteSet(T)
      BY FS_Subset
    <3>2. Pick(T) \in T /\ f[Pick(T)] \in Int
      BY <2>2, Picked
    <3>3. T \ {Pick(T)} \in Good
      BY <1>1, <3>2
    <3>4. SumFunctionOnSet(f, T) = f[Pick(T)] + SumFunctionOnSet(f, T \ {Pick(T)})
      BY <2>2, <3>1, SumPick
    <3>5. QED
      BY <3>2, <3>3, <3>4
  <2>3. QED
    BY <2>1, <2>2
<1> HIDE DEF Good
<1>2. S \in Good
  BY <1>1, SubsetInduction
<1>3. QED
  BY <1>2 DEF Good

LEMMA SumNat ==
    ASSUME NEW S, IsFiniteSet(S), NEW f, \A x \in S : f[x] \in Nat
    PROVE  SumFunctionOnSet(f, S) \in Nat
<1> DEFINE Good == {T \in SUBSET S : SumFunctionOnSet(f, T) \in Nat}
<1>1. ASSUME NEW T \in SUBSET S, \A U \in SUBSET T : U # T => U \in Good
      PROVE  T \in Good
  <2>1. CASE T = {}
    BY <2>1, SumEmpty
  <2>2. CASE T # {}
    <3>1. IsFiniteSet(T)
      BY FS_Subset
    <3>2. Pick(T) \in T /\ f[Pick(T)] \in Nat
      BY <2>2, Picked
    <3>3. T \ {Pick(T)} \in Good
      BY <1>1, <3>2
    <3>4. SumFunctionOnSet(f, T) = f[Pick(T)] + SumFunctionOnSet(f, T \ {Pick(T)})
      BY <2>2, <3>1, SumPick
    <3>5. QED
      BY <3>2, <3>3, <3>4
  <2>3. QED
    BY <2>1, <2>2
<1> HIDE DEF Good
<1>2. S \in Good
  BY <1>1, SubsetInduction
<1>3. QED
  BY <1>2 DEF Good

\* The order in which the elements are added does not matter.
LEMMA SumRemove ==
    ASSUME NEW S, IsFiniteSet(S), NEW f, \A x \in S : f[x] \in Int, NEW e \in S
    PROVE  SumFunctionOnSet(f, S) = f[e] + SumFunctionOnSet(f, S \ {e})
<1> DEFINE Good == {T \in SUBSET S : \A x \in T :
        SumFunctionOnSet(f, T) = f[x] + SumFunctionOnSet(f, T \ {x})}
<1>1. ASSUME NEW T \in SUBSET S, \A U \in SUBSET T : U # T => U \in Good
      PROVE  T \in Good
  <2> SUFFICES ASSUME NEW x \in T
               PROVE  SumFunctionOnSet(f, T) = f[x] + SumFunctionOnSet(f, T \ {x})
    OBVIOUS
  <2> DEFINE p == Pick(T)
  <2>1. IsFiniteSet(T) /\ \A U \in SUBSET T : IsFiniteSet(U)
    BY FS_Subset
  <2>2. SumFunctionOnSet(f, T) = f[p] + SumFunctionOnSet(f, T \ {p})
    BY <2>1, SumPick
  <2>3. p \in T
    BY Picked
  <2>4. CASE x = p
    BY <2>2, <2>4
  <2>5. CASE x # p
    <3> HIDE DEF p
    <3>1. T \ {p} \in Good /\ T \ {x} \in Good
      BY <1>1, <2>3
    <3>2. x \in T \ {p} /\ p \in T \ {x} /\ (T \ {p}) \ {x} = (T \ {x}) \ {p}
      BY <2>3, <2>5
    <3>3. SumFunctionOnSet(f, T \ {p}) = f[x] + SumFunctionOnSet(f, (T \ {p}) \ {x})
      BY <3>1, <3>2
    <3>4. SumFunctionOnSet(f, T \ {x}) = f[p] + SumFunctionOnSet(f, (T \ {x}) \ {p})
      BY <3>1, <3>2
    <3>5. SumFunctionOnSet(f, (T \ {x}) \ {p}) \in Int
      <4> DEFINE U == (T \ {x}) \ {p}
      <4>1. IsFiniteSet(U) /\ \A y \in U : f[y] \in Int
        BY <2>1
      <4> HIDE DEF U
      <4>2. SumFunctionOnSet(f, U) \in Int
        BY <4>1, SumType
      <4>3. QED
        BY <4>2 DEF U
    <3>6. f[x] \in Int /\ f[p] \in Int
      BY <2>3
    <3> DEFINE Z == SumFunctionOnSet(f, (T \ {x}) \ {p})
    <3>7. /\ SumFunctionOnSet(f, T \ {p}) = f[x] + Z
          /\ SumFunctionOnSet(f, T \ {x}) = f[p] + Z
      BY <3>2, <3>3, <3>4
    <3>8. Z \in Int
      BY <3>5
    <3> HIDE DEF Z
    <3>9. f[p] + (f[x] + Z) = f[x] + (f[p] + Z)
      BY <3>6, <3>8
    <3>10. QED
      BY <2>2, <3>7, <3>9
  <2>6. QED
    BY <2>4, <2>5
<1> HIDE DEF Good
<1>2. S \in Good
  BY <1>1, SubsetInduction
<1>3. QED
  BY <1>2 DEF Good

LEMMA SumAdd ==
    ASSUME NEW S, IsFiniteSet(S), NEW f, \A x \in S : f[x] \in Int,
           NEW e, e \notin S, f[e] \in Int
    PROVE  SumFunctionOnSet(f, S \cup {e}) = SumFunctionOnSet(f, S) + f[e]
<1> DEFINE T == S \cup {e}
<1>1. IsFiniteSet(T) /\ e \in T /\ T \ {e} = S /\ \A x \in T : f[x] \in Int
  BY FS_AddElement
<1> HIDE DEF T
<1>2. SumFunctionOnSet(f, T) = f[e] + SumFunctionOnSet(f, T \ {e})
  BY <1>1, SumRemove
<1>3. SumFunctionOnSet(f, S) \in Int
  BY SumType
<1>4. f[e] + SumFunctionOnSet(f, S) = SumFunctionOnSet(f, S) + f[e]
  BY <1>3
<1>5. SumFunctionOnSet(f, T) = SumFunctionOnSet(f, S) + f[e]
  BY <1>1, <1>2, <1>4
<1>6. QED
  BY <1>5 DEF T

LEMMA SumUnion ==
    ASSUME NEW S, IsFiniteSet(S), NEW T, IsFiniteSet(T), S \cap T = {},
           NEW f, \A x \in S \cup T : f[x] \in Int
    PROVE  SumFunctionOnSet(f, S \cup T) = SumFunctionOnSet(f, S) + SumFunctionOnSet(f, T)
<1> DEFINE Good == {U \in SUBSET T :
        SumFunctionOnSet(f, S \cup U) = SumFunctionOnSet(f, S) + SumFunctionOnSet(f, U)}
<1>1. SumFunctionOnSet(f, S) \in Int
  BY SumType
<1>2. ASSUME NEW U \in SUBSET T, \A W \in SUBSET U : W # U => W \in Good
      PROVE  U \in Good
  <2>1. CASE U = {}
    <3>1. S \cup U = S /\ SumFunctionOnSet(f, U) = 0
      BY <2>1, SumEmpty
    <3>2. SumFunctionOnSet(f, S) + 0 = SumFunctionOnSet(f, S)
      BY <1>1
    <3>3. SumFunctionOnSet(f, S \cup U) = SumFunctionOnSet(f, S) + SumFunctionOnSet(f, U)
      BY <3>1, <3>2
    <3>4. QED
      BY <3>3
  <2>2. CASE U # {}
    <3>1. PICK x \in U : TRUE
      BY <2>2
    <3> DEFINE W == U \ {x}
    <3>2. /\ IsFiniteSet(W) /\ IsFiniteSet(S \cup W) /\ IsFiniteSet(U)
      <4>1. IsFiniteSet(W) /\ IsFiniteSet(U)
        BY FS_Subset
      <4> HIDE DEF W
      <4>2. QED
        BY <4>1, FS_Union
    <3>3. /\ W \in Good /\ x \notin W /\ x \notin S \cup W /\ f[x] \in Int
          /\ W \cup {x} = U /\ (S \cup W) \cup {x} = S \cup U
          /\ (\A y \in W : f[y] \in Int) /\ (\A y \in S \cup W : f[y] \in Int)
      BY <1>2
    <3> HIDE DEF W
    <3>4. SumFunctionOnSet(f, U) = SumFunctionOnSet(f, W) + f[x]
      BY <3>2, <3>3, SumAdd
    <3>5. SumFunctionOnSet(f, S \cup U) = SumFunctionOnSet(f, S \cup W) + f[x]
      <4> DEFINE Z == S \cup W
      <4>1. IsFiniteSet(Z) /\ x \notin Z /\ (\A y \in Z : f[y] \in Int)
            /\ Z \cup {x} = S \cup U
        BY <3>2, <3>3
      <4> HIDE DEF Z
      <4>2. SumFunctionOnSet(f, Z \cup {x}) = SumFunctionOnSet(f, Z) + f[x]
        BY <3>3, <4>1, SumAdd
      <4>3. QED
        BY <4>1, <4>2 DEF Z
    <3>6. SumFunctionOnSet(f, W) \in Int
      BY <3>2, <3>3, SumType
    <3>7. QED
      BY <1>1, <3>3, <3>4, <3>5, <3>6
  <2>3. QED
    BY <2>1, <2>2
<1> HIDE DEF Good
<1>3. T \in Good
  BY <1>2, SubsetInduction
<1>4. QED
  BY <1>3 DEF Good

-----------------------------------------------------------------------------
(* Two functions *)

\* What holds of every step of the recursion holds of the sums.
LEMMA SumPlus ==
    ASSUME NEW S, IsFiniteSet(S), NEW f, NEW g, NEW h,
           \A x \in S : f[x] \in Int /\ g[x] \in Int /\ h[x] = f[x] + g[x]
    PROVE  SumFunctionOnSet(h, S) = SumFunctionOnSet(f, S) + SumFunctionOnSet(g, S)
<1> DEFINE Good == {T \in SUBSET S :
        SumFunctionOnSet(h, T) = SumFunctionOnSet(f, T) + SumFunctionOnSet(g, T)}
<1>1. ASSUME NEW T \in SUBSET S, \A U \in SUBSET T : U # T => U \in Good
      PROVE  T \in Good
  <2>1. CASE T = {}
    BY <2>1, SumEmpty
  <2>2. CASE T # {}
    <3> DEFINE p == Pick(T)
    <3> DEFINE U == T \ {p}
    <3>1. IsFiniteSet(T) /\ IsFiniteSet(U)
      BY FS_Subset
    <3>2. /\ SumFunctionOnSet(f, T) = f[p] + SumFunctionOnSet(f, U)
          /\ SumFunctionOnSet(g, T) = g[p] + SumFunctionOnSet(g, U)
          /\ SumFunctionOnSet(h, T) = h[p] + SumFunctionOnSet(h, U)
      BY <2>2, <3>1, SumPick
    <3>3. p \in T /\ U \in Good
      BY <1>1, <2>2, Picked
    <3>4. \A x \in U : f[x] \in Int /\ g[x] \in Int
      OBVIOUS
    <3> HIDE DEF p, U
    <3>5. SumFunctionOnSet(f, U) \in Int /\ SumFunctionOnSet(g, U) \in Int
      BY <3>1, <3>4, SumType
    <3>6. f[p] \in Int /\ g[p] \in Int /\ h[p] = f[p] + g[p]
      BY <3>3
    <3>7. QED
      BY <3>2, <3>3, <3>5, <3>6
  <2>3. QED
    BY <2>1, <2>2
<1> HIDE DEF Good
<1>2. S \in Good
  BY <1>1, SubsetInduction
<1>3. QED
  BY <1>2 DEF Good

LEMMA SumEqual ==
    ASSUME NEW S, IsFiniteSet(S), NEW f, NEW g, \A x \in S : f[x] = g[x]
    PROVE  SumFunctionOnSet(f, S) = SumFunctionOnSet(g, S)
<1> DEFINE Good == {T \in SUBSET S : SumFunctionOnSet(f, T) = SumFunctionOnSet(g, T)}
<1>1. ASSUME NEW T \in SUBSET S, \A U \in SUBSET T : U # T => U \in Good
      PROVE  T \in Good
  <2>1. CASE T = {}
    BY <2>1, SumEmpty
  <2>2. CASE T # {}
    <3> DEFINE p == Pick(T)
    <3>1. IsFiniteSet(T)
      BY FS_Subset
    <3>2. /\ SumFunctionOnSet(f, T) = f[p] + SumFunctionOnSet(f, T \ {p})
          /\ SumFunctionOnSet(g, T) = g[p] + SumFunctionOnSet(g, T \ {p})
      BY <2>2, <3>1, SumPick
    <3>3. p \in T /\ T \ {p} \in Good
      BY <1>1, <2>2, Picked
    <3> HIDE DEF p
    <3>4. QED
      BY <3>2, <3>3
  <2>3. QED
    BY <2>1, <2>2
<1> HIDE DEF Good
<1>2. S \in Good
  BY <1>1, SubsetInduction
<1>3. QED
  BY <1>2 DEF Good

LEMMA SumAtMost ==
    ASSUME NEW S, IsFiniteSet(S), NEW f, NEW g,
           \A x \in S : f[x] \in Int /\ g[x] \in Int /\ f[x] <= g[x]
    PROVE  SumFunctionOnSet(f, S) <= SumFunctionOnSet(g, S)
<1> DEFINE d == [x \in S |-> g[x] - f[x]]
<1>1. \A x \in S : f[x] \in Int /\ d[x] \in Int /\ d[x] \in Nat /\ g[x] = f[x] + d[x]
  OBVIOUS
<1> HIDE DEF d
<1>2. SumFunctionOnSet(g, S) = SumFunctionOnSet(f, S) + SumFunctionOnSet(d, S)
  BY <1>1, SumPlus
<1>3. SumFunctionOnSet(d, S) \in Nat /\ SumFunctionOnSet(f, S) \in Int
  BY <1>1, SumNat, SumType
<1>4. QED
  BY <1>2, <1>3

\* One element changes: the sum changes by the difference.
LEMMA SumChange ==
    ASSUME NEW S, IsFiniteSet(S), NEW f, NEW g, NEW e \in S, g[e] \in Int,
           \A x \in S : f[x] \in Int, \A x \in S \ {e} : g[x] = f[x]
    PROVE  SumFunctionOnSet(g, S) = SumFunctionOnSet(f, S) + (g[e] - f[e])
<1> DEFINE T == S \ {e}
<1>1. IsFiniteSet(T) /\ \A x \in T : f[x] \in Int /\ g[x] = f[x]
  BY FS_Subset
<1>2. \A x \in S : g[x] \in Int
  OBVIOUS
<1>3. SumFunctionOnSet(f, S) = f[e] + SumFunctionOnSet(f, T)
  BY SumRemove
<1>4. SumFunctionOnSet(g, S) = g[e] + SumFunctionOnSet(g, T)
  BY <1>2, SumRemove
<1> HIDE DEF T
<1>5. SumFunctionOnSet(g, T) = SumFunctionOnSet(f, T)
  BY <1>1, SumEqual
<1>6. SumFunctionOnSet(f, T) \in Int /\ f[e] \in Int
  BY <1>1, SumType
<1>7. QED
  BY <1>3, <1>4, <1>5, <1>6

\* A sum of ones counts.
LEMMA SumCounts ==
    ASSUME NEW S, IsFiniteSet(S), NEW f, \A x \in S : f[x] = 1
    PROVE  SumFunctionOnSet(f, S) = Cardinality(S)
<1> DEFINE Good == {T \in SUBSET S : SumFunctionOnSet(f, T) = Cardinality(T)}
<1>1. ASSUME NEW T \in SUBSET S, \A U \in SUBSET T : U # T => U \in Good
      PROVE  T \in Good
  <2>1. CASE T = {}
    BY <2>1, SumEmpty, FS_EmptySet
  <2>2. CASE T # {}
    <3> DEFINE p == Pick(T)
    <3>1. IsFiniteSet(T)
      BY FS_Subset
    <3>2. SumFunctionOnSet(f, T) = f[p] + SumFunctionOnSet(f, T \ {p})
      BY <2>2, <3>1, SumPick
    <3>3. p \in T /\ T \ {p} \in Good
      BY <1>1, <2>2, Picked
    <3> HIDE DEF p
    <3>4. Cardinality(T \ {p}) = Cardinality(T) - 1 /\ Cardinality(T) \in Nat
      BY <3>1, <3>3, FS_RemoveElement, FS_CardinalityType
    <3>5. f[p] = 1
      BY <3>3
    <3>6. QED
      BY <3>2, <3>3, <3>4, <3>5
  <2>3. QED
    BY <2>1, <2>2
<1> HIDE DEF Good
<1>2. S \in Good
  BY <1>1, SubsetInduction
<1>3. QED
  BY <1>2 DEF Good

LEMMA SumZeros ==
    ASSUME NEW S, IsFiniteSet(S), NEW f, \A x \in S : f[x] = 0
    PROVE  SumFunctionOnSet(f, S) = 0
<1> DEFINE sum == SumFunctionOnSet(f, S)
<1>1. (\A x \in S : f[x] \in Nat) /\ \A x \in S : f[x] \in Int /\ f[x] = f[x] + f[x]
  OBVIOUS
<1>2. sum \in Nat
  BY <1>1, SumNat
<1>3. sum = sum + sum
  BY <1>1, SumPlus
<1> HIDE DEF sum
<1>4. sum = 0
  BY <1>2, <1>3
<1>5. QED
  BY <1>4 DEF sum

\* The sum of an indicator counts what it indicates.
LEMMA SumIndicator ==
    ASSUME NEW S, IsFiniteSet(S), NEW T, NEW f, \A x \in S : f[x] = IF x \in T THEN 1 ELSE 0
    PROVE  SumFunctionOnSet(f, S) = Cardinality(S \cap T)
<1> DEFINE In == S \cap T
<1> DEFINE Out == S \ T
<1>1. IsFiniteSet(In) /\ IsFiniteSet(Out)
  BY FS_Subset
<1>2. /\ In \cap Out = {} /\ \A x \in In \cup Out : f[x] \in Int
      /\ (\A x \in In : f[x] = 1) /\ (\A x \in Out : f[x] = 0)
  OBVIOUS
<1>3. In \cup Out = S
  OBVIOUS
<1> HIDE DEF In, Out
<1>4. SumFunctionOnSet(f, In \cup Out) = SumFunctionOnSet(f, In) + SumFunctionOnSet(f, Out)
  BY <1>1, <1>2, SumUnion
<1>5. SumFunctionOnSet(f, In) = Cardinality(In) /\ Cardinality(In) \in Nat
  BY <1>1, <1>2, SumCounts, FS_CardinalityType
<1>6. SumFunctionOnSet(f, Out) = 0
  BY <1>1, <1>2, SumZeros
<1>7. SumFunctionOnSet(f, S) = SumFunctionOnSet(f, In \cup Out)
  BY <1>3
<1>8. QED
  BY <1>4, <1>5, <1>6, <1>7 DEF In

\* A sum does not depend on the names of what is summed.
LEMMA SumOnSubset ==
    ASSUME NEW S, IsFiniteSet(S), NEW T \in SUBSET S, NEW f, NEW g,
           \A x \in S : f[x] \in Int /\ g[x] = IF x \in T THEN f[x] ELSE 0
    PROVE  SumFunctionOnSet(f, T) = SumFunctionOnSet(g, S)
<1> DEFINE Rest == S \ T
<1>1. /\ IsFiniteSet(T) /\ IsFiniteSet(Rest) /\ T \cap Rest = {} /\ T \cup Rest = S
      /\ (\A x \in Rest : g[x] = 0) /\ (\A x \in T : f[x] = g[x] /\ f[x] \in Int)
      /\ (\A x \in S : g[x] \in Int)
  BY FS_Subset
<1> HIDE DEF Rest
<1>2. SumFunctionOnSet(g, S) = SumFunctionOnSet(g, T) + SumFunctionOnSet(g, Rest)
  <2>1. \A x \in T \cup Rest : g[x] \in Int
    BY <1>1
  <2>2. SumFunctionOnSet(g, T \cup Rest) = SumFunctionOnSet(g, T) + SumFunctionOnSet(g, Rest)
    BY <1>1, <2>1, SumUnion
  <2>3. QED
    BY <1>1, <2>2
<1>3. SumFunctionOnSet(g, Rest) = 0
  BY <1>1, SumZeros
<1>4. SumFunctionOnSet(f, T) = SumFunctionOnSet(g, T)
  BY <1>1, SumEqual
<1>5. SumFunctionOnSet(f, T) \in Int
  BY <1>1, SumType
<1>6. QED
  BY <1>2, <1>3, <1>4, <1>5

LEMMA SumReindex ==
    ASSUME NEW S, IsFiniteSet(S), NEW f, \A x \in S : f[x] \in Int,
           NEW h, \A x, y \in S : h[x] = h[y] => x = y,
           NEW g, \A x \in S : g[h[x]] = f[x],
           NEW Names, \A x \in S : h[x] \in Names, \A y \in Names : \E x \in S : y = h[x]
    PROVE  IsFiniteSet(Names) /\ SumFunctionOnSet(g, Names) = SumFunctionOnSet(f, S)
<1> DEFINE Image(T) == {h[x] : x \in T}
           Good == {T \in SUBSET S : /\ IsFiniteSet(Image(T))
                                     /\ SumFunctionOnSet(g, Image(T)) = SumFunctionOnSet(f, T)}
<1>1. ASSUME NEW T \in SUBSET S, \A U \in SUBSET T : U # T => U \in Good
      PROVE  T \in Good
  <2>1. CASE T = {}
    <3>1. Image(T) = {}
      BY <2>1
    <3>2. QED
      BY <2>1, <3>1, SumEmpty, FS_EmptySet
  <2>2. CASE T # {}
    <3>1. PICK e \in T : TRUE
      BY <2>2
    <3> DEFINE U == T \ {e}
    <3>2. IsFiniteSet(T) /\ U \in SUBSET T /\ U # T /\ e \in S
      BY <3>1, FS_Subset
    <3>3. IsFiniteSet(Image(U)) /\ SumFunctionOnSet(g, Image(U)) = SumFunctionOnSet(f, U)
      BY <1>1, <3>2
    <3>4. Image(T) = Image(U) \cup {h[e]} /\ h[e] \notin Image(U)
      BY <3>1
    <3>5. (\A y \in Image(U) : g[y] \in Int) /\ g[h[e]] = f[e] /\ f[e] \in Int
      BY <3>2
    <3>6. SumFunctionOnSet(f, T) = f[e] + SumFunctionOnSet(f, T \ {e})
      BY <3>1, <3>2, SumRemove
    <3>7. SumFunctionOnSet(f, U) \in Int
      <4>1. IsFiniteSet(U) /\ \A x \in U : f[x] \in Int
        BY <3>2, FS_Subset
      <4> HIDE DEF U
      <4>2. QED
        BY <4>1, SumType
    <3>8. SumFunctionOnSet(g, Image(U) \cup {h[e]}) = SumFunctionOnSet(g, Image(U)) + g[h[e]]
      <4> DEFINE V == Image(U)
      <4>1. IsFiniteSet(V) /\ h[e] \notin V /\ \A y \in V : g[y] \in Int
        BY <3>3, <3>4, <3>5
      <4> HIDE DEF V
      <4>2. SumFunctionOnSet(g, V \cup {h[e]}) = SumFunctionOnSet(g, V) + g[h[e]]
        BY <3>5, <4>1, SumAdd
      <4>3. QED
        BY <4>2 DEF V
    <3>9. IsFiniteSet(Image(T))
      <4> DEFINE V == Image(U)
      <4>1. IsFiniteSet(V)
        BY <3>3
      <4> HIDE DEF V
      <4>2. IsFiniteSet(V \cup {h[e]})
        BY <4>1, FS_AddElement
      <4>3. QED
        BY <3>4, <4>2 DEF V
    <3>10. SumFunctionOnSet(g, Image(T)) = SumFunctionOnSet(f, T)
      <4> DEFINE a == SumFunctionOnSet(g, Image(T))
                 b == SumFunctionOnSet(f, T)
                 d == SumFunctionOnSet(f, U)
      <4>1. a = d + f[e]
        BY <3>3, <3>4, <3>5, <3>8
      <4>2. b = f[e] + d
        BY <3>6
      <4>3. d \in Int /\ f[e] \in Int
        BY <3>5, <3>7
      <4> HIDE DEF a, b, d
      <4>4. a = b
        BY <4>1, <4>2, <4>3
      <4>5. QED
        BY <4>4 DEF a, b
    <3>11. QED
      BY <3>9, <3>10
  <2>3. QED
    BY <2>1, <2>2
<1> HIDE DEF Good
<1>2. S \in Good
  BY <1>1, SubsetInduction
<1>3. Image(S) = Names
  OBVIOUS
<1>4. QED
  BY <1>2, <1>3 DEF Good

-----------------------------------------------------------------------------
(* Maxima *)

LEMMA FiniteMaximum ==
    ASSUME NEW S, IsFiniteSet(S), S # {}, \A x \in S : x \in Int
    PROVE  \E m \in S : \A x \in S : x <= m
<1> DEFINE Good == {T \in SUBSET S : T # {} => \E m \in T : \A x \in T : x <= m}
<1>1. ASSUME NEW T \in SUBSET S, \A U \in SUBSET T : U # T => U \in Good
      PROVE  T \in Good
  <2>1. SUFFICES ASSUME T # {} PROVE \E m \in T : \A x \in T : x <= m
    OBVIOUS
  <2>2. PICK e \in T : TRUE
    BY <2>1
  <2>3. T \ {e} \in Good
    BY <1>1, <2>2
  <2>4. CASE T \ {e} = {}
    BY <2>2, <2>4
  <2>5. CASE T \ {e} # {}
    <3>1. PICK m \in T \ {e} : \A x \in T \ {e} : x <= m
      BY <2>3, <2>5
    <3>2. m \in Int /\ e \in Int /\ \A x \in T : x \in Int
      BY <2>2
    <3>3. CASE e <= m
      BY <2>2, <3>1, <3>2, <3>3
    <3>4. CASE m <= e
      BY <2>2, <3>1, <3>2, <3>4
    <3>5. QED
      BY <3>2, <3>3, <3>4
  <2>6. QED
    BY <2>4, <2>5
<1> HIDE DEF Good
<1>2. S \in Good
  BY <1>1, SubsetInduction
<1>3. QED
  BY <1>2 DEF Good

=============================================================================
