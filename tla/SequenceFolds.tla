--------------------------- MODULE SequenceFolds ---------------------------
(***************************************************************************)
(* What a fold of a sequence keeps: a property of the result so far, of    *)
(* how many elements it stands for, and of a context.  A module that folds *)
(* instantiates this one with the operation of its fold and the property,  *)
(* and the lemma becomes a fact about that fold.                           *)
(*                                                                         *)
(* FoldLeft is defined over sets of positions, by a function of its own    *)
(* subsets; that the function exists, and what it returns, is shown by     *)
(* induction over the positions, which here is the well-foundedness of <.  *)
(***************************************************************************)
EXTENDS SequencesExt, WellFoundedInduction, TLAPS

CONSTANTS
    op(_, _),      \* the operation: the result so far, and the next element
    Inv(_, _, _)   \* what is kept: the result of the first m elements, m, the context

Fold(base, s) == FoldLeft(op, base, s)

-----------------------------------------------------------------------------
(* Induction over the natural numbers, for a set.                          *)
LEMMA NatSetInduction ==
  ASSUME NEW T, 0 \in T, \A n \in Nat : n \in T => n + 1 \in T
  PROVE  \A n \in Nat : n \in T
<1> DEFINE R == OpToRel(<, Nat)
           B == Nat \ T
<1>1. IsWellFoundedOn(R, Nat)
  BY NatLessThanWellFounded
<1>2. R = {xy \in Nat \X Nat : xy[1] < xy[2]}
  BY DEF OpToRel
<1> HIDE DEF R
<1> SUFFICES ASSUME B # {} PROVE FALSE
  OBVIOUS
<1>3. PICK x \in B : \A y \in B : ~(<<y, x>> \in R)
  BY <1>1, WFMin
<1>4. x \in Nat /\ x \notin T
  BY <1>3
<1>4a. x # 0 /\ x - 1 \in Nat /\ x = (x-1) + 1
  BY <1>4
<1>5. x - 1 \in B
  BY <1>4, <1>4a
<1>6. <<x-1, x>> \in R
  BY <1>2, <1>4, <1>4a
<1> QED  BY <1>3, <1>5, <1>6

-----------------------------------------------------------------------------
(* The equation of the function that folds the positions up to m.          *)
Folds(g, base, s, m) ==
  g = [t \in SUBSET (1..m) |-> IF t = {} THEN base ELSE op(g[t \ {Max(t)}], s[Max(t)])]

(* The largest of the positions up to m + 1, and what is left without it.  *)
LEMMA MaxIsLast ==
  ASSUME NEW m \in Nat, NEW t \in SUBSET (1..m+1)
  PROVE  /\ m + 1 \in t => Max(t) = m + 1 /\ t \ {Max(t)} \in SUBSET (1..m)
         /\ m + 1 \notin t => t \in SUBSET (1..m)
<1>1. CASE m + 1 \in t
  <2>1. m + 1 \in t /\ \A y \in t : m + 1 >= y
    BY <1>1
  <2>2. Max(t) \in t /\ \A y \in t : Max(t) >= y
    BY <2>1 DEF Max
  <2>3. Max(t) \in 1..m+1 /\ Max(t) >= m + 1
    BY <2>1, <2>2
  <2>4. Max(t) = m + 1
    BY <2>3
  <2> QED  BY <1>1, <2>4
<1>2. CASE m + 1 \notin t
  BY <1>2
<1> QED  BY <1>1, <1>2

(* A nonempty set of positions has a largest one.                          *)
LEMMA MaxIn ==
  ASSUME NEW m \in Nat, NEW t \in SUBSET (1..m), t # {}
  PROVE  Max(t) \in t
<1> DEFINE T == {k \in Nat : k <= m => \A u \in SUBSET (1..k) : u # {} => Max(u) \in u}
<1>1. 0 \in T
  <2>1. SUBSET (1..0) = {{}}
    OBVIOUS
  <2> QED  BY <2>1
<1>2. ASSUME NEW k \in Nat, k \in T PROVE k + 1 \in T
  BY <1>2, MaxIsLast
<1> HIDE DEF T
<1>3. m \in T
  BY <1>1, <1>2, NatSetInduction
<1> QED  BY <1>3 DEF T

(* Such a function exists, for any number of positions ...                 *)
LEMMA FoldExists ==
  ASSUME NEW base, NEW s, NEW n \in Nat
  PROVE  \E g : Folds(g, base, s, n)
<1> DEFINE T == {m \in Nat : \E g : Folds(g, base, s, m)}
<1>1. 0 \in T
  <2>1. Folds([t \in SUBSET (1..0) |-> base], base, s, 0)
    BY DEF Folds
  <2> QED  BY <2>1
<1>2. ASSUME NEW m \in Nat, m \in T PROVE m + 1 \in T
  <2>1. PICK g : Folds(g, base, s, m)
    BY <1>2
  <2> DEFINE h == [t \in SUBSET (1..m+1) |-> IF m + 1 \in t THEN op(g[t \ {m+1}], s[m+1]) ELSE g[t]]
  <2>2. ASSUME NEW t \in SUBSET (1..m+1)
        PROVE  h[t] = IF t = {} THEN base ELSE op(h[t \ {Max(t)}], s[Max(t)])
    <3>1. CASE m + 1 \in t
      BY <3>1, MaxIsLast
    <3>2. CASE m + 1 \notin t
      <4>1. t \in SUBSET (1..m) /\ h[t] = g[t]
        BY <3>2
      <4>2. t # {} => Max(t) \in t
        BY <4>1, MaxIn
      <4>3. h[t \ {Max(t)}] = g[t \ {Max(t)}]
        BY <4>1, <3>2
      <4>4. g[t] = IF t = {} THEN base ELSE op(g[t \ {Max(t)}], s[Max(t)])
        BY <2>1, <4>1 DEF Folds
      <4> QED  BY <4>1, <4>3, <4>4
    <3> QED  BY <3>1, <3>2
  <2>3. Folds(h, base, s, m + 1)
    BY <2>2 DEF Folds
  <2> QED  BY <2>3
<1> HIDE DEF T
<1>3. n \in T
  BY <1>1, <1>2, NatSetInduction
<1> QED  BY <1>3 DEF T

(* ... so that it is the one FoldLeft uses.                                *)
LEMMA FoldFound ==
  ASSUME NEW base, NEW s, NEW n \in Nat, DOMAIN s = 1..n
  PROVE  \E g : Folds(g, base, s, n) /\ Fold(base, s) = g[1..n]
<1> DEFINE g == CHOOSE g : Folds(g, base, s, n)
<1>1. Folds(g, base, s, n)
  BY FoldExists
<1>2. Fold(base, s) = g[1..n]
  BY Zenon DEF Fold, FoldLeft, MapThenFoldSet, Folds
<1> QED  BY <1>1, <1>2

(* What holds of the base, and is kept by the operation for each element,  *)
(* holds of the fold of the whole sequence: the loops over sequences in    *)
(* the code, which are folds in the model.                                 *)
LEMMA FoldInvariant ==
  ASSUME NEW c, NEW base, NEW s, NEW n \in Nat, DOMAIN s = 1..n,
         Inv(base, 0, c),
         \A m \in 0..n-1 : \A v : Inv(v, m, c) => Inv(op(v, s[m+1]), m+1, c)
  PROVE  Inv(Fold(base, s), n, c)
<1>1. PICK g : Folds(g, base, s, n) /\ Fold(base, s) = g[1..n]
  BY FoldFound
<1> DEFINE T == {m \in Nat : m <= n => Inv(g[1..m], m, c)}
<1>2. 0 \in T
  <2>1. g[1..0] = base
    BY <1>1 DEF Folds
  <2> QED  BY <2>1
<1>3. ASSUME NEW m \in Nat, m \in T PROVE m + 1 \in T
  <2> SUFFICES ASSUME m + 1 <= n PROVE Inv(g[1..m+1], m+1, c)
    OBVIOUS
  <2>1. Max(1..m+1) = m + 1 /\ (1..m+1) \ {m+1} = 1..m
    BY MaxIsLast
  <2>2. (1..m+1) \in SUBSET (1..n) /\ (1..m+1) # {}
    <3>1. m + 1 \in 1..m+1
      OBVIOUS
    <3>2. \A k \in 1..m+1 : k \in 1..n
      OBVIOUS
    <3> QED  BY <3>1, <3>2
  <2>3. g[1..m+1] = op(g[(1..m+1) \ {Max(1..m+1)}], s[Max(1..m+1)])
    BY <1>1, <2>2 DEF Folds
  <2>4. g[1..m+1] = op(g[1..m], s[m+1])
    BY <2>1, <2>3
  <2> QED  BY <1>3, <2>4
<1> HIDE DEF T
<1>4. n \in T
  BY <1>2, <1>3, NatSetInduction
<1> QED  BY <1>1, <1>4 DEF T

=============================================================================
