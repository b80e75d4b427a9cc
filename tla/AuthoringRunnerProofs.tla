------------------------ MODULE AuthoringRunnerProofs ------------------------
(***************************************************************************)
(* What becomes of questions.  WInv is an invariant of Authoring, for any  *)
(* limits on options and points, any weights and any bands, and so the     *)
(* form and the API agree on every question, and every score and every     *)
(* layout is fair.  RInv is an invariant of Runner, which shows them, for  *)
(* any number of questions, options, runs and edits.                       *)
(***************************************************************************)
EXTENDS AuthoringInv, RunnerInv, FiniteSetTheorems, SequenceTheorems,
        WellFoundedInduction, TLAPS

-----------------------------------------------------------------------------
(* Induction over data.  A property of all subsets of a finite set holds if *)
(* there is no smallest one without it, and so a fold over a finite set is  *)
(* what its equation says.                                                  *)

LEMMA SmallestSubset ==
    ASSUME NEW S, IsFiniteSet(S), NEW Bad \in SUBSET (SUBSET S), Bad # {}
    PROVE  \E U \in Bad : \A V \in Bad : V \subseteq U => V = U
<1>1. Bad \subseteq FiniteSubsetsOf(S)
  BY FS_Subset DEF FiniteSubsetsOf
<1>2. PICK U \in Bad : \A V \in Bad : <<V, U>> \notin StrictSubsetOrdering(S)
  BY <1>1, FS_StrictSubsetOrderingWellFounded, WFMin
<1>3. ASSUME NEW V \in Bad, V \subseteq U PROVE V = U
  BY <1>2, <1>3 DEF StrictSubsetOrdering
<1> QED BY <1>3

\* g folds, for every subset of S, what step makes of the member that pick
\* takes first and of the fold of the others.
IsFold(g, S, pick, step, base, Values_) ==
    /\ g \in [SUBSET S -> Values_]
    /\ g[{}] = base
    /\ \A T \in SUBSET S : T # {} => g[T] = step[<<pick[T], g[T \ {pick[T]}]>>]

LEMMA FoldUnique ==
    ASSUME NEW S, NEW R, IsFiniteSet(S), NEW pick, NEW step, NEW base, NEW Typ,
           \A T \in SUBSET S : T # {} => pick[T] \in T,
           NEW g, IsFold(g, S, pick, step, base, Typ),
           NEW h, IsFold(h, R, pick, step, base, Typ)
    PROVE  \A T \in SUBSET (S \cap R) : g[T] = h[T]
<1> DEFINE Bad == {T \in SUBSET (S \cap R) : g[T] # h[T]}
<1>1. ASSUME Bad # {} PROVE FALSE
  <2>1. Bad \in SUBSET (SUBSET S)
    OBVIOUS
  <2>2. PICK U \in Bad : \A V \in Bad : V \subseteq U => V = U
    <3> HIDE DEF Bad
    <3> QED BY <1>1, <2>1, SmallestSubset
  <2>3. U \in SUBSET S /\ U \in SUBSET R /\ U # {} /\ pick[U] \in U
    BY DEF IsFold
  <2> DEFINE V == U \ {pick[U]}
  <2>4. g[V] = h[V]
    BY <2>2, <2>3
  <2>5. g[U] = step[<<pick[U], g[V]>>] /\ h[U] = step[<<pick[U], h[V]>>]
    BY <2>3 DEF IsFold
  <2> QED BY <2>4, <2>5
<1> QED BY <1>1

LEMMA FoldExists ==
    ASSUME NEW S, IsFiniteSet(S), NEW pick, NEW Typ, NEW base \in Typ,
           NEW step \in [S \X Typ -> Typ],
           \A T \in SUBSET S : T # {} => pick[T] \in T
    PROVE  \E g : IsFold(g, S, pick, step, base, Typ)
<1> DEFINE Folds_(g, T) == IsFold(g, T, pick, step, base, Typ)
           Bad == {T \in SUBSET S : ~\E g : Folds_(g, T)}
<1>1. ASSUME Bad # {} PROVE FALSE
  <2>1. PICK U \in Bad : \A V \in Bad : V \subseteq U => V = U
    <3>1. Bad \in SUBSET (SUBSET S)
      OBVIOUS
    <3> HIDE DEF Bad
    <3> QED BY <1>1, <3>1, SmallestSubset
  <2> DEFINE part == [T \in SUBSET U |-> CHOOSE g : Folds_(g, T)]
             rest(T) == T \ {pick[T]}
             g == [T \in SUBSET U |->
                      IF T = {} THEN base ELSE step[<<pick[T], part[rest(T)][rest(T)]>>]]
  <2>2. U \in SUBSET S /\ ~\E f : Folds_(f, U)
    OBVIOUS
  <2>3. ASSUME NEW T \in SUBSET U, T # U PROVE Folds_(part[T], T)
    <3>1. T \in SUBSET S /\ T \notin Bad
      BY <2>1, <2>2, <2>3
    <3>2. \E f : Folds_(f, T)
      BY <3>1
    <3> HIDE DEF Folds_
    <3> QED BY <3>2
  <2>4. ASSUME NEW T \in SUBSET U, T # {}
        PROVE  /\ rest(T) \in SUBSET U /\ rest(T) # U
               /\ pick[T] \in T /\ pick[T] \in S
               /\ part[rest(T)][rest(T)] \in Typ
    <3>1. rest(T) \in SUBSET U /\ pick[T] \in T /\ pick[T] \in S
      BY <2>2, <2>4
    <3>2. rest(T) # U
      BY <3>1
    <3> HIDE DEF part, rest
    <3>3. IsFold(part[rest(T)], rest(T), pick, step, base, Typ)
      BY <3>1, <3>2, <2>3
    <3> QED BY <3>1, <3>2, <3>3 DEF IsFold
  <2>5. g \in [SUBSET U -> Typ]
    <3>1. ASSUME NEW T \in SUBSET U PROVE g[T] \in Typ
      <4>1. CASE T = {}
        BY <4>1
      <4>2. CASE T # {}
        <5> HIDE DEF part, rest
        <5>1. <<pick[T], part[rest(T)][rest(T)]>> \in S \X Typ
          BY <2>4, <4>2
        <5> QED BY <5>1, <4>2
      <4> QED BY <4>1, <4>2
    <3> QED BY <3>1
  <2>6. ASSUME NEW T \in SUBSET U, T # U PROVE g[T] = part[T][T]
    <3>0. IsFold(part[T], T, pick, step, base, Typ)
      BY <2>3, <2>6
    <3>1. CASE T = {}
      <4> HIDE DEF part
      <4> QED BY <3>0, <3>1 DEF IsFold
    <3>2. CASE T # {}
      <4> DEFINE V == rest(T)
      <4>1. V \in SUBSET T /\ V \in SUBSET U /\ V # U /\ IsFiniteSet(V) /\ V \in SUBSET S
        BY <2>2, <2>4, <3>2, FS_Subset
      <4>2. IsFold(part[V], V, pick, step, base, Typ)
        BY <4>1, <2>3
      <4>3. part[T][V] = part[V][V]
        <5>1. \A W \in SUBSET V : W # {} => pick[W] \in W
          BY <4>1
        <5>2. V \in SUBSET (V \cap T)
          BY <4>1
        <5> HIDE DEF part, V
        <5> QED BY <3>0, <4>1, <4>2, <5>1, <5>2, FoldUnique
      <4>4. part[T][T] = step[<<pick[T], part[T][V]>>]
        BY <3>0, <3>2 DEF IsFold
      <4> QED BY <3>2, <4>3, <4>4
    <3> QED BY <3>1, <3>2
  <2>7. ASSUME NEW T \in SUBSET U, T # {} PROVE g[T] = step[<<pick[T], g[rest(T)]>>]
    <3>1. g[rest(T)] = part[rest(T)][rest(T)]
      <4> HIDE DEF g, part, rest
      <4> QED BY <2>4, <2>6, <2>7
    <3> QED BY <2>7, <3>1
  <2>8. g[{}] = base
    OBVIOUS
  <2>9. Folds_(g, U)
    <3> HIDE DEF g
    <3> QED BY <2>5, <2>7, <2>8 DEF IsFold
  <2> QED BY <2>2, <2>9
<1>2. S \notin Bad
  BY <1>1
<1> QED BY <1>2

LEMMA MulMono ==
    ASSUME NEW a \in Nat, NEW b \in Nat, NEW k \in Nat, a <= b
    PROVE  a * k <= b * k
BY Z3

LEMMA MulCancel ==
    ASSUME NEW a \in Nat, NEW b \in Nat, NEW k \in Nat \ {0}, a * k <= b * k
    PROVE  a <= b
<1>1. CASE b + 1 <= a
  <2>1. (b + 1) * k <= a * k
    BY <1>1, MulMono
  <2>2. (b + 1) * k = b * k + k
    OBVIOUS
  <2>3. b * k \in Nat /\ a * k \in Nat
    OBVIOUS
  <2> HIDE <1>1
  <2> QED BY <2>1, <2>2, <2>3
<1> QED BY <1>1

LEMMA MulType == \A a, b \in Nat : a * b \in Nat
OBVIOUS

LEMMA MulComm == \A a, b, c \in Nat : a * b = b * a /\ (a * b) * c = (a * c) * b /\ (a * b) * c = a * (b * c)
OBVIOUS

Frac == Nat \X (Nat \ {0})

LEMMA FracParts == \A a \in Frac : a = <<a[1], a[2]>> /\ a[1] \in Nat /\ a[2] \in Nat \ {0}
BY DEF Frac

LEMMA AtMostTrans ==
    ASSUME NEW a \in Frac, NEW b \in Frac, NEW c \in Frac, AtMost(a, b), AtMost(b, c)
    PROVE  AtMost(a, c)
<1> DEFINE a1 == a[1] a2 == a[2] b1 == b[1] b2 == b[2] c1 == c[1] c2 == c[2]
<1>1. a1 \in Nat /\ a2 \in Nat \ {0} /\ b1 \in Nat /\ b2 \in Nat \ {0} /\ c1 \in Nat /\ c2 \in Nat \ {0}
  BY FracParts
<1>2. a1 * b2 <= b1 * a2 /\ b1 * c2 <= c1 * b2
  BY DEF AtMost
<1> HIDE DEF a1, a2, b1, b2, c1, c2
<1>3. (a1 * b2) * c2 <= (b1 * a2) * c2
  BY <1>1, <1>2, MulMono, MulType
<1>4. (b1 * c2) * a2 <= (c1 * b2) * a2
  BY <1>1, <1>2, MulMono, MulType
<1>5. (a1 * c2) * b2 <= (c1 * a2) * b2
  <2>1. (a1 * b2) * c2 = (a1 * c2) * b2 /\ (b1 * a2) * c2 = (b1 * c2) * a2 /\ (c1 * b2) * a2 = (c1 * a2) * b2
    BY <1>1, MulComm
  <2>2. (a1 * c2) * b2 \in Nat /\ (c1 * a2) * b2 \in Nat /\ (b1 * c2) * a2 \in Nat
    BY <1>1, MulType
  <2> QED BY <1>3, <1>4, <2>1, <2>2
<1>6. a1 * c2 <= c1 * a2
  BY <1>1, <1>5, MulCancel, MulType
<1> QED BY <1>6 DEF AtMost, a1, a2, b1, b2, c1, c2

LEMMA AtMostTotal ==
    \A a, b \in Frac : AtMost(a, b) \/ AtMost(b, a)
<1> TAKE a, b \in Frac
<1>1. a[1] * b[2] \in Nat /\ b[1] * a[2] \in Nat
  BY FracParts, MulType
<1> QED BY <1>1 DEF AtMost

LEMMA PlusType ==
    \A a, b \in Frac : Plus(a, b) \in Frac /\ Plus(a, b)[1] = a[1] * b[2] + b[1] * a[2] /\ Plus(a, b)[2] = a[2] * b[2]
<1> TAKE a, b \in Frac
<1>1. a[1] * b[2] \in Nat /\ b[1] * a[2] \in Nat /\ a[2] * b[2] \in Nat \ {0}
  BY FracParts
<1> QED BY <1>1 DEF Plus, Frac

LEMMA PlusMono ==
    ASSUME NEW a \in Frac, NEW b \in Frac, NEW c \in Frac, NEW d \in Frac, AtMost(a, b), AtMost(c, d)
    PROVE  AtMost(Plus(a, c), Plus(b, d))
<1> DEFINE a1 == a[1] a2 == a[2] b1 == b[1] b2 == b[2] c1 == c[1] c2 == c[2] d1 == d[1] d2 == d[2]
<1>1. a1 \in Nat /\ a2 \in Nat \ {0} /\ b1 \in Nat /\ b2 \in Nat \ {0} /\ c1 \in Nat /\ c2 \in Nat \ {0} /\ d1 \in Nat /\ d2 \in Nat \ {0}
  BY FracParts
<1>2. a1 * b2 <= b1 * a2 /\ c1 * d2 <= d1 * c2
  BY DEF AtMost
<1>0. /\ Plus(a, c)[1] = a1 * c2 + c1 * a2 /\ Plus(b, d)[2] = b2 * d2
      /\ Plus(b, d)[1] = b1 * d2 + d1 * b2 /\ Plus(a, c)[2] = a2 * c2
  BY PlusType
<1> HIDE DEF a1, a2, b1, b2, c1, c2, d1, d2
<1>3. (a1 * b2) * (c2 * d2) <= (b1 * a2) * (c2 * d2)
  BY <1>1, <1>2, MulMono, MulType
<1>4. (c1 * d2) * (a2 * b2) <= (d1 * c2) * (a2 * b2)
  BY <1>1, <1>2, MulMono, MulType
<1>5. (a1 * c2 + c1 * a2) * (b2 * d2) <= (b1 * d2 + d1 * b2) * (a2 * c2)
  <2>1. (a1 * c2 + c1 * a2) * (b2 * d2) = (a1 * b2) * (c2 * d2) + (c1 * d2) * (a2 * b2)
    BY <1>1
  <2>2. (b1 * d2 + d1 * b2) * (a2 * c2) = (b1 * a2) * (c2 * d2) + (d1 * c2) * (a2 * b2)
    BY <1>1
  <2>3. /\ (a1 * b2) * (c2 * d2) \in Nat /\ (c1 * d2) * (a2 * b2) \in Nat
        /\ (b1 * a2) * (c2 * d2) \in Nat /\ (d1 * c2) * (a2 * b2) \in Nat
    BY <1>1, MulType
  <2> QED BY <1>3, <1>4, <2>1, <2>2, <2>3
<1> QED BY <1>0, <1>5 DEF AtMost

LEMMA PlusSwap ==
    ASSUME NEW a \in Frac, NEW b \in Frac, NEW c \in Frac
    PROVE  Plus(a, Plus(b, c)) = Plus(b, Plus(a, c))
<1> DEFINE a1 == a[1] a2 == a[2] b1 == b[1] b2 == b[2] c1 == c[1] c2 == c[2]
<1>1. a1 \in Nat /\ a2 \in Nat \ {0} /\ b1 \in Nat /\ b2 \in Nat \ {0} /\ c1 \in Nat /\ c2 \in Nat \ {0}
  BY FracParts
<1>2. /\ Plus(a, Plus(b, c)) = <<a1 * (b2 * c2) + (b1 * c2 + c1 * b2) * a2, a2 * (b2 * c2)>>
      /\ Plus(b, Plus(a, c)) = <<b1 * (a2 * c2) + (a1 * c2 + c1 * a2) * b2, b2 * (a2 * c2)>>
  BY DEF Plus
<1> HIDE DEF a1, a2, b1, b2, c1, c2
<1>3. a1 * (b2 * c2) + (b1 * c2 + c1 * b2) * a2 = b1 * (a2 * c2) + (a1 * c2 + c1 * a2) * b2
  BY <1>1
<1>4. a2 * (b2 * c2) = b2 * (a2 * c2)
  BY <1>1
<1> QED BY <1>2, <1>3, <1>4

-----------------------------------------------------------------------------

Fractions(f) == f = [x \in DOMAIN f |-> f[x]] /\ IsFiniteSet(DOMAIN f) /\ \A x \in DOMAIN f : f[x] \in Frac

Part(f, S) == [x \in S |-> f[x]]

\* g sums f over every part of its domain, whichever term is taken first.
Sums(g, f) ==
    /\ g \in [SUBSET DOMAIN f -> Frac]
    /\ g[{}] = Zero
    /\ \A T \in SUBSET DOMAIN f : \A x \in T : g[T] = Plus(f[x], g[T \ {x}])

LEMMA TotalSums ==
    ASSUME NEW f, Fractions(f)
    PROVE  \E g : Sums(g, f) /\ Total(f) = g[DOMAIN f]
<1> DEFINE D == DOMAIN f
           pick == [T \in SUBSET D |-> CHOOSE x \in T : TRUE]
           step == [p \in D \X Frac |-> Plus(f[p[1]], p[2])]
           iter == CHOOSE iter : iter = [s \in SUBSET D |->
                       IF s = {} THEN Zero
                       ELSE Plus(f[CHOOSE x \in s : TRUE], iter[s \ {CHOOSE x \in s : TRUE}])]
<1>1. Total(f) = iter[D]
  BY DEF Total, FoldSet, MapThenFoldSet
<1>2. PICK g : IsFold(g, D, pick, step, Zero, Frac)
  <2>1. Zero \in Frac
    BY DEF Zero, Frac
  <2>2. step \in [D \X Frac -> Frac]
    <3>1. ASSUME NEW p \in D \X Frac PROVE Plus(f[p[1]], p[2]) \in Frac
      BY PlusType DEF Fractions
    <3> QED BY <3>1
  <2>3. \A T \in SUBSET D : T # {} => pick[T] \in T
    OBVIOUS
  <2> HIDE DEF pick, step
  <2> QED BY <2>1, <2>2, <2>3, FoldExists DEF Fractions
<1>3. /\ g \in [SUBSET D -> Frac] /\ g[{}] = Zero
      /\ \A T \in SUBSET D : T # {} => g[T] = Plus(f[pick[T]], g[T \ {pick[T]}]) /\ pick[T] \in T
  <2>1. ASSUME NEW T \in SUBSET D, T # {} PROVE g[T] = Plus(f[pick[T]], g[T \ {pick[T]}]) /\ pick[T] \in T
    <3>1. pick[T] \in T
      BY <2>1
    <3> HIDE DEF pick
    <3>2. g[T] = step[<<pick[T], g[T \ {pick[T]}]>>] /\ <<pick[T], g[T \ {pick[T]}]>> \in D \X Frac
      BY <1>2, <2>1, <3>1 DEF IsFold
    <3> QED BY <3>1, <3>2
  <2> QED BY <1>2, <2>1 DEF IsFold
<1>4. iter = g
  <2>1. g = [s \in SUBSET D |->
                       IF s = {} THEN Zero
                       ELSE Plus(f[CHOOSE x \in s : TRUE], g[s \ {CHOOSE x \in s : TRUE}])]
    BY <1>3
  <2>2. iter = [s \in SUBSET D |->
                       IF s = {} THEN Zero
                       ELSE Plus(f[CHOOSE x \in s : TRUE], iter[s \ {CHOOSE x \in s : TRUE}])]
    BY <2>1
  <2>3. \A T \in SUBSET D : T # {} => iter[T] = Plus(f[pick[T]], iter[T \ {pick[T]}])
    <3> HIDE DEF iter
    <3> QED BY <2>2
  <2>4. iter[{}] = Zero /\ iter = [s \in SUBSET D |-> iter[s]]
    <3> HIDE DEF iter
    <3> QED BY <2>2
  <2> HIDE DEF iter, pick
  <2> DEFINE Bad == {T \in SUBSET D : iter[T] # g[T]}
  <2>5. ASSUME Bad # {} PROVE FALSE
    <3>1. Bad \in SUBSET (SUBSET D)
      OBVIOUS
    <3>2. PICK U \in Bad : \A V \in Bad : V \subseteq U => V = U
      <4> HIDE DEF Bad
      <4> QED BY <2>5, <3>1, SmallestSubset DEF Fractions
    <3>3. U # {} /\ pick[U] \in U
      BY <1>3, <2>4
    <3>4. iter[U \ {pick[U]}] = g[U \ {pick[U]}]
      BY <3>2, <3>3
    <3> QED BY <1>3, <2>3, <3>3, <3>4
  <2>6. \A T \in SUBSET D : iter[T] = g[T]
    BY <2>5
  <2> QED BY <1>3, <2>4, <2>6
<1> HIDE DEF iter, pick, step
<1>5. \A T \in SUBSET D : \A x \in T : g[T] = Plus(f[x], g[T \ {x}])
  <2> DEFINE Bad == {T \in SUBSET D : \E x \in T : g[T] # Plus(f[x], g[T \ {x}])}
  <2>1. ASSUME Bad # {} PROVE FALSE
    <3>1. Bad \in SUBSET (SUBSET D)
      OBVIOUS
    <3>2. PICK U \in Bad : \A V \in Bad : V \subseteq U => V = U
      <4> HIDE DEF Bad
      <4> QED BY <2>1, <3>1, SmallestSubset DEF Fractions
    <3>3. PICK x \in U : g[U] # Plus(f[x], g[U \ {x}])
      OBVIOUS
    <3>4. PICK p : p = pick[U]
      OBVIOUS
    <3>5. p \in U /\ g[U] = Plus(f[p], g[U \ {p}]) /\ p # x
      BY <1>3, <3>3, <3>4
    <3> DEFINE W == U \ {p, x}
    <3>6. g[U \ {p}] = Plus(f[x], g[W])
      <4>1. U \ {p} \notin Bad
        BY <3>2, <3>5
      <4>2. W = (U \ {p}) \ {x}
        OBVIOUS
      <4> QED BY <3>3, <3>5, <4>1, <4>2
    <3>7. g[U \ {x}] = Plus(f[p], g[W])
      <4>1. U \ {x} \notin Bad
        BY <3>2, <3>3
      <4>2. W = (U \ {x}) \ {p}
        OBVIOUS
      <4> QED BY <3>3, <3>5, <4>1, <4>2
    <3>8. f[x] \in Frac /\ f[p] \in Frac /\ g[W] \in Frac
      BY <1>3, <3>5 DEF Fractions
    <3> QED BY <3>3, <3>5, <3>6, <3>7, <3>8, PlusSwap
  <2> QED BY <2>1
<1> QED BY <1>1, <1>3, <1>4, <1>5 DEF Sums

LEMMA SumsAgree ==
    ASSUME NEW f, Fractions(f), NEW g, Sums(g, f), NEW h, Fractions(h), NEW k, Sums(k, h),
           NEW S \in SUBSET (DOMAIN f \cap DOMAIN h), \A x \in S : f[x] = h[x]
    PROVE  g[S] = k[S]
<1> DEFINE Bad == {T \in SUBSET S : g[T] # k[T]}
<1>1. ASSUME Bad # {} PROVE FALSE
  <2>1. Bad \in SUBSET (SUBSET S) /\ IsFiniteSet(S)
    BY FS_Subset DEF Fractions
  <2>2. PICK U \in Bad : \A V \in Bad : V \subseteq U => V = U
    <3> HIDE DEF Bad
    <3> QED BY <1>1, <2>1, SmallestSubset
  <2>3. U # {} /\ U \in SUBSET DOMAIN f /\ U \in SUBSET DOMAIN h
    BY DEF Sums
  <2>4. PICK x \in U : TRUE
    BY <2>3
  <2>5. g[U] = Plus(f[x], g[U \ {x}]) /\ k[U] = Plus(h[x], k[U \ {x}])
    BY <2>3, <2>4 DEF Sums
  <2>6. U \ {x} \notin Bad
    BY <2>2, <2>4
  <2> QED BY <2>4, <2>5, <2>6
<1> QED BY <1>1

LEMMA SumsMono ==
    ASSUME NEW f, Fractions(f), NEW g, Sums(g, f), NEW h, Fractions(h), NEW k, Sums(k, h),
           NEW S \in SUBSET (DOMAIN f \cap DOMAIN h), \A x \in S : AtMost(f[x], h[x])
    PROVE  AtMost(g[S], k[S])
<1> DEFINE Bad == {T \in SUBSET S : ~AtMost(g[T], k[T])}
<1>1. ASSUME Bad # {} PROVE FALSE
  <2>1. Bad \in SUBSET (SUBSET S) /\ IsFiniteSet(S)
    BY FS_Subset DEF Fractions
  <2>2. PICK U \in Bad : \A V \in Bad : V \subseteq U => V = U
    <3> HIDE DEF Bad
    <3> QED BY <1>1, <2>1, SmallestSubset
  <2>3. U # {} /\ U \in SUBSET DOMAIN f /\ U \in SUBSET DOMAIN h
    <3>1. AtMost(Zero, Zero)
      BY DEF AtMost, Zero
    <3> QED BY <3>1 DEF Sums
  <2>4. PICK x \in U : TRUE
    BY <2>3
  <2>5. g[U] = Plus(f[x], g[U \ {x}]) /\ k[U] = Plus(h[x], k[U \ {x}])
    BY <2>3, <2>4 DEF Sums
  <2>6. AtMost(g[U \ {x}], k[U \ {x}]) /\ AtMost(f[x], h[x]) /\ ~AtMost(g[U], k[U])
    BY <2>2, <2>4
  <2>7. f[x] \in Frac /\ h[x] \in Frac /\ g[U \ {x}] \in Frac /\ k[U \ {x}] \in Frac
    BY <2>3, <2>4 DEF Fractions, Sums
  <2> QED BY <2>5, <2>6, <2>7, PlusMono
<1> QED BY <1>1

LEMMA PartFractions ==
    ASSUME NEW f, Fractions(f), NEW S \in SUBSET DOMAIN f
    PROVE  Fractions(Part(f, S)) /\ DOMAIN Part(f, S) = S /\ \A x \in S : Part(f, S)[x] = f[x]
BY FS_Subset DEF Fractions, Part

\* What the proofs below use of Total.
LEMMA TotalType ==
    ASSUME NEW f, Fractions(f)
    PROVE  Total(f) \in Frac
<1>1. PICK g : Sums(g, f) /\ Total(f) = g[DOMAIN f]
  BY TotalSums
<1> QED BY <1>1 DEF Sums

LEMMA TotalStep ==
    ASSUME NEW f, Fractions(f), NEW i \in DOMAIN f
    PROVE  Total(f) = Plus(f[i], Total(Part(f, DOMAIN f \ {i})))
<1> DEFINE h == Part(f, DOMAIN f \ {i})
<1>1. PICK g : Sums(g, f) /\ Total(f) = g[DOMAIN f]
  BY TotalSums
<1>2. Fractions(h) /\ DOMAIN h = DOMAIN f \ {i} /\ \A x \in DOMAIN h : h[x] = f[x]
  BY PartFractions
<1> HIDE DEF h
<1>3. PICK k : Sums(k, h) /\ Total(h) = k[DOMAIN h]
  BY <1>2, TotalSums
<1>4. g[DOMAIN f \ {i}] = k[DOMAIN h]
  <2>1. DOMAIN h \in SUBSET (DOMAIN h \cap DOMAIN f)
    BY <1>2
  <2> QED BY <1>1, <1>2, <1>3, <2>1, SumsAgree
<1>5. g[DOMAIN f] = Plus(f[i], g[DOMAIN f \ {i}])
  BY <1>1 DEF Sums
<1> QED BY <1>1, <1>3, <1>4, <1>5 DEF h

LEMMA TotalMono ==
    ASSUME NEW f, Fractions(f), NEW h, Fractions(h), DOMAIN f = DOMAIN h,
           \A x \in DOMAIN f : AtMost(f[x], h[x])
    PROVE  AtMost(Total(f), Total(h))
<1>1. PICK g : Sums(g, f) /\ Total(f) = g[DOMAIN f]
  BY TotalSums
<1>2. PICK k : Sums(k, h) /\ Total(h) = k[DOMAIN h]
  BY TotalSums
<1>3. DOMAIN f \in SUBSET (DOMAIN f \cap DOMAIN h)
  OBVIOUS
<1> QED BY <1>1, <1>2, <1>3, SumsMono

LEMMA TotalOnes ==
    ASSUME NEW f, Fractions(f), \A x \in DOMAIN f : f[x] = One
    PROVE  Total(f) = <<Cardinality(DOMAIN f), 1>>
<1>1. PICK g : Sums(g, f) /\ Total(f) = g[DOMAIN f]
  BY TotalSums
<1> DEFINE Bad == {T \in SUBSET DOMAIN f : g[T] # <<Cardinality(T), 1>>}
<1>2. ASSUME Bad # {} PROVE FALSE
  <2>1. Bad \in SUBSET (SUBSET DOMAIN f) /\ IsFiniteSet(DOMAIN f)
    BY DEF Fractions
  <2>2. PICK U \in Bad : \A V \in Bad : V \subseteq U => V = U
    <3> HIDE DEF Bad
    <3> QED BY <1>2, <2>1, SmallestSubset
  <2>3. U # {} /\ IsFiniteSet(U)
    BY <1>1, <2>1, FS_EmptySet, FS_Subset DEF Sums, Zero
  <2>4. PICK x \in U : TRUE
    BY <2>3
  <2>5. g[U] = Plus(One, g[U \ {x}])
    BY <1>1, <2>4 DEF Sums
  <2>6. g[U \ {x}] = <<Cardinality(U \ {x}), 1>>
    BY <2>2, <2>4
  <2>7. Cardinality(U \ {x}) = Cardinality(U) - 1 /\ Cardinality(U) \in Nat
    BY <2>3, <2>4, FS_RemoveElement, FS_CardinalityType
  <2>8. g[U] = <<Cardinality(U), 1>>
    <3>1. g[U] = <<1 * 1 + Cardinality(U \ {x}) * 1, 1 * 1>>
      BY <2>5, <2>6 DEF Plus, One
    <3> QED BY <2>7, <3>1
  <2> QED BY <2>2, <2>8
<1> QED BY <1>1, <1>2

LEMMA TotalZeros ==
    ASSUME NEW f, Fractions(f), \A x \in DOMAIN f : f[x][1] = 0
    PROVE  Total(f)[1] = 0
<1>1. PICK g : Sums(g, f) /\ Total(f) = g[DOMAIN f]
  BY TotalSums
<1> DEFINE Bad == {T \in SUBSET DOMAIN f : g[T][1] # 0}
<1>2. ASSUME Bad # {} PROVE FALSE
  <2>1. Bad \in SUBSET (SUBSET DOMAIN f) /\ IsFiniteSet(DOMAIN f)
    BY DEF Fractions
  <2>2. PICK U \in Bad : \A V \in Bad : V \subseteq U => V = U
    <3> HIDE DEF Bad
    <3> QED BY <1>2, <2>1, SmallestSubset
  <2>3. U # {}
    <3>1. g[{}] = Zero /\ Zero[1] = 0 /\ g[U][1] # 0
      BY <1>1, <2>2 DEF Sums, Zero
    <3> QED BY <3>1
  <2>4. PICK x \in U : TRUE
    BY <2>3
  <2>5. g[U] = Plus(f[x], g[U \ {x}]) /\ f[x] \in Frac /\ g[U \ {x}] \in Frac
    BY <1>1, <2>4 DEF Sums, Fractions
  <2>6. g[U \ {x}][1] = 0 /\ f[x][1] = 0
    BY <2>2, <2>4
  <2>7. g[U][1] = f[x][1] * g[U \ {x}][2] + g[U \ {x}][1] * f[x][2]
    BY <2>5, PlusType
  <2>8. g[U][1] = 0
    BY <2>5, <2>6, <2>7, FracParts
  <2> QED BY <2>8
<1> QED BY <1>1, <1>2

LEMMA TotalPositive ==
    ASSUME NEW f, Fractions(f), NEW i \in DOMAIN f, f[i][1] > 0
    PROVE  Total(f)[1] > 0
<1> DEFINE h == Part(f, DOMAIN f \ {i})
<1>1. Total(f) = Plus(f[i], Total(h))
  BY TotalStep
<1>2. f[i] \in Frac /\ Total(h) \in Frac
  BY PartFractions, TotalType DEF Fractions
<1> HIDE DEF h
<1>3. Total(f)[1] = f[i][1] * Total(h)[2] + Total(h)[1] * f[i][2]
  BY <1>1, <1>2, PlusType
<1>4. f[i][1] * Total(h)[2] > 0 /\ Total(h)[1] * f[i][2] \in Nat /\ f[i][1] * Total(h)[2] \in Nat
  BY <1>2, FracParts
<1> QED BY <1>3, <1>4

-----------------------------------------------------------------------------

LEMMA OverIs ==
    ASSUME NEW a \in Frac, NEW b \in Frac, b[1] > 0
    PROVE  /\ Over(a, b) \in Frac
           /\ Over(a, b)[1] = a[1] * b[2] /\ Over(a, b)[2] = a[2] * b[1]
<1>1. a[1] * b[2] \in Nat /\ a[2] * b[1] \in Nat \ {0}
  BY FracParts
<1> QED BY <1>1 DEF Over, Frac

LEMMA TimesIs ==
    ASSUME NEW a \in Frac, NEW b \in Frac
    PROVE  /\ Times(a, b) \in Frac
           /\ Times(a, b)[1] = a[1] * b[1] /\ Times(a, b)[2] = a[2] * b[2]
<1>1. a[1] * b[1] \in Nat /\ a[2] * b[2] \in Nat \ {0}
  BY FracParts
<1> QED BY <1>1 DEF Times, Frac

\* Divided by the same, or multiplied by it.
LEMMA OverMono ==
    ASSUME NEW a \in Frac, NEW b \in Frac, b[1] > 0, NEW c \in Frac, AtMost(a, c)
    PROVE  AtMost(Over(a, b), Over(c, b))
<1> DEFINE a1 == a[1] a2 == a[2] b1 == b[1] b2 == b[2] c1 == c[1] c2 == c[2]
<1>1. a1 \in Nat /\ a2 \in Nat /\ b1 \in Nat /\ b2 \in Nat /\ c1 \in Nat /\ c2 \in Nat
  BY FracParts
<1>2. /\ a1 * c2 <= c1 * a2
      /\ Over(a, b)[1] = a1 * b2 /\ Over(a, b)[2] = a2 * b1
      /\ Over(c, b)[1] = c1 * b2 /\ Over(c, b)[2] = c2 * b1
  BY OverIs DEF AtMost
<1> HIDE DEF a1, a2, b1, b2, c1, c2
<1>3. (a1 * c2) * (b1 * b2) <= (c1 * a2) * (b1 * b2)
  BY <1>1, <1>2, MulMono, MulType
<1>4. /\ (a1 * c2) * (b1 * b2) = (a1 * b2) * (c2 * b1)
      /\ (c1 * a2) * (b1 * b2) = (c1 * b2) * (a2 * b1)
  BY <1>1
<1> QED BY <1>2, <1>3, <1>4 DEF AtMost

LEMMA TimesMono ==
    ASSUME NEW a \in Frac, NEW b \in Frac, NEW c \in Frac, AtMost(a, c)
    PROVE  AtMost(Times(b, a), Times(b, c))
<1> DEFINE a1 == a[1] a2 == a[2] b1 == b[1] b2 == b[2] c1 == c[1] c2 == c[2]
<1>1. a1 \in Nat /\ a2 \in Nat /\ b1 \in Nat /\ b2 \in Nat /\ c1 \in Nat /\ c2 \in Nat
  BY FracParts
<1>2. /\ a1 * c2 <= c1 * a2
      /\ Times(b, a)[1] = b1 * a1 /\ Times(b, a)[2] = b2 * a2
      /\ Times(b, c)[1] = b1 * c1 /\ Times(b, c)[2] = b2 * c2
  BY TimesIs DEF AtMost
<1> HIDE DEF a1, a2, b1, b2, c1, c2
<1>3. (a1 * c2) * (b1 * b2) <= (c1 * a2) * (b1 * b2)
  BY <1>1, <1>2, MulMono, MulType
<1>4. /\ (a1 * c2) * (b1 * b2) = (b1 * a1) * (b2 * c2)
      /\ (c1 * a2) * (b1 * b2) = (b1 * c1) * (b2 * a2)
  BY <1>1
<1> QED BY <1>2, <1>3, <1>4 DEF AtMost

\* A part of a whole.
LEMMA OverOne ==
    ASSUME NEW a \in Frac, NEW b \in Frac, b[1] > 0
    PROVE  /\ AtMost(a, b) <=> AtMost(Over(a, b), One)
           /\ AtMost(b, a) <=> AtMost(One, Over(a, b))
<1>1. a[1] * b[2] \in Nat /\ b[1] * a[2] \in Nat /\ a[2] * b[1] = b[1] * a[2]
  BY FracParts
<1> QED BY <1>1, OverIs DEF AtMost, One

LEMMA TimesOne ==
    ASSUME NEW a \in Frac, NEW b \in Frac
    PROVE  /\ AtMost(a, One) => AtMost(Times(b, a), b)
           /\ AtMost(One, a) => AtMost(b, Times(b, a))
<1>1. One \in Frac /\ Times(b, One) = b
  BY FracParts DEF One, Frac, Times
<1> QED BY <1>1, TimesMono

-----------------------------------------------------------------------------

Unit == {a \in Frac : AtMost(a, One)}

Units(f) == Fractions(f) /\ \A x \in DOMAIN f : AtMost(f[x], One)

LEMMA Count ==
    ASSUME NEW S, IsFiniteSet(S), S # {}
    PROVE  <<Cardinality(S), 1>> \in Frac /\ <<Cardinality(S), 1>>[1] > 0
BY FS_CardinalityType, FS_EmptySet DEF Frac

LEMMA ZeroOne == Zero \in Frac /\ One \in Frac /\ AtMost(Zero, One) /\ \A a \in Frac : AtMost(Zero, a)
BY FracParts DEF Zero, One, Frac, AtMost

LEMMA AtMostZero == \A a, b \in Frac : a[1] = 0 => AtMost(a, b)
<1> TAKE a, b \in Frac
<1>1. b[1] * a[2] \in Nat /\ 0 * b[2] = 0
  BY FracParts
<1> QED BY <1>1 DEF AtMost

LEMMA MeanIs ==
    ASSUME NEW f, Fractions(f), DOMAIN f # {}
    PROVE  \E c \in Frac :
              /\ c = <<Cardinality(DOMAIN f), 1>> /\ c[1] > 0
              /\ Mean(f) = Over(Total(f), c)
              /\ Mean(f)[1] = Total(f)[1] /\ Mean(f)[2] = Total(f)[2] * Cardinality(DOMAIN f)
<1>1. PICK c \in Frac : c = <<Cardinality(DOMAIN f), 1>> /\ c[1] > 0
  BY Count DEF Fractions
<1>2. Mean(f) = Over(Total(f), c)
  BY <1>1 DEF Mean
<1>3. Total(f) \in Frac
  BY TotalType
<1>4. Mean(f)[1] = Total(f)[1] * c[2] /\ Mean(f)[2] = Total(f)[2] * c[1]
  BY <1>1, <1>2, <1>3, OverIs
<1>5. c[2] = 1 /\ c[1] = Cardinality(DOMAIN f) /\ Total(f)[1] \in Nat
  BY <1>1, <1>3, FracParts
<1> QED BY <1>1, <1>2, <1>4, <1>5

LEMMA MeanType ==
    ASSUME NEW f, Fractions(f)
    PROVE  Mean(f) \in Frac
<1>1. CASE DOMAIN f = {}
  BY <1>1, ZeroOne DEF Mean
<1>2. CASE DOMAIN f # {}
  BY <1>2, MeanIs, TotalType, OverIs
<1> QED BY <1>1, <1>2

LEMMA OnesOn ==
    ASSUME NEW S, IsFiniteSet(S)
    PROVE  Fractions([x \in S |-> One]) /\ Total([x \in S |-> One]) = <<Cardinality(S), 1>>
<1>1. Fractions([x \in S |-> One])
  BY ZeroOne DEF Fractions
<1> QED BY <1>1, TotalOnes

LEMMA UnitsTotal ==
    ASSUME NEW f, Units(f)
    PROVE  AtMost(Total(f), <<Cardinality(DOMAIN f), 1>>)
<1> DEFINE h == [x \in DOMAIN f |-> One]
<1>1. Fractions(h) /\ Total(h) = <<Cardinality(DOMAIN f), 1>> /\ DOMAIN h = DOMAIN f
  BY OnesOn DEF Fractions, Units
<1>2. \A x \in DOMAIN f : AtMost(f[x], h[x])
  BY DEF Units
<1> HIDE DEF h
<1> QED BY <1>1, <1>2, TotalMono DEF Units

LEMMA MeanUnit ==
    ASSUME NEW f, Units(f)
    PROVE  Mean(f) \in Unit
<1>1. CASE DOMAIN f = {}
  BY <1>1, ZeroOne DEF Mean, Unit
<1>2. CASE DOMAIN f # {}
  <2>1. PICK c \in Frac : c = <<Cardinality(DOMAIN f), 1>> /\ c[1] > 0 /\ Mean(f) = Over(Total(f), c)
    BY <1>2, MeanIs DEF Units
  <2>2. AtMost(Total(f), c)
    BY <2>1, UnitsTotal
  <2>3. Total(f) \in Frac /\ Mean(f) \in Frac
    BY TotalType, MeanType DEF Units
  <2> QED BY <2>1, <2>2, <2>3, OverOne DEF Unit
<1> QED BY <1>1, <1>2

LEMMA MeanOnes ==
    ASSUME NEW f, Fractions(f), DOMAIN f # {}, \A x \in DOMAIN f : AtMost(One, f[x])
    PROVE  AtMost(One, Mean(f))
<1> DEFINE h == [x \in DOMAIN f |-> One]
<1>1. Fractions(h) /\ Total(h) = <<Cardinality(DOMAIN f), 1>> /\ DOMAIN h = DOMAIN f
  BY OnesOn DEF Fractions
<1>2. \A x \in DOMAIN f : AtMost(h[x], f[x])
  OBVIOUS
<1> HIDE DEF h
<1>3. AtMost(<<Cardinality(DOMAIN f), 1>>, Total(f))
  BY <1>1, <1>2, TotalMono
<1>4. PICK c \in Frac : c = <<Cardinality(DOMAIN f), 1>> /\ c[1] > 0 /\ Mean(f) = Over(Total(f), c)
  BY MeanIs
<1> QED BY <1>3, <1>4, TotalType, OverOne

LEMMA MeanZeros ==
    ASSUME NEW f, Fractions(f), \A x \in DOMAIN f : f[x][1] = 0
    PROVE  Mean(f)[1] = 0
<1>1. CASE DOMAIN f = {}
  BY <1>1 DEF Mean, Zero
<1>2. CASE DOMAIN f # {}
  <2>1. Mean(f)[1] = Total(f)[1]
    BY <1>2, MeanIs
  <2> QED BY <2>1, TotalZeros
<1> QED BY <1>1, <1>2

LEMMA MeanMono ==
    ASSUME NEW f, Fractions(f), NEW h, Fractions(h), DOMAIN f = DOMAIN h,
           \A x \in DOMAIN f : AtMost(f[x], h[x])
    PROVE  AtMost(Mean(f), Mean(h))
<1>1. CASE DOMAIN f = {}
  BY <1>1, ZeroOne DEF Mean
<1>2. CASE DOMAIN f # {}
  <2>1. PICK c \in Frac : c = <<Cardinality(DOMAIN f), 1>> /\ c[1] > 0 /\ Mean(f) = Over(Total(f), c)
    BY <1>2, MeanIs
  <2>2. Mean(h) = Over(Total(h), c)
    BY <1>2, <2>1, MeanIs
  <2> QED BY <2>1, <2>2, TotalType, TotalMono, OverMono
<1> QED BY <1>1, <1>2

\* One more that is as good as can be.
LEMMA MeanMore ==
    ASSUME NEW f, Units(f), NEW i \in DOMAIN f, AtMost(One, f[i])
    PROVE  AtMost(Mean(Part(f, DOMAIN f \ {i})), Mean(f))
<1> DEFINE h == Part(f, DOMAIN f \ {i})
<1>1. Units(h) /\ DOMAIN h = DOMAIN f \ {i}
  BY PartFractions DEF Units
<1>2. Total(f) = Plus(f[i], Total(h)) /\ f[i] \in Frac /\ Total(h) \in Frac /\ Fractions(f) /\ Fractions(h)
  BY <1>1, TotalStep, TotalType DEF Units, Fractions
<1> HIDE DEF h
<1>3. CASE DOMAIN h = {}
  <2>1. Mean(h) = Zero
    BY <1>3 DEF Mean
  <2> QED BY <1>2, <2>1, MeanType, ZeroOne DEF h
<1>4. CASE DOMAIN h # {}
  <2> DEFINE n == Cardinality(DOMAIN h)
             t1 == Total(h)[1] t2 == Total(h)[2] v1 == f[i][1] v2 == f[i][2]
  <2>1. n \in Nat /\ Cardinality(DOMAIN f) = n + 1 /\ IsFiniteSet(DOMAIN f) /\ IsFiniteSet(DOMAIN h)
    BY <1>1, <1>2, FS_RemoveElement, FS_CardinalityType DEF Fractions
  <2>2. t1 \in Nat /\ t2 \in Nat /\ v1 \in Nat /\ v2 \in Nat
    BY <1>2, FracParts
  <2>3. t1 <= n * t2 /\ v2 <= v1
    <3>1. AtMost(Total(h), <<n, 1>>)
      BY <1>1, UnitsTotal
    <3> QED BY <3>1, <2>1, <2>2 DEF AtMost, One
  <2>4. Mean(h)[1] = t1 /\ Mean(h)[2] = t2 * n
    BY <1>2, <1>4, MeanIs
  <2>5. Mean(f)[1] = v1 * t2 + t1 * v2 /\ Mean(f)[2] = (v2 * t2) * (n + 1)
    <3>1. Mean(f)[1] = Total(f)[1] /\ Mean(f)[2] = Total(f)[2] * (n + 1)
      BY <1>2, <2>1, MeanIs
    <3> QED BY <1>2, <3>1, PlusType
  <2> HIDE DEF n, t1, t2, v1, v2
  <2>6. t1 * (v2 * t2) <= (n * t2) * (v2 * t2)
    BY <2>1, <2>2, <2>3, MulMono, MulType
  <2>7. v2 * (t2 * (t2 * n)) <= v1 * (t2 * (t2 * n))
    BY <2>1, <2>2, <2>3, MulMono, MulType
  <2>8. t1 * ((v2 * t2) * (n + 1)) = t1 * (v2 * t2) + t1 * (v2 * (t2 * n))
    BY <2>1, <2>2
  <2>9. (v1 * t2 + t1 * v2) * (t2 * n) = v1 * (t2 * (t2 * n)) + t1 * (v2 * (t2 * n))
    BY <2>1, <2>2
  <2>10. (n * t2) * (v2 * t2) = v2 * (t2 * (t2 * n))
    BY <2>1, <2>2
  <2>11. /\ t1 * (v2 * t2) \in Nat /\ v2 * (t2 * (t2 * n)) \in Nat
         /\ v1 * (t2 * (t2 * n)) \in Nat /\ t1 * (v2 * (t2 * n)) \in Nat
    BY <2>1, <2>2, MulType
  <2>12. t1 * ((v2 * t2) * (n + 1)) <= (v1 * t2 + t1 * v2) * (t2 * n)
    BY <2>6, <2>7, <2>8, <2>9, <2>10, <2>11
  <2> QED BY <2>4, <2>5, <2>12 DEF AtMost, h
<1> QED BY <1>3, <1>4 DEF h

-----------------------------------------------------------------------------
(* The largest and the smallest of some numbers, and the highest band.       *)

LEMMA Ends ==
    ASSUME NEW S, IsFiniteSet(S), S # {}
    PROVE  S \subseteq Int =>
              /\ Max(S) \in S /\ \A x \in S : x <= Max(S)
              /\ Min(S) \in S /\ \A x \in S : Min(S) <= x
<1> DEFINE HasMax(T) == \E x \in T : \A y \in T : x >= y
           HasMin(T) == \E x \in T : \A y \in T : x <= y
           Bad == {T \in SUBSET S : T # {} /\ ~(HasMax(T) /\ HasMin(T))}
<1>0. Bad # {} => \E U \in Bad : \A V \in Bad : V \subseteq U => V = U
  <2>1. Bad \in SUBSET (SUBSET S)
    OBVIOUS
  <2> HIDE DEF Bad
  <2> QED BY <2>1, SmallestSubset
<1> HAVE S \subseteq Int
<1>1. ASSUME Bad # {} PROVE FALSE
  <2>1. PICK U \in Bad : \A V \in Bad : V \subseteq U => V = U
    BY <1>0, <1>1
  <2>2. PICK x \in U : U \in SUBSET Int
    OBVIOUS
  <2> DEFINE V == U \ {x}
  <2>3. V # {} => HasMax(V) /\ HasMin(V)
    <3>1. V \notin Bad
      BY <2>1, <2>2
    <3> QED BY <3>1
  <2>4. HasMax(U)
    <3>1. CASE V = {}
      BY <2>2, <3>1
    <3>2. CASE V # {}
      <4>1. PICK m \in V : \A y \in V : m >= y
        BY <2>3, <3>2
      <4>2. CASE x >= m
        BY <2>2, <4>1, <4>2
      <4>3. CASE ~(x >= m)
        BY <2>2, <4>1, <4>3
      <4> QED BY <4>2, <4>3
    <3> QED BY <3>1, <3>2
  <2>5. HasMin(U)
    <3>1. CASE V = {}
      BY <2>2, <3>1
    <3>2. CASE V # {}
      <4>1. PICK m \in V : \A y \in V : m <= y
        BY <2>3, <3>2
      <4>2. CASE x <= m
        BY <2>2, <4>1, <4>2
      <4>3. CASE ~(x <= m)
        BY <2>2, <4>1, <4>3
      <4> QED BY <4>2, <4>3
    <3> QED BY <3>1, <3>2
  <2> QED BY <2>4, <2>5
<1>2. HasMax(S) /\ HasMin(S)
  <2>1. S \notin Bad
    BY <1>1
  <2> QED BY <2>1
<1>3. PICK m \in S : \A y \in S : m >= y
  BY <1>2
<1>4. PICK l \in S : \A y \in S : l <= y
  BY <1>2
<1> QED BY <1>3, <1>4 DEF Max, Min

LEMMA HighestFraction ==
    ASSUME NEW S \in SUBSET Frac, IsFiniteSet(S), S # {}
    PROVE  \E x \in S : \A y \in S : AtMost(y, x)
<1> DEFINE HasMax(T) == \E x \in T : \A y \in T : AtMost(y, x)
           Bad == {T \in SUBSET S : T # {} /\ ~HasMax(T)}
<1>1. ASSUME Bad # {} PROVE FALSE
  <2>1. PICK U \in Bad : \A V \in Bad : V \subseteq U => V = U
    <3>1. Bad \in SUBSET (SUBSET S)
      OBVIOUS
    <3> HIDE DEF Bad
    <3> QED BY <1>1, <3>1, SmallestSubset
  <2>2. PICK x \in U : U \in SUBSET Frac
    OBVIOUS
  <2> DEFINE V == U \ {x}
  <2>3. V # {} => HasMax(V)
    <3>1. V \notin Bad
      BY <2>1, <2>2
    <3> QED BY <3>1
  <2>4. HasMax(U)
    <3>0. AtMost(x, x)
      BY <2>2, AtMostTotal
    <3>1. CASE V = {}
      BY <2>2, <3>0, <3>1
    <3>2. CASE V # {}
      <4>1. PICK m \in V : \A y \in V : AtMost(y, m)
        BY <2>3, <3>2
      <4>2. CASE AtMost(m, x)
        <5>1. \A y \in V : AtMost(y, x)
          BY <2>2, <4>1, <4>2, AtMostTrans
        <5> QED BY <2>2, <3>0, <5>1
      <4>3. CASE AtMost(x, m)
        BY <2>2, <4>1, <4>3
      <4> QED BY <2>2, <4>1, <4>2, <4>3, AtMostTotal
    <3> QED BY <3>1, <3>2
  <2> QED BY <2>4
<1>2. S \notin Bad
  BY <1>1
<1> QED BY <1>2

LEMMA BandIs ==
    ASSUME NEW s \in Frac
    PROVE  LET b == bandFor(Minimums, s)
           IN  /\ b \in Minimums /\ b \in Frac /\ AtMost(b, s)
               /\ \A x \in Minimums : AtMost(x, s) => AtMost(x, b)
<1> DEFINE below == {b \in Minimums : AtMost(b, s)}
<1>1. Minimums \subseteq Frac /\ IsFiniteSet(Minimums) /\ Zero \in Minimums
  BY BandsAssumption DEF Frac
<1>2. below # {} /\ below \in SUBSET Frac /\ IsFiniteSet(below)
  BY <1>1, ZeroOne, FS_Subset
<1>3. \E x \in below : \A y \in below : AtMost(y, x)
  <2> HIDE DEF below
  <2> QED BY <1>2, HighestFraction
<1>4. bandFor(Minimums, s) = CHOOSE b \in below : \A x \in below : AtMost(x, b)
  BY <1>2 DEF bandFor
<1>5. bandFor(Minimums, s) \in below /\ \A x \in below : AtMost(x, bandFor(Minimums, s))
  BY <1>3, <1>4
<1> QED BY <1>1, <1>5

LEMMA BandMono ==
    ASSUME NEW s \in Frac, NEW t \in Frac, AtMost(s, t)
    PROVE  AtMost(bandFor(Minimums, s), bandFor(Minimums, t))
BY BandIs, AtMostTrans

-----------------------------------------------------------------------------
(* Alignment.                                                                *)

LEMMA Gaps ==
    ASSUME NEW q, Scorable(q, "ALIGNMENT")
    PROVE  /\ q.employerValue \in Nat /\ q.options \in Seq(Option)
           /\ \A k \in DOMAIN q.options : q.options[k].value \in Nat
           /\ Max(ToSet(Values(q))) - Min(ToSet(Values(q))) \in Int
<1> DEFINE D == DOMAIN q.options
           value == [k \in D |-> q.options[k].value]
           S == {value[k] : k \in D}
<1>1. q.options \in Seq(Option) /\ Len(q.options) >= 2 /\ D = 1 .. Len(q.options)
  BY DEF Scorable
<1>2. \A k \in D : q.options[k].value \in Nat
  <2>1. \A k \in D : q.options[k].value \in Nat \cup {None}
    <3>1. \A k \in D : q.options[k] \in Option
      BY <1>1
    <3> QED BY <3>1 DEF Option
  <2>2. \A k \in D : q.options[k].value # None
    BY DEF Scorable, Climbing, Values
  <2> QED BY <2>1, <2>2
<1>3. ToSet(Values(q)) = S
  BY DEF ToSet, Values
<1>4. S \subseteq Int /\ S # {} /\ IsFiniteSet(S)
  <2>1. IsFiniteSet(D)
    <3>1. 1 \in Int /\ Len(q.options) \in Int
      BY <1>1
    <3>2. IsFiniteSet(1 .. Len(q.options))
      BY <3>1, FS_Interval
    <3> QED BY <1>1, <3>2
  <2>2. IsFiniteSet(S)
    <3>1. value \in Surjection(D, S)
      BY DEF Surjection
    <3> HIDE DEF D, value, S
    <3> QED BY <2>1, <3>1, FS_Surjection
  <2>3. 1 \in D
    BY <1>1
  <2>4. S \subseteq Int /\ S # {}
    <3>1. \A k \in D : value[k] \in Int
      BY <1>2
    <3> HIDE DEF D, value
    <3> QED BY <2>3, <3>1
  <2> QED BY <2>2, <2>4
<1>5. Max(S) \in Int /\ Min(S) \in Int
  <2> HIDE DEF S
  <2> QED BY <1>4, Ends
<1>6. q.employerValue \in S
  BY <1>3 DEF Scorable
<1>7. q.employerValue \in Nat
  BY <1>2, <1>6
<1>8. Max(ToSet(Values(q))) - Min(ToSet(Values(q))) \in Int
  <2> HIDE DEF S
  <2> QED BY <1>3, <1>5
<1> QED BY <1>1, <1>2, <1>7, <1>8

LEMMA MaxOfTwo ==
    ASSUME NEW x \in Int
    PROVE  Max({0, x}) \in Nat /\ Max({0, x}) = IF x > 0 THEN x ELSE 0
<1>1. CASE x > 0
  <2>1. \A m \in {0, x} : (\A y \in {0, x} : m >= y) <=> m = x
    BY <1>1
  <2>2. Max({0, x}) = x
    BY <2>1 DEF Max
  <2> QED BY <1>1, <2>2
<1>2. CASE ~(x > 0)
  <2>1. \A m \in {0, x} : (\A y \in {0, x} : m >= y) <=> m = 0
    BY <1>2
  <2>2. Max({0, x}) = 0
    BY <2>1 DEF Max
  <2> QED BY <1>2, <2>2
<1> QED BY <1>1, <1>2

\* What an answer scores, by its distance from the role's pick.
LEMMA AlignmentBy ==
    ASSUME NEW q, Scorable(q, "ALIGNMENT"), NEW v \in Nat
    PROVE  /\ Abs(v - q.employerValue) \in Nat
           /\ itemAlignment(q, v) \in Unit
           /\ Abs(v - q.employerValue) = 0 => AtMost(One, itemAlignment(q, v))
           /\ \A w \in Nat : Abs(v - q.employerValue) <= Abs(w - q.employerValue)
                => AtMost(itemAlignment(q, w), itemAlignment(q, v))
<1> DEFINE span == Max(ToSet(Values(q))) - Min(ToSet(Values(q)))
           gap(x) == Abs(x - q.employerValue)
<1>1. q.employerValue \in Nat /\ span \in Int
  BY Gaps
<1>2. \A x \in Nat : gap(x) \in Nat
  BY <1>1 DEF Abs
<1>3. \A x \in Nat : itemAlignment(q, x) =
        IF q.type = "CHOICE_SCALE"
          THEN IF gap(x) = 0 THEN One ELSE IF gap(x) = 1 THEN <<1, 2>> ELSE Zero
        ELSE IF span > 0 THEN <<Max({0, span - gap(x)}), span>> ELSE One
  BY DEF itemAlignment
<1> HIDE DEF span, gap
<1>4. CASE q.type = "CHOICE_SCALE"
  <2> DEFINE Half == <<1, 2>>
  <2>1. /\ One \in Frac /\ Half \in Frac /\ Zero \in Frac
        /\ AtMost(One, One) /\ AtMost(Half, One) /\ AtMost(Zero, One)
        /\ AtMost(Half, Half) /\ AtMost(Zero, Half) /\ AtMost(Zero, Zero)
    BY DEF One, Zero, Frac, AtMost
  <2>2. \A x \in Nat : itemAlignment(q, x) = IF gap(x) = 0 THEN One ELSE IF gap(x) = 1 THEN Half ELSE Zero
    BY <1>3, <1>4
  <2> HIDE DEF Half
  <2>3. itemAlignment(q, v) \in Unit /\ (gap(v) = 0 => AtMost(One, itemAlignment(q, v)))
    BY <2>1, <2>2 DEF Unit
  <2>4. ASSUME NEW w \in Nat, gap(v) <= gap(w)
        PROVE  AtMost(itemAlignment(q, w), itemAlignment(q, v))
    <3>1. gap(v) \in Nat /\ gap(w) \in Nat
      BY <1>2
    <3>2. CASE gap(v) = 0
      BY <2>1, <2>2, <3>2
    <3>3. CASE gap(v) = 1
      <4>1. gap(w) # 0
        BY <2>4, <3>1, <3>3
      <4> QED BY <2>1, <2>2, <3>3, <4>1
    <3>4. CASE gap(v) # 0 /\ gap(v) # 1
      <4>1. gap(w) # 0 /\ gap(w) # 1
        BY <2>4, <3>1, <3>4
      <4> QED BY <2>1, <2>2, <3>4, <4>1
    <3> QED BY <3>2, <3>3, <3>4
  <2> QED BY <1>2, <2>3, <2>4 DEF gap
<1>5. CASE q.type # "CHOICE_SCALE" /\ ~(span > 0)
  <2>1. \A x \in Nat : itemAlignment(q, x) = One
    BY <1>3, <1>5
  <2> QED BY <1>2, <2>1, ZeroOne, AtMostTotal DEF gap, Unit
<1>6. CASE q.type # "CHOICE_SCALE" /\ span > 0
  <2> DEFINE part(x) == Max({0, span - gap(x)})
  <2>1. \A x \in Nat : itemAlignment(q, x) = <<part(x), span>>
    BY <1>3, <1>6
  <2>2. \A x \in Nat : part(x) \in Nat /\ part(x) = IF span - gap(x) > 0 THEN span - gap(x) ELSE 0
    BY <1>1, <1>2, MaxOfTwo
  <2>3. span \in Nat \ {0}
    BY <1>1, <1>6
  <2> HIDE DEF part
  <2>4. \A x \in Nat : itemAlignment(q, x) \in Frac /\ part(x) <= span
    <3>1. \A x \in Nat : part(x) <= span
      BY <1>2, <2>2, <2>3
    <3>2. \A x \in Nat : <<part(x), span>> \in Frac
      BY <2>2, <2>3 DEF Frac
    <3> QED BY <2>1, <3>1, <3>2
  <2>5. \A x \in Nat : itemAlignment(q, x) \in Unit
    BY <2>1, <2>2, <2>3, <2>4 DEF Unit, AtMost, One
  <2>6. gap(v) = 0 => AtMost(One, itemAlignment(q, v))
    <3>1. gap(v) = 0 => part(v) = span
      BY <2>2, <2>3
    <3> QED BY <2>1, <2>3, <3>1 DEF AtMost, One
  <2>7. ASSUME NEW w \in Nat, gap(v) <= gap(w)
        PROVE  AtMost(itemAlignment(q, w), itemAlignment(q, v))
    <3>1. part(w) <= part(v)
      BY <1>2, <2>2, <2>3, <2>7
    <3>2. part(w) * span <= part(v) * span
      BY <2>2, <2>3, <3>1, MulMono
    <3> QED BY <2>1, <3>2 DEF AtMost
  <2> QED BY <1>2, <2>5, <2>6, <2>7 DEF gap
<1> QED BY <1>4, <1>5, <1>6

Items(p, a, s) ==
    [i \in Answered(p, a, Members(p, s)) |-> itemAlignment(p.questions[i], Chosen(p, a, i))]

LEMMA Answer ==
    ASSUME NEW p, PaperTrue(p), NEW a, AnswersTo(p, a)
    PROVE  /\ Places(p) = 1 .. 3 /\ IsFiniteSet(Places(p))
           /\ \A i \in Places(p) : a[i] # None <=> a[i] \in DOMAIN p.questions[i].options
           /\ \A i \in Places(p) : p.questions[i].options \in Seq(Option)
<1>1. Places(p) = 1 .. 3
  BY DEF PaperTrue, Places
<1>2. \A i \in Places(p) : p.questions[i].options \in Seq(Option)
  BY DEF PaperTrue, Scorable
<1>3. \A i \in Places(p) : None \notin DOMAIN p.questions[i].options
  BY <1>2, NoneAssumption
<1>4. IsFiniteSet(1 .. 3)
  <2>1. 1 \in Int /\ 3 \in Int
    OBVIOUS
  <2> QED BY <2>1, FS_Interval, Zenon
<1> QED BY <1>1, <1>2, <1>3, <1>4 DEF AnswersTo

LEMMA ItemsAre ==
    ASSUME NEW p, PaperTrue(p), p.method = "ALIGNMENT", NEW a, AnswersTo(p, a), NEW s
    PROVE  /\ Units(Items(p, a, s)) /\ sectionAlignment(p, a, s) = Mean(Items(p, a, s))
           /\ DOMAIN Items(p, a, s) = Answered(p, a, Members(p, s))
           /\ Answered(p, a, Members(p, s)) \subseteq Places(p)
           /\ \A i \in DOMAIN Items(p, a, s) :
                 /\ Items(p, a, s)[i] = itemAlignment(p.questions[i], Chosen(p, a, i))
                 /\ Scorable(p.questions[i], "ALIGNMENT") /\ Chosen(p, a, i) \in Nat
<1> DEFINE D == Answered(p, a, Members(p, s))
<1>1. D \subseteq Places(p) /\ IsFiniteSet(D)
  <2>1. D \subseteq Places(p)
    BY DEF Answered, Members
  <2> QED BY <2>1, Answer, FS_Subset
<1>2. \A i \in D : Scorable(p.questions[i], "ALIGNMENT")
  BY <1>1 DEF PaperTrue
<1>3. \A i \in D : a[i] \in DOMAIN p.questions[i].options
  BY <1>1, Answer DEF Answered
<1>4. \A i \in D : Chosen(p, a, i) \in Nat
  BY <1>2, <1>3, Gaps DEF Chosen
<1>5. \A i \in D : itemAlignment(p.questions[i], Chosen(p, a, i)) \in Unit
  BY <1>2, <1>4, AlignmentBy
<1>6. Units(Items(p, a, s))
  BY <1>1, <1>5 DEF Units, Fractions, Items, Unit
<1>7. sectionAlignment(p, a, s) = Mean(Items(p, a, s))
  BY DEF sectionAlignment, Items
<1> QED BY <1>1, <1>2, <1>4, <1>6, <1>7 DEF Items

LEMMA SectionUnit ==
    ASSUME NEW p, PaperTrue(p), p.method = "ALIGNMENT", NEW a, AnswersTo(p, a), NEW s
    PROVE  sectionAlignment(p, a, s) \in Unit
BY ItemsAre, MeanUnit

Sections(p, a) == [s \in Groups(p) |-> sectionAlignment(p, a, s)]

Shares(p, a) ==
    [s \in DOMAIN Weighted(p) |-> Times(Weighted(p)[s], sectionAlignment(p, a, s))]

LEMMA SectionsAre ==
    ASSUME NEW p, PaperTrue(p), p.method = "ALIGNMENT", NEW a, AnswersTo(p, a)
    PROVE  /\ Units(Sections(p, a)) /\ DOMAIN Sections(p, a) = Groups(p)
           /\ \A s \in Groups(p) : Sections(p, a)[s] = sectionAlignment(p, a, s)
           /\ Groups(p) # {}
           /\ Fractions(Weighted(p)) /\ Fractions(Shares(p, a))
           /\ DOMAIN Shares(p, a) = DOMAIN Weighted(p) /\ DOMAIN Weighted(p) \subseteq Groups(p)
           /\ \A s \in DOMAIN Weighted(p) :
                 Shares(p, a)[s] = Times(Weighted(p)[s], sectionAlignment(p, a, s))
           /\ DOMAIN Weighted(p) # {} => Total(Weighted(p)) \in Frac /\ Total(Weighted(p))[1] > 0
           /\ scoreAlignment(p, a) =
                IF DOMAIN Weighted(p) = {} THEN Mean(Sections(p, a))
                ELSE Over(Total(Shares(p, a)), Total(Weighted(p)))
<1> DEFINE W == Weighted(p) D == {g \in Groups(p) \ {None} : p.weights[g] > 0}
<1>1. Groups(p) \subseteq {"s1", "s2", None} /\ Groups(p) # {}
  <2>1. Places(p) # {}
    BY Answer
  <2> QED BY <2>1 DEF PaperTrue, Groups
<1>2. IsFiniteSet(Groups(p)) /\ IsFiniteSet(D)
  <2>1. IsFiniteSet({"s1", "s2", None})
    <3>1. IsFiniteSet({}) /\ IsFiniteSet({} \cup {"s1"})
      BY FS_EmptySet, FS_AddElement
    <3>2. IsFiniteSet(({} \cup {"s1"}) \cup {"s2"})
      BY <3>1, FS_AddElement
    <3>3. IsFiniteSet((({} \cup {"s1"}) \cup {"s2"}) \cup {None})
      BY <3>2, FS_AddElement
    <3>4. (({} \cup {"s1"}) \cup {"s2"}) \cup {None} = {"s1", "s2", None}
      OBVIOUS
    <3> QED BY <3>3, <3>4
  <2>2. IsFiniteSet(Groups(p))
    BY <1>1, <2>1, FS_Subset
  <2>3. D \in SUBSET Groups(p)
    OBVIOUS
  <2> QED BY <2>2, <2>3, FS_Subset
<1>3. \A s \in D : p.weights[s] \in Nat \ {0}
  <2>1. \A s \in D : s \in {"s1", "s2"}
    BY <1>1
  <2> QED BY <2>1 DEF PaperTrue
<1>4. \A s \in Groups(p) : sectionAlignment(p, a, s) \in Unit /\ sectionAlignment(p, a, s) \in Frac
  BY SectionUnit DEF Unit
<1>5. Units(Sections(p, a))
  BY <1>2, <1>4 DEF Units, Fractions, Sections, Unit
<1>6. W = [s \in D |-> <<p.weights[s], 1>>] /\ DOMAIN W = D
  BY DEF Weighted
<1>7. \A s \in D : W[s] \in Frac /\ W[s][1] > 0
  BY <1>3, <1>6 DEF Frac
<1>8. Fractions(W)
  <2> HIDE DEF W, D
  <2> QED BY <1>2, <1>6, <1>7 DEF Fractions
<1>9. \A s \in D : Times(W[s], sectionAlignment(p, a, s)) \in Frac
  BY <1>4, <1>7, TimesIs
<1>10. Fractions(Shares(p, a))
  <2> HIDE DEF D
  <2> QED BY <1>2, <1>6, <1>9 DEF Fractions, Shares
<1>11. D # {} => Total(W) \in Frac /\ Total(W)[1] > 0
  <2> HIDE DEF W, D
  <2> QED BY <1>6, <1>7, <1>8, TotalType, TotalPositive
<1>12. scoreAlignment(p, a) =
                IF DOMAIN Weighted(p) = {} THEN Mean(Sections(p, a))
                ELSE Over(Total(Shares(p, a)), Total(Weighted(p)))
  BY DEF scoreAlignment, Sections, Shares
<1> QED
  <2>1. DOMAIN Shares(p, a) = DOMAIN W /\ \A s \in DOMAIN W : Shares(p, a)[s] = Times(W[s], sectionAlignment(p, a, s))
    BY DEF Shares
  <2>2. DOMAIN Sections(p, a) = Groups(p) /\ \A s \in Groups(p) : Sections(p, a)[s] = sectionAlignment(p, a, s)
    BY DEF Sections
  <2>3. D \subseteq Groups(p)
    OBVIOUS
  <2> HIDE DEF D
  <2> QED BY <1>1, <1>5, <1>6, <1>8, <1>10, <1>11, <1>12, <2>1, <2>2, <2>3

\* The score of an alignment test, by what its sections score.
LEMMA ScoreMono ==
    ASSUME NEW p, PaperTrue(p), p.method = "ALIGNMENT",
           NEW a, AnswersTo(p, a), NEW b, AnswersTo(p, b),
           \A s \in Groups(p) : AtMost(sectionAlignment(p, a, s), sectionAlignment(p, b, s))
    PROVE  AtMost(scoreAlignment(p, a), scoreAlignment(p, b))
<1>1. CASE DOMAIN Weighted(p) = {}
  <2>1. AtMost(Mean(Sections(p, a)), Mean(Sections(p, b)))
    BY SectionsAre, MeanMono DEF Units
  <2> QED BY <1>1, <2>1, SectionsAre
<1>2. CASE DOMAIN Weighted(p) # {}
  <2>1. \A s \in DOMAIN Weighted(p) : AtMost(Shares(p, a)[s], Shares(p, b)[s])
    <3> TAKE s \in DOMAIN Weighted(p)
    <3>1. /\ sectionAlignment(p, a, s) \in Frac /\ sectionAlignment(p, b, s) \in Frac
          /\ Weighted(p)[s] \in Frac /\ s \in Groups(p)
      BY SectionsAre, SectionUnit DEF Unit, Fractions
    <3> QED BY <3>1, SectionsAre, TimesMono
  <2>2. AtMost(Total(Shares(p, a)), Total(Shares(p, b)))
    BY <2>1, SectionsAre, TotalMono
  <2> QED BY <1>2, <2>2, SectionsAre, TotalType, OverMono
<1> QED BY <1>1, <1>2

LEMMA ScoreUnit ==
    ASSUME NEW p, PaperTrue(p), p.method = "ALIGNMENT", NEW a, AnswersTo(p, a)
    PROVE  scoreAlignment(p, a) \in Unit
<1>1. CASE DOMAIN Weighted(p) = {}
  BY <1>1, SectionsAre, MeanUnit
<1>2. CASE DOMAIN Weighted(p) # {}
  <2>1. \A s \in DOMAIN Weighted(p) : AtMost(Shares(p, a)[s], Weighted(p)[s])
    BY SectionsAre, SectionUnit, TimesOne DEF Unit, Fractions
  <2>2. AtMost(Total(Shares(p, a)), Total(Weighted(p)))
    BY <2>1, SectionsAre, TotalMono
  <2> QED BY <1>2, <2>2, SectionsAre, TotalType, OverOne, OverIs DEF Unit
<1> QED BY <1>1, <1>2

LEMMA ScoreFull ==
    ASSUME NEW p, PaperTrue(p), p.method = "ALIGNMENT", NEW a, AnswersTo(p, a),
           \A s \in Groups(p) : AtMost(One, sectionAlignment(p, a, s))
    PROVE  AtMost(One, scoreAlignment(p, a))
<1>1. CASE DOMAIN Weighted(p) = {}
  BY <1>1, SectionsAre, MeanOnes DEF Units
<1>2. CASE DOMAIN Weighted(p) # {}
  <2>1. \A s \in DOMAIN Weighted(p) : AtMost(Weighted(p)[s], Shares(p, a)[s])
    BY SectionsAre, SectionUnit, TimesOne DEF Unit, Fractions
  <2>2. AtMost(Total(Weighted(p)), Total(Shares(p, a)))
    BY <2>1, SectionsAre, TotalMono
  <2> QED BY <1>2, <2>2, SectionsAre, TotalType, OverOne
<1> QED BY <1>1, <1>2

LEMMA ScoreNothing ==
    ASSUME NEW p, PaperTrue(p), p.method = "ALIGNMENT", NEW a, AnswersTo(p, a),
           \A s \in Groups(p) : sectionAlignment(p, a, s)[1] = 0
    PROVE  scoreAlignment(p, a)[1] = 0
<1>1. CASE DOMAIN Weighted(p) = {}
  BY <1>1, SectionsAre, MeanZeros DEF Units
<1>2. CASE DOMAIN Weighted(p) # {}
  <2>1. \A s \in DOMAIN Weighted(p) : Shares(p, a)[s][1] = 0
    <3> TAKE s \in DOMAIN Weighted(p)
    <3>1. Weighted(p)[s] \in Frac /\ sectionAlignment(p, a, s) \in Frac /\ s \in Groups(p)
      BY SectionsAre, SectionUnit DEF Unit, Fractions
    <3>2. Shares(p, a)[s][1] = Weighted(p)[s][1] * sectionAlignment(p, a, s)[1]
      BY <3>1, SectionsAre, TimesIs
    <3> QED BY <3>1, <3>2, FracParts
  <2>2. Total(Shares(p, a))[1] = 0
    BY <2>1, SectionsAre, TotalZeros
  <2>3. Total(Shares(p, a)) \in Frac /\ Total(Weighted(p)) \in Frac /\ Total(Weighted(p))[1] > 0
    BY <1>2, SectionsAre, TotalType
  <2>4. Over(Total(Shares(p, a)), Total(Weighted(p)))[1] = 0 * Total(Weighted(p))[2]
    BY <2>2, <2>3, OverIs
  <2>5. Total(Weighted(p))[2] \in Nat
    BY <2>3, FracParts
  <2> QED BY <1>2, <2>4, <2>5, SectionsAre
<1> QED BY <1>1, <1>2

\* What the fairness of a score comes to, for a paper p and its answers a.
Keyed(p, a) ==
    \A i \in Places(p) : a[i] # None /\ Distance(p, p.questions[i], a[i]) = 0

\* Option o of question i is closer to its key than the answer there is.
Closer(p, a, i, o) ==
    IF a[i] # None
      THEN Distance(p, p.questions[i], o) < Distance(p, p.questions[i], a[i])
      ELSE Distance(p, p.questions[i], o) = 0

\* b answers question i with o, and the others as a does.
Instead(p, a, i, o, b) ==
    DOMAIN b = Places(p) /\ b[i] = o /\ \A k \in Places(p) : k # i => b[k] = a[k]

LEMMA AnswerChanged ==
    ASSUME NEW p, PaperTrue(p), NEW a, AnswersTo(p, a), NEW i \in Places(p),
           NEW o \in DOMAIN p.questions[i].options, NEW b, Instead(p, a, i, o, b)
    PROVE  /\ AnswersTo(p, b) /\ o # None
           /\ Answered(p, b, Places(p)) = Answered(p, a, Places(p)) \cup {i}
           /\ \A S \in SUBSET Places(p) :
                 Answered(p, b, S) = IF i \in S THEN Answered(p, a, S) \cup {i} ELSE Answered(p, a, S)
<1>1. AnswersTo(p, b)
  BY DEF AnswersTo, Instead
<1>2. o # None
  <2>1. b[i] # None
    BY <1>1, Answer DEF Instead
  <2> QED BY <2>1 DEF Instead
<1>3. \A S \in SUBSET Places(p) :
         Answered(p, b, S) = IF i \in S THEN Answered(p, a, S) \cup {i} ELSE Answered(p, a, S)
  BY <1>2 DEF Answered, Instead
<1>4. Answered(p, b, Places(p)) = Answered(p, a, Places(p)) \cup {i}
  BY <1>3
<1> QED BY <1>1, <1>2, <1>3, <1>4

LEMMA SectionMono ==
    ASSUME NEW p, PaperTrue(p), p.method = "ALIGNMENT", NEW a, AnswersTo(p, a),
           NEW i \in Places(p), NEW o \in DOMAIN p.questions[i].options, Closer(p, a, i, o),
           NEW b, Instead(p, a, i, o, b), NEW s
    PROVE  AtMost(sectionAlignment(p, a, s), sectionAlignment(p, b, s))
<1> DEFINE f == Items(p, a, s) h == Items(p, b, s)
           A == Answered(p, a, Members(p, s)) B == Answered(p, b, Members(p, s))
<1>1. /\ AnswersTo(p, b) /\ b[i] = o /\ \A k \in Places(p) : k # i => b[k] = a[k]
      /\ Members(p, s) \in SUBSET Places(p)
      /\ B = IF i \in Members(p, s) THEN A \cup {i} ELSE A
  <2>1. Members(p, s) \in SUBSET Places(p)
    BY DEF Members
  <2> QED BY <2>1, AnswerChanged DEF Instead
<1>2. i \in A <=> i \in Members(p, s) /\ a[i] # None
  BY DEF Answered
<1> HIDE DEF A, B
<1>3. /\ Units(f) /\ Units(h) /\ Fractions(f) /\ Fractions(h)
      /\ sectionAlignment(p, a, s) = Mean(f) /\ sectionAlignment(p, b, s) = Mean(h)
      /\ DOMAIN f = A /\ DOMAIN h = B /\ A \subseteq Places(p) /\ B \subseteq Places(p)
      /\ \A k \in A : /\ f[k] = itemAlignment(p.questions[k], Chosen(p, a, k))
                      /\ Scorable(p.questions[k], "ALIGNMENT") /\ Chosen(p, a, k) \in Nat
      /\ \A k \in B : /\ h[k] = itemAlignment(p.questions[k], Chosen(p, b, k))
                      /\ Scorable(p.questions[k], "ALIGNMENT") /\ Chosen(p, b, k) \in Nat
  BY <1>1, ItemsAre DEF Units, A, B
<1>4. \A k \in A : k # i => k \in B /\ f[k] = h[k]
  <2> TAKE k \in A
  <2> HAVE k # i
  <2>1. k \in B /\ a[k] = b[k]
    BY <1>1, <1>3
  <2>2. Chosen(p, a, k) = Chosen(p, b, k)
    BY <2>1 DEF Chosen
  <2> QED BY <1>3, <2>1, <2>2
<1>5. /\ i \in A => Chosen(p, a, i) = p.questions[i].options[a[i]].value
      /\ i \in B => Chosen(p, b, i) = p.questions[i].options[o].value
  BY <1>1 DEF Chosen
<1> HIDE DEF f, h
<1>6. CASE i \in A
  <2>1. A = B
    BY <1>1, <1>2, <1>6
  <2>2. AtMost(f[i], h[i])
    <3>1. Abs(Chosen(p, b, i) - p.questions[i].employerValue)
            < Abs(Chosen(p, a, i) - p.questions[i].employerValue)
      BY <1>2, <1>5, <1>6, <2>1 DEF Closer, Distance
    <3>2. /\ Abs(Chosen(p, b, i) - p.questions[i].employerValue) \in Nat
          /\ Abs(Chosen(p, a, i) - p.questions[i].employerValue) \in Nat
      BY <1>3, <1>6, <2>1, AlignmentBy
    <3>3. Abs(Chosen(p, b, i) - p.questions[i].employerValue)
            <= Abs(Chosen(p, a, i) - p.questions[i].employerValue)
      BY <3>1, <3>2
    <3> QED BY <1>3, <1>6, <2>1, <3>3, AlignmentBy
  <2>3. \A k \in A : AtMost(f[k], h[k])
    <3> TAKE k \in A
    <3>1. CASE k = i
      BY <2>2, <3>1
    <3>2. CASE k # i
      <4>1. f[k] = h[k] /\ f[k] \in Frac
        BY <1>3, <1>4, <3>2 DEF Fractions
      <4> QED BY <4>1, AtMostTotal
    <3> QED BY <3>1, <3>2
  <2> QED BY <1>3, <2>1, <2>3, MeanMono
<1>7. CASE i \notin A /\ i \in B
  <2>1. B = A \cup {i} /\ i \in Members(p, s) /\ a[i] = None
    BY <1>1, <1>2, <1>7
  <2>2. AtMost(One, h[i])
    <3>1. Abs(Chosen(p, b, i) - p.questions[i].employerValue) = 0
      BY <1>5, <1>7, <2>1 DEF Closer, Distance
    <3> QED BY <1>3, <1>7, <3>1, AlignmentBy
  <2>3. f = Part(h, DOMAIN h \ {i})
    <3>1. DOMAIN h \ {i} = A
      BY <1>3, <1>7, <2>1
    <3>2. \A k \in A : f[k] = h[k]
      BY <1>4, <1>7
    <3> QED BY <1>3, <3>1, <3>2 DEF Fractions, Part
  <2>4. AtMost(Mean(Part(h, DOMAIN h \ {i})), Mean(h))
    BY <1>3, <1>7, <2>2, MeanMore
  <2> QED BY <1>3, <2>3, <2>4
<1>8. CASE i \notin A /\ i \notin B
  <2>1. A = B
    BY <1>1, <1>8
  <2>2. \A k \in A : AtMost(f[k], h[k])
    <3> TAKE k \in A
    <3>1. f[k] = h[k] /\ f[k] \in Frac
      BY <1>3, <1>4, <1>8 DEF Fractions
    <3> QED BY <3>1, AtMostTotal
  <2> QED BY <1>3, <2>1, <2>2, MeanMono
<1> QED BY <1>6, <1>7, <1>8

\* Answered right.
Right(p, a) ==
    {i \in Answered(p, a, Places(p)) : p.questions[i].options[a[i]].correct}

LEMMA CorrectIs ==
    ASSUME NEW p, PaperTrue(p), NEW a, AnswersTo(p, a)
    PROVE  /\ correctScore(p, a, Places(p)) = <<Cardinality(Right(p, a)), 3>>
           /\ Right(p, a) \subseteq Places(p) /\ Cardinality(Right(p, a)) \in 0 .. 3
           /\ Cardinality(Right(p, a)) = 3 <=> Right(p, a) = Places(p)
           /\ Right(p, a) = {} => Cardinality(Right(p, a)) = 0
<1>1. Places(p) = 1 .. 3 /\ IsFiniteSet(Places(p))
  BY Answer
<1>2. Cardinality(Places(p)) = 3
  <2>1. 1 \in Int /\ 3 \in Int
    OBVIOUS
  <2>2. Cardinality(1 .. 3) = IF 1 > 3 THEN 0 ELSE 3 - 1 + 1
    BY <2>1, FS_Interval, Zenon
  <2> QED BY <1>1, <2>2
<1>3. Right(p, a) \in SUBSET Places(p)
  BY DEF Right, Answered
<1>4. /\ Cardinality(Right(p, a)) \in Nat /\ Cardinality(Right(p, a)) <= 3
      /\ Cardinality(Right(p, a)) = 3 => Right(p, a) = Places(p)
  BY <1>1, <1>2, <1>3, FS_Subset, FS_CardinalityType
<1>5. correctScore(p, a, Places(p)) = <<Cardinality(Right(p, a)), 3>>
  <2>1. outOf(p, a, Places(p)) = 3
    BY <1>2 DEF outOf
  <2> QED BY <2>1 DEF correctScore, Right
<1> QED BY <1>2, <1>3, <1>4, <1>5, FS_EmptySet

\* Whatever the method.
LEMMA ScoreType ==
    ASSUME NEW p, PaperTrue(p), NEW a, AnswersTo(p, a)
    PROVE  scoreAttempt(p, a) \in Unit
<1>1. CASE p.method = "ALIGNMENT"
  BY <1>1, ScoreUnit DEF scoreAttempt
<1>2. CASE p.method # "ALIGNMENT"
  <2> DEFINE n == Cardinality(Right(p, a))
  <2>1. scoreAttempt(p, a) = <<n, 3>> /\ n \in 0 .. 3
    BY <1>2, CorrectIs DEF scoreAttempt
  <2> HIDE DEF n
  <2> QED BY <2>1 DEF Unit, Frac, AtMost, One
<1> QED BY <1>1, <1>2

LEMMA ScoreOfKeys ==
    ASSUME NEW p, PaperTrue(p), NEW a, AnswersTo(p, a)
    PROVE  /\ Keyed(p, a) => AtMost(One, scoreAttempt(p, a)) /\ flags(p, a) = {}
           /\ p.method = "CORRECT_ANSWER" /\ AtMost(One, scoreAttempt(p, a)) => Keyed(p, a)
<1>0. Places(p) = 1 .. 3
  BY Answer
<1>1. CASE p.method = "ALIGNMENT"
  <2> SUFFICES ASSUME Keyed(p, a) PROVE AtMost(One, scoreAttempt(p, a)) /\ flags(p, a) = {}
    BY <1>1
  <2>1. \A i \in Places(p) : Abs(Chosen(p, a, i) - p.questions[i].employerValue) = 0
    BY <1>1 DEF Keyed, Distance, Chosen
  <2>2. flags(p, a) = {}
    <3>1. ~(0 >= 2)
      OBVIOUS
    <3> QED BY <1>1, <2>1, <3>1 DEF flags, Answered
  <2>3. ASSUME NEW s \in Groups(p) PROVE AtMost(One, sectionAlignment(p, a, s))
    <3> DEFINE f == Items(p, a, s)
    <3>1. DOMAIN f # {}
      <4>1. PICK i \in Places(p) : p.questions[i].section = s
        BY DEF Groups
      <4>2. i \in Answered(p, a, Members(p, s))
        BY <4>1 DEF Keyed, Answered, Members
      <4> QED BY <1>1, <4>2, ItemsAre
    <3>2. \A i \in DOMAIN f : AtMost(One, f[i])
      <4> TAKE i \in DOMAIN f
      <4>1. /\ f[i] = itemAlignment(p.questions[i], Chosen(p, a, i)) /\ i \in Places(p)
            /\ Scorable(p.questions[i], "ALIGNMENT") /\ Chosen(p, a, i) \in Nat
        BY <1>1, ItemsAre
      <4> HIDE DEF f
      <4> QED BY <2>1, <4>1, AlignmentBy
    <3>3. Fractions(f) /\ sectionAlignment(p, a, s) = Mean(f)
      BY <1>1, ItemsAre DEF Units
    <3> HIDE DEF f
    <3> QED BY <3>1, <3>2, <3>3, MeanOnes
  <2> QED BY <1>1, <2>2, <2>3, ScoreFull DEF scoreAttempt
<1>2. CASE p.method = "CORRECT_ANSWER"
  <2>1. Keyed(p, a) <=> Right(p, a) = Places(p)
    BY <1>2, Answer DEF Keyed, Distance, Right, Answered
  <2>2. AtMost(One, <<Cardinality(Right(p, a)), 3>>) <=> Cardinality(Right(p, a)) = 3
    <3>1. Cardinality(Right(p, a)) \in 0 .. 3
      BY CorrectIs
    <3> DEFINE n == Cardinality(Right(p, a))
    <3>2. n \in 0 .. 3
      BY <3>1
    <3> HIDE DEF n
    <3>3. AtMost(One, <<n, 3>>) <=> n = 3
      BY <3>2 DEF AtMost, One
    <3> QED BY <3>3 DEF n
  <2>3. scoreAttempt(p, a) = <<Cardinality(Right(p, a)), 3>>
    BY <1>2, CorrectIs DEF scoreAttempt
  <2> QED BY <1>2, <2>1, <2>2, <2>3, CorrectIs DEF flags
<1> QED BY <1>1, <1>2 DEF PaperTrue, Methods

LEMMA ScoreOfBlanks ==
    ASSUME NEW p, PaperTrue(p), NEW a, AnswersTo(p, a), Answered(p, a, Places(p)) = {}
    PROVE  scoreAttempt(p, a)[1] = 0
<1>1. CASE p.method = "ALIGNMENT"
  <2>1. ASSUME NEW s \in Groups(p) PROVE sectionAlignment(p, a, s)[1] = 0
    <3>1. DOMAIN Items(p, a, s) = {}
      <4>1. Answered(p, a, Members(p, s)) = {}
        BY DEF Answered, Members
      <4> QED BY <1>1, <4>1, ItemsAre
    <3>2. sectionAlignment(p, a, s) = Zero
      BY <1>1, <3>1, ItemsAre DEF Mean
    <3> QED BY <3>2 DEF Zero
  <2> QED BY <1>1, <2>1, ScoreNothing DEF scoreAttempt
<1>2. CASE p.method # "ALIGNMENT"
  <2>1. Right(p, a) = {}
    BY DEF Right
  <2>2. scoreAttempt(p, a) = <<0, 3>>
    BY <1>2, <2>1, CorrectIs DEF scoreAttempt
  <2> QED BY <2>2
<1> QED BY <1>1, <1>2

LEMMA CloserScoresMore ==
    ASSUME NEW p, PaperTrue(p), NEW a, AnswersTo(p, a),
           NEW i \in Places(p), NEW o \in DOMAIN p.questions[i].options, Closer(p, a, i, o),
           NEW b, Instead(p, a, i, o, b)
    PROVE  AtMost(scoreAttempt(p, a), scoreAttempt(p, b)) /\ flags(p, b) \subseteq flags(p, a)
<1>1. /\ AnswersTo(p, b) /\ b[i] = o /\ o # None /\ \A k \in Places(p) : k # i => b[k] = a[k]
      /\ Answered(p, b, Places(p)) = Answered(p, a, Places(p)) \cup {i}
  BY AnswerChanged DEF Instead
<1>2. CASE p.method = "ALIGNMENT"
  <2>1. AtMost(scoreAlignment(p, a), scoreAlignment(p, b))
    BY <1>1, <1>2, SectionMono, ScoreMono
  <2>2. ASSUME NEW k \in flags(p, b) PROVE k \in flags(p, a)
    <3>1. k \in Answered(p, b, Places(p)) /\ Abs(Chosen(p, b, k) - p.questions[k].employerValue) >= 2
      BY <1>2 DEF flags
    <3>2. CASE k # i
      <4>1. k \in Answered(p, a, Places(p)) /\ Chosen(p, b, k) = Chosen(p, a, k)
        BY <1>1, <3>1, <3>2 DEF Chosen, Answered
      <4> QED BY <1>2, <3>1, <4>1 DEF flags
    <3>3. CASE k = i
      <4> DEFINE q == p.questions[i]
                 new == Abs(q.options[o].value - q.employerValue)
                 old == Abs(q.options[a[i]].value - q.employerValue)
      <4>0. Scorable(q, "ALIGNMENT")
        BY <1>2 DEF PaperTrue
      <4>1. new >= 2 /\ new \in Nat
        <5>1. new \in Nat
          BY <4>0, Gaps, AlignmentBy
        <5> QED BY <1>1, <3>1, <3>3, <5>1 DEF Chosen
      <4>2. a[i] # None /\ new < old
        <5>1. new # 0
          BY <4>1
        <5> QED BY <1>2, <5>1 DEF Closer, Distance
      <4>3. a[i] \in DOMAIN q.options /\ i \in Answered(p, a, Places(p))
        BY <4>2, Answer DEF Answered
      <4>4. old \in Nat
        BY <4>0, <4>3, Gaps, AlignmentBy
      <4>5. old >= 2
        <5> HIDE DEF old, new
        <5> QED BY <4>1, <4>2, <4>4
      <4> QED BY <1>2, <3>3, <4>3, <4>5 DEF flags, Chosen
    <3> QED BY <3>2, <3>3
  <2> QED BY <1>2, <2>1, <2>2 DEF scoreAttempt
<1>3. CASE p.method = "CORRECT_ANSWER"
  <2>1. Right(p, a) \subseteq Right(p, b)
    <3> SUFFICES ASSUME NEW k \in Right(p, a) PROVE k \in Right(p, b)
      OBVIOUS
    <3>1. k \in Places(p) /\ a[k] # None /\ p.questions[k].options[a[k]].correct
      BY DEF Right, Answered
    <3>2. CASE k = i
      <4>1. Distance(p, p.questions[i], a[i]) = 0
        BY <1>3, <3>1, <3>2 DEF Distance
      <4>2. Distance(p, p.questions[i], o) \in {0, 1}
        BY <1>3 DEF Distance
      <4>3. ~(0 < 0) /\ ~(1 < 0)
        OBVIOUS
      <4> QED BY <3>1, <3>2, <4>1, <4>2, <4>3 DEF Closer
    <3>3. CASE k # i
      BY <1>1, <3>1, <3>3 DEF Right, Answered
    <3> QED BY <3>2, <3>3
  <2>2. Cardinality(Right(p, a)) <= Cardinality(Right(p, b))
    <3>1. IsFiniteSet(Right(p, b))
      BY <1>1, CorrectIs, Answer, FS_Subset
    <3> QED BY <2>1, <3>1, FS_Subset
  <2> DEFINE n == Cardinality(Right(p, a)) m == Cardinality(Right(p, b))
  <2>3. /\ n \in Nat /\ m \in Nat /\ n <= m
        /\ scoreAttempt(p, a) = <<n, 3>> /\ scoreAttempt(p, b) = <<m, 3>>
    BY <1>1, <1>3, <2>2, CorrectIs DEF scoreAttempt
  <2> HIDE DEF n, m
  <2>4. AtMost(scoreAttempt(p, a), scoreAttempt(p, b))
    BY <2>3 DEF AtMost
  <2> QED BY <1>3, <2>4 DEF flags
<1> QED BY <1>2, <1>3 DEF PaperTrue, Methods

LEMMA FairAnswers == WInv => ScoresAreFair
<1> SUFFICES ASSUME At("answered"), PaperTrue(work.paper), AnswersTo(work.paper, work.answers)
             PROVE  ScoresAreFair
  BY DEF WInv, ScoresAreFair
<1> DEFINE sent == work.paper a == work.answers now == scoreAttempt(sent, a)
           given == Answered(sent, a, Places(sent))
           far(i, o) == Distance(sent, sent.questions[i], o)
<1> HIDE DEF sent, a
<1>0. PaperTrue(sent) /\ AnswersTo(sent, a)
  BY DEF sent, a
<1>1. now \in Frac /\ AtMost(Zero, now) /\ AtMost(now, One)
  BY <1>0, ScoreType, ZeroOne DEF Unit
<1>2. bandFor(sent.bands, now) # None
  BY <1>0, <1>1, BandIs, NoneAssumption DEF PaperTrue
<1>3. given = Places(sent) /\ (\A i \in given : far(i, a[i]) = 0) <=> Keyed(sent, a)
  BY DEF Keyed, Answered
<1>4. given = {} => Same(now, Zero)
  <2>1. given = {} => now[1] = 0
    BY <1>0, ScoreOfBlanks
  <2> QED BY <1>1, <2>1, ZeroOne, AtMostZero DEF Same
<1>5. ASSUME NEW i \in Places(sent), NEW o \in DOMAIN sent.questions[i].options,
             IF i \in given THEN far(i, o) < far(i, a[i]) ELSE far(i, o) = 0
      PROVE  LET then == [a EXCEPT ![i] = o]
             IN  /\ AtMost(now, scoreAttempt(sent, then))
                 /\ AtMost(bandFor(sent.bands, now), bandFor(sent.bands, scoreAttempt(sent, then)))
                 /\ flags(sent, then) \subseteq flags(sent, a)
  <2> DEFINE then == [a EXCEPT ![i] = o]
  <2>1. i \in given <=> a[i] # None
    BY DEF Answered
  <2>2. Closer(sent, a, i, o)
    BY <1>5, <2>1 DEF Closer
  <2>3. Instead(sent, a, i, o, then)
    BY <1>0 DEF Instead, AnswersTo
  <2> HIDE DEF then, now
  <2>4. AtMost(now, scoreAttempt(sent, then)) /\ flags(sent, then) \subseteq flags(sent, a)
    BY <1>0, <2>2, <2>3, CloserScoresMore DEF now
  <2>5. scoreAttempt(sent, then) \in Frac
    BY <1>0, <2>3, AnswerChanged, ScoreType DEF Unit
  <2>6. AtMost(bandFor(sent.bands, now), bandFor(sent.bands, scoreAttempt(sent, then)))
    BY <1>0, <1>1, <2>4, <2>5, BandMono DEF PaperTrue
  <2> QED BY <2>4, <2>6 DEF then
<1>6. Keyed(sent, a) => Same(now, One) /\ flags(sent, a) = {}
  BY <1>0, <1>1, ScoreOfKeys DEF Same
<1>7. Same(now, One) /\ sent.method = "CORRECT_ANSWER" => Keyed(sent, a)
  BY <1>0, ScoreOfKeys DEF Same
<1> QED BY <1>1, <1>2, <1>3, <1>4, <1>5, <1>6, <1>7 DEF ScoresAreFair, sent, a

-----------------------------------------------------------------------------
(* The orders a test is shown in.  Fisher-Yates makes each order of the items *)
(* by exactly one draw, however many there are: two runs with different draws *)
(* differ from the place of the last difference on, and the items of any      *)
(* order can be brought to their places one by one, from the last down.       *)

LEMMA SmallestNumber ==
    ASSUME NEW m \in Nat, NEW Bad \in SUBSET (0 .. m), Bad # {}
    PROVE  \E k \in Bad : \A j \in Bad : k <= j
<1> DEFINE Below == {T \in SUBSET (0 .. m) : \E k \in Bad : T = 0 .. k}
<1>1. IsFiniteSet(0 .. m)
  BY FS_Interval
<1>2. Below # {} /\ Below \in SUBSET (SUBSET (0 .. m))
  <2>1. PICK k \in Bad : TRUE
    OBVIOUS
  <2>2. 0 .. k \in SUBSET (0 .. m)
    OBVIOUS
  <2> QED BY <2>2
<1>3. PICK U \in Below : \A V \in Below : V \subseteq U => V = U
  <2> DEFINE all == 0 .. m
  <2>1. IsFiniteSet(all) /\ Below # {} /\ Below \in SUBSET (SUBSET all)
    BY <1>1, <1>2
  <2> HIDE DEF Below, all
  <2> QED BY <2>1, SmallestSubset
<1>4. PICK k \in Bad : U = 0 .. k
  OBVIOUS
<1>5. ASSUME NEW j \in Bad, j < k PROVE FALSE
  <2>1. 0 .. j \in Below
    <3>1. 0 .. j \in SUBSET (0 .. m)
      OBVIOUS
    <3> QED BY <3>1
  <2>2. 0 .. j \subseteq U /\ k \in U /\ k \notin 0 .. j
    BY <1>4, <1>5
  <2> QED BY <1>3, <2>1, <2>2
<1>6. \A j \in Bad : j \in Int /\ k \in Int
  OBVIOUS
<1> QED BY <1>5, <1>6

LEMMA HighestOf ==
    ASSUME NEW n \in Nat, NEW T, T # {}, \A x \in T : x \in Int /\ x >= 1 /\ x <= n
    PROVE  \E x \in T : \A y \in T : x >= y
<1> DEFINE Far == {y \in 0 .. n : n - y \in T}
<1>1. PICK t \in T : TRUE
  OBVIOUS
<1>2. \A x \in T : n - x \in Far
  OBVIOUS
<1>3. Far # {} /\ Far \in SUBSET (0 .. n)
  BY <1>1, <1>2
<1>4. PICK y \in Far : \A z \in Far : y <= z
  <2> HIDE DEF Far
  <2> QED BY <1>3, SmallestNumber
<1>5. n - y \in T /\ \A x \in T : n - y >= x
  BY <1>2, <1>4
<1> QED BY <1>5

\* What holds at 0 and goes from each number to the next holds up to m.
LEMMA UpTo ==
    ASSUME NEW m \in Nat, NEW Good,
           0 \in Good, \A k \in 0 .. (m - 1) : k \in Good => k + 1 \in Good
    PROVE  \A k \in 0 .. m : k \in Good
<1> DEFINE Bad == {k \in 0 .. m : k \notin Good}
<1>1. ASSUME Bad # {} PROVE FALSE
  <2>1. PICK k \in Bad : \A j \in Bad : k <= j
    <3>1. Bad \in SUBSET (0 .. m)
      OBVIOUS
    <3> HIDE DEF Bad
    <3> QED BY <1>1, <3>1, SmallestNumber
  <2>2. k # 0 /\ k \in 0 .. m
    OBVIOUS
  <2>3. k - 1 \in 0 .. (m - 1) /\ k - 1 \in 0 .. m /\ ~(k <= k - 1) /\ (k - 1) + 1 = k
    BY <2>2
  <2>4. k - 1 \in Good
    BY <2>1, <2>3
  <2> QED BY <2>3, <2>4
<1> QED BY <1>1

-----------------------------------------------------------------------------
(* The shuffle.                                                            *)

\* The property counts what an order reaches: it reaches all, none twice.
LEMMA PermutedIs ==
    ASSUME NEW S, IsFiniteSet(S)
    PROVE  /\ Cardinality(S) \in Nat
           /\ \A p : p \in Permuted(S) <=>
                /\ p \in [1 .. Cardinality(S) -> S]
                /\ \A i, k \in 1 .. Cardinality(S) : p[i] = p[k] => i = k
           /\ \A p \in Permuted(S) : \A x \in S : \E i \in 1 .. Cardinality(S) : p[i] = x
<1> DEFINE n == Cardinality(S)
<1>1. n \in Nat
  BY FS_CardinalityType
<1>2. IsFiniteSet(1 .. n) /\ Cardinality(1 .. n) = n
  BY <1>1, FS_Interval
<1>3. ASSUME NEW p \in [1 .. n -> S]
      PROVE  /\ Cardinality(Range(p)) = n <=> \A i, k \in 1 .. n : p[i] = p[k] => i = k
             /\ Cardinality(Range(p)) = n => \A x \in S : \E i \in 1 .. n : p[i] = x
  <2> HIDE DEF n
  <2>1. p \in Surjection(1 .. n, Range(p)) /\ Range(p) \in SUBSET S
    BY DEF Surjection, Range
  <2>2. Cardinality(Range(p)) = n <=> p \in Injection(1 .. n, Range(p))
    BY <1>2, <2>1, FS_Surjection
  <2>3. p \in Injection(1 .. n, Range(p)) <=> \A i, k \in 1 .. n : p[i] = p[k] => i = k
    BY DEF Injection, IsInjective, Range
  <2>4. Cardinality(Range(p)) = n => Range(p) = S
    BY <2>1, FS_Subset DEF n
  <2> QED BY <2>2, <2>3, <2>4 DEF Range
<1> QED BY <1>1, <1>3 DEF Permuted

\* One step of the shuffle, and all of them: G is what the list is after each.
Swapped(s, i, j) == [s EXCEPT ![i] = s[j], ![j] = s[i]]

Steps(n) == IF n = 0 THEN 0 ELSE n - 1

IsRun(G, items, d, n) ==
    /\ G[0] = items
    /\ \A k \in 1 .. Steps(n) : G[k] = Swapped(G[k - 1], n + 1 - k, d[n + 1 - k])

IsShuffle(G, items, d, n, S) ==
    /\ IsRun(G, items, d, n)
    /\ \A k \in 0 .. Steps(n) : G[k] \in [1 .. n -> S]
    /\ shuffled(items, d) = G[Steps(n)]

\* shuffled() takes the steps one after the other.
LEMMA ShuffledRuns ==
    ASSUME NEW n \in Nat, NEW S, NEW items \in [1 .. n -> S], NEW d \in Draws(n)
    PROVE  \E G : IsShuffle(G, items, d, n, S)
<1> DEFINE m == Steps(n)
           L == [1 .. n -> S]
           D == 1 .. (n - 1)
           steps == [k \in D |-> n + 1 - k]
           pick == [T \in SUBSET D |-> CHOOSE x \in T : \A y \in T : x >= y]
           step == [p \in D \X L |-> Swapped(p[2], steps[p[1]], d[steps[p[1]]])]
           iter == CHOOSE iter : iter = [s \in SUBSET D |->
                       IF s = {} THEN items
                       ELSE Swapped(iter[s \ {CHOOSE x \in s : \A y \in s : x >= y}],
                                    steps[CHOOSE x \in s : \A y \in s : x >= y],
                                    d[steps[CHOOSE x \in s : \A y \in s : x >= y]])]
<1>0. Len(items) = n /\ D = 1 .. m /\ m \in Nat /\ IsFiniteSet(D)
  <2>1. D = 1 .. m /\ m \in Nat
    BY DEF Steps
  <2>2. items \in Seq(S) /\ Len(items) = n
    OBVIOUS
  <2> QED BY <2>1, <2>2, FS_Interval
<1>1. shuffled(items, d) = iter[D]
  BY <1>0 DEF shuffled, FoldLeft, MapThenFoldSet, Max, Swapped
<1>2. \A T \in SUBSET D : T # {} => pick[T] \in T /\ \A y \in T : pick[T] >= y
  <2> TAKE T \in SUBSET D
  <2> HAVE T # {}
  <2>1. \A x \in T : x \in Int /\ x >= 1 /\ x <= n
    OBVIOUS
  <2>2. \E x \in T : \A y \in T : x >= y
    BY <2>1, HighestOf
  <2> QED BY <2>2
<1>3. step \in [D \X L -> L]
  <2>1. ASSUME NEW k \in D, NEW s \in L
        PROVE  Swapped(s, steps[k], d[steps[k]]) \in L
    <3>1. steps[k] \in 2 .. n
      OBVIOUS
    <3>2. d[steps[k]] \in 1 .. n
      BY <3>1 DEF Draws
    <3>3. PICK i \in 1 .. n, j \in 1 .. n : i = steps[k] /\ j = d[steps[k]]
      BY <3>1, <3>2
    <3>4. Swapped(s, i, j) \in L
      BY DEF Swapped
    <3> QED BY <3>3, <3>4
  <2> QED BY <2>1
<1>4. PICK g : IsFold(g, D, pick, step, items, L)
  <2> HIDE DEF pick, step, L, D
  <2> QED BY <1>0, <1>2, <1>3, FoldExists DEF L
<1>5. /\ g \in [SUBSET D -> L] /\ g[{}] = items
      /\ \A T \in SUBSET D : T # {} =>
            g[T] = Swapped(g[T \ {pick[T]}], steps[pick[T]], d[steps[pick[T]]])
  <2>1. ASSUME NEW T \in SUBSET D, T # {}
        PROVE  g[T] = Swapped(g[T \ {pick[T]}], steps[pick[T]], d[steps[pick[T]]])
    <3> HIDE DEF pick, L, D, steps
    <3>1. pick[T] \in T
      BY <1>2, <2>1
    <3> DEFINE p == <<pick[T], g[T \ {pick[T]}]>>
    <3>2. g[T] = step[p] /\ p \in D \X L
      BY <1>4, <2>1, <3>1 DEF IsFold
    <3>3. p[1] = pick[T] /\ p[2] = g[T \ {pick[T]}]
      OBVIOUS
    <3> HIDE DEF p
    <3> QED BY <3>2, <3>3
  <2> QED BY <1>4, <2>1 DEF IsFold
<1>6. iter = g
  <2>1. g = [s \in SUBSET D |->
                       IF s = {} THEN items
                       ELSE Swapped(g[s \ {CHOOSE x \in s : \A y \in s : x >= y}],
                                    steps[CHOOSE x \in s : \A y \in s : x >= y],
                                    d[steps[CHOOSE x \in s : \A y \in s : x >= y]])]
    <3> HIDE DEF L, D, steps
    <3> QED BY <1>5
  <2>2. iter = [s \in SUBSET D |->
                       IF s = {} THEN items
                       ELSE Swapped(iter[s \ {CHOOSE x \in s : \A y \in s : x >= y}],
                                    steps[CHOOSE x \in s : \A y \in s : x >= y],
                                    d[steps[CHOOSE x \in s : \A y \in s : x >= y]])]
    <3> HIDE DEF L, D, steps
    <3> QED BY <2>1
  <2> HIDE DEF D, L, steps
  <2>3. \A T \in SUBSET D : T # {} =>
            iter[T] = Swapped(iter[T \ {pick[T]}], steps[pick[T]], d[steps[pick[T]]])
    <3> TAKE T \in SUBSET D
    <3> HAVE T # {}
    <3>1. PICK z : z = CHOOSE x \in T : \A y \in T : x >= y
      OBVIOUS
    <3>2. pick[T] = z
      BY <3>1
    <3> HIDE DEF iter, pick
    <3>3. iter[T] = Swapped(iter[T \ {z}], steps[z], d[steps[z]])
      BY <2>2, <3>1
    <3> QED BY <3>2, <3>3
  <2>4. iter[{}] = items /\ iter = [s \in SUBSET D |-> iter[s]]
    <3> HIDE DEF iter
    <3> QED BY <2>2
  <2> HIDE DEF iter, pick
  <2> DEFINE Bad == {T \in SUBSET D : iter[T] # g[T]}
  <2>5. ASSUME Bad # {} PROVE FALSE
    <3>1. Bad \in SUBSET (SUBSET D) /\ IsFiniteSet(D)
      BY <1>0
    <3>2. PICK U \in Bad : \A V \in Bad : V \subseteq U => V = U
      <4> HIDE DEF Bad
      <4> QED BY <2>5, <3>1, SmallestSubset
    <3>3. U # {} /\ U \in SUBSET D /\ pick[U] \in U
      BY <1>2, <1>5, <2>4
    <3>4. iter[U \ {pick[U]}] = g[U \ {pick[U]}]
      BY <3>2, <3>3
    <3>5. iter[U] = g[U]
      BY <1>5, <2>3, <3>3, <3>4
    <3> QED BY <3>5
  <2>6. \A T \in SUBSET D : iter[T] = g[T]
    BY <2>5
  <2> QED BY <1>5, <2>4, <2>6
<1> DEFINE G == [k \in 0 .. m |-> g[1 .. k]]
<1> HIDE DEF iter, step
<1>7. \A k \in 1 .. m : G[k] = Swapped(G[k - 1], n + 1 - k, d[n + 1 - k])
  <2> TAKE k \in 1 .. m
  <2>1. 1 .. k \in SUBSET D /\ k \in 1 .. k /\ (1 .. k) \ {k} = 1 .. (k - 1) /\ k \in D
    BY <1>0
  <2>2. pick[1 .. k] = k
    <3> PICK T \in SUBSET D : T = 1 .. k
      BY <2>1
    <3>1. pick[T] \in T /\ \A y \in T : pick[T] >= y
      <4> HIDE DEF pick
      <4> QED BY <1>2, <2>1
    <3> HIDE DEF pick
    <3> QED BY <2>1, <3>1
  <2>3. g[1 .. k] = Swapped(g[1 .. (k - 1)], steps[k], d[steps[k]])
    <3> HIDE DEF pick, steps
    <3>1. 1 .. k # {}
      BY <2>1
    <3> QED BY <1>5, <2>1, <2>2, <3>1
  <2>4. steps[k] = n + 1 - k
    BY <2>1
  <2>5. G[k] = g[1 .. k] /\ G[k - 1] = g[1 .. (k - 1)]
    BY <1>0
  <2> QED BY <2>3, <2>4, <2>5
<1>8. G[0] = items /\ G[m] = g[D] /\ \A k \in 0 .. m : G[k] \in L
  <2>1. 1 .. 0 = {} /\ \A k \in 0 .. m : 1 .. k \in SUBSET D
    BY <1>0
  <2> HIDE DEF L, pick, steps
  <2> QED BY <1>0, <1>5, <2>1
<1>9. IsRun(G, items, d, n)
  BY <1>7, <1>8 DEF IsRun
<1>10. IsShuffle(G, items, d, n, S)
  BY <1>1, <1>6, <1>8, <1>9 DEF IsShuffle
<1> QED BY <1>10

\* What a list of n can be while it is shuffled: any order of the same.
Arranged(n, S) ==
    {s \in [1 .. n -> S] : /\ \A i, k \in 1 .. n : s[i] = s[k] => i = k
                           /\ \A x \in S : \E i \in 1 .. n : s[i] = x}

LEMMA SwappedIs ==
    ASSUME NEW n \in Nat, NEW S, NEW s \in Arranged(n, S), NEW i \in 1 .. n, NEW j \in 1 .. n
    PROVE  /\ Swapped(s, i, j) \in Arranged(n, S)
           /\ Swapped(s, i, j)[i] = s[j]
           /\ \A k \in 1 .. n : k # i /\ k # j => Swapped(s, i, j)[k] = s[k]
<1> DEFINE t == Swapped(s, i, j)
           to(k) == IF k = i THEN j ELSE IF k = j THEN i ELSE k
<1>1. s \in [1 .. n -> S]
  BY DEF Arranged
<1>2. t \in [1 .. n -> S] /\ \A k \in 1 .. n : t[k] = s[to(k)]
  BY <1>1 DEF Swapped
<1>3. \A k \in 1 .. n : to(k) \in 1 .. n /\ to(to(k)) = k
  OBVIOUS
<1> HIDE DEF t
<1>4. \A k, l \in 1 .. n : t[k] = t[l] => k = l
  <2> TAKE k, l \in 1 .. n
  <2> HAVE t[k] = t[l]
  <2>1. to(k) = to(l)
    <3>1. s[to(k)] = s[to(l)] /\ to(k) \in 1 .. n /\ to(l) \in 1 .. n
      BY <1>2, <1>3
    <3> HIDE DEF to
    <3> QED BY <3>1 DEF Arranged
  <2> QED BY <2>1
<1>5. \A x \in S : \E k \in 1 .. n : t[k] = x
  <2> TAKE x \in S
  <2>1. PICK k \in 1 .. n : s[k] = x
    BY DEF Arranged
  <2>2. to(k) \in 1 .. n /\ t[to(k)] = x
    BY <1>2, <1>3, <2>1
  <2> QED BY <2>2
<1>6. t[i] = s[j] /\ \A k \in 1 .. n : k # i /\ k # j => t[k] = s[k]
  BY <1>2
<1>7. t \in Arranged(n, S)
  BY <1>2, <1>4, <1>5 DEF Arranged
<1> QED BY <1>6, <1>7 DEF t

\* Nothing is lost, and what lies above the place of a step stays.
LEMMA RunIs ==
    ASSUME NEW n \in Nat, NEW S, NEW items \in Arranged(n, S), NEW d \in Draws(n),
           NEW G, IsRun(G, items, d, n)
    PROVE  /\ \A k \in 0 .. Steps(n) : G[k] \in Arranged(n, S)
           /\ \A k \in 1 .. Steps(n) : LET i == n + 1 - k IN
                /\ i \in 2 .. n /\ d[i] \in 1 .. i /\ G[k][i] = G[k - 1][d[i]]
                /\ \A j \in (i + 1) .. n : G[k][j] = G[k - 1][j]
           /\ \A k \in 0 .. Steps(n) : \A j \in (n + 1 - k) .. n : G[Steps(n)][j] = G[k][j]
<1> DEFINE m == Steps(n)
<1>0. m \in Nat /\ \A k \in 1 .. m : /\ n + 1 - k \in 2 .. n /\ d[n + 1 - k] \in 1 .. (n + 1 - k)
                                     /\ d[n + 1 - k] \in 1 .. n /\ n + 1 - k \in 1 .. n
  <2>1. m \in Nat /\ (n = 0 => m = 0) /\ (n > 0 => m = n - 1)
    BY DEF Steps
  <2> HIDE DEF m
  <2>2. \A k \in 1 .. m : n + 1 - k \in 2 .. n
    BY <2>1
  <2>3. \A i \in 2 .. n : d[i] \in 1 .. i /\ d[i] \in 1 .. n
    BY DEF Draws
  <2> QED BY <2>1, <2>2, <2>3
<1>1. G[0] = items /\ \A k \in 1 .. m : G[k] = Swapped(G[k - 1], n + 1 - k, d[n + 1 - k])
  BY DEF IsRun
<1> HIDE DEF m
<1>2. \A k \in 0 .. m : G[k] \in Arranged(n, S)
  <2> DEFINE Good == {k \in Nat : G[k] \in Arranged(n, S)}
  <2>1. 0 \in Good
    BY <1>1
  <2>2. \A k \in 0 .. (m - 1) : k \in Good => k + 1 \in Good
    <3> TAKE k \in 0 .. (m - 1)
    <3> HAVE k \in Good
    <3>1. k + 1 \in 1 .. m /\ (k + 1) - 1 = k
      BY <1>0
    <3>2. G[k + 1] = Swapped(G[k], n + 1 - (k + 1), d[n + 1 - (k + 1)])
      BY <1>1, <3>1
    <3>3. PICK i \in 1 .. n, j \in 1 .. n : i = n + 1 - (k + 1) /\ j = d[n + 1 - (k + 1)]
      BY <1>0, <3>1
    <3>4. G[k + 1] = Swapped(G[k], i, j) /\ G[k] \in Arranged(n, S)
      BY <3>2, <3>3
    <3>5. G[k + 1] \in Arranged(n, S)
      <4>1. PICK s \in Arranged(n, S) : s = G[k]
        BY <3>4
      <4>2. Swapped(s, i, j) \in Arranged(n, S)
        BY SwappedIs
      <4> QED BY <3>4, <4>1, <4>2
    <3> QED BY <3>5
  <2> HIDE DEF Good
  <2>3. \A k \in 0 .. m : k \in Good
    BY <1>0, <2>1, <2>2, UpTo
  <2> QED BY <2>3 DEF Good
<1>3. ASSUME NEW k \in 1 .. m
      PROVE  LET i == n + 1 - k IN
                /\ i \in 2 .. n /\ d[i] \in 1 .. i /\ G[k][i] = G[k - 1][d[i]]
                /\ \A j \in (i + 1) .. n : G[k][j] = G[k - 1][j]
  <2> DEFINE i == n + 1 - k
  <2>1. i \in 2 .. n /\ d[i] \in 1 .. i /\ i \in 1 .. n /\ d[i] \in 1 .. n
    BY <1>0
  <2>2. G[k] = Swapped(G[k - 1], i, d[i]) /\ k - 1 \in 0 .. m
    BY <1>0, <1>1
  <2>3. G[k - 1] \in Arranged(n, S)
    BY <1>2, <2>2
  <2> HIDE DEF i
  <2>4. /\ G[k][i] = G[k - 1][d[i]]
        /\ \A j \in 1 .. n : j # i /\ j # d[i] => G[k][j] = G[k - 1][j]
    <3>1. PICK s \in Arranged(n, S), l \in 1 .. n : s = G[k - 1] /\ l = d[i]
      BY <2>1, <2>3
    <3>2. Swapped(s, i, l)[i] = s[l] /\ \A j \in 1 .. n : j # i /\ j # l => Swapped(s, i, l)[j] = s[j]
      BY <2>1, SwappedIs
    <3> QED BY <2>2, <3>1, <3>2
  <2>5. \A j \in (i + 1) .. n : j \in 1 .. n /\ j # i /\ j # d[i]
    BY <2>1
  <2> QED BY <2>1, <2>4, <2>5 DEF i
<1>4. ASSUME NEW k \in 0 .. m, NEW j \in (n + 1 - k) .. n
      PROVE  G[m][j] = G[k][j]
  <2> DEFINE Good == {l \in Nat : l >= k => G[l][j] = G[k][j]}
  <2>1. 0 \in Good
    BY <1>0
  <2>2. \A l \in 0 .. (m - 1) : l \in Good => l + 1 \in Good
    <3> TAKE l \in 0 .. (m - 1)
    <3> HAVE l \in Good
    <3>1. l + 1 \in 1 .. m /\ (l + 1) - 1 = l /\ l \in Nat
      BY <1>0
    <3>2. CASE l >= k
      <4>1. j \in ((n + 1 - (l + 1)) + 1) .. n
        BY <1>0, <3>1, <3>2
      <4>2. G[l + 1][j] = G[l][j]
        BY <1>3, <3>1, <4>1
      <4> QED BY <3>1, <3>2, <4>2
    <3>3. CASE l + 1 = k
      BY <3>1, <3>3
    <3>4. CASE l + 1 < k
      BY <3>1, <3>4, <1>0
    <3> QED BY <3>1, <3>2, <3>3, <3>4, <1>0
  <2> HIDE DEF Good
  <2>3. \A l \in 0 .. m : l \in Good
    BY <1>0, <2>1, <2>2, UpTo
  <2>4. m \in Good
    BY <1>0, <2>3
  <2> QED BY <1>0, <2>4 DEF Good
<1> QED BY <1>2, <1>3, <1>4 DEF m

\* Up to a step only the draws so far matter.
LEMMA SameSoFar ==
    ASSUME NEW n \in Nat, NEW items, NEW d, NEW e, NEW G, NEW H,
           IsRun(G, items, d, n), IsRun(H, items, e, n), NEW k \in 0 .. Steps(n),
           \A i \in (n + 1 - k) .. n : i >= 2 => d[i] = e[i]
    PROVE  G[k] = H[k]
<1> DEFINE Good == {l \in Nat : l <= k => G[l] = H[l]}
<1>0. Steps(n) \in Nat /\ k \in Nat /\ k <= Steps(n) /\ (n > 0 => Steps(n) = n - 1) /\ (n = 0 => Steps(n) = 0)
  BY DEF Steps
<1>1. 0 \in Good
  BY DEF IsRun
<1>2. \A l \in 0 .. (k - 1) : l \in Good => l + 1 \in Good
  <2> TAKE l \in 0 .. (k - 1)
  <2> HAVE l \in Good
  <2> DEFINE i == n + 1 - (l + 1)
  <2>1. l + 1 \in 1 .. Steps(n) /\ (l + 1) - 1 = l /\ i \in (n + 1 - k) .. n /\ i >= 2 /\ l <= k
    BY <1>0
  <2>2. d[i] = e[i] /\ G[l] = H[l]
    BY <2>1
  <2>3. G[l + 1] = Swapped(G[l], i, d[i]) /\ H[l + 1] = Swapped(H[l], i, e[i])
    <3> HIDE DEF Good
    <3> QED BY <2>1 DEF IsRun
  <2> QED BY <2>2, <2>3
<1> HIDE DEF Good
<1>3. k \in Good
  <2>1. \A l \in 0 .. k : l \in Good
    BY <1>0, <1>1, <1>2, UpTo
  <2>2. k \in 0 .. k
    BY <1>0
  <2> QED BY <2>1, <2>2
<1> QED BY <1>0, <1>3 DEF Good

\* Different draws leave different orders.
LEMMA DrawsDiffer ==
    ASSUME NEW n \in Nat, NEW S, NEW items \in Arranged(n, S), NEW d \in Draws(n), NEW e \in Draws(n),
           NEW G, NEW H, IsRun(G, items, d, n), IsRun(H, items, e, n),
           G[Steps(n)] = H[Steps(n)]
    PROVE  d = e
<1> DEFINE m == Steps(n)
           Good == {k \in Nat : \A i \in (n + 1 - k) .. n : i >= 2 => d[i] = e[i]}
<1>0. m \in Nat /\ (n > 0 => m = n - 1) /\ (n = 0 => m = 0)
  BY DEF Steps
<1> HIDE DEF m
<1>1. 0 \in Good
  OBVIOUS
<1>2. \A k \in 0 .. (m - 1) : k \in Good => k + 1 \in Good
  <2> TAKE k \in 0 .. (m - 1)
  <2> HAVE k \in Good
  <2>0. PICK i : i = n + 1 - (k + 1)
    OBVIOUS
  <2>1. k + 1 \in 1 .. m /\ (k + 1) - 1 = k /\ k \in 0 .. m /\ i = n - k /\ i \in 2 .. n /\ k + 1 \in 0 .. m
    BY <1>0, <2>0
  <2>2. G[k] = H[k]
    BY <2>1, SameSoFar DEF m
  <2>3. /\ G[k] \in Arranged(n, S) /\ d[i] \in 1 .. i /\ e[i] \in 1 .. i
        /\ G[k + 1][i] = G[k][d[i]] /\ H[k + 1][i] = H[k][e[i]]
        /\ G[m][i] = G[k + 1][i] /\ H[m][i] = H[k + 1][i]
    <3>1. /\ G[k] \in Arranged(n, S) /\ d[i] \in 1 .. i
          /\ G[k + 1][i] = G[k][d[i]] /\ G[m][i] = G[k + 1][i]
      <4>1. i \in (n + 1 - (k + 1)) .. n
        BY <2>0, <2>1
      <4> HIDE DEF Good
      <4> QED BY <2>0, <2>1, <4>1, RunIs DEF m
    <3>2. e[i] \in 1 .. i /\ H[k + 1][i] = H[k][e[i]] /\ H[m][i] = H[k + 1][i]
      <4>1. i \in (n + 1 - (k + 1)) .. n
        BY <2>0, <2>1
      <4> HIDE DEF Good
      <4> QED BY <2>0, <2>1, <4>1, RunIs DEF m
    <3> QED BY <3>1, <3>2
  <2>4. d[i] = e[i]
    <3>1. d[i] \in 1 .. n /\ e[i] \in 1 .. n /\ G[k][d[i]] = G[k][e[i]]
      BY <2>1, <2>2, <2>3 DEF m
    <3>2. PICK s \in Arranged(n, S), a \in 1 .. n, b \in 1 .. n : s = G[k] /\ a = d[i] /\ b = e[i]
      BY <2>3, <3>1
    <3>3. \A x, y \in 1 .. n : s[x] = s[y] => x = y
      BY DEF Arranged
    <3>4. a = b
      BY <3>1, <3>2, <3>3
    <3> QED BY <3>2, <3>4
  <2>5. \A j \in (n + 1 - (k + 1)) .. n : j >= 2 => d[j] = e[j]
    <3> TAKE j \in (n + 1 - (k + 1)) .. n
    <3>1. j = i \/ j \in (n + 1 - k) .. n
      BY <2>0, <2>1
    <3> QED BY <2>4, <3>1
  <2> QED BY <2>5
<1> HIDE DEF Good
<1>3. m \in Good
  BY <1>0, <1>1, <1>2, UpTo
<1>4. \A i \in 2 .. n : d[i] = e[i]
  <2>1. \A i \in 2 .. n : i \in (n + 1 - m) .. n /\ i >= 2
    BY <1>0
  <2> QED BY <1>3, <2>1 DEF Good
<1> QED BY <1>4 DEF Draws

\* Every order can be drawn: for as many places as wanted from the last down.
LEMMA EveryOrder ==
    ASSUME NEW n \in Nat, NEW S, NEW items \in Arranged(n, S), NEW p \in Arranged(n, S)
    PROVE  \E d \in Draws(n) : shuffled(items, d) = p
<1> DEFINE m == Steps(n)
           Reached(d, k) == \E G : IsRun(G, items, d, n) /\ \A i \in (n + 1 - k) .. n : G[k][i] = p[i]
           Good == {k \in Nat : \E d \in Draws(n) : Reached(d, k)}
<1>0. m \in Nat /\ (n > 0 => m = n - 1) /\ (n = 0 => m = 0) /\ items \in [1 .. n -> S] /\ p \in [1 .. n -> S]
  BY DEF Steps, Arranged
<1>1. 0 \in Good
  <2> DEFINE d == [i \in 2 .. n |-> 1]
  <2>1. d \in Draws(n)
    BY DEF Draws
  <2> HIDE DEF d
  <2>2. \E G : IsRun(G, items, d, n)
    BY <1>0, <2>1, ShuffledRuns DEF IsShuffle
  <2>3. Reached(d, 0)
    <3>1. \A i \in (n + 1 - 0) .. n : FALSE
      OBVIOUS
    <3> QED BY <2>2, <3>1
  <2> QED BY <2>1, <2>3
<1>2. \A k \in 0 .. (m - 1) : k \in Good => k + 1 \in Good
  <2> TAKE k \in 0 .. (m - 1)
  <2> HAVE k \in Good
  <2>11. PICK d \in Draws(n) : Reached(d, k)
    OBVIOUS
  <2>1. PICK G : IsRun(G, items, d, n) /\ \A i \in (n + 1 - k) .. n : G[k][i] = p[i]
    BY <2>11
  <2>0. PICK i : i = n + 1 - (k + 1)
    OBVIOUS
  <2> HIDE DEF Good, m
  <2>2. k + 1 \in 1 .. m /\ (k + 1) - 1 = k /\ k \in 0 .. m /\ k \in Nat /\ i = n - k /\ i \in 2 .. n /\ i \in 1 .. n
    BY <1>0, <2>0
  <2>3. G[k] \in Arranged(n, S)
    BY <2>1, <2>2, RunIs DEF m
  <2>4. PICK j \in 1 .. n : G[k][j] = p[i]
    BY <1>0, <2>2, <2>3 DEF Arranged
  <2>5. j \in 1 .. i
    <3>1. ASSUME j > i PROVE FALSE
      <4>1. j \in (n + 1 - k) .. n
        BY <2>2, <3>1
      <4>2. p[j] = p[i] /\ j # i
        BY <2>1, <2>2, <2>4, <3>1, <4>1
      <4> QED BY <2>2, <4>2 DEF Arranged
    <3> QED BY <2>2, <3>1
  <2> DEFINE e == [d EXCEPT ![i] = j]
  <2>6. e \in Draws(n) /\ e[i] = j /\ \A l \in 2 .. n : l # i => e[l] = d[l]
    BY <2>2, <2>5 DEF Draws
  <2> HIDE DEF e
  <2>7. PICK H : IsRun(H, items, e, n)
    BY <1>0, <2>6, ShuffledRuns DEF IsShuffle
  <2>8. H[k] = G[k]
    <3>1. \A l \in (n + 1 - k) .. n : l >= 2 => e[l] = d[l]
      BY <2>2, <2>6
    <3> QED BY <2>1, <2>2, <2>7, <3>1, SameSoFar DEF m
  <2>9. H[k + 1][i] = H[k][j] /\ \A l \in (i + 1) .. n : H[k + 1][l] = H[k][l]
    BY <2>0, <2>2, <2>6, <2>7, RunIs DEF m
  <2>10. \A l \in (n + 1 - (k + 1)) .. n : H[k + 1][l] = p[l]
    <3> TAKE l \in (n + 1 - (k + 1)) .. n
    <3>1. CASE l = i
      BY <2>4, <2>8, <2>9, <3>1
    <3>2. CASE l # i
      <4>1. l \in (i + 1) .. n /\ l \in (n + 1 - k) .. n
        BY <2>0, <2>2, <3>2
      <4> QED BY <2>1, <2>8, <2>9, <4>1
    <3> QED BY <3>1, <3>2
  <2>12. Reached(e, k + 1)
    BY <2>7, <2>10
  <2>13. k + 1 \in Nat
    BY <2>2
  <2> HIDE DEF Reached
  <2> QED BY <2>6, <2>12, <2>13 DEF Good
<1>3. m \in Good
  <2> HIDE DEF Good, m
  <2>1. \A l \in 0 .. m : l \in Good
    BY <1>0, <1>1, <1>2, UpTo
  <2>2. m \in 0 .. m
    BY <1>0
  <2> QED BY <2>1, <2>2
<1>9. PICK d \in Draws(n) : Reached(d, m)
  BY <1>3
<1>4. PICK G : IsRun(G, items, d, n) /\ \A i \in (n + 1 - m) .. n : G[m][i] = p[i]
  BY <1>9
<1> HIDE DEF Good, Reached, m
<1>5. G[m] \in Arranged(n, S)
  BY <1>0, <1>4, RunIs DEF m
<1>6. G[m] = p
  <2>1. \A i \in 2 .. n : G[m][i] = p[i]
    <3>1. \A i \in 2 .. n : i \in (n + 1 - m) .. n
      BY <1>0
    <3> QED BY <1>4, <3>1
  <2>2. ASSUME n > 0 PROVE G[m][1] = p[1]
    <3>0. G[m] \in [1 .. n -> S] /\ 1 \in 1 .. n
      BY <1>5, <2>2 DEF Arranged
    <3>1. 1 \in 1 .. n /\ G[m][1] \in S
      BY <3>0
    <3>2. PICK i \in 1 .. n : p[i] = G[m][1]
      <4>1. \A x \in S : \E i \in 1 .. n : p[i] = x
        BY DEF Arranged
      <4> QED BY <3>1, <4>1
    <3>3. i = 1
      <4>1. ASSUME i # 1 PROVE FALSE
        <5>1. i \in 2 .. n /\ G[m][i] = G[m][1]
          BY <2>1, <3>2, <4>1
        <5> QED BY <1>5, <3>1, <4>1, <5>1 DEF Arranged
      <4> QED BY <4>1
    <3> QED BY <3>2, <3>3
  <2>3. \A i \in 1 .. n : G[m][i] = p[i]
    BY <2>1, <2>2
  <2> QED BY <1>0, <1>5, <2>3 DEF Arranged
<1>7. PICK H : IsShuffle(H, items, d, n, S)
  BY <1>0, ShuffledRuns
<1>8. H[m] = G[m]
  BY <1>0, <1>4, <1>7, SameSoFar DEF m, IsShuffle
<1> QED BY <1>6, <1>7, <1>8 DEF m, IsShuffle

\* So each order is drawn, by one draw and no other.
LEMMA ShuffleIsFair ==
    ASSUME NEW n \in Nat, NEW S, NEW items \in Arranged(n, S)
    PROVE  /\ Shuffles(items) = Arranged(n, S)
           /\ Cardinality(Shuffles(items)) = Cardinality(Draws(n))
<1>1. items \in [1 .. n -> S] /\ Len(items) = n
  <2>1. items \in [1 .. n -> S]
    BY DEF Arranged
  <2>2. items \in Seq(S) /\ Len(items) = n
    BY <2>1
  <2> QED BY <2>1, <2>2
<1>2. ASSUME NEW d \in Draws(n) PROVE shuffled(items, d) \in Arranged(n, S)
  <2>1. PICK G : IsShuffle(G, items, d, n, S)
    BY <1>1, ShuffledRuns
  <2>2. Steps(n) \in 0 .. Steps(n)
    BY DEF Steps
  <2> QED BY <2>1, <2>2, RunIs DEF IsShuffle
<1>3. Shuffles(items) = Arranged(n, S)
  BY <1>1, <1>2, EveryOrder DEF Shuffles
<1>4. ASSUME NEW d \in Draws(n), NEW e \in Draws(n), shuffled(items, d) = shuffled(items, e)
      PROVE  d = e
  <2>1. PICK G : IsShuffle(G, items, d, n, S)
    BY <1>1, ShuffledRuns
  <2>2. PICK H : IsShuffle(H, items, e, n, S)
    BY <1>1, ShuffledRuns
  <2> QED BY <1>4, <2>1, <2>2, DrawsDiffer DEF IsShuffle
<1>5. IsFiniteSet(Draws(n))
  <2>1. IsFiniteSet(2 .. n) /\ IsFiniteSet(1 .. n)
    BY FS_Interval
  <2>2. IsFiniteSet((2 .. n) \X (1 .. n))
    BY <2>1, FS_Product
  <2>3. IsFiniteSet(SUBSET ((2 .. n) \X (1 .. n)))
    BY <2>2, FS_SUBSET
  <2> DEFINE graph == [d \in Draws(n) |-> {<<i, d[i]>> : i \in 2 .. n}]
  <2>4. graph \in Injection(Draws(n), SUBSET ((2 .. n) \X (1 .. n)))
    <3>1. \A d \in Draws(n) : graph[d] \in SUBSET ((2 .. n) \X (1 .. n))
      BY DEF Draws
    <3>2. ASSUME NEW d \in Draws(n), NEW e \in Draws(n), graph[d] = graph[e] PROVE d = e
      <4>1. \A i \in 2 .. n : <<i, d[i]>> \in {<<j, e[j]>> : j \in 2 .. n}
        BY <3>2
      <4>2. \A i \in 2 .. n : d[i] = e[i]
        BY <4>1
      <4> QED BY <4>2 DEF Draws
    <3> HIDE DEF graph
    <3>3. DOMAIN graph = Draws(n) /\ graph = [d \in Draws(n) |-> graph[d]]
      BY DEF graph
    <3> QED BY <3>1, <3>2, <3>3 DEF Injection, IsInjective
  <2> HIDE DEF graph
  <2> QED BY <2>3, <2>4, FS_Injection
<1>6. Cardinality(Shuffles(items)) = Cardinality(Draws(n))
  <2> DEFINE f == [d \in Draws(n) |-> shuffled(items, d)]
  <2>1. f \in Bijection(Draws(n), Shuffles(items))
    BY <1>1, <1>4 DEF Bijection, Injection, Surjection, IsInjective, Shuffles
  <2>2. ExistsBijection(Draws(n), Shuffles(items))
    BY <2>1 DEF ExistsBijection
  <2> QED BY <1>5, <2>2, FS_Bijection
<1> QED BY <1>3, <1>6

LEMMA PermutedIsArranged ==
    ASSUME NEW S, IsFiniteSet(S)
    PROVE  Cardinality(S) \in Nat /\ Permuted(S) = Arranged(Cardinality(S), S)
<1> DEFINE n == Cardinality(S)
<1>1. /\ n \in Nat
      /\ \A p : p \in Permuted(S) <=>
           p \in [1 .. n -> S] /\ \A i, k \in 1 .. n : p[i] = p[k] => i = k
      /\ \A p \in Permuted(S) : \A x \in S : \E i \in 1 .. n : p[i] = x
  BY PermutedIs
<1> HIDE DEF n
<1>2. ASSUME NEW p PROVE p \in Permuted(S) <=> p \in Arranged(n, S)
  BY <1>1 DEF Arranged
<1> QED BY <1>1, <1>2 DEF n

LEMMA Counted ==
    ASSUME NEW n \in Nat
    PROVE  [i \in 1 .. n |-> i] \in Arranged(n, 1 .. n) /\ Permuted(1 .. n) = Arranged(n, 1 .. n)
<1>1. IsFiniteSet(1 .. n) /\ Cardinality(1 .. n) = n
  BY FS_Interval
<1>2. Permuted(1 .. n) = Arranged(n, 1 .. n)
  BY <1>1, PermutedIsArranged
<1>3. [i \in 1 .. n |-> i] \in Arranged(n, 1 .. n)
  BY DEF Arranged
<1> QED BY <1>2, <1>3

\* The last one stays, the others are shuffled.
LEMMA LastStays ==
    ASSUME NEW n \in Nat \ {0}
    PROVE  {Append(s, n) : s \in Arranged(n - 1, 1 .. (n - 1))} = {p \in Arranged(n, 1 .. n) : p[n] = n}
<1>1. ASSUME NEW s \in Arranged(n - 1, 1 .. (n - 1))
      PROVE  Append(s, n) \in Arranged(n, 1 .. n) /\ Append(s, n)[n] = n
  <2> DEFINE p == Append(s, n)
  <2>1. s \in [1 .. (n - 1) -> 1 .. (n - 1)]
    BY DEF Arranged
  <2>2. s \in Seq(1 .. n) /\ Len(s) = n - 1
    <3>1. s \in [1 .. (n - 1) -> 1 .. n] /\ n - 1 \in Nat
      BY <2>1
    <3> QED BY <3>1
  <2>3. /\ p \in [1 .. n -> 1 .. n]
        /\ \A i \in 1 .. n : p[i] = IF i = n THEN n ELSE s[i]
    <3>1. n \in 1 .. n
      OBVIOUS
    <3>2. /\ p \in Seq(1 .. n) /\ Len(p) = (n - 1) + 1
          /\ \A i \in 1 .. Len(s) : p[i] = s[i]
          /\ p[Len(s) + 1] = n
      BY <2>2, <3>1, AppendProperties
    <3> HIDE DEF p
    <3>3. Len(p) = n /\ p \in [1 .. n -> 1 .. n]
      BY <3>2, LenProperties
    <3>4. \A i \in 1 .. n : i = n \/ i \in 1 .. (n - 1)
      OBVIOUS
    <3>5. p[n] = n /\ \A i \in 1 .. (n - 1) : p[i] = s[i] /\ i # n
      BY <2>2, <3>2
    <3> QED BY <3>3, <3>4, <3>5
  <2> HIDE DEF p
  <2>4. \A i \in 1 .. n : i # n => i \in 1 .. (n - 1) /\ s[i] \in 1 .. (n - 1) /\ s[i] # n
    BY <2>1
  <2>5. \A i, k \in 1 .. n : p[i] = p[k] => i = k
    <3> TAKE i, k \in 1 .. n
    <3> HAVE p[i] = p[k]
    <3>1. CASE i = n \/ k = n
      BY <2>3, <2>4, <3>1
    <3>2. CASE i # n /\ k # n
      <4>1. s[i] = s[k] /\ i \in 1 .. (n - 1) /\ k \in 1 .. (n - 1)
        BY <2>3, <2>4, <3>2
      <4> QED BY <4>1 DEF Arranged
    <3> QED BY <3>1, <3>2
  <2>6. \A x \in 1 .. n : \E i \in 1 .. n : p[i] = x
    <3> TAKE x \in 1 .. n
    <3>1. CASE x = n
      BY <2>3, <3>1
    <3>2. CASE x # n
      <4>1. PICK i \in 1 .. (n - 1) : s[i] = x
        <5>1. x \in 1 .. (n - 1)
          BY <3>2
        <5> QED BY <5>1 DEF Arranged
      <4>2. i \in 1 .. n /\ i # n
        OBVIOUS
      <4> QED BY <2>3, <4>1, <4>2
    <3> QED BY <3>1, <3>2
  <2>7. p \in Arranged(n, 1 .. n)
    BY <2>3, <2>5, <2>6 DEF Arranged
  <2>8. p[n] = n
    BY <2>3
  <2> QED BY <2>7, <2>8 DEF p
<1>2. ASSUME NEW p \in Arranged(n, 1 .. n), p[n] = n
      PROVE  \E s \in Arranged(n - 1, 1 .. (n - 1)) : p = Append(s, n)
  <2> DEFINE s == [i \in 1 .. (n - 1) |-> p[i]]
  <2>1. p \in [1 .. n -> 1 .. n] /\ \A i, k \in 1 .. n : p[i] = p[k] => i = k
    BY DEF Arranged
  <2>2. n \in 1 .. n /\ \A i \in 1 .. (n - 1) : i \in 1 .. n /\ i # n
    OBVIOUS
  <2>3. \A i \in 1 .. (n - 1) : p[i] \in 1 .. (n - 1)
    <3> TAKE i \in 1 .. (n - 1)
    <3>1. p[i] \in 1 .. n /\ p[i] # n
      BY <1>2, <2>1, <2>2
    <3> QED BY <3>1
  <2>4. \A x \in 1 .. (n - 1) : \E i \in 1 .. (n - 1) : p[i] = x
    <3> TAKE x \in 1 .. (n - 1)
    <3>1. PICK i \in 1 .. n : p[i] = x
      <4>1. x \in 1 .. n
        OBVIOUS
      <4> QED BY <4>1 DEF Arranged
    <3>2. i # n
      BY <1>2, <3>1
    <3> QED BY <3>1, <3>2
  <2>5. s \in Arranged(n - 1, 1 .. (n - 1))
    BY <2>1, <2>2, <2>3, <2>4 DEF Arranged
  <2>6. p = Append(s, n)
    <3>1. s \in [1 .. (n - 1) -> 1 .. n] /\ n - 1 \in Nat
      BY <2>1, <2>2
    <3>2. s \in Seq(1 .. n) /\ Len(s) = n - 1
      BY <3>1
    <3>3. \A i \in 1 .. (n - 1) : s[i] = p[i]
      OBVIOUS
    <3> HIDE DEF s
    <3> DEFINE q == Append(s, n)
    <3>4. /\ q \in Seq(1 .. n) /\ Len(q) = (n - 1) + 1
          /\ \A i \in 1 .. Len(s) : q[i] = s[i]
          /\ q[Len(s) + 1] = n
      BY <2>2, <3>2, AppendProperties
    <3> HIDE DEF q
    <3>5. Len(q) = n /\ q \in [1 .. n -> 1 .. n]
      BY <3>4, LenProperties
    <3>6. \A i \in 1 .. n : i = n \/ i \in 1 .. (n - 1)
      OBVIOUS
    <3>7. q[n] = n /\ \A i \in 1 .. (n - 1) : q[i] = p[i]
      BY <3>2, <3>3, <3>4
    <3>8. \A i \in 1 .. n : p[i] = q[i]
      BY <1>2, <3>6, <3>7
    <3>9. p = q
      BY <2>1, <3>5, <3>8
    <3> QED BY <3>9 DEF q
  <2> QED BY <2>5, <2>6
<1> QED BY <1>1, <1>2

\* No member of B comes before one of A.
Before(o, A, B) == \A i, k \in DOMAIN o : i < k => ~(o[i] \in B /\ o[k] \in A)

\* First all of a, then all of b.
IsInTurn(o, a, b, n, m, A, B) ==
    /\ o \in [1 .. (n + m) -> A \cup B]
    /\ \A i \in 1 .. n : o[i] = a[i]
    /\ \A i \in 1 .. m : o[n + i] = b[i]

LEMMA InTurnIs ==
    ASSUME NEW n \in Nat, NEW m \in Nat, NEW A, NEW B,
           NEW a \in [1 .. n -> A], NEW b \in [1 .. m -> B]
    PROVE  IsInTurn(a \o b, a, b, n, m, A, B)
<1>1. a \in Seq(A \cup B) /\ b \in Seq(A \cup B) /\ Len(a) = n /\ Len(b) = m
  <2>1. a \in [1 .. n -> A \cup B] /\ b \in [1 .. m -> A \cup B]
    OBVIOUS
  <2> QED BY <2>1
<1>2. /\ a \o b \in Seq(A \cup B) /\ Len(a \o b) = n + m
      /\ \A i \in 1 .. (n + m) : (a \o b)[i] = IF i <= n THEN a[i] ELSE b[i - n]
  BY <1>1, ConcatProperties
<1>3. a \o b \in [1 .. (n + m) -> A \cup B]
  BY <1>2, LenProperties
<1>4. \A i \in 1 .. n : i \in 1 .. (n + m) /\ i <= n
  OBVIOUS
<1>5. \A i \in 1 .. m : n + i \in 1 .. (n + m) /\ ~(n + i <= n) /\ (n + i) - n = i
  OBVIOUS
<1> QED BY <1>2, <1>3, <1>4, <1>5 DEF IsInTurn

\* An order of A and one of B, one after the other, are an order of both.
LEMMA InTurn ==
    ASSUME NEW A, NEW B, A \cap B = {}, NEW n \in Nat, NEW m \in Nat,
           NEW a \in Arranged(n, A), NEW b \in Arranged(m, B)
    PROVE  a \o b \in Arranged(n + m, A \cup B) /\ Before(a \o b, A, B)
<1>0. PICK o : o = a \o b
  OBVIOUS
<1>1. a \in [1 .. n -> A] /\ b \in [1 .. m -> B]
  BY DEF Arranged
<1>2. /\ o \in [1 .. (n + m) -> A \cup B]
      /\ \A i \in 1 .. n : o[i] = a[i]
      /\ \A i \in 1 .. m : o[n + i] = b[i]
  <2>1. IsInTurn(a \o b, a, b, n, m, A, B)
    BY <1>1, InTurnIs
  <2> QED BY <1>0, <2>1 DEF IsInTurn
<1>3. \A i \in 1 .. (n + m) : \/ i \in 1 .. n /\ o[i] = a[i] /\ o[i] \in A
                              \/ \E k \in 1 .. m : i = n + k /\ o[i] = b[k] /\ o[i] \in B
  <2> TAKE i \in 1 .. (n + m)
  <2>1. CASE i \in 1 .. n
    BY <1>1, <1>2, <2>1
  <2>2. CASE i \notin 1 .. n
    <3>1. i - n \in 1 .. m /\ i = n + (i - n)
      BY <2>2
    <3> QED BY <1>1, <1>2, <3>1
  <2> QED BY <2>1, <2>2
<1>4. \A i, k \in 1 .. (n + m) : o[i] = o[k] => i = k
  <2> TAKE i, k \in 1 .. (n + m)
  <2> HAVE o[i] = o[k]
  <2>1. CASE o[i] \in A
    <3>1. i \in 1 .. n /\ k \in 1 .. n /\ a[i] = a[k]
      BY <1>3, <2>1
    <3> QED BY <3>1 DEF Arranged
  <2>2. CASE o[i] \in B
    <3>1. PICK x, y \in 1 .. m : i = n + x /\ k = n + y /\ b[x] = b[y]
      BY <1>3, <2>2
    <3>2. x = y
      BY <3>1 DEF Arranged
    <3> QED BY <3>1, <3>2
  <2> QED BY <1>3, <2>1, <2>2
<1>5. \A x \in A \cup B : \E i \in 1 .. (n + m) : o[i] = x
  <2> TAKE x \in A \cup B
  <2>1. CASE x \in A
    <3>1. PICK i \in 1 .. n : a[i] = x
      BY <2>1 DEF Arranged
    <3>2. i \in 1 .. (n + m)
      OBVIOUS
    <3> QED BY <1>2, <3>1, <3>2
  <2>2. CASE x \in B
    <3>1. PICK i \in 1 .. m : b[i] = x
      BY <2>2 DEF Arranged
    <3>2. n + i \in 1 .. (n + m)
      OBVIOUS
    <3> QED BY <1>2, <3>1, <3>2
  <2> QED BY <2>1, <2>2
<1>6. Before(o, A, B)
  <2> SUFFICES ASSUME NEW i \in 1 .. (n + m), NEW k \in 1 .. (n + m), i < k, o[i] \in B, o[k] \in A
               PROVE  FALSE
    BY <1>2 DEF Before
  <2>1. k \in 1 .. n /\ \E x \in 1 .. m : i = n + x
    BY <1>3
  <2> QED BY <2>1
<1>7. o \in Arranged(n + m, A \cup B)
  BY <1>2, <1>4, <1>5 DEF Arranged
<1> QED BY <1>0, <1>6, <1>7

\* An order of A, which is its start, and one of B.
IsParted(o, n, m, A, B) ==
    \E a \in Arranged(n, A), b \in Arranged(m, B) : o = a \o b /\ \A i \in 1 .. n : a[i] = o[i]

\* An order of both is one of the two, one after the other.
LEMMA Parted ==
    ASSUME NEW A, NEW B, A \cap B = {}, IsFiniteSet(A), NEW n \in Nat, NEW m \in Nat,
           Cardinality(A) = n, NEW o \in Arranged(n + m, A \cup B), Before(o, A, B)
    PROVE  IsParted(o, n, m, A, B)
<1> DEFINE N == n + m
           In == {i \in 1 .. N : o[i] \in A}
<1>1. /\ o \in [1 .. N -> A \cup B]
      /\ \A i, k \in 1 .. N : o[i] = o[k] => i = k
      /\ \A x \in A \cup B : \E i \in 1 .. N : o[i] = x
  BY DEF Arranged
<1>2. Cardinality(In) = n
  <2> DEFINE f == [i \in In |-> o[i]]
  <2>1. f \in Bijection(In, A)
    <3>1. f \in [In -> A]
      OBVIOUS
    <3>2. \A i, k \in In : f[i] = f[k] => i = k
      BY <1>1
    <3>3. \A x \in A : \E i \in In : f[i] = x
      BY <1>1
    <3> HIDE DEF f, In
    <3> QED BY <3>1, <3>2, <3>3 DEF Bijection, Injection, Surjection, IsInjective
  <2>2. IsFiniteSet(In)
    <3>1. IsFiniteSet(1 .. N) /\ In \in SUBSET (1 .. N)
      BY FS_Interval
    <3> QED BY <3>1, FS_Subset
  <2>3. ExistsBijection(In, A)
    BY <2>1 DEF ExistsBijection
  <2> HIDE DEF In
  <2> QED BY <2>2, <2>3, FS_Bijection
<1>3. PICK c \in 0 .. N : In = 1 .. c
  <2> DEFINE Out == {i \in 0 .. N : i = N \/ i + 1 \notin In}
  <2>1. Out # {} /\ Out \in SUBSET (0 .. N)
    OBVIOUS
  <2>2. PICK c \in Out : \A j \in Out : c <= j
    <3>1. N \in Nat
      OBVIOUS
    <3> HIDE DEF Out, N
    <3> QED BY <2>1, <3>1, SmallestNumber
  <2>3. ASSUME NEW i \in 1 .. c PROVE i \in In
    <3>1. i - 1 \in 0 .. N /\ ~(c <= i - 1) /\ (i - 1) + 1 = i
      BY <2>3
    <3> HIDE DEF In
    <3> QED BY <2>2, <3>1
  <2>4. ASSUME NEW i \in In PROVE i \in 1 .. c
    <3>1. ASSUME i > c PROVE FALSE
      <4>1. c < N /\ c + 1 \in 1 .. N /\ c + 1 \notin In /\ i \in 1 .. N /\ o[i] \in A
        BY <3>1
      <4>2. o[c + 1] \in B /\ c + 1 # i
        BY <1>1, <4>1
      <4>3. c + 1 < i
        BY <3>1, <4>1, <4>2
      <4>4. DOMAIN o = 1 .. N
        BY <1>1
      <4> QED BY <4>1, <4>2, <4>3, <4>4 DEF Before
    <3> QED BY <3>1
  <2> QED BY <2>3, <2>4
<1>4. c = n
  <2>1. Cardinality(1 .. c) = c
    BY FS_Interval
  <2> HIDE DEF In
  <2> QED BY <1>2, <1>3, <2>1
<1>5. /\ \A i \in 1 .. n : i \in 1 .. N /\ o[i] \in A
      /\ \A i \in 1 .. m : n + i \in 1 .. N /\ o[n + i] \in B
  <2>1. \A i \in 1 .. n : i \in In
    BY <1>3, <1>4
  <2>2. \A i \in 1 .. m : n + i \in 1 .. N /\ n + i \notin In
    BY <1>3, <1>4
  <2> QED BY <1>1, <2>1, <2>2
<1> DEFINE a == [i \in 1 .. n |-> o[i]]
           b == [i \in 1 .. m |-> o[n + i]]
<1>6. a \in Arranged(n, A)
  <2>1. \A x \in A : \E i \in 1 .. n : o[i] = x
    <3> TAKE x \in A
    <3>1. PICK i \in 1 .. N : o[i] = x
      BY <1>1
    <3>2. i \in In
      BY <3>1
    <3> QED BY <1>3, <1>4, <3>1, <3>2
  <2> HIDE DEF In
  <2> QED BY <1>1, <1>5, <2>1 DEF Arranged
<1>7. b \in Arranged(m, B)
  <2>1. \A x \in B : \E i \in 1 .. m : o[n + i] = x
    <3> TAKE x \in B
    <3>1. PICK i \in 1 .. N : o[i] = x
      BY <1>1
    <3>2. i \notin 1 .. n
      BY <1>5, <3>1
    <3>3. i - n \in 1 .. m /\ n + (i - n) = i
      BY <3>2
    <3> QED BY <3>1, <3>3
  <2>2. \A i, k \in 1 .. m : o[n + i] = o[n + k] => i = k
    <3> TAKE i, k \in 1 .. m
    <3> HAVE o[n + i] = o[n + k]
    <3>1. n + i = n + k
      BY <1>1, <1>5
    <3> QED BY <3>1
  <2> HIDE DEF In
  <2> QED BY <1>5, <2>1, <2>2 DEF Arranged
<1>8. o = a \o b
  <2>1. a \in [1 .. n -> A] /\ b \in [1 .. m -> B]
    BY <1>6, <1>7 DEF Arranged
  <2>2. /\ \A i \in 1 .. n : a[i] = o[i]
        /\ \A i \in 1 .. m : b[i] = o[n + i]
    OBVIOUS
  <2> HIDE DEF a, b
  <2> DEFINE j == a \o b
  <2>3. /\ j \in [1 .. N -> A \cup B]
        /\ \A i \in 1 .. n : j[i] = o[i]
        /\ \A i \in 1 .. m : j[n + i] = o[n + i]
    <3>1. IsInTurn(a \o b, a, b, n, m, A, B)
      <4> HIDE DEF j, N
      <4> QED BY <2>1, InTurnIs
    <3> QED BY <2>2, <3>1 DEF IsInTurn
  <2> HIDE DEF j
  <2>4. \A i \in 1 .. N : j[i] = o[i]
    <3> TAKE i \in 1 .. N
    <3>1. CASE i \in 1 .. n
      BY <2>3, <3>1
    <3>2. CASE i \notin 1 .. n
      <4>1. i - n \in 1 .. m /\ n + (i - n) = i
        BY <3>2
      <4> QED BY <2>3, <4>1
    <3> QED BY <3>1, <3>2
  <2>5. j = o
    BY <1>1, <2>3, <2>4
  <2> QED BY <2>5 DEF j
<1>9. \A i \in 1 .. n : a[i] = o[i]
  OBVIOUS
<1> HIDE DEF a, b
<1> QED BY <1>6, <1>7, <1>8, <1>9 DEF IsParted

LEMMA FirstFinite ==
    ASSUME NEW n \in Nat
    PROVE  IsFiniteSet(1 .. n)
BY FS_Interval

\* Numbers can be put in order: up to each of them, by the one below.
LEMMA InOrderIs ==
    ASSUME NEW n \in Nat, NEW S, IsFiniteSet(S), \A x \in S : x \in Int /\ x >= 1 /\ x <= n
    PROVE  InOrder(S) \in Arranged(Cardinality(S), S)
<1> DEFINE Rising(s, T) == s \in [1 .. Cardinality(T) -> T] /\ \A i, k \in DOMAIN s : i < k => s[i] < s[k]
           upto(k) == {x \in S : x <= k}
           Good == {k \in Nat : \E s : Rising(s, upto(k))}
<1>0. Cardinality(S) \in Nat
  BY FS_CardinalityType
<1>1. 0 \in Good
  <2>1. upto(0) = {}
    <3> HIDE DEF Good, Rising
    <3> QED OBVIOUS
  <2>2. Cardinality({}) = 0
    BY FS_EmptySet
  <2>3. <<>> \in [1 .. 0 -> {}] /\ DOMAIN <<>> = {}
    OBVIOUS
  <2>4. Rising(<<>>, {})
    BY <2>2, <2>3
  <2> QED BY <2>1, <2>4
<1>2. \A k \in 0 .. (n - 1) : k \in Good => k + 1 \in Good
  <2> TAKE k \in 0 .. (n - 1)
  <2> HAVE k \in Good
  <2>0. PICK s : Rising(s, upto(k))
    OBVIOUS
  <2> DEFINE T == upto(k)
             c == Cardinality(T)
  <2>1. IsFiniteSet(T) /\ c \in Nat /\ \A x \in T : x \in Int /\ x < k + 1
    <3>1. T \in SUBSET S /\ \A x \in T : x \in Int /\ x < k + 1
      OBVIOUS
    <3> HIDE DEF T
    <3>2. IsFiniteSet(T)
      BY <3>1, FS_Subset
    <3> QED BY <3>1, <3>2, FS_CardinalityType
  <2>2. CASE k + 1 \notin S
    <3>1. upto(k + 1) = T
      <4> HIDE DEF Good, Rising
      <4> QED BY <2>2
    <3> QED BY <2>0, <3>1
  <2>3. CASE k + 1 \in S
    <3>1. upto(k + 1) = T \cup {k + 1} /\ k + 1 \notin T
      <4> HIDE DEF Good, Rising
      <4> QED BY <2>3
    <3>2. Cardinality(T \cup {k + 1}) = c + 1
      BY <2>1, <3>1, FS_AddElement
    <3>3. s \in [1 .. c -> T] /\ \A i, j \in 1 .. c : i < j => s[i] < s[j]
      BY <2>0
    <3> DEFINE t == [i \in 1 .. (c + 1) |-> IF i = c + 1 THEN k + 1 ELSE s[i]]
    <3> HIDE DEF T, c
    <3>4. \A i \in 1 .. (c + 1) : i = c + 1 \/ (i \in 1 .. c /\ i # c + 1)
      BY <2>1
    <3>5. t \in [1 .. (c + 1) -> T \cup {k + 1}]
      BY <3>3, <3>4
    <3>6. \A i, j \in 1 .. (c + 1) : i < j => t[i] < t[j]
      <4> TAKE i, j \in 1 .. (c + 1)
      <4> HAVE i < j
      <4>1. i \in 1 .. c /\ t[i] = s[i] /\ s[i] \in T
        BY <2>1, <3>3
      <4>2. CASE j = c + 1
        BY <2>1, <4>1, <4>2
      <4>3. CASE j \in 1 .. c /\ j # c + 1
        BY <3>3, <4>1, <4>3
      <4> QED BY <3>4, <4>2, <4>3
    <3>7. Rising(t, T \cup {k + 1})
      <4>1. DOMAIN t = 1 .. (c + 1)
        OBVIOUS
      <4> HIDE DEF t
      <4>2. PICK U : U = T \cup {k + 1}
        OBVIOUS
      <4>3. t \in [1 .. Cardinality(U) -> U]
        <5> HIDE DEF Rising
        <5> QED BY <3>2, <3>5, <4>2
      <4>4. Rising(t, U)
        BY <3>6, <4>1, <4>3
      <4> HIDE DEF Rising
      <4> QED BY <4>2, <4>4
    <3> HIDE DEF Rising
    <3> QED BY <3>1, <3>7
  <2> QED BY <2>2, <2>3
<1>3. \E s : Rising(s, S)
  <2>1. \A k \in 0 .. n : k \in Good
    <3> HIDE DEF Good
    <3> QED BY <1>1, <1>2, UpTo
  <2>2. n \in Good
    <3> HIDE DEF Good
    <3> QED BY <2>1
  <2>3. upto(n) = S
    BY <1>0
  <2> HIDE DEF Rising
  <2> QED BY <2>2, <2>3
<1>4. Rising(InOrder(S), S)
  BY <1>3 DEF InOrder
<1>6. PICK s : s = InOrder(S)
  OBVIOUS
<1>7. \A i, k \in 1 .. Cardinality(S) : s[i] = s[k] => i = k
  <2> DEFINE c == Cardinality(S)
  <2>1. s \in [1 .. c -> S] /\ \A i, k \in 1 .. c : i < k => s[i] < s[k]
    BY <1>4, <1>6
  <2>2. c \in Nat /\ \A x \in S : x \in Int
    BY <1>0
  <2> HIDE DEF c
  <2>3. \A i, k \in 1 .. c : s[i] \in Int /\ s[k] \in Int /\ (i < k \/ k < i \/ i = k)
    BY <2>1, <2>2
  <2>4. \A i, k \in 1 .. c : s[i] = s[k] => i = k
    BY <2>1, <2>3
  <2> QED BY <2>4 DEF c
<1>8. s \in Permuted(S)
  BY <1>0, <1>4, <1>6, <1>7, PermutedIs
<1> QED BY <1>0, <1>6, <1>8, PermutedIsArranged

-----------------------------------------------------------------------------
(* A test's questions.                                                       *)

SectionOf(k) == IF k = 1 THEN "s1" ELSE IF k = 2 THEN "s2" ELSE None

Block(p, k) == Members(p, SectionOf(k))

\* Each question is in its section's block and in no other.
LEMMA BlocksAre ==
    ASSUME NEW p, PaperTrue(p), p.sections = <<"s1", "s2">>
    PROVE  /\ Places(p) = 1 .. 3
           /\ DOMAIN Blocks(p) = 1 .. 3
           /\ \A k \in 1 .. 3 : /\ Block(p, k) \in SUBSET (1 .. 3)
                                /\ IsFiniteSet(Block(p, k))
                                /\ Blocks(p)[k] = InOrder(Block(p, k))
                                /\ Shuffles(Blocks(p)[k]) = Permuted(Block(p, k))
           /\ \A i \in 1 .. 3 : i \in Block(p, SectionRank(p, i)) /\ SectionRank(p, i) \in 1 .. 3
           /\ \A k \in 1 .. 3 : \A i \in Block(p, k) : SectionRank(p, i) = k
<1>1. Places(p) = 1 .. 3 /\ \A i \in 1 .. 3 : p.questions[i].section \in {"s1", "s2", None}
  BY DEF PaperTrue, Places
<1>2. /\ DOMAIN Blocks(p) = 1 .. 3
      /\ \A k \in 1 .. 3 : Blocks(p)[k] = InOrder(Block(p, k))
  <2>1. Len(p.sections) = 2 /\ p.sections[1] = "s1" /\ p.sections[2] = "s2"
    OBVIOUS
  <2>2. \A k \in 1 .. 3 : (IF k <= Len(p.sections) THEN p.sections[k] ELSE None) = SectionOf(k)
    BY <2>1 DEF SectionOf
  <2> QED BY <2>1, <2>2 DEF Blocks, Block
<1>3. ASSUME NEW k \in 1 .. 3
      PROVE  /\ Block(p, k) \in SUBSET (1 .. 3) /\ IsFiniteSet(Block(p, k))
             /\ Shuffles(Blocks(p)[k]) = Permuted(Block(p, k))
  <2> DEFINE S == Block(p, k)
  <2>1. S \in SUBSET (1 .. 3)
    BY <1>1 DEF Block, Members
  <2> HIDE DEF S
  <2>2. IsFiniteSet(S)
    <3>1. IsFiniteSet(1 .. 3)
      BY FirstFinite
    <3> QED BY <2>1, <3>1, FS_Subset
  <2>3. Cardinality(S) \in Nat /\ Permuted(S) = Arranged(Cardinality(S), S)
    BY <2>2, PermutedIsArranged
  <2>4. InOrder(S) \in Arranged(Cardinality(S), S)
    <3>1. \A x \in S : x \in Int /\ x >= 1 /\ x <= 3
      BY <2>1
    <3> QED BY <2>2, <3>1, InOrderIs
  <2>5. Shuffles(InOrder(S)) = Arranged(Cardinality(S), S)
    BY <2>3, <2>4, ShuffleIsFair
  <2> QED BY <1>2, <2>1, <2>2, <2>3, <2>5 DEF S
<1>4. None # "s1" /\ None # "s2"
  BY NoneAssumption
<1>5. /\ \A i \in 1 .. 3 : i \in Block(p, SectionRank(p, i)) /\ SectionRank(p, i) \in 1 .. 3
      /\ \A k \in 1 .. 3 : \A i \in Block(p, k) : SectionRank(p, i) = k
  BY <1>1, <1>4 DEF Block, Members, SectionRank, SectionOf
<1> QED BY <1>1, <1>2, <1>3, <1>5

\* Each order so far, followed by each of the next block.
Grown(orders, more) == {o \o s : o \in orders, s \in more}

\* Within sections: a draw for each block, one block after the other.
LEMMA BlockByBlock ==
    ASSUME NEW p, PaperTrue(p), p.sections = <<"s1", "s2">>,
           effectiveOrder(p) \notin {"FIXED", "SHUFFLE_ALL"}
    PROVE  orderQuestions(p) =
             Grown(Grown(Grown({<<>>}, Permuted(Block(p, 1))), Permuted(Block(p, 2))),
                   Permuted(Block(p, 3)))
<1> DEFINE D == 1 .. 3
           Typ == SUBSET Seq(1 .. 3)
           P == [k \in D |-> Shuffles(Blocks(p)[k])]
           pick == [T \in SUBSET D |-> CHOOSE x \in T : \A y \in T : x >= y]
           step == [q \in D \X Typ |-> Grown(q[2], P[q[1]])]
           iter == CHOOSE iter : iter = [s \in SUBSET D |->
                       IF s = {} THEN {<<>>}
                       ELSE Grown(iter[s \ {CHOOSE x \in s : \A y \in s : x >= y}],
                                  Shuffles(Blocks(p)[CHOOSE x \in s : \A y \in s : x >= y]))]
<1>0. DOMAIN Blocks(p) = D /\ IsFiniteSet(D) /\ \A k \in D : P[k] = Permuted(Block(p, k))
  <2>1. IsFiniteSet(D)
    BY FirstFinite
  <2>2. /\ DOMAIN Blocks(p) = 1 .. 3
        /\ \A k \in 1 .. 3 : Shuffles(Blocks(p)[k]) = Permuted(Block(p, k))
    <3> HIDE DEF D, Typ, P, pick, step, iter
    <3> QED BY BlocksAre
  <2> QED BY <2>1, <2>2
<1>1. orderQuestions(p) = iter[D]
  BY <1>0 DEF orderQuestions, FoldLeft, MapThenFoldSet, Max, Grown
<1>2. \A T \in SUBSET D : T # {} => pick[T] \in T /\ \A y \in T : pick[T] >= y
  <2> TAKE T \in SUBSET D
  <2> HAVE T # {}
  <2>1. \A x \in T : x \in Int /\ x >= 1 /\ x <= 3
    <3>1. \A x \in D : x \in Int /\ x >= 1 /\ x <= 3
      OBVIOUS
    <3> HIDE DEF D
    <3>2. \A x \in T : x \in D
      OBVIOUS
    <3> QED BY <3>1, <3>2
  <2>2. \E x \in T : \A y \in T : x >= y
    BY <2>1, HighestOf
  <2> QED BY <2>2
<1>3. step \in [D \X Typ -> Typ]
  <2>1. ASSUME NEW k \in D, NEW O \in Typ PROVE Grown(O, P[k]) \in Typ
    <3>1. \A s \in P[k] : s \in Seq(1 .. 3)
      <4> TAKE s \in P[k]
      <4> DEFINE S == Block(p, k)
                 c == Cardinality(S)
      <4>1. IsFiniteSet(S) /\ S \in SUBSET (1 .. 3) /\ s \in Permuted(S)
        BY <1>0, BlocksAre
      <4> HIDE DEF S
      <4>2. c \in Nat /\ s \in [1 .. c -> S]
        BY <4>1, PermutedIs
      <4> HIDE DEF c
      <4>3. s \in [1 .. c -> 1 .. 3]
        BY <4>1, <4>2
      <4> QED BY <4>2, <4>3
    <3>2. \A o \in O : o \in Seq(1 .. 3)
      OBVIOUS
    <3>3. \A o \in O, s \in P[k] : o \o s \in Seq(1 .. 3)
      <4> HIDE DEF P
      <4> QED BY <3>1, <3>2, ConcatProperties
    <3>4. Grown(O, P[k]) \subseteq Seq(1 .. 3)
      <4> DEFINE all == Seq(1 .. 3)
      <4>1. \A o \in O, s \in P[k] : o \o s \in all
        BY <3>3
      <4> HIDE DEF P, Typ, all
      <4>2. ASSUME NEW x \in Grown(O, P[k]) PROVE x \in all
        <5>1. \E o \in O, s \in P[k] : x = o \o s
          BY <4>2 DEF Grown
        <5> QED BY <4>1, <5>1
      <4> QED BY <4>2 DEF all
    <3> QED BY <3>4
  <2> HIDE DEF Typ, P
  <2> QED BY <2>1
<1>4. PICK g : IsFold(g, D, pick, step, {<<>>}, Typ)
  <2>1. {<<>>} \in Typ
    OBVIOUS
  <2> HIDE DEF pick, step, Typ, D
  <2> QED BY <1>0, <1>2, <1>3, <2>1, FoldExists
<1>5. /\ g \in [SUBSET D -> Typ] /\ g[{}] = {<<>>}
      /\ \A T \in SUBSET D : T # {} => g[T] = Grown(g[T \ {pick[T]}], P[pick[T]])
  <2>1. ASSUME NEW T \in SUBSET D, T # {}
        PROVE  g[T] = Grown(g[T \ {pick[T]}], P[pick[T]])
    <3> HIDE DEF pick, Typ, D, P
    <3>1. pick[T] \in T
      BY <1>2, <2>1
    <3> DEFINE q == <<pick[T], g[T \ {pick[T]}]>>
    <3>2. g[T] = step[q] /\ q \in D \X Typ
      BY <1>4, <2>1, <3>1 DEF IsFold
    <3>3. q[1] = pick[T] /\ q[2] = g[T \ {pick[T]}]
      OBVIOUS
    <3> HIDE DEF q
    <3> QED BY <3>2, <3>3
  <2> QED BY <1>4, <2>1 DEF IsFold
<1>6. iter = g
  <2>0. ASSUME NEW T \in SUBSET D, T # {} PROVE P[pick[T]] = Shuffles(Blocks(p)[pick[T]])
    <3> HIDE DEF pick
    <3> QED BY <1>2, <2>0
  <2>1. g = [s \in SUBSET D |->
                       IF s = {} THEN {<<>>}
                       ELSE Grown(g[s \ {CHOOSE x \in s : \A y \in s : x >= y}],
                                  Shuffles(Blocks(p)[CHOOSE x \in s : \A y \in s : x >= y]))]
    <3>1. ASSUME NEW s \in SUBSET D, s # {}
          PROVE  g[s] = Grown(g[s \ {CHOOSE x \in s : \A y \in s : x >= y}],
                              Shuffles(Blocks(p)[CHOOSE x \in s : \A y \in s : x >= y]))
      <4>1. PICK z : z = CHOOSE x \in s : \A y \in s : x >= y
        OBVIOUS
      <4>2. pick[s] = z
        BY <3>1, <4>1
      <4> HIDE DEF pick, P, D, Typ
      <4> QED BY <1>5, <2>0, <3>1, <4>1, <4>2
    <3> HIDE DEF Typ, D, P, pick
    <3> QED BY <1>5, <3>1
  <2>2. iter = [s \in SUBSET D |->
                       IF s = {} THEN {<<>>}
                       ELSE Grown(iter[s \ {CHOOSE x \in s : \A y \in s : x >= y}],
                                  Shuffles(Blocks(p)[CHOOSE x \in s : \A y \in s : x >= y]))]
    <3> HIDE DEF Typ, D, P, pick
    <3> QED BY <2>1
  <2> HIDE DEF D, Typ
  <2>3. \A T \in SUBSET D : T # {} => iter[T] = Grown(iter[T \ {pick[T]}], P[pick[T]])
    <3> TAKE T \in SUBSET D
    <3> HAVE T # {}
    <3>1. PICK z : z = CHOOSE x \in T : \A y \in T : x >= y
      OBVIOUS
    <3>2. pick[T] = z
      BY <3>1
    <3> HIDE DEF iter, pick, P
    <3>3. iter[T] = Grown(iter[T \ {z}], Shuffles(Blocks(p)[z]))
      BY <2>2, <3>1
    <3> QED BY <2>0, <3>2, <3>3
  <2>4. iter[{}] = {<<>>} /\ iter = [s \in SUBSET D |-> iter[s]]
    <3> HIDE DEF iter
    <3> QED BY <2>2
  <2> HIDE DEF iter, pick, P
  <2> DEFINE Bad == {T \in SUBSET D : iter[T] # g[T]}
  <2>5. ASSUME Bad # {} PROVE FALSE
    <3>1. Bad \in SUBSET (SUBSET D) /\ IsFiniteSet(D)
      BY <1>0
    <3>2. PICK U \in Bad : \A V \in Bad : V \subseteq U => V = U
      <4> HIDE DEF Bad
      <4> QED BY <2>5, <3>1, SmallestSubset
    <3>3. U # {} /\ U \in SUBSET D /\ pick[U] \in U
      BY <1>2, <1>5, <2>4
    <3>4. iter[U \ {pick[U]}] = g[U \ {pick[U]}]
      BY <3>2, <3>3
    <3>5. iter[U] = g[U]
      BY <1>5, <2>3, <3>3, <3>4
    <3> QED BY <3>5
  <2>6. \A T \in SUBSET D : iter[T] = g[T]
    BY <2>5
  <2> QED BY <1>5, <2>4, <2>6
<1>7. ASSUME NEW k \in D, NEW T, T = 1 .. k
      PROVE  T \in SUBSET D /\ T # {} /\ pick[T] = k /\ T \ {k} = 1 .. (k - 1)
  <2>1. T \in SUBSET D /\ k \in T /\ T \ {k} = 1 .. (k - 1) /\ \A y \in T : y <= k /\ y \in Int
    BY <1>7
  <2> HIDE DEF pick
  <2>2. pick[T] \in T /\ pick[T] >= k
    BY <1>2, <2>1
  <2> QED BY <2>1, <2>2
<1> HIDE DEF pick, P, iter
<1>8. ASSUME NEW k \in D PROVE g[1 .. k] = Grown(g[1 .. (k - 1)], Permuted(Block(p, k)))
  <2>1. PICK T : T = 1 .. k
    OBVIOUS
  <2>2. T \in SUBSET D /\ T # {} /\ pick[T] = k /\ T \ {k} = 1 .. (k - 1)
    BY <1>7, <2>1
  <2>3. g[T] = Grown(g[T \ {k}], P[k])
    BY <1>5, <2>2
  <2> QED BY <1>0, <2>1, <2>2, <2>3
<1>9. g[1 .. 0] = {<<>>}
  <2>1. 1 .. 0 = {}
    OBVIOUS
  <2> QED BY <1>5, <2>1
<1>10. /\ g[1 .. 1] = Grown(g[1 .. 0], Permuted(Block(p, 1)))
       /\ g[1 .. 2] = Grown(g[1 .. 1], Permuted(Block(p, 2)))
       /\ g[1 .. 3] = Grown(g[1 .. 2], Permuted(Block(p, 3)))
  <2>1. 1 \in D /\ 2 \in D /\ 3 \in D /\ 1 - 1 = 0 /\ 2 - 1 = 1 /\ 3 - 1 = 2
    OBVIOUS
  <2> HIDE DEF D
  <2> QED BY <1>8, <2>1
<1> QED BY <1>1, <1>6, <1>9, <1>10

\* Blocks follow each other as the sections do.
Ranked(p, o) == \A i, k \in DOMAIN o : i < k => SectionRank(p, o[i]) <= SectionRank(p, o[k])

\* Three blocks make every order that keeps to the blocks, and no other.
LEMMA ThreeBlocks ==
    ASSUME NEW p, PaperTrue(p), p.sections = <<"s1", "s2">>
    PROVE  Grown(Grown(Grown({<<>>}, Permuted(Block(p, 1))), Permuted(Block(p, 2))),
                 Permuted(Block(p, 3)))
             = {o \in Permuted(1 .. 3) : Ranked(p, o)}
<1> DEFINE A_ == Block(p, 1)  B_ == Block(p, 2)  C_ == Block(p, 3)
           x_ == Cardinality(A_)  y_ == Cardinality(B_)  z_ == Cardinality(C_)
           rank(i) == SectionRank(p, i)
<1>1. PICK A, B, C, a, b, c : A = A_ /\ B = B_ /\ C = C_ /\ a = x_ /\ b = y_ /\ c = z_
  OBVIOUS
<1>2. /\ IsFiniteSet(A) /\ IsFiniteSet(B) /\ IsFiniteSet(C)
      /\ a = Cardinality(A) /\ b = Cardinality(B) /\ c = Cardinality(C)
      /\ A \subseteq 1 .. 3 /\ B \subseteq 1 .. 3 /\ C \subseteq 1 .. 3
  <2>1. \A k \in 1 .. 3 : Block(p, k) \in SUBSET (1 .. 3) /\ IsFiniteSet(Block(p, k))
    BY BlocksAre
  <2>2. 1 \in 1 .. 3 /\ 2 \in 1 .. 3 /\ 3 \in 1 .. 3
    OBVIOUS
  <2> QED BY <1>1, <2>1, <2>2
<1>3. /\ \A i \in A : rank(i) = 1
      /\ \A i \in B : rank(i) = 2
      /\ \A i \in C : rank(i) = 3
      /\ \A i \in 1 .. 3 : i \in A \/ i \in B \/ i \in C
  <2>1. /\ \A i \in 1 .. 3 : i \in Block(p, rank(i)) /\ rank(i) \in 1 .. 3
        /\ \A k \in 1 .. 3 : \A i \in Block(p, k) : rank(i) = k
    BY BlocksAre
  <2>2. 1 \in 1 .. 3 /\ 2 \in 1 .. 3 /\ 3 \in 1 .. 3 /\ \A k \in 1 .. 3 : k = 1 \/ k = 2 \/ k = 3
    OBVIOUS
  <2> HIDE DEF rank
  <2>3. \A i \in 1 .. 3 : i \in A \/ i \in B \/ i \in C
    BY <1>1, <2>1, <2>2
  <2>4. /\ \A i \in A : rank(i) = 1
        /\ \A i \in B : rank(i) = 2
        /\ \A i \in C : rank(i) = 3
    BY <1>1, <2>1, <2>2
  <2> QED BY <2>3, <2>4
<1> DEFINE AB == A \cup B
<1> HIDE DEF A_, B_, C_, x_, y_, z_, rank
<1>4. A \cap B = {} /\ AB \cap C = {} /\ AB \cup C = 1 .. 3
  <2>1. A \cap B = {} /\ AB \cap C = {}
    BY <1>3
  <2>2. \A i : i \in AB \cup C <=> i \in 1 .. 3
    <3> HIDE <1>1
    <3> QED BY <1>2, <1>3
  <2> QED BY <2>1, <2>2
<1>5. a \in Nat /\ b \in Nat /\ c \in Nat /\ a + b \in Nat
  BY <1>2, FS_CardinalityType
<1>6. IsFiniteSet(AB) /\ Cardinality(AB) = a + b
  <2>1. Cardinality(A \cap B) = 0
    BY <1>4, FS_EmptySet
  <2>2. IsFiniteSet(AB) /\ Cardinality(AB) = a + b - Cardinality(A \cap B)
    BY <1>2, FS_Union
  <2> QED BY <1>5, <2>1, <2>2
<1>7. (a + b) + c = 3 /\ IsFiniteSet(1 .. 3)
  <2>1. Cardinality(AB \cap C) = 0
    BY <1>4, FS_EmptySet
  <2>2. Cardinality(AB \cup C) = Cardinality(AB) + c - Cardinality(AB \cap C)
    <3> HIDE DEF AB
    <3> QED BY <1>2, <1>6, FS_Union
  <2>3. \A n \in Nat : Cardinality(1 .. n) = n
    BY FS_Interval
  <2>4. Cardinality(1 .. 3) = 3
    BY <2>3
  <2>5. 3 = (a + b) + c - 0
    BY <1>4, <1>6, <2>1, <2>2, <2>4
  <2>6. 3 \in Nat
    OBVIOUS
  <2>7. (a + b) + c = 3
    BY <1>5, <2>5
  <2>8. IsFiniteSet(1 .. 3)
    BY <2>6, FirstFinite
  <2> QED BY <2>7, <2>8
<1>8. /\ Permuted(A) = Arranged(a, A) /\ Permuted(B) = Arranged(b, B) /\ Permuted(C) = Arranged(c, C)
      /\ Permuted(1 .. 3) = Arranged((a + b) + c, AB \cup C)
  <2>1. Permuted(A) = Arranged(a, A) /\ Permuted(B) = Arranged(b, B) /\ Permuted(C) = Arranged(c, C)
    BY <1>2, PermutedIsArranged
  <2>2. \A n \in Nat : Permuted(1 .. n) = Arranged(n, 1 .. n)
    BY Counted
  <2>3. Permuted(1 .. 3) = Arranged(3, 1 .. 3)
    BY <2>2
  <2> QED BY <1>4, <1>7, <2>1, <2>3
<1> HIDE DEF AB
<1>9. ASSUME NEW x \in Arranged(a, A), NEW y \in Arranged(b, B), NEW z \in Arranged(c, C), NEW o,
             o = ((<<>> \o x) \o y) \o z
      PROVE  o \in Permuted(1 .. 3) /\ Ranked(p, o)
  <2>1. PICK u : u = x \o y
    OBVIOUS
  <2>2. o = u \o z
    <3>1. x \in [1 .. a -> A]
      BY DEF Arranged
    <3>2. x \in Seq(A)
      BY <1>5, <3>1
    <3>3. <<>> \o x = x
      BY <3>2, ConcatEmptySeq
    <3> QED BY <1>9, <2>1, <3>3
  <2>3. u \in Arranged(a + b, AB) /\ Before(u, A, B)
    BY <1>4, <1>5, <2>1, InTurn DEF AB
  <2>4. o \in Arranged((a + b) + c, AB \cup C) /\ Before(o, AB, C)
    BY <1>4, <1>5, <2>2, <2>3, InTurn
  <2>5. IsInTurn(o, u, z, a + b, c, AB, C)
    <3>1. u \in [1 .. (a + b) -> AB] /\ z \in [1 .. c -> C]
      BY <2>3 DEF Arranged
    <3> QED BY <1>5, <2>2, <3>1, InTurnIs
  <2>6. ASSUME NEW i \in DOMAIN o, NEW k \in DOMAIN o, i < k PROVE rank(o[i]) <= rank(o[k])
    <3>1. DOMAIN o = 1 .. ((a + b) + c) /\ o[i] \in AB \cup C /\ o[k] \in AB \cup C
      BY <2>4 DEF Arranged
    <3>2. CASE o[k] \in C
      <4>1. rank(o[k]) = 3 /\ rank(o[i]) \in 1 .. 3
        BY <1>3, <3>1, <3>2 DEF AB
      <4> QED BY <4>1
    <3>3. CASE o[k] \in AB
      <4>1. o[i] \notin C /\ o[i] \in AB
        BY <2>4, <2>6, <3>1, <3>3 DEF Before
      <4>2. ASSUME NEW j \in 1 .. ((a + b) + c), o[j] \in AB
            PROVE  j \in 1 .. (a + b) /\ o[j] = u[j]
        <5>1. ASSUME j \notin 1 .. (a + b) PROVE FALSE
          <6>1. j - (a + b) \in 1 .. c /\ (a + b) + (j - (a + b)) = j
            BY <1>5, <5>1
          <6>2. o[j] \in C
            <7>1. z \in [1 .. c -> C]
              BY DEF Arranged
            <7>2. o[j] = z[j - (a + b)]
              BY <2>5, <6>1 DEF IsInTurn
            <7> QED BY <6>1, <7>1, <7>2
          <6> QED BY <1>4, <4>2, <6>2
        <5> QED BY <2>5, <5>1 DEF IsInTurn
      <4>3. i \in 1 .. (a + b) /\ k \in 1 .. (a + b) /\ o[i] = u[i] /\ o[k] = u[k]
        BY <3>1, <3>3, <4>1, <4>2
      <4>4. DOMAIN u = 1 .. (a + b)
        BY <2>3 DEF Arranged
      <4>5. ~(u[i] \in B /\ u[k] \in A)
        BY <2>3, <2>6, <4>3, <4>4 DEF Before
      <4>6. CASE u[i] \in A
        <5>1. rank(o[i]) = 1 /\ rank(o[k]) \in 1 .. 3
          BY <1>3, <3>1, <4>3, <4>6 DEF AB
        <5> QED BY <5>1
      <4>7. CASE u[i] \in B /\ u[k] \in B
        <5>1. rank(o[i]) = 2 /\ rank(o[k]) = 2
          BY <1>3, <4>3, <4>7
        <5> QED BY <5>1
      <4> QED BY <3>3, <4>1, <4>3, <4>5, <4>6, <4>7 DEF AB
    <3> QED BY <3>1, <3>2, <3>3
  <2> QED BY <1>8, <2>4, <2>6 DEF Ranked, rank
<1>10. ASSUME NEW o \in Permuted(1 .. 3), Ranked(p, o)
       PROVE  \E x \in Arranged(a, A), y \in Arranged(b, B), z \in Arranged(c, C) :
                 o = ((<<>> \o x) \o y) \o z
  <2>1. o \in Arranged((a + b) + c, AB \cup C)
    BY <1>8
  <2>2. DOMAIN o = 1 .. ((a + b) + c)
    BY <2>1 DEF Arranged
  <2>3. \A i, k \in DOMAIN o : i < k => rank(o[i]) <= rank(o[k])
    BY <1>10 DEF Ranked, rank
  <2>4. Before(o, AB, C)
    <3> SUFFICES ASSUME NEW i \in DOMAIN o, NEW k \in DOMAIN o, i < k, o[i] \in C, o[k] \in AB
                 PROVE  FALSE
      BY DEF Before
    <3>1. rank(o[i]) = 3 /\ (rank(o[k]) = 1 \/ rank(o[k]) = 2)
      BY <1>3 DEF AB
    <3>2. rank(o[i]) <= rank(o[k])
      BY <2>3
    <3> QED BY <3>1, <3>2
  <2>5. PICK u \in Arranged(a + b, AB), z \in Arranged(c, C) :
            o = u \o z /\ \A i \in 1 .. (a + b) : u[i] = o[i]
    <3>1. IsParted(o, a + b, c, AB, C)
      BY <1>4, <1>5, <1>6, <2>1, <2>4, Parted
    <3> QED BY <3>1 DEF IsParted
  <2>6. Before(u, A, B)
    <3>1. DOMAIN u = 1 .. (a + b)
      BY DEF Arranged
    <3> SUFFICES ASSUME NEW i \in 1 .. (a + b), NEW k \in 1 .. (a + b), i < k, u[i] \in B, u[k] \in A
                 PROVE  FALSE
      BY <3>1 DEF Before
    <3>2. i \in DOMAIN o /\ k \in DOMAIN o
      BY <1>5, <2>2
    <3>3. rank(o[i]) <= rank(o[k]) /\ rank(o[i]) = 2 /\ rank(o[k]) = 1
      BY <1>3, <2>3, <2>5, <3>2
    <3> QED BY <3>3
  <2>7. PICK x \in Arranged(a, A), y \in Arranged(b, B) : u = x \o y
    <3>1. u \in Arranged(a + b, A \cup B)
      BY DEF AB
    <3>2. IsParted(u, a, b, A, B)
      BY <1>2, <1>4, <1>5, <2>6, <3>1, Parted
    <3> QED BY <3>2 DEF IsParted
  <2>8. <<>> \o x = x
    <3>1. x \in [1 .. a -> A]
      BY DEF Arranged
    <3>2. x \in Seq(A)
      BY <1>5, <3>1
    <3> QED BY <3>2, ConcatEmptySeq
  <2> QED BY <2>5, <2>7, <2>8
<1>11. ASSUME NEW o
       PROVE  o \in Grown(Grown(Grown({<<>>}, Permuted(A)), Permuted(B)), Permuted(C))
                <=> \E x \in Arranged(a, A), y \in Arranged(b, B), z \in Arranged(c, C) :
                       o = ((<<>> \o x) \o y) \o z
  <2>0. PICK E : E = {<<>>}
    OBVIOUS
  <2> DEFINE one == Grown(E, Arranged(a, A))
             two == Grown(one, Arranged(b, B))
  <2>1. \A O, S, q : q \in Grown(O, S) <=> \E r \in O, s \in S : q = r \o s
    BY DEF Grown
  <2>2. \A q : q \in one <=> \E x \in Arranged(a, A) : q = <<>> \o x
    <3> TAKE q
    <3>1. q \in one <=> \E r \in E, x \in Arranged(a, A) : q = r \o x
      BY <2>1
    <3>2. ASSUME q \in one PROVE \E x \in Arranged(a, A) : q = <<>> \o x
      <4>1. PICK r \in E, x \in Arranged(a, A) : q = r \o x
        BY <3>1, <3>2
      <4>2. r = <<>>
        BY <2>0
      <4> QED BY <4>1, <4>2
    <3>3. ASSUME NEW x \in Arranged(a, A), q = <<>> \o x PROVE q \in one
      <4>1. <<>> \in E
        BY <2>0
      <4> QED BY <3>1, <3>3, <4>1
    <3> HIDE DEF one
    <3> QED BY <3>2, <3>3
  <2> HIDE DEF one
  <2>3. \A q : q \in two <=> \E r \in one, y \in Arranged(b, B) : q = r \o y
    BY <2>1
  <2> HIDE DEF two
  <2>4. \A q : q \in Grown(two, Arranged(c, C)) <=> \E r \in two, z \in Arranged(c, C) : q = r \o z
    BY <2>1
  <2>5. ASSUME o \in Grown(two, Arranged(c, C))
        PROVE  \E x \in Arranged(a, A), y \in Arranged(b, B), z \in Arranged(c, C) :
                  o = ((<<>> \o x) \o y) \o z
    <3>1. PICK r \in two, z \in Arranged(c, C) : o = r \o z
      BY <2>4, <2>5
    <3>2. PICK q \in one, y \in Arranged(b, B) : r = q \o y
      BY <2>3
    <3>3. PICK x \in Arranged(a, A) : q = <<>> \o x
      BY <2>2
    <3>4. o = ((<<>> \o x) \o y) \o z
      BY <3>1, <3>2, <3>3
    <3> QED BY <3>4
  <2>6. ASSUME NEW x \in Arranged(a, A), NEW y \in Arranged(b, B), NEW z \in Arranged(c, C),
               o = ((<<>> \o x) \o y) \o z
        PROVE  o \in Grown(two, Arranged(c, C))
    <3>1. <<>> \o x \in one
      BY <2>2
    <3>2. (<<>> \o x) \o y \in two
      BY <2>3, <3>1
    <3> QED BY <2>4, <2>6, <3>2
  <2>7. Grown(Grown(Grown({<<>>}, Permuted(A)), Permuted(B)), Permuted(C))
          = Grown(two, Arranged(c, C))
    BY <1>8, <2>0 DEF one, two
  <2>8. o \in Grown(two, Arranged(c, C))
          <=> \E x \in Arranged(a, A), y \in Arranged(b, B), z \in Arranged(c, C) :
                 o = ((<<>> \o x) \o y) \o z
    BY <2>5, <2>6
  <2> QED BY <2>7, <2>8
<1>12. Grown(Grown(Grown({<<>>}, Permuted(A)), Permuted(B)), Permuted(C))
         = {o \in Permuted(1 .. 3) : Ranked(p, o)}
  <2>1. PICK X : X = Grown(Grown(Grown({<<>>}, Permuted(A)), Permuted(B)), Permuted(C))
    OBVIOUS
  <2>2. ASSUME NEW o \in X PROVE o \in Permuted(1 .. 3) /\ Ranked(p, o)
    BY <1>9, <1>11, <2>1
  <2>3. ASSUME NEW o \in Permuted(1 .. 3), Ranked(p, o) PROVE o \in X
    BY <1>10, <1>11, <2>1, <2>3
  <2>4. X = {o \in Permuted(1 .. 3) : Ranked(p, o)}
    BY <2>2, <2>3
  <2> QED BY <2>1, <2>4
<1> QED BY <1>1, <1>12 DEF A_, B_, C_

\* What the fairness of a layout comes to.
LEMMA FairLayouts == WInv => LayoutsAreFair
<1> SUFFICES ASSUME At("shown"), ShownTrue(work)
             PROVE  LayoutsAreFair
  BY DEF WInv, LayoutsAreFair
<1>1. PICK p, q, n : p = work.paper /\ q = p.questions[1] /\ n = Len(q.options)
  OBVIOUS
<1>2. /\ PaperTrue(p) /\ p.sections = <<"s1", "s2">>
      /\ p.order \in {"FIXED", "SHUFFLE_ALL", "SHUFFLE_WITHIN_SECTION"}
      /\ work.questions \in orderQuestions(p)
      /\ work.options \in orderOptions(q, work.setting, work.keepLast)
  BY <1>1 DEF ShownTrue
<1>3. Places(p) = 1 .. 3 /\ p.method \in Methods
  BY <1>2 DEF PaperTrue, Places
<1>4. n \in Nat \ {0} /\ n > 1 /\ DOMAIN q.options = 1 .. n
  <2>1. Scorable(q, p.method)
    <3>1. 1 \in Places(p)
      BY <1>3
    <3> QED BY <1>1, <1>2, <3>1 DEF PaperTrue
  <2>2. q.options \in Seq(Option) /\ Len(q.options) >= 2
    BY <2>1 DEF Scorable
  <2>3. Len(q.options) \in Nat /\ DOMAIN q.options = 1 .. Len(q.options)
    BY <2>2
  <2> HIDE <2>1
  <2> QED BY <1>1, <2>2, <2>3
<1>5. /\ Permuted(1 .. n) = Arranged(n, 1 .. n) /\ Shuffles([i \in 1 .. n |-> i]) = Arranged(n, 1 .. n)
      /\ Cardinality(Shuffles([i \in 1 .. n |-> i])) = Cardinality(Draws(n))
  BY <1>4, Counted, ShuffleIsFair
<1> DEFINE kept(o) ==
              CASE p.order = "FIXED" -> \A i \in DOMAIN o : o[i] = i
                [] p.order = "SHUFFLE_ALL" /\ p.method = "CORRECT_ANSWER" -> TRUE
                [] OTHER -> \A i, k \in DOMAIN o :
                      i < k => SectionRank(p, o[i]) <= SectionRank(p, o[k])
           still(o) ==
              IF q.type = "SINGLE_CHOICE" /\ work.setting THEN work.keepLast => o[n] = n
              ELSE \A i \in DOMAIN o : o[i] = i
<1>6. {o \in Permuted(Places(p)) : kept(o)} = orderQuestions(p)
  <2> DEFINE all == [i \in 1 .. 3 |-> i]
  <2>1. Permuted(1 .. 3) = Arranged(3, 1 .. 3) /\ all \in Arranged(3, 1 .. 3)
    <3>1. \A m \in Nat : [i \in 1 .. m |-> i] \in Arranged(m, 1 .. m) /\ Permuted(1 .. m) = Arranged(m, 1 .. m)
      BY Counted
    <3> QED BY <3>1
  <2>2. CASE p.order = "FIXED"
    <3>1. effectiveOrder(p) = "FIXED"
      BY <2>2 DEF effectiveOrder
    <3>2. orderQuestions(p) = {all}
      <4>1. orderQuestions(p) = {[i \in Places(p) |-> i]}
        BY <3>1 DEF orderQuestions, FoldLeft, MapThenFoldSet
      <4> QED BY <1>3, <4>1
    <3>3. ASSUME NEW o \in Permuted(1 .. 3), kept(o) PROVE o = all
      <4>1. o \in [1 .. 3 -> 1 .. 3]
        BY <2>1, <3>3 DEF Arranged
      <4>2. \A i \in 1 .. 3 : o[i] = i
        BY <2>2, <3>3, <4>1
      <4> QED BY <4>1, <4>2
    <3>4. kept(all)
      BY <2>2
    <3> HIDE DEF all, kept
    <3> QED BY <1>3, <2>1, <3>2, <3>3, <3>4
  <2>3. CASE p.order = "SHUFFLE_ALL" /\ p.method = "CORRECT_ANSWER"
    <3>1. effectiveOrder(p) = "SHUFFLE_ALL"
      BY <2>3 DEF effectiveOrder
    <3>2. orderQuestions(p) = Shuffles(all)
      <4>1. orderQuestions(p) = Shuffles([i \in Places(p) |-> i])
        BY <3>1 DEF orderQuestions, FoldLeft, MapThenFoldSet
      <4> QED BY <1>3, <4>1
    <3>3. Shuffles(all) = Arranged(3, 1 .. 3)
      <4> HIDE DEF all
      <4> QED BY <2>1, ShuffleIsFair
    <3>4. \A o : kept(o)
      BY <2>3
    <3> HIDE DEF all, kept
    <3> QED BY <1>3, <2>1, <3>2, <3>3, <3>4
  <2>4. CASE p.order # "FIXED" /\ ~(p.order = "SHUFFLE_ALL" /\ p.method = "CORRECT_ANSWER")
    <3>1. effectiveOrder(p) = "SHUFFLE_WITHIN_SECTION"
      BY <1>2, <1>3, <2>4 DEF effectiveOrder, Methods
    <3>2. orderQuestions(p) = {o \in Permuted(1 .. 3) : Ranked(p, o)}
      BY <1>2, <3>1, BlockByBlock, ThreeBlocks
    <3>3. \A o : kept(o) <=> Ranked(p, o)
      BY <2>4 DEF Ranked
    <3> HIDE DEF kept
    <3> QED BY <1>3, <3>2, <3>3
  <2> QED BY <2>2, <2>3, <2>4
<1>7. {o \in Permuted(1 .. n) : still(o)} = orderOptions(q, work.setting, work.keepLast)
  <2> DEFINE all == [i \in 1 .. n |-> i]
             less == [i \in 1 .. (n - 1) |-> i]
  <2>1. all \in Arranged(n, 1 .. n) /\ less \in Arranged(n - 1, 1 .. (n - 1))
    BY <1>4, Counted
  <2>2. Len(all) = n /\ SubSeq(all, 1, n - 1) = less
    <3>1. \A i \in 1 .. (n - 1) : all[i] = i
      BY <1>4
    <3>2. all \in Seq(1 .. n) /\ Len(all) = n
      BY <1>4
    <3>3. SubSeq(all, 1, n - 1) = [i \in 1 .. (n - 1) |-> all[i]]
      <4> HIDE DEF all
      <4> QED BY <1>4, <3>2
    <3> QED BY <3>1, <3>2, <3>3
  <2>3. CASE ~(q.type = "SINGLE_CHOICE" /\ work.setting)
    <3>1. orderOptions(q, work.setting, work.keepLast) = {all}
      BY <1>4, <2>3 DEF orderOptions, shufflesOptions
    <3>2. ASSUME NEW o \in Permuted(1 .. n), still(o) PROVE o = all
      <4>1. o \in [1 .. n -> 1 .. n]
        BY <1>5, <3>2 DEF Arranged
      <4>2. \A i \in 1 .. n : o[i] = i
        BY <2>3, <3>2, <4>1
      <4> QED BY <4>1, <4>2
    <3>3. still(all)
      BY <2>3
    <3> HIDE DEF all, still
    <3> QED BY <1>5, <2>1, <3>1, <3>2, <3>3
  <2>4. CASE q.type = "SINGLE_CHOICE" /\ work.setting /\ ~work.keepLast
    <3>1. orderOptions(q, work.setting, work.keepLast) = Shuffles(all)
      BY <1>4, <2>2, <2>4 DEF orderOptions, shufflesOptions
    <3>2. \A o : still(o)
      BY <2>4
    <3> HIDE DEF still
    <3> QED BY <1>5, <3>1, <3>2
  <2>5. CASE q.type = "SINGLE_CHOICE" /\ work.setting /\ work.keepLast
    <3>1. orderOptions(q, work.setting, work.keepLast)
            = {Append(s, n) : s \in Shuffles(SubSeq(all, 1, n - 1))}
      <4> HIDE DEF less
      <4> QED BY <1>4, <2>2, <2>5 DEF orderOptions, shufflesOptions
    <3>2. Shuffles(less) = Arranged(n - 1, 1 .. (n - 1))
      <4> HIDE DEF less
      <4> QED BY <1>4, <2>1, ShuffleIsFair
    <3>3. {Append(s, n) : s \in Arranged(n - 1, 1 .. (n - 1))} = {o \in Arranged(n, 1 .. n) : o[n] = n}
      BY <1>4, LastStays
    <3>4. \A o : still(o) <=> o[n] = n
      BY <2>5
    <3> HIDE DEF still, less, all
    <3> QED BY <1>5, <2>2, <3>1, <3>2, <3>3, <3>4
  <2> QED BY <2>3, <2>4, <2>5
<1>8. /\ work.questions \in Permuted(Places(p)) /\ kept(work.questions)
      /\ work.options \in Permuted(1 .. n) /\ still(work.options)
  <2> HIDE DEF kept, still
  <2> QED BY <1>2, <1>6, <1>7
<1> QED BY <1>1, <1>5, <1>6, <1>7, <1>8 DEF LayoutsAreFair

-----------------------------------------------------------------------------
(* Questions as they are stored.                                             *)

LEMMA TypesAre ==
    /\ Types = {"SINGLE_CHOICE", "TRUE_FALSE", "RATING_SCALE", "CHOICE_SCALE"}
    /\ \A m \in Methods : questionTypesFor(m) \subseteq Types
    /\ \A t : isScale(t) <=> t \in {"RATING_SCALE", "CHOICE_SCALE"}
    /\ \A m \in Methods : \A t \in questionTypesFor(m) : isScale(t) <=> m = "ALIGNMENT"
BY DEF Types, Methods, questionTypesFor, isScale

\* What is said of a question before it is accepted.
Raw(q) ==
    /\ q = [type |-> q.type, options |-> q.options, employerValue |-> q.employerValue]
    /\ q.type \in Types /\ q.options \in Seq(Option) /\ q.employerValue \in Nat \cup {None}

LEMMA OptionIs ==
    ASSUME NEW o \in Option
    PROVE  /\ o.text \in Texts /\ o.value \in Nat \cup {None} /\ o.correct \in BOOLEAN
           /\ o = [text |-> o.text, value |-> o.value, correct |-> o.correct]
BY DEF Option

LEMMA Normalized ==
    ASSUME NEW q, Raw(q)
    PROVE  LET n == normalizeQuestion(q)
               scale == isScale(q.type)
           IN  /\ Raw(n) /\ n.type = q.type
               /\ n.employerValue = IF scale THEN q.employerValue ELSE None
               /\ q.options # <<>> =>
                     /\ DOMAIN n.options = DOMAIN q.options
                     /\ \A i \in DOMAIN q.options :
                           /\ n.options[i].text = q.options[i].text
                           /\ n.options[i].value =
                                 IF ~scale THEN None
                                 ELSE IF q.options[i].value = None THEN i ELSE q.options[i].value
                           /\ n.options[i].correct <=> ~scale /\ q.options[i].correct
               /\ normalizeQuestion(n) = n
<1> DEFINE n == normalizeQuestion(q)
           scale == isScale(q.type)
           source == IF q.type = "TRUE_FALSE" /\ q.options = <<>> THEN TrueFalse ELSE q.options
           option(o, i) ==
              [text |-> o.text,
               value |-> IF ~scale THEN None ELSE IF o.value = None THEN i ELSE o.value,
               correct |-> ~scale /\ o.correct]
<1>1. n = [type |-> q.type, options |-> [i \in DOMAIN source |-> option(source[i], i)],
           employerValue |-> IF scale THEN q.employerValue ELSE None]
  BY DEF normalizeQuestion
<1>2. source \in Seq(Option) /\ (q.type = "TRUE_FALSE" => source # <<>>) /\ DOMAIN source = 1 .. Len(source) /\ Len(source) \in Nat
  <2>1. TrueFalse \in Seq(Option) /\ TrueFalse # <<>>
    BY DEF TrueFalse, Option, Texts
  <2> QED BY <2>1 DEF Raw
<1>3. q.options # <<>> => source = q.options
  OBVIOUS
<1>4. \A i \in DOMAIN source : source[i] \in Option
  BY <1>2
<1> HIDE DEF n, source, scale
<1>5. \A i \in DOMAIN source : option(source[i], i) \in Option
  BY <1>2, <1>4 DEF Option
<1>6. n.options \in Seq(Option) /\ DOMAIN n.options = DOMAIN source
      /\ \A i \in DOMAIN source : n.options[i] = option(source[i], i)
  <2> HIDE DEF option
  <2> QED BY <1>1, <1>2, <1>5
<1>7. Raw(n)
  BY <1>1, <1>6 DEF Raw
<1>8. normalizeQuestion(n) = n
  <2> DEFINE again == IF n.type = "TRUE_FALSE" /\ n.options = <<>> THEN TrueFalse ELSE n.options
  <2>1. again = n.options
    <3>1. n.type = "TRUE_FALSE" => n.options # <<>>
      <4>1. n.type = "TRUE_FALSE" => 1 \in DOMAIN source
        BY <1>1, <1>2
      <4> QED BY <1>6, <4>1
    <3> QED BY <3>1
  <2> HIDE DEF again
  <2>2. \A i \in DOMAIN source : option(n.options[i], i) = n.options[i]
    <3>1. \A i \in DOMAIN source : i \in Nat /\ i # None
      BY <1>2, NoneAssumption
    <3> TAKE i \in DOMAIN source
    <3> DEFINE o == n.options[i]
    <3>2. /\ o.text = source[i].text /\ o.correct = (~scale /\ source[i].correct)
          /\ o.value = IF ~scale THEN None
                       ELSE IF source[i].value = None THEN i ELSE source[i].value
          /\ o = [text |-> o.text, value |-> o.value, correct |-> o.correct]
      <4>1. o = option(source[i], i)
        BY <1>6
      <4> HIDE DEF o
      <4>2. o.correct = (~scale /\ source[i].correct)
        BY <4>1, Zenon
      <4>3. /\ o.text = source[i].text
            /\ o.value = IF ~scale THEN None
                         ELSE IF source[i].value = None THEN i ELSE source[i].value
        BY <4>1
      <4>4. o = [text |-> o.text, value |-> o.value, correct |-> o.correct]
        BY <4>1, <4>2, <4>3
      <4> QED BY <4>2, <4>3, <4>4
    <3>3. o.value = IF ~scale THEN None ELSE IF o.value = None THEN i ELSE o.value
      BY <3>1, <3>2
    <3>4. o.correct = (~scale /\ o.correct)
      <4>1. source[i].correct \in BOOLEAN
        BY <1>4 DEF Option
      <4> QED BY <3>2, <4>1
    <3> HIDE DEF o
    <3>5. option(o, i) = [text |-> o.text, value |-> o.value, correct |-> o.correct]
      BY <3>3, <3>4
    <3> QED BY <3>2, <3>5 DEF o
  <2>3. normalizeQuestion(n) =
          [type |-> n.type, options |-> [i \in DOMAIN again |-> option(again[i], i)],
           employerValue |-> IF scale THEN n.employerValue ELSE None]
    BY <1>1 DEF normalizeQuestion, again, scale
  <2>4. [i \in DOMAIN again |-> option(again[i], i)] = n.options
    <3> HIDE DEF option
    <3> QED BY <1>1, <1>6, <2>1, <2>2
  <2>5. (IF scale THEN n.employerValue ELSE None) = n.employerValue
    BY <1>1
  <2>6. n = [type |-> n.type, options |-> n.options, employerValue |-> n.employerValue]
    BY <1>7 DEF Raw
  <2> QED BY <2>3, <2>4, <2>5, <2>6
<1>9. n.type = q.type /\ n.employerValue = IF scale THEN q.employerValue ELSE None
  BY <1>1
<1>10. q.options # <<>> =>
                     /\ DOMAIN n.options = DOMAIN q.options
                     /\ \A i \in DOMAIN q.options : n.options[i] = option(q.options[i], i)
  BY <1>3, <1>6
<1>11. ASSUME NEW i, NEW o, NEW r, o = option(r, i)
       PROVE  /\ o.text = r.text
              /\ o.value = IF ~scale THEN None ELSE IF r.value = None THEN i ELSE r.value
              /\ o.correct <=> ~scale /\ r.correct
  <2>1. o.correct = (~scale /\ r.correct)
    BY <1>11, Zenon
  <2>2. o.text = r.text /\ o.value = IF ~scale THEN None ELSE IF r.value = None THEN i ELSE r.value
    BY <1>11
  <2> QED BY <2>1, <2>2
<1> HIDE DEF option
<1> QED BY <1>7, <1>8, <1>9, <1>10, <1>11 DEF n, scale

LEMMA StoredSound ==
    ASSUME NEW q, Raw(q), NEW m, Accepted(normalizeQuestion(q), m)
    PROVE  Sound(normalizeQuestion(q), m)
<1> DEFINE n == normalizeQuestion(q)
<1>1. Raw(n) /\ normalizeQuestion(n) = n
  BY Normalized
<1> HIDE DEF n
<1>2. n \in Question
  BY <1>1 DEF Raw, Question
<1> QED BY <1>1, <1>2 DEF Sound, n

-----------------------------------------------------------------------------
(* The form and the API.                                                     *)

LEMMA AcceptedIs ==
    ASSUME NEW q, NEW m
    PROVE  Accepted(q, m) <=>
              /\ q.type \in questionTypesFor(m)
              /\ IF q.type = "TRUE_FALSE" THEN Len(q.options) = 2
                 ELSE Len(q.options) \in MinPoints ..
                        (IF q.type = "RATING_SCALE" THEN MaxPoints ELSE MaxChoices)
              /\ q.type \in {"SINGLE_CHOICE", "CHOICE_SCALE"} => ~AnyBlank(q)
              /\ ~isScale(q.type) => Cardinality(Corrects(q)) = 1
              /\ isScale(q.type) =>
                    Climbing(Values(q)) /\ q.employerValue \in ToSet(Values(q)) \ {None}
<1> DEFINE most == IF q.type = "RATING_SCALE" THEN MaxPoints ELSE MaxChoices
           count == IF q.type = "TRUE_FALSE" THEN Len(q.options) # 2 ELSE Len(q.options) \notin MinPoints .. most
<1>1. questionProblems(q, m) =
        {p \in {"type", "count", "text", "correct", "values", "employer"} :
            \/ p = "type" /\ q.type \notin questionTypesFor(m)
            \/ p = "count" /\ count
            \/ p = "text" /\ q.type \in {"SINGLE_CHOICE", "CHOICE_SCALE"} /\ AnyBlank(q)
            \/ p = "correct" /\ ~isScale(q.type) /\ Cardinality(Corrects(q)) # 1
            \/ p = "values" /\ isScale(q.type) /\ ~Climbing(Values(q))
            \/ p = "employer" /\ isScale(q.type)
                 /\ q.employerValue \notin ToSet(Values(q)) \ {None}}
  BY DEF questionProblems
<1> HIDE DEF count
<1>2. Accepted(q, m) <=>
        /\ q.type \in questionTypesFor(m) /\ ~count
        /\ ~(q.type \in {"SINGLE_CHOICE", "CHOICE_SCALE"} /\ AnyBlank(q))
        /\ ~(~isScale(q.type) /\ Cardinality(Corrects(q)) # 1)
        /\ ~(isScale(q.type) /\ ~Climbing(Values(q)))
        /\ ~(isScale(q.type) /\ q.employerValue \notin ToSet(Values(q)) \ {None})
  BY <1>1 DEF Accepted
<1>3. ~count <=> IF q.type = "TRUE_FALSE" THEN Len(q.options) = 2 ELSE Len(q.options) \in MinPoints .. most
  BY DEF count
<1> HIDE DEF most
<1>4. most = IF q.type = "RATING_SCALE" THEN MaxPoints ELSE MaxChoices
  BY DEF most
<1> QED BY <1>2, <1>3, <1>4

LEMMA SizedIs ==
    ASSUME NEW t, NEW n
    PROVE  Sized(t, n) <=>
              /\ t = "TRUE_FALSE" => n = 2
              /\ t = "RATING_SCALE" => n \in 2 .. MaxPoints
              /\ t \notin {"TRUE_FALSE", "RATING_SCALE"} => n <= MaxChoices
BY DEF Sized, MinPoints

LEMMA NoProblems ==
    ASSUME NEW d, NEW m
    PROVE  draftProblems(d, m) = {} <=>
              /\ d.type \in questionTypesFor(m)
              /\ d.type \in {"SINGLE_CHOICE", "CHOICE_SCALE"} => ~(Len(d.options) < 2) /\ ~AnyBlank(d)
              /\ ~isScale(d.type) => Cardinality(Corrects(d)) = 1
              /\ isScale(d.type) => d.employerKey \in Keys(d.options)
BY DEF draftProblems

LEMMA ScaleValuesAre ==
    ASSUME NEW os, DraftOptions(os)
    PROVE  LET values == scaleValues(os)
           IN  /\ DOMAIN values = DOMAIN os /\ DOMAIN os = 1 .. Len(os) /\ Len(os) \in Nat
               /\ Climbing(values)
               /\ \A i \in DOMAIN os : values[i] \in Nat /\ values[i] # None
               /\ Climbing([i \in DOMAIN os |-> os[i].value]) =>
                     \A i \in DOMAIN os : values[i] = os[i].value
<1> DEFINE stored == [i \in DOMAIN os |-> os[i].value]
<1>1. DOMAIN os = 1 .. Len(os) /\ Len(os) \in Nat /\ \A i \in DOMAIN os : os[i].value \in Nat \cup {None}
  BY DEF DraftOptions, DraftOption
<1>2. CASE Climbing(stored)
  <2>1. scaleValues(os) = stored
    BY <1>2 DEF scaleValues
  <2>2. \A i \in DOMAIN os : stored[i] = os[i].value /\ stored[i] # None
    BY <1>2 DEF Climbing
  <2> QED BY <1>1, <1>2, <2>1, <2>2
<1>3. CASE ~Climbing(stored)
  <2> DEFINE own == [i \in DOMAIN os |-> i]
  <2>1. scaleValues(os) = own
    BY <1>3 DEF scaleValues
  <2>2. \A i \in DOMAIN os : own[i] = i /\ i \in Nat /\ i # None /\ (i > 1 => i - 1 \in DOMAIN os /\ i > i - 1)
    BY <1>1, NoneAssumption
  <2>3. DOMAIN own = DOMAIN os
    OBVIOUS
  <2> HIDE DEF own
  <2>4. Climbing(own)
    BY <2>2, <2>3 DEF Climbing
  <2> QED BY <1>1, <1>3, <2>1, <2>2, <2>3, <2>4
<1> QED BY <1>2, <1>3

\* What the form sends.
LEMMA InputIs ==
    ASSUME NEW d, d.type \in Types, DraftOptions(d.options)
    PROVE  LET x == toInput(d)
               scale == isScale(d.type)
               values == scaleValues(d.options)
               picks == {i \in DOMAIN d.options : d.options[i].key = d.employerKey}
           IN  /\ Raw(x) /\ x.type = d.type
               /\ DOMAIN x.options = DOMAIN d.options /\ Len(x.options) = Len(d.options)
               /\ \A i \in DOMAIN d.options :
                     /\ x.options[i].text = d.options[i].text
                     /\ scale => x.options[i].value = values[i]
                     /\ ~scale => x.options[i].value = None
                     /\ x.options[i].correct <=> ~scale /\ d.options[i].correct
               /\ scale /\ picks # {} => Min(picks) \in picks /\ x.employerValue = values[Min(picks)]
               /\ ~scale \/ picks = {} => x.employerValue = None
<1> DEFINE x == toInput(d)
           scale == isScale(d.type)
           values == scaleValues(d.options)
           picks == {i \in DOMAIN d.options : d.options[i].key = d.employerKey}
           option(o, i) == [text |-> o.text, value |-> IF scale THEN values[i] ELSE None,
                            correct |-> ~scale /\ o.correct]
<1>1. x = [type |-> d.type, options |-> [i \in DOMAIN d.options |-> option(d.options[i], i)],
           employerValue |-> IF scale /\ picks # {} THEN values[Min(picks)] ELSE None]
  BY DEF toInput
<1>2. /\ DOMAIN d.options = 1 .. Len(d.options) /\ Len(d.options) \in Nat
      /\ \A i \in DOMAIN d.options : values[i] \in Nat /\ DraftOption(d.options[i])
  BY ScaleValuesAre DEF DraftOptions
<1>3. picks # {} => Min(picks) \in picks
  <2> SUFFICES ASSUME picks # {} PROVE Min(picks) \in picks
    OBVIOUS
  <2>1. picks \subseteq 1 .. Len(d.options) /\ IsFiniteSet(1 .. Len(d.options))
    <3>1. 1 \in Int /\ Len(d.options) \in Int
      BY <1>2
    <3>2. IsFiniteSet(1 .. Len(d.options))
      BY <3>1, FS_Interval
    <3> QED BY <1>2, <3>2
  <2>2. picks \subseteq Int /\ IsFiniteSet(picks)
    BY <1>2, <2>1, FS_Subset
  <2> HIDE DEF picks
  <2> QED BY <2>2, Ends
<1> HIDE DEF x, scale, values
<1>4. \A i \in DOMAIN d.options : option(d.options[i], i) \in Option
  BY <1>2 DEF DraftOption, Option
<1>5. x.options = [i \in 1 .. Len(d.options) |-> option(d.options[i], i)]
  BY <1>1, <1>2
<1>6. x.options \in Seq(Option) /\ Len(x.options) = Len(d.options)
      /\ \A i \in DOMAIN d.options : x.options[i] = option(d.options[i], i)
  <2> HIDE DEF option
  <2> QED BY <1>2, <1>4, <1>5
<1>7. x.employerValue \in Nat \cup {None}
  <2> HIDE DEF option
  <2>1. picks # {} => Min(picks) \in DOMAIN d.options
    BY <1>3
  <2> HIDE DEF picks
  <2> QED BY <1>1, <1>2, <2>1
<1>8. Raw(x) /\ x.type = d.type
  <2> HIDE DEF option, picks
  <2> QED BY <1>1, <1>6, <1>7 DEF Raw
<1>9. DOMAIN x.options = DOMAIN d.options
  BY <1>2, <1>5
<1>10. x.employerValue = IF scale /\ picks # {} THEN values[Min(picks)] ELSE None
  BY <1>1
<1>11. ASSUME NEW i, NEW o, NEW r, o = option(r, i)
       PROVE  /\ o.text = r.text
              /\ scale => o.value = values[i]
              /\ ~scale => o.value = None
              /\ o.correct <=> ~scale /\ r.correct
  <2>1. o.correct = (~scale /\ r.correct)
    BY <1>11, Zenon
  <2>2. o.text = r.text /\ (scale => o.value = values[i]) /\ (~scale => o.value = None)
    BY <1>11
  <2> QED BY <2>1, <2>2
<1> HIDE DEF option
<1> QED BY <1>3, <1>6, <1>8, <1>9, <1>10, <1>11 DEF x, scale, values

LEMMA FormAccepted ==
    ASSUME NEW m \in Methods, NEW d, DraftTrue(d, m), draftProblems(d, m) = {}
    PROVE  Accepted(normalizeQuestion(toInput(d)), m)
<1> DEFINE x == toInput(d)
           y == normalizeQuestion(x)
           scale == isScale(d.type)
           values == scaleValues(d.options)
           picks == {i \in DOMAIN d.options : d.options[i].key = d.employerKey}
           D == DOMAIN d.options
<1>1. /\ d.type \in questionTypesFor(m) /\ d.type \in Types
      /\ DraftOptions(d.options) /\ Sized(d.type, Len(d.options))
  BY TypesAre DEF DraftTrue
<1>2. /\ D = 1 .. Len(d.options) /\ Len(d.options) \in Nat
      /\ Climbing(values) /\ DOMAIN values = D /\ \A i \in D : values[i] \in Nat /\ values[i] # None
  BY <1>1, ScaleValuesAre
<1>3. /\ d.type \in {"SINGLE_CHOICE", "CHOICE_SCALE"} => Len(d.options) >= 2 /\ ~AnyBlank(d)
      /\ ~scale => Cardinality(Corrects(d)) = 1
      /\ scale => d.employerKey \in Keys(d.options)
  BY <1>2, NoProblems
<1>4. Len(d.options) >= 2
  BY <1>1, <1>2, <1>3, SizedIs, SizesFit, TypesAre
<1>5. /\ Raw(x) /\ x.type = d.type /\ DOMAIN x.options = D /\ Len(x.options) = Len(d.options)
      /\ \A i \in D : /\ x.options[i].text = d.options[i].text
                      /\ scale => x.options[i].value = values[i]
                      /\ ~scale => x.options[i].value = None
                      /\ x.options[i].correct <=> ~scale /\ d.options[i].correct
      /\ scale /\ picks # {} => Min(picks) \in D /\ x.employerValue = values[Min(picks)]
  <2>1. /\ Raw(x) /\ x.type = d.type /\ DOMAIN x.options = D /\ Len(x.options) = Len(d.options)
        /\ \A i \in D : /\ x.options[i].text = d.options[i].text
                        /\ scale => x.options[i].value = values[i]
                        /\ ~scale => x.options[i].value = None
                        /\ x.options[i].correct <=> ~scale /\ d.options[i].correct
    BY <1>1, InputIs
  <2>2. scale /\ picks # {} => Min(picks) \in picks /\ x.employerValue = values[Min(picks)]
    BY <1>1, InputIs
  <2>3. picks \subseteq D
    OBVIOUS
  <2> HIDE DEF x, scale, values, picks, D
  <2> QED BY <2>1, <2>2, <2>3
<1>6. x.options # <<>>
  BY <1>4, <1>5
<1> HIDE DEF x, scale, values, picks, D
<1>7. /\ Raw(y) /\ y.type = d.type /\ DOMAIN y.options = D
      /\ y.employerValue = IF scale THEN x.employerValue ELSE None
      /\ \A i \in D :
            /\ y.options[i].text = x.options[i].text
            /\ y.options[i].value = IF ~scale THEN None
                                   ELSE IF x.options[i].value = None THEN i ELSE x.options[i].value
            /\ y.options[i].correct <=> ~scale /\ x.options[i].correct
  BY <1>5, <1>6, Normalized DEF scale
<1> HIDE DEF y
<1>8. \A i \in D : /\ y.options[i].text = d.options[i].text
                   /\ scale => y.options[i].value = values[i]
                   /\ ~scale => (y.options[i].correct <=> d.options[i].correct)
  <2> TAKE i \in D
  <2>1. /\ x.options[i].text = d.options[i].text
        /\ scale => x.options[i].value = values[i]
        /\ ~scale => x.options[i].value = None
        /\ x.options[i].correct <=> ~scale /\ d.options[i].correct
    BY <1>5
  <2>2. /\ y.options[i].text = x.options[i].text
        /\ y.options[i].value = IF ~scale THEN None
                               ELSE IF x.options[i].value = None THEN i ELSE x.options[i].value
        /\ y.options[i].correct <=> ~scale /\ x.options[i].correct
    BY <1>7
  <2>3. values[i] # None
    BY <1>2
  <2>4. y.options[i].text = d.options[i].text /\ (scale => y.options[i].value = values[i])
    BY <2>1, <2>2, <2>3
  <2>5. ~scale => (y.options[i].correct <=> d.options[i].correct)
    BY <2>1, <2>2
  <2> QED BY <2>4, <2>5
<1>9. Len(y.options) = Len(d.options)
  BY <1>2, <1>7 DEF Raw
<1>10. IF y.type = "TRUE_FALSE" THEN Len(y.options) = 2
       ELSE Len(y.options) \in MinPoints .. (IF y.type = "RATING_SCALE" THEN MaxPoints ELSE MaxChoices)
  <2> DEFINE n == Len(d.options)
  <2>1. /\ n \in Nat /\ n >= 2 /\ Len(y.options) = n /\ y.type = d.type
        /\ d.type = "TRUE_FALSE" => n = 2
        /\ d.type = "RATING_SCALE" => n \in 2 .. MaxPoints
        /\ d.type \notin {"TRUE_FALSE", "RATING_SCALE"} => n <= MaxChoices
    BY <1>1, <1>2, <1>4, <1>7, <1>9, SizedIs
  <2> HIDE DEF n
  <2>2. CASE d.type = "TRUE_FALSE"
    BY <2>1, <2>2
  <2>3. CASE d.type = "RATING_SCALE"
    BY <2>1, <2>3 DEF MinPoints
  <2>4. CASE d.type \notin {"TRUE_FALSE", "RATING_SCALE"}
    BY <2>1, <2>4, SizesFit DEF MinPoints
  <2> QED BY <2>2, <2>3, <2>4
<1>11. y.type \in {"SINGLE_CHOICE", "CHOICE_SCALE"} => ~AnyBlank(y)
  BY <1>3, <1>7, <1>8 DEF AnyBlank, D
<1>12. ~isScale(y.type) => Cardinality(Corrects(y)) = 1
  <2>1. ~scale => Corrects(y) = Corrects(d)
    BY <1>7, <1>8 DEF Corrects, D
  <2> QED BY <1>3, <1>7, <2>1 DEF scale
<1>13. isScale(y.type) => Climbing(Values(y)) /\ y.employerValue \in ToSet(Values(y)) \ {None}
  <2> SUFFICES ASSUME scale PROVE Climbing(Values(y)) /\ y.employerValue \in ToSet(Values(y)) \ {None}
    BY <1>7 DEF scale
  <2>1. DOMAIN Values(y) = D /\ \A i \in D : Values(y)[i] = values[i]
    BY <1>7, <1>8 DEF Values
  <2>2. Climbing(Values(y))
    <3>1. \A i \in D : i > 1 => i - 1 \in D
      BY <1>2
    <3> QED BY <1>2, <2>1, <3>1 DEF Climbing
  <2>3. picks # {}
    BY <1>3 DEF Keys, picks
  <2>4. y.employerValue = values[Min(picks)] /\ Min(picks) \in D
    BY <1>5, <1>7, <2>3
  <2> QED BY <1>2, <2>1, <2>2, <2>4 DEF ToSet
<1> QED BY <1>1, <1>7, <1>10, <1>11, <1>12, <1>13, AcceptedIs DEF y, x

LEMMA StoredAgain ==
    ASSUME NEW m \in Methods, NEW q, Sound(q, m)
    PROVE  LET d == draftFromQuestion(q)
           IN  /\ DraftTrue(d, m) /\ draftProblems(d, m) = {}
               /\ toInput(d) = q
<1> DEFINE d == draftFromQuestion(q)
           scale == isScale(q.type)
           picks == {i \in DOMAIN q.options : q.options[i].value # None /\ q.options[i].value = q.employerValue}
           D == DOMAIN q.options
           n == Len(q.options)
<1>1. /\ q.type \in Types /\ q.options \in Seq(Option) /\ q.employerValue \in Nat \cup {None}
      /\ q = [type |-> q.type, options |-> q.options, employerValue |-> q.employerValue]
      /\ n \in Nat /\ D = 1 .. n /\ \A i \in D : q.options[i] \in Option
  BY DEF Sound, Question
<1>2. /\ q.type \in questionTypesFor(m)
      /\ IF q.type = "TRUE_FALSE" THEN n = 2
         ELSE n \in MinPoints .. (IF q.type = "RATING_SCALE" THEN MaxPoints ELSE MaxChoices)
      /\ q.type \in {"SINGLE_CHOICE", "CHOICE_SCALE"} => ~AnyBlank(q)
      /\ ~scale => Cardinality(Corrects(q)) = 1
      /\ scale => Climbing(Values(q)) /\ q.employerValue \in ToSet(Values(q)) \ {None}
  BY AcceptedIs DEF Sound
<1>3. n >= 2
  <2>1. n = 2 \/ n \in 2 .. MaxPoints \/ n \in 2 .. MaxChoices
    BY <1>2 DEF MinPoints
  <2> HIDE DEF n
  <2> QED BY <1>1, <2>1, SizesFit
<1>4. \A i \in D : (scale => ~q.options[i].correct) /\ (~scale => q.options[i].value = None)
  <2>1. Raw(q) /\ q.options # <<>> /\ normalizeQuestion(q) = q
    BY <1>1, <1>3 DEF Raw, Sound
  <2> HIDE DEF D
  <2> QED BY <2>1, Normalized DEF D
<1>5. ~scale => q.employerValue = None
  BY <1>1, Normalized DEF Raw, Sound
<1>6. d = [type |-> q.type,
           options |-> [i \in D |-> [key |-> i, text |-> q.options[i].text,
                                     value |-> q.options[i].value, correct |-> q.options[i].correct]],
           employerKey |-> IF picks = {} THEN None ELSE Min(picks)]
  BY DEF draftFromQuestion
<1> HIDE DEF d, scale, picks, D, n
<1>7. /\ d.type = q.type /\ DOMAIN d = {"type", "options", "employerKey"}
      /\ d.employerKey = IF picks = {} THEN None ELSE Min(picks)
      /\ DOMAIN d.options = D /\ Len(d.options) = n
      /\ d.options = [i \in 1 .. Len(d.options) |-> d.options[i]]
      /\ \A i \in D : d.options[i] = [key |-> i, text |-> q.options[i].text,
                                      value |-> q.options[i].value, correct |-> q.options[i].correct]
  BY <1>1, <1>6
<1>8. \A i \in D : /\ DraftOption(d.options[i]) /\ d.options[i].key = i
                   /\ d.options[i].text = q.options[i].text /\ d.options[i].value = q.options[i].value
                   /\ d.options[i].correct = q.options[i].correct
  <2> TAKE i \in D
  <2>1. q.options[i] \in Option
    BY <1>1
  <2>2. d.options[i] = [key |-> i, text |-> q.options[i].text,
                        value |-> q.options[i].value, correct |-> q.options[i].correct]
    BY <1>7
  <2>3. q.options[i].text \in Texts /\ q.options[i].value \in Nat \cup {None} /\ q.options[i].correct \in BOOLEAN
    BY <2>1, OptionIs
  <2> QED BY <2>2, <2>3 DEF DraftOption
<1>9. DraftOptions(d.options)
  BY <1>1, <1>7, <1>8 DEF DraftOptions
<1>10. DraftTrue(d, m)
  <2>1. Sized(q.type, n)
    BY <1>1, <1>2, SizedIs, SizesFit, TypesAre DEF MinPoints
  <2> QED BY <1>2, <1>7, <1>9, <2>1 DEF DraftTrue
<1>11. scale => /\ picks # {} /\ Min(picks) \in D
                /\ q.options[Min(picks)].value = q.employerValue /\ q.employerValue # None
  <2> HAVE scale
  <2>1. picks # {}
    BY <1>2 DEF ToSet, Values, picks, D
  <2>2. picks \subseteq Int /\ IsFiniteSet(picks)
    <3>0. IsFiniteSet(1 .. n) /\ D = 1 .. n
      <4>1. 1 \in Int /\ n \in Int /\ D = 1 .. n
        BY <1>1
      <4> QED BY <4>1, FS_Interval
    <3>1. picks \subseteq D /\ IsFiniteSet(D)
      <4>1. picks \subseteq D
        BY DEF picks, D
      <4> QED BY <3>0, <4>1
    <3> QED BY <1>1, <3>1, FS_Subset
  <2>3. Min(picks) \in picks
    BY <2>1, <2>2, Ends
  <2> QED BY <2>1, <2>3 DEF picks, D
<1>12. draftProblems(d, m) = {}
  <2>1. Corrects(d) = Corrects(q) /\ (AnyBlank(d) <=> AnyBlank(q))
    BY <1>7, <1>8 DEF Corrects, AnyBlank, D
  <2>2. scale => d.employerKey \in Keys(d.options)
    BY <1>7, <1>8, <1>11 DEF Keys
  <2>3. ~(Len(d.options) < 2)
    BY <1>1, <1>3, <1>7
  <2> QED BY <1>2, <1>7, <2>1, <2>2, <2>3, NoProblems DEF scale
<1>13. toInput(d) = q
  <2> DEFINE x == toInput(d)
             values == scaleValues(d.options)
             picked == {i \in DOMAIN d.options : d.options[i].key = d.employerKey}
  <2>1. d.type \in Types
    BY <1>1, <1>7
  <2>2. /\ Raw(x) /\ x.type = q.type /\ DOMAIN x.options = D
        /\ \A i \in D : /\ x.options[i].text = d.options[i].text
                        /\ scale => x.options[i].value = values[i]
                        /\ ~scale => x.options[i].value = None
                        /\ x.options[i].correct <=> ~scale /\ d.options[i].correct
        /\ scale /\ picked # {} => Min(picked) \in picked /\ x.employerValue = values[Min(picked)]
        /\ ~scale => x.employerValue = None
    <3>1. /\ Raw(x) /\ x.type = d.type /\ DOMAIN x.options = DOMAIN d.options
          /\ \A i \in DOMAIN d.options :
                /\ x.options[i].text = d.options[i].text
                /\ isScale(d.type) => x.options[i].value = values[i]
                /\ ~isScale(d.type) => x.options[i].value = None
                /\ x.options[i].correct <=> ~isScale(d.type) /\ d.options[i].correct
          /\ isScale(d.type) /\ picked # {} => Min(picked) \in picked /\ x.employerValue = values[Min(picked)]
          /\ ~isScale(d.type) => x.employerValue = None
      BY <1>9, <2>1, InputIs
    <3>2. DOMAIN d.options = D /\ d.type = q.type /\ (isScale(d.type) <=> scale)
      BY <1>7 DEF scale
    <3> HIDE DEF x, values, picked
    <3>3. \A i \in D : /\ x.options[i].text = d.options[i].text
                       /\ scale => x.options[i].value = values[i]
                       /\ ~scale => x.options[i].value = None
                       /\ x.options[i].correct <=> ~scale /\ d.options[i].correct
      BY <3>1, <3>2
    <3> QED BY <3>1, <3>2, <3>3
  <2>3. scale => \A i \in D : values[i] = q.options[i].value
    <3> HAVE scale
    <3>1. [i \in DOMAIN d.options |-> d.options[i].value] = Values(q)
      BY <1>7, <1>8 DEF Values, D
    <3> QED BY <1>2, <1>7, <1>8, <1>9, <3>1, ScaleValuesAre
  <2> HIDE DEF x, values
  <2>4. \A i \in D : x.options[i] = q.options[i]
    <3> TAKE i \in D
    <3>1. /\ q.options[i] = [text |-> q.options[i].text, value |-> q.options[i].value,
                             correct |-> q.options[i].correct]
          /\ q.options[i].correct \in BOOLEAN
      BY <1>1, OptionIs
    <3>2. /\ x.options[i] = [text |-> x.options[i].text, value |-> x.options[i].value,
                             correct |-> x.options[i].correct]
          /\ x.options[i].correct \in BOOLEAN
      <4>1. x.options[i] \in Option
        BY <2>2 DEF Raw
      <4> QED BY <4>1, OptionIs
    <3>3. x.options[i].text = q.options[i].text /\ x.options[i].value = q.options[i].value
      <4>1. x.options[i].text = d.options[i].text /\ d.options[i].text = q.options[i].text
        BY <1>8, <2>2
      <4>2. (scale => x.options[i].value = values[i]) /\ (~scale => x.options[i].value = None)
        BY <2>2
      <4>3. (scale => values[i] = q.options[i].value) /\ (~scale => q.options[i].value = None)
        BY <1>4, <2>3
      <4> QED BY <4>1, <4>2, <4>3
    <3>4. x.options[i].correct = q.options[i].correct
      <4>1. x.options[i].correct <=> ~scale /\ d.options[i].correct
        BY <2>2
      <4>2. d.options[i].correct = q.options[i].correct /\ (scale => ~q.options[i].correct)
        BY <1>4, <1>8
      <4> QED BY <3>1, <3>2, <4>1, <4>2
    <3> QED BY <3>1, <3>2, <3>3, <3>4
  <2>5. x.options = q.options
    <3>1. x.options \in Seq(Option)
      BY <2>2 DEF Raw
    <3> QED BY <1>1, <2>2, <2>4, <3>1 DEF D
  <2>6. x.employerValue = q.employerValue
    <3>1. CASE scale
      <4>1. picked = {Min(picks)}
        BY <1>7, <1>8, <1>11, <3>1
      <4>2. Min(picked) = Min(picks) /\ picked # {}
        BY <2>2, <3>1, <4>1
      <4> QED BY <1>11, <2>2, <2>3, <3>1, <4>2
    <3>2. CASE ~scale
      BY <1>5, <2>2, <3>2
    <3> QED BY <3>1, <3>2
  <2>7. x = [type |-> x.type, options |-> x.options, employerValue |-> x.employerValue]
    BY <2>2 DEF Raw
  <2> QED BY <1>1, <2>2, <2>5, <2>6, <2>7 DEF x
<1> QED BY <1>10, <1>12, <1>13 DEF d

-----------------------------------------------------------------------------
(* The options of the form, as each change leaves them.                      *)

LEMMA DraftedOf ==
    ASSUME NEW os, DraftOptions(os)
    PROVE  LET X == {os[i] : i \in DOMAIN os}
           IN  /\ os \in Seq(X) /\ DOMAIN os = 1 .. Len(os) /\ Len(os) \in Nat
               /\ \A x \in X : DraftOption(x)
<1> DEFINE X == {os[i] : i \in DOMAIN os}
           n == Len(os)
<1>1. n \in Nat /\ os = [i \in 1 .. n |-> os[i]] /\ \A i \in DOMAIN os : DraftOption(os[i])
  BY DEF DraftOptions
<1> HIDE DEF n
<1>2. DOMAIN os = 1 .. n
  BY <1>1
<1>3. os \in [1 .. n -> X]
  BY <1>1, <1>2
<1>4. os \in Seq(X)
  <2> HIDE DEF X
  <2> QED BY <1>1, <1>3
<1> QED BY <1>1, <1>2, <1>4 DEF n

LEMMA DraftedFrom ==
    ASSUME NEW X, \A x \in X : DraftOption(x), NEW os \in Seq(X)
    PROVE  DraftOptions(os)
<1>1. Len(os) \in Nat /\ DOMAIN os = 1 .. Len(os) /\ os \in [1 .. Len(os) -> X]
  OBVIOUS
<1>2. \A i \in DOMAIN os : os[i] \in X
  BY <1>1
<1> QED BY <1>1, <1>2 DEF DraftOptions

LEMMA DraftedFun ==
    ASSUME NEW n \in Nat, NEW os, os = [i \in 1 .. n |-> os[i]], \A i \in 1 .. n : DraftOption(os[i])
    PROVE  DraftOptions(os) /\ Len(os) = n
<1>1. DOMAIN os = 1 .. n
  OBVIOUS
<1> DEFINE X == {os[i] : i \in 1 .. n}
<1>2. os \in [1 .. n -> X]
  OBVIOUS
<1>3. os \in Seq(X)
  <2> HIDE DEF X
  <2> QED BY <1>2
<1>4. Len(os) = n
  <2> HIDE DEF X
  <2> QED BY <1>1, <1>3
<1>5. \A x \in X : DraftOption(x)
  OBVIOUS
<1> HIDE DEF X
<1> QED BY <1>3, <1>4, <1>5, DraftedFrom

LEMMA BlankIs == \A k : \A t \in Texts : DraftOption(Blank(k, t))
BY DEF Blank, DraftOption

LEMMA OptionWith ==
    ASSUME NEW o, DraftOption(o)
    PROVE  /\ DraftOption([o EXCEPT !.value = None])
           /\ DraftOption([o EXCEPT !.value = None, !.correct = FALSE])
           /\ \A b \in BOOLEAN : DraftOption([o EXCEPT !.correct = b])
           /\ \A t \in Texts : DraftOption([o EXCEPT !.text = t])
BY DEF DraftOption

LEMMA PadIs ==
    ASSUME NEW os, DraftOptions(os), NEW n \in Nat, NEW used
    PROVE  LET p == padTo(os, n, used)
           IN  DraftOptions(p) /\ Len(p) = IF n > Len(os) THEN n ELSE Len(os)
<1> DEFINE k == n - Len(os)
           fresh == FreshKeys(used, n)
           more == [i \in 1 .. k |-> Blank(fresh[i], "")]
           size == IF k > 0 THEN k ELSE 0
           X == {os[i] : i \in DOMAIN os} \cup {more[i] : i \in 1 .. size}
<1>1. padTo(os, n, used) = os \o more
  BY DEF padTo
<1> HIDE DEF fresh
<1>2. Len(os) \in Nat /\ os \in Seq({os[i] : i \in DOMAIN os}) /\ \A i \in DOMAIN os : DraftOption(os[i])
  BY DraftedOf DEF DraftOptions
<1>3. os \in Seq(X)
  <2>1. {os[i] : i \in DOMAIN os} \subseteq X
    OBVIOUS
  <2> HIDE DEF X
  <2> QED BY <1>2, <2>1, SeqMonotonic
<1>4. size \in Nat /\ 1 .. k = 1 .. size
  BY <1>2
<1>5. more = [i \in 1 .. size |-> Blank(fresh[i], "")]
  <2> HIDE DEF size, k
  <2> QED BY <1>4
<1>6. \A i \in 1 .. size : DraftOption(more[i])
  <2>1. "" \in Texts
    BY DEF Texts
  <2> HIDE DEF size, k, more
  <2> QED BY <1>5, <2>1, BlankIs
<1> HIDE DEF more, size
<1>7. more \in Seq(X) /\ Len(more) = size
  <2>1. more \in [1 .. size -> X]
    BY <1>5
  <2>2. DOMAIN more = 1 .. size
    BY <1>5
  <2> HIDE DEF X
  <2>3. more \in Seq(X)
    BY <1>4, <2>1
  <2> QED BY <1>4, <2>2, <2>3
<1>8. \A x \in X : DraftOption(x)
  BY <1>2, <1>6
<1> HIDE DEF X
<1>9. os \o more \in Seq(X) /\ Len(os \o more) = Len(os) + size
  BY <1>3, <1>7, ConcatProperties
<1>10. Len(os) + size = IF n > Len(os) THEN n ELSE Len(os)
  BY <1>2 DEF size
<1> QED BY <1>1, <1>8, <1>9, <1>10, DraftedFrom

\* The options that are not blank, in order.
Filled(os) == FoldLeft(LAMBDA kept, o : IF o.text = "" THEN kept ELSE Append(kept, o), <<>>, os)

LEMMA FilledIs ==
    ASSUME NEW os, DraftOptions(os)
    PROVE  DraftOptions(Filled(os)) /\ Len(Filled(os)) \in Nat
<1> DEFINE D == DOMAIN os
           X == {os[i] : i \in D}
           grown(o, s) == IF o.text = "" THEN s ELSE Append(s, o)
           pick == [T \in SUBSET D |-> Max(T)]
           step == [p \in D \X Seq(X) |-> grown(os[p[1]], p[2])]
           iter == CHOOSE iter : iter = [s \in SUBSET D |->
                       IF s = {} THEN <<>> ELSE grown(os[Max(s)], iter[s \ {Max(s)}])]
<1>0. /\ os \in Seq(X) /\ D = 1 .. Len(os) /\ Len(os) \in Nat /\ \A x \in X : DraftOption(x)
      /\ \A i \in D : os[i] \in X
  <2>1. \A i \in D : os[i] \in X
    OBVIOUS
  <2> QED BY <2>1, DraftedOf
<1>1. Filled(os) = iter[D]
  BY DEF Filled, FoldLeft, MapThenFoldSet
<1> HIDE DEF X
<1>2. IsFiniteSet(D)
  <2>1. 1 \in Int /\ Len(os) \in Int /\ D = 1 .. Len(os)
    BY <1>0
  <2> QED BY <2>1, FS_Interval
<1>3. \A T \in SUBSET D : T # {} => pick[T] \in T
  <2> SUFFICES ASSUME NEW T \in SUBSET D, T # {} PROVE Max(T) \in T
    OBVIOUS
  <2>1. T \subseteq Int /\ IsFiniteSet(T)
    BY <1>0, <1>2, FS_Subset
  <2> QED BY <2>1, Ends
<1>4. \A x \in X : \A s \in Seq(X) : grown(x, s) \in Seq(X)
  BY AppendProperties
<1>5. <<>> \in Seq(X)
  OBVIOUS
<1>6. step \in [D \X Seq(X) -> Seq(X)]
  <2> HIDE DEF grown, D
  <2>1. \A p \in D \X Seq(X) : grown(os[p[1]], p[2]) \in Seq(X)
    BY <1>0, <1>4
  <2> QED BY <2>1
<1>7. PICK g : IsFold(g, D, pick, step, <<>>, Seq(X))
  <2> HIDE DEF pick, step, D
  <2> QED BY <1>2, <1>3, <1>5, <1>6, FoldExists
<1>8. /\ g \in [SUBSET D -> Seq(X)] /\ g[{}] = <<>>
      /\ \A T \in SUBSET D : T # {} => g[T] = grown(os[Max(T)], g[T \ {Max(T)}])
  <2>1. ASSUME NEW T \in SUBSET D, T # {} PROVE g[T] = grown(os[Max(T)], g[T \ {Max(T)}])
    <3>1. pick[T] \in T /\ pick[T] = Max(T)
      BY <1>3, <2>1
    <3> HIDE DEF pick, grown
    <3>2. g[T] = step[<<pick[T], g[T \ {pick[T]}]>>] /\ <<pick[T], g[T \ {pick[T]}]>> \in D \X Seq(X)
      BY <1>7, <2>1, <3>1 DEF IsFold
    <3> QED BY <3>1, <3>2
  <2> QED BY <1>7, <2>1 DEF IsFold
<1>9. g = [s \in SUBSET D |-> IF s = {} THEN <<>> ELSE grown(os[Max(s)], g[s \ {Max(s)}])]
  <2> HIDE DEF grown, D
  <2> QED BY <1>8
<1>10. iter = [s \in SUBSET D |-> IF s = {} THEN <<>> ELSE grown(os[Max(s)], iter[s \ {Max(s)}])]
  <2> HIDE DEF grown, D
  <2> QED BY <1>9
<1>11. iter[{}] = <<>> /\ \A T \in SUBSET D : T # {} => iter[T] = grown(os[Max(T)], iter[T \ {Max(T)}])
  <2> HIDE DEF iter, grown, D
  <2> QED BY <1>10
<1> HIDE DEF iter, grown
<1>12. iter[D] \in Seq(X)
  <2> DEFINE Bad == {T \in SUBSET D : iter[T] \notin Seq(X)}
  <2>1. ASSUME Bad # {} PROVE FALSE
    <3>1. Bad \in SUBSET (SUBSET D)
      OBVIOUS
    <3>2. PICK U \in Bad : \A V \in Bad : V \subseteq U => V = U
      <4> HIDE DEF Bad, D
      <4> QED BY <2>1, <3>1, <1>2, SmallestSubset
    <3>3. U \in SUBSET D /\ U # {} /\ Max(U) \in U
      BY <1>3, <1>5, <1>11
    <3>4. iter[U \ {Max(U)}] \in Seq(X)
      BY <3>2, <3>3
    <3>5. os[Max(U)] \in X
      BY <1>0, <3>3
    <3>6. iter[U] \in Seq(X)
      BY <1>4, <1>11, <3>3, <3>4, <3>5
    <3> QED BY <3>6
  <2>2. Bad = {}
    BY <2>1
  <2> QED BY <2>2
<1>13. DraftOptions(iter[D])
  BY <1>0, <1>12, DraftedFrom
<1> QED BY <1>1, <1>13 DEF DraftOptions

LEMMA HeadOf ==
    ASSUME NEW os, DraftOptions(os), NEW n \in 0 .. Len(os)
    PROVE  DraftOptions(SubSeq(os, 1, n)) /\ Len(SubSeq(os, 1, n)) = n
<1> DEFINE X == {os[i] : i \in DOMAIN os}
           s == SubSeq(os, 1, n)
<1>1. /\ os \in Seq(X) /\ DOMAIN os = 1 .. Len(os) /\ Len(os) \in Nat /\ \A x \in X : DraftOption(x)
      /\ \A i \in DOMAIN os : os[i] \in X
  BY DraftedOf
<1> HIDE DEF X
<1>2. n \in Nat /\ n \in Int /\ 1 \in Int /\ \A i \in 1 .. n : os[i] \in X
  BY <1>1
<1>3. s \in Seq(X) /\ Len(s) = IF 1 <= n THEN n - 1 + 1 ELSE 0
  BY <1>2, SubSeqProperties
<1>4. Len(s) = n
  <2> HIDE DEF s
  <2> QED BY <1>2, <1>3
<1> QED BY <1>1, <1>3, <1>4, DraftedFrom

\* Each of the options changed in its place.
LEMMA EachOf ==
    ASSUME NEW os, DraftOptions(os), NEW f, f = [i \in DOMAIN os |-> f[i]],
           \A i \in DOMAIN os : DraftOption(f[i])
    PROVE  DraftOptions(f) /\ Len(f) = Len(os)
<1>1. DOMAIN os = 1 .. Len(os) /\ Len(os) \in Nat
  BY DraftedOf
<1> DEFINE n == Len(os)
<1>2. n \in Nat /\ f = [i \in 1 .. n |-> f[i]] /\ \A i \in 1 .. n : DraftOption(f[i])
  BY <1>1
<1> HIDE DEF n
<1>3. DraftOptions(f) /\ Len(f) = n
  BY <1>2, DraftedFun
<1> QED BY <1>3 DEF n

LEMMA OptionsForIs ==
    ASSUME NEW type \in Types, NEW os, DraftOptions(os), NEW used
    PROVE  LET n == optionsFor(type, os, used)
           IN  DraftOptions(n) /\ Sized(type, Len(n))
<1> DEFINE some(text) == {i \in DOMAIN os : os[i].text = text}
           written == Filled(os)
           first == SubSeq(written, 1, Min({Len(written), MaxChoices}))
           fresh == FreshKeys(used, DefaultPoints + 2)
           half(i, text) ==
              IF some(text) = {} THEN Blank(fresh[i], text)
              ELSE [os[Min(some(text))] EXCEPT !.value = None]
           choices == [i \in DOMAIN first |-> [first[i] EXCEPT !.value = None]]
           points == [i \in DOMAIN first |-> [first[i] EXCEPT !.value = None, !.correct = FALSE]]
           n == optionsFor(type, os, used)
<1>1. n = CASE type = "TRUE_FALSE" -> <<half(1, "True"), half(2, "False")>>
            [] type = "SINGLE_CHOICE" -> padTo(choices, NewChoices, used)
            [] type = "CHOICE_SCALE" -> padTo(points, NewScaleChoices, used)
            [] type = "RATING_SCALE" -> [i \in 1 .. DefaultPoints |-> Blank(fresh[i], "")]
  BY DEF optionsFor, Filled
<1>2. \A i \in DOMAIN os : DraftOption(os[i])
  BY DEF DraftOptions
<1>3. DOMAIN os \subseteq Int /\ IsFiniteSet(DOMAIN os)
  <2>1. DOMAIN os = 1 .. Len(os) /\ Len(os) \in Int /\ 1 \in Int
    BY DraftedOf
  <2>2. IsFiniteSet(1 .. Len(os))
    BY <2>1, FS_Interval
  <2> QED BY <2>1, <2>2
<1>4. \A t \in Texts : \A i : DraftOption(half(i, t))
  <2> TAKE t \in Texts
  <2> TAKE i
  <2>1. CASE some(t) = {}
    BY <2>1, BlankIs
  <2>2. CASE some(t) # {}
    <3>1. some(t) \subseteq DOMAIN os
      OBVIOUS
    <3> HIDE DEF some
    <3>2. some(t) \subseteq Int /\ IsFiniteSet(some(t))
      BY <1>3, <3>1, FS_Subset
    <3>3. Min(some(t)) \in some(t)
      BY <2>2, <3>2, Ends
    <3>4. DraftOption(os[Min(some(t))])
      BY <1>2, <3>1, <3>3
    <3> QED BY <2>2, <3>4, OptionWith
  <2> QED BY <2>1, <2>2
<1> HIDE DEF n, fresh, half
<1>5. CASE type = "TRUE_FALSE"
  <2>1. n = <<half(1, "True"), half(2, "False")>>
    BY <1>1, <1>5
  <2>2. DraftOption(half(1, "True")) /\ DraftOption(half(2, "False"))
    BY <1>4 DEF Texts
  <2>3. n = [i \in 1 .. 2 |-> n[i]] /\ \A i \in 1 .. 2 : DraftOption(n[i])
    <3>1. DOMAIN n = 1 .. 2 /\ n[1] = half(1, "True") /\ n[2] = half(2, "False")
      BY <2>1
    <3>2. n = [i \in 1 .. 2 |-> n[i]]
      BY <2>1
    <3> QED BY <2>2, <3>1, <3>2
  <2>4. DraftOptions(n) /\ Len(n) = 2
    BY <2>3, DraftedFun
  <2> QED BY <1>5, <2>4, SizedIs DEF n
<1>6. DraftOptions(first) /\ Len(first) \in Nat /\ Len(first) <= MaxChoices
  <2>1. DraftOptions(written) /\ Len(written) \in Nat
    BY FilledIs
  <2>2. MaxChoices \in Nat
    BY SizesFit
  <2> DEFINE most == Min({Len(written), MaxChoices})
  <2>3. most \in {Len(written), MaxChoices} /\ most <= Len(written) /\ most <= MaxChoices
    <3> DEFINE S == {Len(written), MaxChoices}
    <3>1. IsFiniteSet(S) /\ S # {} /\ S \subseteq Int
      <4>1. IsFiniteSet({Len(written)}) /\ S = {Len(written)} \cup {MaxChoices}
        BY FS_Singleton
      <4>2. IsFiniteSet({Len(written)} \cup {MaxChoices})
        <5> HIDE DEF written
        <5> QED BY <4>1, FS_AddElement
      <4>3. IsFiniteSet(S)
        BY <4>1, <4>2
      <4>4. S # {} /\ S \subseteq Int
        <5> HIDE DEF written
        <5> QED BY <2>1, <2>2
      <4> QED BY <4>3, <4>4
    <3>2. Len(written) \in S /\ MaxChoices \in S
      OBVIOUS
    <3> HIDE DEF S
    <3>3. Min(S) \in S /\ \A x \in S : Min(S) <= x
      BY <3>1, Ends
    <3> QED BY <3>2, <3>3 DEF S
  <2>4. most \in 0 .. Len(written) /\ most \in Nat
    <3> HIDE DEF most
    <3> QED BY <2>1, <2>2, <2>3
  <2>5. DraftOptions(SubSeq(written, 1, most)) /\ Len(SubSeq(written, 1, most)) = most
    <3> HIDE DEF most, written
    <3> QED BY <2>1, <2>4, HeadOf
  <2> QED BY <2>3, <2>4, <2>5
<1> HIDE DEF first
<1>7. \A i \in DOMAIN first : DraftOption(first[i])
  BY <1>6 DEF DraftOptions
<1>8. CASE type = "SINGLE_CHOICE"
  <2>1. n = padTo(choices, NewChoices, used)
    BY <1>1, <1>8
  <2>2. DraftOptions(choices) /\ Len(choices) = Len(first)
    <3>1. \A i \in DOMAIN first : DraftOption(choices[i])
      BY <1>7, OptionWith
    <3>2. choices = [i \in DOMAIN first |-> choices[i]]
      OBVIOUS
    <3> HIDE DEF choices
    <3> QED BY <1>6, <3>1, <3>2, EachOf
  <2> HIDE DEF choices
  <2>3. NewChoices \in Nat /\ NewChoices <= MaxChoices
    BY SizesFit
  <2>4. DraftOptions(n) /\ Len(n) = IF NewChoices > Len(choices) THEN NewChoices ELSE Len(choices)
    BY <2>1, <2>2, <2>3, PadIs
  <2>5. Len(n) <= MaxChoices
    BY <1>6, <2>2, <2>3, <2>4
  <2> QED BY <1>8, <2>4, <2>5, SizedIs DEF n
<1>9. CASE type = "CHOICE_SCALE"
  <2>1. n = padTo(points, NewScaleChoices, used)
    BY <1>1, <1>9
  <2>2. DraftOptions(points) /\ Len(points) = Len(first)
    <3>1. \A i \in DOMAIN first : DraftOption(points[i])
      BY <1>7, OptionWith
    <3>2. points = [i \in DOMAIN first |-> points[i]]
      OBVIOUS
    <3> HIDE DEF points
    <3> QED BY <1>6, <3>1, <3>2, EachOf
  <2> HIDE DEF points
  <2>3. NewScaleChoices \in Nat /\ NewScaleChoices <= MaxChoices
    BY SizesFit
  <2>4. DraftOptions(n) /\ Len(n) = IF NewScaleChoices > Len(points) THEN NewScaleChoices ELSE Len(points)
    BY <2>1, <2>2, <2>3, PadIs
  <2>5. Len(n) <= MaxChoices
    BY <1>6, <2>2, <2>3, <2>4
  <2> QED BY <1>9, <2>4, <2>5, SizedIs DEF n
<1>10. CASE type = "RATING_SCALE"
  <2>1. n = [i \in 1 .. DefaultPoints |-> Blank(fresh[i], "")]
    BY <1>1, <1>10
  <2>2. DefaultPoints \in Nat /\ DefaultPoints \in 2 .. MaxPoints
    BY SizesFit
  <2>3. \A i \in 1 .. DefaultPoints : DraftOption(n[i])
    <3>1. "" \in Texts
      BY DEF Texts
    <3> QED BY <2>1, <3>1, BlankIs
  <2>4. n = [i \in 1 .. DefaultPoints |-> n[i]]
    BY <2>1
  <2>5. DraftOptions(n) /\ Len(n) = DefaultPoints
    BY <2>2, <2>3, <2>4, DraftedFun
  <2> QED BY <1>10, <2>2, <2>5, SizedIs DEF n
<1>11. type \in {"SINGLE_CHOICE", "TRUE_FALSE", "RATING_SCALE", "CHOICE_SCALE"}
  BY TypesAre
<1> QED BY <1>5, <1>8, <1>9, <1>10, <1>11 DEF n

LEMMA EmptyDraftTrue ==
    ASSUME NEW m \in Methods
    PROVE  DraftTrue(emptyDraft(m), m)
<1> DEFINE type == IF m = "ALIGNMENT" THEN "RATING_SCALE" ELSE "SINGLE_CHOICE"
<1>1. type \in questionTypesFor(m) /\ type \in Types
  <2>1. type \in questionTypesFor(m)
    BY DEF Methods, questionTypesFor
  <2> QED BY <2>1, TypesAre
<1>2. DraftOptions(<<>>)
  <2>1. <<>> = [i \in 1 .. 0 |-> <<>>[i]]
    OBVIOUS
  <2>2. 0 \in Nat /\ \A i \in 1 .. 0 : DraftOption(<<>>[i])
    OBVIOUS
  <2> QED BY <2>1, <2>2, DraftedFun
<1> HIDE DEF type
<1>3. LET n == optionsFor(type, <<>>, {}) IN DraftOptions(n) /\ Sized(type, Len(n))
  BY <1>1, <1>2, OptionsForIs
<1>4. emptyDraft(m) = [type |-> type, options |-> optionsFor(type, <<>>, {}), employerKey |-> None]
  BY DEF emptyDraft, type
<1> QED BY <1>1, <1>3, <1>4 DEF DraftTrue

LEMMA ResizedIs ==
    ASSUME NEW os, DraftOptions(os), NEW size \in MinPoints .. MaxPoints, NEW used
    PROVE  LET r == resizeScale(os, size, used) IN DraftOptions(r) /\ Len(r) = size
<1> DEFINE fresh == FreshKeys(used, size)
           n == Len(os)
           r == resizeScale(os, size, used)
<1>1. r = [i \in 1 .. size |->
            IF i = size /\ n > 1 THEN [os[n] EXCEPT !.value = None]
            ELSE IF i < n THEN [os[i] EXCEPT !.value = None]
            ELSE Blank(fresh[i], "")]
  BY DEF resizeScale
<1>2. /\ DOMAIN os = 1 .. n /\ n \in Nat /\ \A i \in DOMAIN os : DraftOption(os[i])
      /\ size \in Nat
  BY DraftedOf, SizesFit DEF DraftOptions, MinPoints
<1> HIDE DEF fresh, n, r
<1>3. ASSUME NEW i \in 1 .. size PROVE DraftOption(r[i])
  <2>0. "" \in Texts
    BY DEF Texts
  <2>1. CASE i = size /\ n > 1
    <3>1. DraftOption(os[n])
      BY <1>2, <2>1
    <3> QED BY <1>1, <2>1, <3>1, OptionWith
  <2>2. CASE ~(i = size /\ n > 1) /\ i < n
    <3>1. DraftOption(os[i])
      BY <1>2, <2>2
    <3> QED BY <1>1, <2>2, <3>1, OptionWith
  <2>3. CASE ~(i = size /\ n > 1) /\ ~(i < n)
    BY <1>1, <2>0, <2>3, BlankIs
  <2> QED BY <2>1, <2>2, <2>3
<1>4. r = [i \in 1 .. size |-> r[i]]
  BY <1>1
<1>5. DraftOptions(r) /\ Len(r) = size
  BY <1>2, <1>3, <1>4, DraftedFun
<1> QED BY <1>5 DEF r

LEMMA RemovedIs ==
    ASSUME NEW os, DraftOptions(os), NEW i \in DOMAIN os
    PROVE  DraftOptions(RemoveAt(os, i)) /\ Len(RemoveAt(os, i)) = Len(os) - 1
<1> DEFINE X == {os[k] : k \in DOMAIN os}
           n == Len(os)
           a == SubSeq(os, 1, i - 1)
           b == SubSeq(os, i + 1, n)
<1>1. /\ os \in Seq(X) /\ DOMAIN os = 1 .. n /\ n \in Nat /\ \A x \in X : DraftOption(x)
      /\ \A k \in DOMAIN os : os[k] \in X
  BY DraftedOf
<1> HIDE DEF X, n
<1>2. i \in 1 .. n
  BY <1>1
<1>3. a \in Seq(X) /\ Len(a) = i - 1
  <2>1. 1 \in Int /\ i - 1 \in Int /\ \A k \in 1 .. i - 1 : os[k] \in X
    BY <1>1, <1>2
  <2>2. a \in Seq(X) /\ Len(a) = IF 1 <= i - 1 THEN i - 1 - 1 + 1 ELSE 0
    BY <2>1, SubSeqProperties
  <2> HIDE DEF a
  <2> QED BY <1>1, <1>2, <2>2
<1>4. b \in Seq(X) /\ Len(b) = n - i
  <2>1. i + 1 \in Int /\ n \in Int /\ \A k \in i + 1 .. n : os[k] \in X
    BY <1>1, <1>2
  <2>2. b \in Seq(X) /\ Len(b) = IF i + 1 <= n THEN n - (i + 1) + 1 ELSE 0
    BY <2>1, SubSeqProperties
  <2> HIDE DEF b
  <2> QED BY <1>1, <1>2, <2>2
<1>5. RemoveAt(os, i) = a \o b
  BY DEF RemoveAt, n
<1> HIDE DEF a, b
<1>6. a \o b \in Seq(X) /\ Len(a \o b) = Len(a) + Len(b)
  BY <1>3, <1>4, ConcatProperties
<1>7. Len(a \o b) = n - 1
  BY <1>1, <1>2, <1>3, <1>4, <1>6
<1> QED BY <1>1, <1>5, <1>6, <1>7, DraftedFrom DEF n

-----------------------------------------------------------------------------
(* A step into the form leaves a form that is true, and so do all changes.   *)

LEMMA FormKept ==
    ASSUME NEW d, work.method \in Methods, DraftTrue(d, work.method), Form(d)
    PROVE  WInv'
<1>1. work' = [stage |-> "form", method |-> work.method, draft |-> d]
  BY DEF Form
<1>2. /\ "stage" \in DOMAIN work' /\ work'.stage = "form"
      /\ work'.method = work.method /\ work'.draft = d
  BY <1>1
<1>3. DraftTrue(work'.draft, work'.method)
  BY <1>2
<1> QED BY <1>2, <1>3 DEF WInv, At

\* Only the options and the role's pick change.
LEMMA DraftWith ==
    ASSUME NEW m, NEW d, DraftTrue(d, m), NEW e, DOMAIN e = DOMAIN d, e.type = d.type,
           DraftOptions(e.options), Sized(d.type, Len(e.options))
    PROVE  DraftTrue(e, m)
BY DEF DraftTrue

LEMMA AtForm ==
    ASSUME WInv, At("form")
    PROVE  LET d == work.draft
           IN  /\ work.method \in Methods /\ DraftTrue(d, work.method)
               /\ DOMAIN d = {"type", "options", "employerKey"}
               /\ d.type \in questionTypesFor(work.method) /\ d.type \in Types
               /\ DraftOptions(d.options) /\ Sized(d.type, Len(d.options))
               /\ DOMAIN d.options = 1 .. Len(d.options) /\ Len(d.options) \in Nat
               /\ \A i \in DOMAIN d.options : DraftOption(d.options[i])
<1>1. work.method \in Methods /\ DraftTrue(work.draft, work.method)
  BY DEF WInv
<1>2. DraftOptions(work.draft.options)
  BY <1>1 DEF DraftTrue
<1>3. /\ DOMAIN work.draft.options = 1 .. Len(work.draft.options) /\ Len(work.draft.options) \in Nat
      /\ \A i \in DOMAIN work.draft.options : DraftOption(work.draft.options[i])
  BY <1>2, DraftedOf DEF DraftOptions
<1>4. work.draft.type \in Types
  BY <1>1, TypesAre DEF DraftTrue
<1> QED BY <1>1, <1>3, <1>4 DEF DraftTrue

LEMMA OpenFormKeeps ==
    ASSUME WInv, OpenForm
    PROVE  WInv'
<1>1. CASE At("new") /\ Form(emptyDraft(work.method))
  <2>1. work.method \in Methods
    BY <1>1 DEF WInv
  <2> QED BY <1>1, <2>1, EmptyDraftTrue, FormKept
<1>2. CASE At("stored") /\ Form(draftFromQuestion(work.question))
  <2>1. work.method \in Methods /\ Sound(work.question, work.method)
    BY <1>2 DEF WInv
  <2>2. DraftTrue(draftFromQuestion(work.question), work.method)
    BY <2>1, StoredAgain
  <2> QED BY <1>2, <2>1, <2>2, FormKept
<1> QED BY <1>1, <1>2 DEF OpenForm

LEMMA ChangeTypeKeeps ==
    ASSUME WInv, NEW type, changeType(type)
    PROVE  WInv'
<1> DEFINE d == work.draft
           options == optionsFor(type, d.options, Used(d))
           e == [type |-> type, options |-> options, employerKey |-> PickIn(d, options)]
<1>1. At("form") /\ type \in questionTypesFor(work.method) /\ Form(e)
  BY DEF changeType
<1>2. work.method \in Methods /\ DraftOptions(d.options)
  BY <1>1, AtForm
<1>3. type \in Types
  BY <1>1, <1>2, TypesAre
<1>4. DraftOptions(options) /\ Sized(type, Len(options))
  <2> HIDE DEF d
  <2> QED BY <1>2, <1>3, OptionsForIs
<1>5. DraftTrue(e, work.method)
  <2> HIDE DEF options
  <2> QED BY <1>1, <1>4 DEF DraftTrue
<1> HIDE DEF e
<1> QED BY <1>1, <1>2, <1>5, FormKept

LEMMA WithTextKeeps ==
    ASSUME WInv, NEW i, NEW text \in {"", "x"}, withText(i, text)
    PROVE  WInv'
<1> DEFINE d == work.draft
           e == [d EXCEPT !.options[i].text = text]
           f == [d.options EXCEPT ![i] = [@ EXCEPT !.text = text]]
<1>1. At("form") /\ i \in DOMAIN d.options /\ Form(e)
  BY DEF withText
<1>2. /\ work.method \in Methods /\ DraftTrue(d, work.method)
      /\ DOMAIN d = {"type", "options", "employerKey"}
      /\ DraftOptions(d.options) /\ Sized(d.type, Len(d.options))
      /\ \A k \in DOMAIN d.options : DraftOption(d.options[k])
  BY <1>1, AtForm
<1> HIDE DEF d
<1>3. DOMAIN e = DOMAIN d /\ e.type = d.type /\ e.options = f
  BY <1>2
<1>4. DraftOptions(f) /\ Len(f) = Len(d.options)
  <2>1. DraftOption([d.options[i] EXCEPT !.text = text])
    BY <1>1, <1>2, OptionWith DEF Texts
  <2>2. \A k \in DOMAIN d.options : DraftOption(f[k])
    BY <1>2, <2>1
  <2>3. f = [k \in DOMAIN d.options |-> f[k]]
    OBVIOUS
  <2> HIDE DEF f
  <2> QED BY <1>2, <2>2, <2>3, EachOf
<1>5. DraftTrue(e, work.method)
  <2> HIDE DEF e, f
  <2> QED BY <1>2, <1>3, <1>4, DraftWith
<1> HIDE DEF e
<1> QED BY <1>1, <1>2, <1>5, FormKept

LEMMA MarkRightKeeps ==
    ASSUME WInv, NEW i, markRight(i)
    PROVE  WInv'
<1> DEFINE d == work.draft
           f == [k \in DOMAIN d.options |-> [d.options[k] EXCEPT !.correct = (k = i)]]
           e == [d EXCEPT !.options = f]
<1>1. At("form") /\ Form(e)
  BY DEF markRight
<1>2. /\ work.method \in Methods /\ DraftTrue(d, work.method)
      /\ DOMAIN d = {"type", "options", "employerKey"}
      /\ DraftOptions(d.options) /\ Sized(d.type, Len(d.options))
      /\ \A k \in DOMAIN d.options : DraftOption(d.options[k])
  BY <1>1, AtForm
<1> HIDE DEF d
<1>3. DraftOptions(f) /\ Len(f) = Len(d.options)
  <2>1. \A k \in DOMAIN d.options : (k = i) \in BOOLEAN
    OBVIOUS
  <2>2. \A k \in DOMAIN d.options : DraftOption(f[k])
    BY <1>2, <2>1, OptionWith
  <2>3. f = [k \in DOMAIN d.options |-> f[k]]
    OBVIOUS
  <2> HIDE DEF f
  <2> QED BY <1>2, <2>2, <2>3, EachOf
<1> HIDE DEF f
<1>4. DOMAIN e = DOMAIN d /\ e.type = d.type /\ e.options = f
  BY <1>2
<1>5. DraftTrue(e, work.method)
  <2> HIDE DEF e
  <2> QED BY <1>2, <1>3, <1>4, DraftWith
<1> HIDE DEF e
<1> QED BY <1>1, <1>2, <1>5, FormKept

LEMMA PickForRoleKeeps ==
    ASSUME WInv, NEW i, pickForRole(i)
    PROVE  WInv'
<1> DEFINE d == work.draft
           e == [d EXCEPT !.employerKey = d.options[i].key]
<1>1. At("form") /\ Form(e)
  BY DEF pickForRole
<1>2. /\ work.method \in Methods /\ DraftTrue(d, work.method)
      /\ DOMAIN d = {"type", "options", "employerKey"}
      /\ DraftOptions(d.options) /\ Sized(d.type, Len(d.options))
  BY <1>1, AtForm
<1> HIDE DEF d
<1>3. DOMAIN e = DOMAIN d /\ e.type = d.type /\ e.options = d.options
  BY <1>2
<1>4. DraftTrue(e, work.method)
  <2> HIDE DEF e
  <2> QED BY <1>2, <1>3, DraftWith
<1> HIDE DEF e
<1> QED BY <1>1, <1>2, <1>4, FormKept

LEMMA AddOptionKeeps ==
    ASSUME WInv, addOption
    PROVE  WInv'
<1> DEFINE d == work.draft
           o == Blank(FreshKeys(Used(d), 1)[1], "")
           f == Append(d.options, o)
           e == [d EXCEPT !.options = f]
<1>1. /\ At("form") /\ d.type \in {"SINGLE_CHOICE", "CHOICE_SCALE"}
      /\ Len(d.options) < MaxChoices /\ Form(e)
  BY DEF addOption
<1>2. /\ work.method \in Methods /\ DraftTrue(d, work.method)
      /\ DOMAIN d = {"type", "options", "employerKey"}
      /\ DraftOptions(d.options) /\ Len(d.options) \in Nat
  BY <1>1, AtForm
<1>3. DraftOption(o)
  BY BlankIs DEF Texts
<1> HIDE DEF d, o
<1>4. DraftOptions(f) /\ Len(f) = Len(d.options) + 1
  <2> DEFINE X == {d.options[i] : i \in DOMAIN d.options} \cup {o}
  <2>1. /\ d.options \in Seq({d.options[i] : i \in DOMAIN d.options})
        /\ \A x \in {d.options[i] : i \in DOMAIN d.options} : DraftOption(x)
    BY <1>2, DraftedOf
  <2>2. d.options \in Seq(X)
    <3>1. {d.options[i] : i \in DOMAIN d.options} \subseteq X
      OBVIOUS
    <3> HIDE DEF X
    <3> QED BY <2>1, <3>1, SeqMonotonic
  <2>3. (\A x \in X : DraftOption(x)) /\ o \in X
    BY <1>3, <2>1
  <2> HIDE DEF X
  <2>4. f \in Seq(X) /\ Len(f) = Len(d.options) + 1
    BY <2>2, <2>3, AppendProperties
  <2> HIDE DEF f
  <2> QED BY <2>3, <2>4, DraftedFrom
<1> HIDE DEF f
<1>5. Sized(d.type, Len(f))
  <2>1. Len(f) <= MaxChoices
    BY <1>1, <1>2, <1>4, SizesFit
  <2> QED BY <1>1, <2>1, SizedIs
<1>6. DOMAIN e = DOMAIN d /\ e.type = d.type /\ e.options = f
  BY <1>2
<1>7. DraftTrue(e, work.method)
  <2> HIDE DEF e
  <2> QED BY <1>2, <1>4, <1>5, <1>6, DraftWith
<1> HIDE DEF e
<1> QED BY <1>1, <1>2, <1>7, FormKept

LEMMA RemoveKeeps ==
    ASSUME WInv, NEW i, remove(i)
    PROVE  WInv'
<1> DEFINE d == work.draft
           rest == RemoveAt(d.options, i)
           f == [k \in DOMAIN rest |-> [rest[k] EXCEPT !.value = None]]
           choice == [d EXCEPT !.options = rest]
           scale == [d EXCEPT !.options = f,
                        !.employerKey = IF @ = d.options[i].key THEN None ELSE @]
<1>1. /\ At("form") /\ i \in DOMAIN d.options
      /\ \/ d.type = "SINGLE_CHOICE" /\ Form(choice)
         \/ d.type = "CHOICE_SCALE" /\ Form(scale)
  BY DEF remove
<1>2. /\ work.method \in Methods /\ DraftTrue(d, work.method)
      /\ DOMAIN d = {"type", "options", "employerKey"}
      /\ DraftOptions(d.options) /\ Sized(d.type, Len(d.options)) /\ Len(d.options) \in Nat
  BY <1>1, AtForm
<1> HIDE DEF d
<1>3. DraftOptions(rest) /\ Len(rest) = Len(d.options) - 1
  BY <1>1, <1>2, RemovedIs
<1> HIDE DEF rest
<1>4. Sized(d.type, Len(rest))
  <2>1. Len(d.options) <= MaxChoices
    BY <1>1, <1>2, SizedIs
  <2>2. Len(rest) <= MaxChoices
    BY <1>2, <1>3, <2>1, SizesFit
  <2> QED BY <1>1, <2>2, SizedIs
<1>5. CASE Form(choice)
  <2>1. DOMAIN choice = DOMAIN d /\ choice.type = d.type /\ choice.options = rest
    BY <1>2
  <2>2. DraftTrue(choice, work.method)
    <3> HIDE DEF choice
    <3> QED BY <1>2, <1>3, <1>4, <2>1, DraftWith
  <2> HIDE DEF choice
  <2> QED BY <1>2, <1>5, <2>2, FormKept
<1>6. CASE Form(scale)
  <2>1. DraftOptions(f) /\ Len(f) = Len(rest)
    <3>1. \A k \in DOMAIN rest : DraftOption(f[k])
      BY <1>3, OptionWith DEF DraftOptions
    <3>2. f = [k \in DOMAIN rest |-> f[k]]
      OBVIOUS
    <3> HIDE DEF f
    <3> QED BY <1>3, <3>1, <3>2, EachOf
  <2> HIDE DEF f
  <2>2. DOMAIN scale = DOMAIN d /\ scale.type = d.type /\ scale.options = f
    BY <1>2
  <2>3. DraftTrue(scale, work.method)
    <3> HIDE DEF scale
    <3> QED BY <1>2, <1>4, <2>1, <2>2, DraftWith
  <2> HIDE DEF scale
  <2> QED BY <1>2, <1>6, <2>3, FormKept
<1> QED BY <1>1, <1>5, <1>6

LEMMA ResizeKeeps ==
    ASSUME WInv, NEW size \in MinPoints .. MaxPoints, resize(size)
    PROVE  WInv'
<1> DEFINE d == work.draft
           options == resizeScale(d.options, size, Used(d))
           e == [d EXCEPT !.options = options, !.employerKey = PickIn(d, options)]
<1>1. At("form") /\ d.type = "RATING_SCALE" /\ Form(e)
  BY DEF resize
<1>2. /\ work.method \in Methods /\ DraftTrue(d, work.method)
      /\ DOMAIN d = {"type", "options", "employerKey"} /\ DraftOptions(d.options)
  BY <1>1, AtForm
<1> HIDE DEF d
<1>3. DraftOptions(options) /\ Len(options) = size
  BY <1>2, ResizedIs
<1> HIDE DEF options
<1>4. Sized(d.type, Len(options))
  BY <1>1, <1>3, SizedIs DEF MinPoints
<1>5. DOMAIN e = DOMAIN d /\ e.type = d.type /\ e.options = options
  BY <1>2
<1>6. DraftTrue(e, work.method)
  <2> HIDE DEF e
  <2> QED BY <1>2, <1>3, <1>4, <1>5, DraftWith
<1> HIDE DEF e
<1> QED BY <1>1, <1>2, <1>6, FormKept

-----------------------------------------------------------------------------
(* What the form, a document or a spreadsheet brings is sound once stored.   *)

LEMMA StoreKept ==
    ASSUME NEW q, work.method \in Methods, Raw(q), Store(normalizeQuestion(q))
    PROVE  WInv'
<1> DEFINE n == normalizeQuestion(q)
<1>1. Accepted(n, work.method) /\ work' = [stage |-> "stored", method |-> work.method, question |-> n]
  BY DEF Store
<1>2. Sound(n, work.method)
  BY <1>1, StoredSound
<1> HIDE DEF n
<1>3. /\ "stage" \in DOMAIN work' /\ work'.stage = "stored"
      /\ work'.method = work.method /\ work'.question = n
  BY <1>1
<1>4. Sound(work'.question, work'.method)
  BY <1>2, <1>3
<1> QED BY <1>3, <1>4 DEF WInv, At

LEMMA RawIs ==
    ASSUME NEW t \in Types, NEW n \in Nat, NEW f, f = [i \in 1 .. n |-> f[i]],
           \A i \in 1 .. n : f[i] \in Option, NEW e \in Nat \cup {None},
           NEW q, q = [type |-> t, options |-> f, employerValue |-> e]
    PROVE  Raw(q)
<1>1. f \in Seq(Option)
  <2>1. f \in [1 .. n -> Option]
    OBVIOUS
  <2> QED BY <2>1
<1>2. q.type = t /\ q.options = f /\ q.employerValue = e
  OBVIOUS
<1> QED BY <1>1, <1>2 DEF Raw

LEMMA SubmitKeeps ==
    ASSUME WInv, submit
    PROVE  WInv'
<1>1. At("form") /\ Store(normalizeQuestion(toInput(work.draft)))
  BY DEF submit
<1>2. /\ work.method \in Methods /\ work.draft.type \in Types /\ DraftOptions(work.draft.options)
  BY <1>1, AtForm
<1>3. Raw(toInput(work.draft))
  BY <1>2, InputIs
<1> QED BY <1>1, <1>2, <1>3, StoreKept

LEMMA AtStored ==
    ASSUME WInv, At("stored")
    PROVE  LET q == work.question
           IN  /\ work.method \in Methods /\ Sound(q, work.method) /\ Raw(q)
               /\ DOMAIN q.options = 1 .. Len(q.options) /\ Len(q.options) \in Nat
               /\ \A i \in DOMAIN q.options : q.options[i] \in Option
<1>1. work.method \in Methods /\ Sound(work.question, work.method)
  BY DEF WInv
<1>2. work.question \in Question
  BY <1>1 DEF Sound
<1>3. Raw(work.question)
  BY <1>2 DEF Question, Raw
<1>4. work.question.options \in Seq(Option)
  BY <1>2 DEF Question
<1> QED BY <1>1, <1>3, <1>4

LEMMA ProfileKeeps ==
    ASSUME WInv, NEW i, profile(i)
    PROVE  WInv'
<1> DEFINE q == work.question
           v == q.options[i].value
           x == [toInput(draftFromQuestion(q)) EXCEPT !.employerValue = v]
<1>1. At("stored") /\ i \in DOMAIN q.options /\ Store(normalizeQuestion(x))
  BY DEF profile
<1>2. /\ work.method \in Methods /\ Sound(q, work.method) /\ Raw(q)
      /\ q.options[i] \in Option
  BY <1>1, AtStored
<1>3. toInput(draftFromQuestion(q)) = q
  BY <1>2, StoredAgain
<1>4. v \in Nat \cup {None}
  BY <1>2, OptionIs
<1> HIDE DEF q, v
<1>5. x = [type |-> q.type, options |-> q.options, employerValue |-> v]
  BY <1>2, <1>3 DEF Raw
<1> HIDE DEF x
<1>6. Raw(x)
  BY <1>2, <1>4, <1>5 DEF Raw
<1> QED BY <1>1, <1>2, <1>6, StoreKept

LEMMA DocumentRaw ==
    ASSUME NEW q \in DocumentQuestions
    PROVE  Raw(q)
<1>0. /\ {"SINGLE_CHOICE", "TRUE_FALSE"} \subseteq Types /\ questionTypesFor("ALIGNMENT") \subseteq Types
      /\ MaxChoices \in Nat /\ MaxValue \in Nat /\ {"x", "True", "False"} \subseteq Texts
  BY TypesAre, SizesFit DEF Methods, Texts
<1> DEFINE choices(n, c) == [k \in 1 .. n |-> [text |-> "x", value |-> None, correct |-> k = c]]
           halves(c) == [k \in 1 .. 2 |-> [TrueFalse[k] EXCEPT !.correct = (k = c)]]
           points(v) == [k \in DOMAIN v |-> [text |-> "x", value |-> v[k], correct |-> FALSE]]
<1>1. CASE \E n \in 2 .. MaxChoices, c \in 1 .. MaxChoices :
              q = [type |-> "SINGLE_CHOICE", employerValue |-> None, options |-> choices(n, c)]
  <2>1. PICK n \in 2 .. MaxChoices, c \in 1 .. MaxChoices :
            q = [type |-> "SINGLE_CHOICE", employerValue |-> None, options |-> choices(n, c)]
    BY <1>1
  <2> DEFINE f == choices(n, c)
  <2>2. n \in Nat
    BY <1>0
  <2>3. f = [k \in 1 .. n |-> f[k]] /\ \A k \in 1 .. n : f[k] \in Option
    <3>1. \A k \in 1 .. n : [text |-> "x", value |-> None, correct |-> k = c] \in Option
      BY <1>0 DEF Option
    <3> QED BY <3>1
  <2>4. q = [type |-> "SINGLE_CHOICE", options |-> f, employerValue |-> None]
    BY <2>1
  <2> HIDE DEF f
  <2> QED BY <1>0, <2>2, <2>3, <2>4, RawIs
<1>2. CASE \E c \in 1 .. 2 :
              q = [type |-> "TRUE_FALSE", employerValue |-> None, options |-> halves(c)]
  <2>1. PICK c \in 1 .. 2 :
            q = [type |-> "TRUE_FALSE", employerValue |-> None, options |-> halves(c)]
    BY <1>2
  <2> DEFINE f == halves(c)
  <2>2. f = [k \in 1 .. 2 |-> f[k]] /\ \A k \in 1 .. 2 : f[k] \in Option
    <3>1. \A k \in 1 .. 2 : [TrueFalse[k] EXCEPT !.correct = (k = c)] \in Option
      <4>1. TrueFalse[1] \in Option /\ TrueFalse[2] \in Option
        BY <1>0 DEF TrueFalse, Option
      <4>2. \A o \in Option : \A b \in BOOLEAN : [o EXCEPT !.correct = b] \in Option
        BY DEF Option
      <4>3. \A k \in 1 .. 2 : TrueFalse[k] \in Option /\ (k = c) \in BOOLEAN
        BY <4>1
      <4> QED BY <4>2, <4>3
    <3> QED BY <3>1
  <2>3. q = [type |-> "TRUE_FALSE", options |-> f, employerValue |-> None]
    BY <2>1
  <2> HIDE DEF f
  <2> QED BY <1>0, <2>2, <2>3, RawIs
<1>3. CASE \E t \in questionTypesFor("ALIGNMENT"), v \in Scales, e \in 0 .. MaxValue :
              q = [type |-> t, employerValue |-> e, options |-> points(v)]
  <2>1. PICK t \in questionTypesFor("ALIGNMENT"), v \in Scales, e \in 0 .. MaxValue :
            q = [type |-> t, employerValue |-> e, options |-> points(v)]
    BY <1>3
  <2>2. PICK n \in MinPoints .. (MaxValue + 1) : v \in [1 .. n -> 0 .. MaxValue]
    BY <2>1 DEF Scales
  <2>3. n \in Nat /\ e \in Nat /\ t \in Types /\ \A k \in 1 .. n : v[k] \in Nat
    BY <1>0, <2>2 DEF MinPoints
  <2> DEFINE f == points(v)
  <2>4. f = [k \in 1 .. n |-> f[k]] /\ \A k \in 1 .. n : f[k] \in Option
    <3>1. \A k \in 1 .. n : [text |-> "x", value |-> v[k], correct |-> FALSE] \in Option
      BY <1>0, <2>3 DEF Option
    <3> QED BY <2>2, <3>1
  <2>5. q = [type |-> t, options |-> f, employerValue |-> e]
    BY <2>1
  <2> HIDE DEF f
  <2> QED BY <2>3, <2>4, <2>5, RawIs
<1> QED BY <1>1, <1>2, <1>3 DEF DocumentQuestions

LEMMA ImportDocumentKeeps ==
    ASSUME WInv, importDocument
    PROVE  WInv'
<1>1. work.method \in Methods
  BY DEF importDocument, WInv
<1>2. PICK q \in DocumentQuestions : Store(normalizeQuestion(q))
  BY DEF importDocument
<1> QED BY <1>1, <1>2, DocumentRaw, StoreKept

LEMMA ImportCsvKeeps ==
    ASSUME WInv, importCsv
    PROVE  WInv'
<1> DEFINE q == work.question
           n == Len(q.options)
           row == questionRow(q)
           rating == q.type = "RATING_SCALE"
           texts == [i \in DOMAIN q.options |-> q.options[i].text]
<1>1. At("stored") /\ Store(parseRow(row))
  BY DEF importCsv
<1>2. /\ work.method \in Methods /\ Raw(q) /\ DOMAIN q.options = 1 .. n /\ n \in Nat
      /\ \A i \in DOMAIN q.options : q.options[i] \in Option
  BY <1>1, AtStored
<1>3. \A i \in DOMAIN q.options : texts[i] \in Texts
  BY <1>2, OptionIs
<1>4. \A i : textAt(texts, i) \in Texts
  BY <1>3 DEF textAt, Texts
<1>5. /\ row.type = q.type /\ row.employer_value = q.employerValue
      /\ row.scale_size = IF rating THEN n ELSE None
      /\ row.scale_min_label = IF rating THEN textAt(texts, 1) ELSE ""
      /\ row.scale_max_label = IF rating THEN textAt(texts, n) ELSE ""
      /\ row.option = [i \in 1 .. MaxChoices |-> IF rating THEN "" ELSE textAt(texts, i)]
  BY DEF questionRow
<1>6. /\ row.scale_min_label \in Texts /\ row.scale_max_label \in Texts
      /\ DOMAIN row.option = 1 .. MaxChoices /\ \A i \in 1 .. MaxChoices : row.option[i] \in Texts
  <2>1. "" \in Texts
    BY DEF Texts
  <2> HIDE DEF q, n, row, rating, texts
  <2> QED BY <1>4, <1>5, <2>1
<1> HIDE DEF q, n, row, texts
<1> DEFINE options == IF rating THEN ratingScaleOptions(row) ELSE optionCells(row)
           x == [type |-> q.type, options |-> options, employerValue |-> q.employerValue]
<1>7. parseRow(row) = normalizeQuestion(x)
  BY <1>5 DEF parseRow
<1>8. options = [i \in DOMAIN options |-> options[i]]
      /\ \E size \in Nat : DOMAIN options = 1 .. size
      /\ \A i \in DOMAIN options : options[i] \in Option
  <2>1. CASE rating
    <3> DEFINE f == ratingScaleOptions(row)
    <3>1. f = [i \in 1 .. n |->
                  [text |-> IF i = 1 THEN row.scale_min_label
                            ELSE IF i = n THEN row.scale_max_label ELSE "",
                   value |-> i, correct |-> FALSE]]
      BY <1>5, <2>1 DEF ratingScaleOptions
    <3>2. options = f
      BY <2>1
    <3>3. "" \in Texts
      BY DEF Texts
    <3> HIDE DEF f, options
    <3>4. \A i \in 1 .. n : f[i] \in Option
      <4> TAKE i \in 1 .. n
      <4> DEFINE text == IF i = 1 THEN row.scale_min_label ELSE IF i = n THEN row.scale_max_label ELSE ""
      <4>1. text \in Texts /\ i \in Nat
        <5>1. i \in Nat
          BY <1>2
        <5> QED BY <1>6, <3>3, <5>1
      <4>2. f[i] = [text |-> text, value |-> i, correct |-> FALSE]
        BY <3>1
      <4> HIDE DEF text
      <4> QED BY <4>1, <4>2 DEF Option
    <3> QED BY <1>2, <3>1, <3>2, <3>4
  <2>2. CASE ~rating
    <3> DEFINE filled == {i \in DOMAIN row.option : row.option[i] # ""}
               cells == IF filled = {} THEN <<>> ELSE SubSeq(row.option, 1, Max(filled))
               shown == IF row.type = "TRUE_FALSE" /\ cells = <<>> THEN <<"True", "False">> ELSE cells
               f == optionCells(row)
    <3>1. f = [i \in DOMAIN shown |-> [text |-> shown[i], value |-> None, correct |-> i = row.correct]]
      BY DEF optionCells
    <3>2. options = f
      BY <2>2
    <3>3. cells \in Seq(Texts)
      <4>1. CASE filled = {}
        <5>1. cells = <<>>
          BY <4>1
        <5> HIDE DEF cells
        <5> QED BY <5>1, EmptySeq
      <4>2. CASE filled # {}
        <5>1. filled \subseteq 1 .. MaxChoices
          BY <1>6
        <5>2. 1 \in Int /\ MaxChoices \in Int
          BY SizesFit
        <5>3. IsFiniteSet(1 .. MaxChoices)
          BY <5>2, FS_Interval
        <5> HIDE DEF filled
        <5>4. filled \subseteq Int /\ IsFiniteSet(filled)
          <6>1. 1 .. MaxChoices \subseteq Int
            BY <5>2
          <6> QED BY <5>1, <5>3, <6>1, FS_Subset
        <5>5. Max(filled) \in filled
          BY <4>2, <5>4, Ends
        <5>6. Max(filled) \in Int /\ \A i \in 1 .. Max(filled) : row.option[i] \in Texts
          <6>1. Max(filled) \in 1 .. MaxChoices
            BY <5>1, <5>5
          <6>2. \A i \in 1 .. Max(filled) : i \in 1 .. MaxChoices
            BY <5>2, <6>1
          <6> QED BY <1>6, <5>2, <6>1, <6>2
        <5>7. SubSeq(row.option, 1, Max(filled)) \in Seq(Texts)
          BY <5>2, <5>6, SubSeqProperties
        <5> QED BY <4>2, <5>7
      <4> QED BY <4>1, <4>2
    <3> HIDE DEF cells
    <3>4. shown \in Seq(Texts)
      <4>1. <<"True", "False">> \in Seq(Texts)
        BY DEF Texts
      <4> QED BY <3>3, <4>1
    <3> HIDE DEF shown, options, f
    <3>5. /\ DOMAIN shown = 1 .. Len(shown) /\ Len(shown) \in Nat
          /\ \A i \in DOMAIN shown : shown[i] \in Texts
      BY <3>4
    <3>6. \A i \in DOMAIN shown : f[i] \in Option
      <4> TAKE i \in DOMAIN shown
      <4>1. f[i] = [text |-> shown[i], value |-> None, correct |-> i = row.correct]
        BY <3>1
      <4>2. shown[i] \in Texts /\ (i = row.correct) \in BOOLEAN
        BY <3>5
      <4> QED BY <4>1, <4>2 DEF Option
    <3> QED BY <3>1, <3>2, <3>5, <3>6
  <2> QED BY <2>1, <2>2
<1> HIDE DEF options
<1>9. q.type \in Types /\ q.employerValue \in Nat \cup {None}
  BY <1>2 DEF Raw
<1>10. Raw(x)
  <2>1. PICK size \in Nat : DOMAIN options = 1 .. size
    BY <1>8
  <2>2. options = [i \in 1 .. size |-> options[i]] /\ \A i \in 1 .. size : options[i] \in Option
    BY <1>8, <2>1
  <2> QED BY <1>9, <2>2, RawIs
<1> HIDE DEF x
<1> QED BY <1>1, <1>2, <1>7, <1>10, StoreKept

-----------------------------------------------------------------------------
(* A test that is sent can be scored.                                        *)

LEMMA SoundScorable ==
    ASSUME NEW m \in Methods, NEW q, Sound(q, m)
    PROVE  Scorable(q, m)
<1>1. q.options \in Seq(Option)
  BY DEF Sound, Question
<1>2. /\ q.type \in questionTypesFor(m)
      /\ IF q.type = "TRUE_FALSE" THEN Len(q.options) = 2
         ELSE Len(q.options) \in MinPoints .. (IF q.type = "RATING_SCALE" THEN MaxPoints ELSE MaxChoices)
      /\ ~isScale(q.type) => Cardinality(Corrects(q)) = 1
      /\ isScale(q.type) => Climbing(Values(q)) /\ q.employerValue \in ToSet(Values(q)) \ {None}
  BY AcceptedIs DEF Sound
<1>3. Len(q.options) >= 2
  <2> DEFINE n == Len(q.options)
  <2>1. n \in Nat
    BY <1>1
  <2>2. n = 2 \/ n \in 2 .. MaxPoints \/ n \in 2 .. MaxChoices
    BY <1>2 DEF MinPoints
  <2> HIDE DEF n
  <2>3. n >= 2
    BY <2>1, <2>2, SizesFit
  <2> QED BY <2>3 DEF n
<1>4. isScale(q.type) <=> m = "ALIGNMENT"
  BY <1>2, TypesAre
<1> QED BY <1>1, <1>2, <1>3, <1>4 DEF Scorable

LEMMA PlainScorable ==
    ASSUME NEW m \in Methods
    PROVE  Scorable(Plain(m), m)
<1> DEFINE q == Plain(m)
           option(k) == [text |-> "", value |-> IF m = "ALIGNMENT" THEN k ELSE None,
                         correct |-> m # "ALIGNMENT" /\ k = 2]
<1>1. /\ q.type = IF m = "ALIGNMENT" THEN "RATING_SCALE" ELSE "SINGLE_CHOICE"
      /\ q.employerValue = IF m = "ALIGNMENT" THEN 2 ELSE None
      /\ q.options = [k \in 1 .. 3 |-> option(k)]
  BY DEF Plain
<1>2. \A k \in 1 .. 3 : /\ option(k) \in Option
                        /\ option(k).value = IF m = "ALIGNMENT" THEN k ELSE None
                        /\ option(k).correct <=> m # "ALIGNMENT" /\ k = 2
  <2> TAKE k \in 1 .. 3
  <2> DEFINE value == IF m = "ALIGNMENT" THEN k ELSE None
  <2>1. PICK right \in BOOLEAN : right = (m # "ALIGNMENT" /\ k = 2)
    OBVIOUS
  <2>2. option(k) = [text |-> "", value |-> value, correct |-> right]
    BY <2>1
  <2>3. value \in Nat \cup {None} /\ "" \in Texts
    BY DEF Texts
  <2> HIDE DEF value, option
  <2>4. option(k) \in Option /\ option(k).value = value /\ option(k).correct = right
    <3>1. PICK o : o = option(k)
      OBVIOUS
    <3>2. o = [text |-> "", value |-> value, correct |-> right]
      BY <2>2, <3>1
    <3>3. o \in Option
      BY <2>3, <3>2 DEF Option
    <3>4. o.value = value /\ o.correct = right
      BY <3>2
    <3> QED BY <3>1, <3>3, <3>4
  <2> QED BY <2>1, <2>4 DEF value
<1> HIDE DEF q, option
<1>3. q.options \in Seq(Option) /\ Len(q.options) = 3 /\ DOMAIN q.options = 1 .. 3
  <2>1. q.options \in [1 .. 3 -> Option]
    BY <1>1, <1>2
  <2> QED BY <1>1, <2>1
<1>4. m = "CORRECT_ANSWER" => Cardinality(Corrects(q)) = 1
  <2> HAVE m = "CORRECT_ANSWER"
  <2>1. Corrects(q) = {2}
    BY <1>1, <1>2, <1>3 DEF Corrects
  <2> QED BY <2>1, FS_Singleton
<1>5. m = "ALIGNMENT" => /\ isScale(q.type) /\ Climbing(Values(q))
                         /\ q.employerValue \in ToSet(Values(q)) \ {None}
  <2> HAVE m = "ALIGNMENT"
  <2>1. DOMAIN Values(q) = 1 .. 3 /\ \A k \in 1 .. 3 : Values(q)[k] = k
    BY <1>1, <1>2, <1>3 DEF Values
  <2>2. \A k \in 1 .. 3 : k # None
    BY NoneAssumption
  <2>3. Climbing(Values(q))
    <3>1. \A k \in 1 .. 3 : k > 1 => k - 1 \in 1 .. 3
      OBVIOUS
    <3> QED BY <2>1, <2>2, <3>1 DEF Climbing
  <2>4. 2 \in ToSet(Values(q)) \ {None}
    <3>1. 2 \in DOMAIN Values(q) /\ Values(q)[2] = 2
      BY <2>1
    <3> QED BY <2>2, <3>1 DEF ToSet
  <2> QED BY <1>1, <2>3, <2>4, TypesAre
<1> QED BY <1>3, <1>4, <1>5 DEF Scorable, q

LEMMA FrozenScorable ==
    ASSUME NEW m, NEW q, Scorable(q, m), NEW s
    PROVE  Scorable(Frozen(q, s), m) /\ Frozen(q, s).section = s
<1> DEFINE f == Frozen(q, s)
           options == [k \in DOMAIN q.options |-> [q.options[k] EXCEPT !.text = ""]]
<1>1. /\ q.options \in Seq(Option) /\ DOMAIN q.options = 1 .. Len(q.options) /\ Len(q.options) \in Nat
      /\ \A k \in DOMAIN q.options : q.options[k] \in Option
  BY DEF Scorable
<1>2. f.type = q.type /\ f.section = s /\ f.employerValue = q.employerValue /\ f.options = options
  BY DEF Frozen
<1>3. \A k \in DOMAIN q.options : /\ options[k] \in Option /\ options[k].value = q.options[k].value
                                  /\ options[k].correct = q.options[k].correct
  <2>1. "" \in Texts
    BY DEF Texts
  <2>2. \A o \in Option : LET p == [o EXCEPT !.text = ""]
                          IN  p \in Option /\ p.value = o.value /\ p.correct = o.correct
    BY <2>1 DEF Option
  <2> QED BY <1>1, <2>2
<1>4. options \in Seq(Option) /\ Len(options) = Len(q.options) /\ DOMAIN options = DOMAIN q.options
  <2>0. options \in [1 .. Len(q.options) -> Option]
    BY <1>1, <1>3
  <2>1. options \in Seq(Option)
    <3> HIDE DEF options
    <3> QED BY <1>1, <2>0
  <2>2. DOMAIN options = 1 .. Len(q.options)
    BY <1>1
  <2> HIDE DEF options
  <2> QED BY <1>1, <2>1, <2>2
<1> HIDE DEF f, options
<1>5. Corrects(f) = Corrects(q)
  BY <1>2, <1>3, <1>4 DEF Corrects
<1>6. Values(f) = Values(q)
  BY <1>2, <1>3, <1>4 DEF Values
<1> QED BY <1>2, <1>4, <1>5, <1>6 DEF Scorable, f

\* The stored question, sent with two of the product's own.
LEMMA SentTrue ==
    ASSUME WInv, At("stored"), NEW sections \in SectionsOf, NEW order,
           NEW weights \in [{"s1", "s2"} -> Nat]
    PROVE  LET p == buildSnapshot(sections, order, weights)
           IN  PaperTrue(p) /\ p.order = order /\ p.sections = <<"s1", "s2">>
<1> DEFINE m == work.method
           p == buildSnapshot(sections, order, weights)
           q == <<work.question, Plain(m), Plain(m)>>
<1>1. m \in Methods /\ Sound(work.question, m)
  BY AtStored
<1>2. \A i \in 1 .. 3 : Scorable(q[i], m)
  <2>1. Scorable(work.question, m) /\ Scorable(Plain(m), m)
    BY <1>1, SoundScorable, PlainScorable
  <2> HIDE DEF m
  <2> QED BY <2>1
<1>3. \A i \in 1 .. 3 : sections[i] \in {"s1", "s2", None}
  BY DEF SectionsOf
<1>4. /\ p.method = m /\ p.bands = Minimums /\ p.weights = weights
      /\ p.questions = [i \in 1 .. 3 |-> Frozen(q[i], sections[i])]
      /\ p.order = order /\ p.sections = <<"s1", "s2">>
  BY DEF buildSnapshot
<1> HIDE DEF p, q, m
<1>5. DOMAIN p.questions = 1 .. 3 /\ Places(p) = 1 .. 3
  BY <1>4 DEF Places
<1>6. \A i \in 1 .. 3 : /\ Scorable(p.questions[i], m)
                        /\ p.questions[i].section \in {"s1", "s2", None}
  <2> TAKE i \in 1 .. 3
  <2>1. p.questions[i] = Frozen(q[i], sections[i])
    BY <1>4
  <2> QED BY <1>2, <1>3, <2>1, FrozenScorable
<1>7. PaperTrue(p)
  BY <1>1, <1>4, <1>5, <1>6 DEF PaperTrue
<1> QED BY <1>4, <1>7 DEF p

LEMMA HandInKeeps ==
    ASSUME WInv, HandIn
    PROVE  WInv'
<1> DEFINE of(sections, weights) == buildSnapshot(sections, "FIXED", weights)
           given(p, i) == (DOMAIN p.questions[i].options) \cup {None}
<1>1. PICK sections \in SectionsOf, weights \in [{"s1", "s2"} -> Weights] :
          \E a \in given(of(sections, weights), 1), b \in given(of(sections, weights), 2),
             c \in given(of(sections, weights), 3) :
                work' = [stage |-> "answered", paper |-> of(sections, weights), answers |-> <<a, b, c>>]
  BY DEF HandIn
<1> DEFINE p == of(sections, weights)
<1>2. PICK a \in given(p, 1), b \in given(p, 2), c \in given(p, 3) :
          work' = [stage |-> "answered", paper |-> p, answers |-> <<a, b, c>>]
  BY <1>1
<1>3. PaperTrue(p)
  <2>1. weights \in [{"s1", "s2"} -> Nat]
    BY BandsAssumption
  <2>2. At("stored")
    BY DEF HandIn
  <2> QED BY <2>1, <2>2, SentTrue
<1> HIDE DEF p
<1>4. AnswersTo(p, <<a, b, c>>)
  <2>1. Places(p) = 1 .. 3
    BY <1>3 DEF PaperTrue, Places
  <2>2. \A i \in 1 .. 3 : <<a, b, c>>[i] \in given(p, i)
    BY <1>2
  <2> QED BY <2>1, <2>2 DEF AnswersTo
<1>5. /\ "stage" \in DOMAIN work' /\ work'.stage = "answered"
      /\ work'.paper = p /\ work'.answers = <<a, b, c>>
  BY <1>2
<1>6. PaperTrue(work'.paper) /\ AnswersTo(work'.paper, work'.answers)
  BY <1>3, <1>4, <1>5
<1> QED BY <1>5, <1>6 DEF WInv, At

LEMMA StartKeeps ==
    ASSUME WInv, Start
    PROVE  WInv'
<1> DEFINE none == [s \in {"s1", "s2"} |-> 0]
           of(sections, order) == buildSnapshot(sections, order, none)
<1>1. PICK sections \in SectionsOf, setting \in BOOLEAN, keepLast \in BOOLEAN,
           order \in {"FIXED", "SHUFFLE_ALL", "SHUFFLE_WITHIN_SECTION"} :
           \E questions \in orderQuestions(of(sections, order)) :
           \E options \in orderOptions(of(sections, order).questions[1], setting, keepLast) :
              work' = [stage |-> "shown", paper |-> of(sections, order), setting |-> setting,
                       keepLast |-> keepLast, questions |-> questions, options |-> options]
  BY DEF Start
<1> DEFINE sent == of(sections, order)
<1>2. PaperTrue(sent) /\ sent.order = order /\ sent.sections = <<"s1", "s2">>
  <2>1. none \in [{"s1", "s2"} -> Nat]
    OBVIOUS
  <2>2. At("stored")
    BY DEF Start
  <2> HIDE DEF none
  <2> QED BY <2>1, <2>2, SentTrue
<1> HIDE DEF none, of
<1>3. PICK questions \in orderQuestions(sent),
           options \in orderOptions(sent.questions[1], setting, keepLast) :
              work' = [stage |-> "shown", paper |-> sent, setting |-> setting,
                       keepLast |-> keepLast, questions |-> questions, options |-> options]
  BY <1>1
<1> HIDE DEF sent
<1>4. /\ "stage" \in DOMAIN work' /\ work'.stage = "shown" /\ work'.paper = sent
      /\ work'.setting = setting /\ work'.keepLast = keepLast
      /\ work'.questions = questions /\ work'.options = options
  BY <1>3
<1>5. ShownTrue(work')
  BY <1>2, <1>4 DEF ShownTrue
<1> QED BY <1>4, <1>5 DEF WInv, At

-----------------------------------------------------------------------------
(* The rest of the product says nothing of the question.                     *)

LEMMA ElsewhereKeeps ==
    ASSUME "stage" \in DOMAIN work', work'.stage \in {"test", "sheet"}
    PROVE  WInv'
BY DEF WInv, At

LEMMA TestKeeps ==
    ASSUME WInv,
           \/ At("test") /\ \E t : Became(t)
           \/ \E file : upload(file)
           \/ seed
    PROVE  WInv'
<1>1. At("test") /\ "stage" \in DOMAIN work
  BY DEF WInv, upload, seed
<1>2. ASSUME NEW t, Became(t) PROVE "stage" \in DOMAIN work' /\ work'.stage = "test"
  BY <1>1, <1>2 DEF Became, At
<1>3. ASSUME NEW file, upload(file) PROVE "stage" \in DOMAIN work' /\ work'.stage = "test"
  BY <1>1, <1>3 DEF upload, At
<1>4. ASSUME seed PROVE "stage" \in DOMAIN work' /\ work'.stage = "test"
  <2>1. \E l, t : work' = [work EXCEPT !.library = l, !.test = t]
    BY <1>4 DEF seed
  <2> QED BY <1>1, <2>1 DEF At
<1> QED BY <1>2, <1>3, <1>4, ElsewhereKeeps

LEMMA SheetKeeps ==
    ASSUME WInv, addRow \/ \E piece : fillIn(piece)
    PROVE  WInv'
<1>1. At("sheet") /\ "stage" \in DOMAIN work
  BY DEF WInv, addRow, fillIn
<1>2. \E rows : work' = [work EXCEPT !.rows = rows]
  <2>1. CASE addRow
    BY <2>1 DEF addRow
  <2>2. ASSUME NEW piece, fillIn(piece) PROVE \E rows : work' = [work EXCEPT !.rows = rows]
    <3>1. PICK i \in DOMAIN Head(work.rows) :
              work' = [work EXCEPT !.rows[Len(work.rows)][i] = Append(@, piece)]
      BY <2>2 DEF fillIn
    <3> DEFINE n == Len(work.rows)
               rows == [work.rows EXCEPT ![n] = [work.rows[n] EXCEPT ![i] = Append(work.rows[n][i], piece)]]
    <3>2. work' = [work EXCEPT !.rows = rows]
      BY <3>1
    <3> QED BY <3>2
  <2> QED BY <2>1, <2>2
<1>3. "stage" \in DOMAIN work' /\ work'.stage = "sheet"
  BY <1>1, <1>2 DEF At
<1> QED BY <1>3, ElsewhereKeeps

-----------------------------------------------------------------------------

\* A question is sound from the moment it is stored, a form only offers what
\* the API can take, and what is answered can be scored: for any limits on
\* options and points, weights and bands.
THEOREM QuestionsTrue == AuthoringSpec => []WInv
<1>1. AuthoringInit => WInv
  <2> SUFFICES ASSUME AuthoringInit PROVE WInv
    OBVIOUS
  <2>1. CASE \E m \in Methods : work = [stage |-> "new", method |-> m]
    BY <2>1 DEF WInv, At
  <2>2. CASE work = [stage |-> "test", test |-> EmptyTest, library |-> <<>>]
    BY <2>2 DEF WInv, At
  <2>3. CASE \E header \in Headers : work = [stage |-> "sheet", rows |-> <<header>>]
    BY <2>3 DEF WInv, At
  <2> QED BY <2>1, <2>2, <2>3 DEF AuthoringInit
<1>2. WInv /\ [AuthoringNext]_work => WInv'
  <2> SUFFICES ASSUME WInv, [AuthoringNext]_work PROVE WInv'
    OBVIOUS
  <2>1. CASE UNCHANGED work
    BY <2>1 DEF WInv, At
  <2>2. CASE addRow \/ \E piece \in Pieces : fillIn(piece)
    BY <2>2, SheetKeeps
  <2>3. CASE createQuestion \/ duplicate \/ importTest \/ importSpreadsheet
    <3>1. At("test") /\ \E t : Became(t)
      <4>1. CASE createQuestion
        BY <4>1 DEF createQuestion
      <4>2. CASE duplicate
        BY <4>2 DEF duplicate
      <4>3. CASE importTest
        BY <4>3 DEF importTest
      <4>4. CASE importSpreadsheet
        BY <4>4 DEF importSpreadsheet
      <4> QED BY <2>3, <4>1, <4>2, <4>3, <4>4
    <3> QED BY <3>1, TestKeeps
  <2>4. CASE \/ \E name \in Names : createSection(name)
             \/ \E i \in 1 .. MaxSections :
                   removeSection(i) \/ \E name \in Names : updateSection(i, name)
    <3>1. At("test") /\ \E t : Became(t)
      BY <2>4 DEF createSection, removeSection, updateSection
    <3> QED BY <3>1, TestKeeps
  <2>5. CASE seed \/ \E file \in Files : upload(file)
    BY <2>5, TestKeeps
  <2>6. CASE OpenForm \/ addOption
    BY <2>6, OpenFormKeeps, AddOptionKeeps
  <2>7. CASE submit \/ importDocument \/ importCsv
    BY <2>7, SubmitKeeps, ImportDocumentKeeps, ImportCsvKeeps
  <2>8. CASE \E type \in questionTypesFor("ALIGNMENT") \cup questionTypesFor("CORRECT_ANSWER") :
                 changeType(type)
    BY <2>8, ChangeTypeKeeps
  <2>9. CASE \E i \in 1 .. Max({MaxChoices, MaxPoints}), text \in {"", "x"} : withText(i, text)
    BY <2>9, WithTextKeeps
  <2>10. CASE \E i \in 1 .. Max({MaxChoices, MaxPoints}) :
                  markRight(i) \/ pickForRole(i) \/ remove(i) \/ profile(i)
    BY <2>10, MarkRightKeeps, PickForRoleKeeps, RemoveKeeps, ProfileKeeps
  <2>11. CASE \E size \in MinPoints .. MaxPoints : resize(size)
    BY <2>11, ResizeKeeps
  <2>12. CASE Start \/ HandIn
    BY <2>12, StartKeeps, HandInKeeps
  <2> QED BY <2>1, <2>2, <2>3, <2>4, <2>5, <2>6, <2>7, <2>8, <2>9, <2>10, <2>11, <2>12
          DEF AuthoringNext
<1> QED BY <1>1, <1>2, PTL DEF AuthoringSpec

\* The form and the API agree: what the form lets through is accepted, and what
\* is stored opens as a form without problems that would save it unchanged.
THEOREM FormAgrees == AuthoringSpec => []EditorAgrees
<1>1. WInv => EditorAgrees
  <2> SUFFICES ASSUME WInv PROVE EditorAgrees
    OBVIOUS
  <2>1. ASSUME At("form"), draftProblems(work.draft, work.method) = {}
        PROVE  Accepted(normalizeQuestion(toInput(work.draft)), work.method)
    <3>1. work.method \in Methods /\ DraftTrue(work.draft, work.method)
      BY <2>1, AtForm
    <3> QED BY <2>1, <3>1, FormAccepted
  <2>2. ASSUME At("stored")
        PROVE  LET d == draftFromQuestion(work.question)
               IN  draftProblems(d, work.method) = {} /\ toInput(d) = work.question
    <3>1. work.method \in Methods /\ Sound(work.question, work.method)
      BY <2>2, AtStored
    <3> QED BY <3>1, StoredAgain
  <2> QED BY <2>1, <2>2 DEF EditorAgrees
<1> QED BY <1>1, QuestionsTrue, PTL

\* Scoring is fair: a score is a share with a band, the key to every question
\* and only that scores all of it, blanks score nothing, and an answer closer to
\* its key never lowers the score or the band and flags nothing new.
THEOREM FairScores == AuthoringSpec => []ScoresAreFair
BY FairAnswers, QuestionsTrue, PTL

\* Layouts are fair: a candidate is shown every question and every option once,
\* blocks and fixed options stay, every order these rules leave can be drawn, and
\* each order of the options is made by one draw: for any number of options.
THEOREM LayoutsFair == AuthoringSpec => []LayoutsAreFair
BY FairLayouts, QuestionsTrue, PTL

-----------------------------------------------------------------------------
(* Papers, and where a candidate continues.                                 *)

LEMMA PaperShape ==
    ASSUME NEW p \in Papers
    PROVE  /\ p.questions \in Seq(Questions) /\ Size(p) \in Nat
           /\ DOMAIN p.questions = 1 .. Size(p)
           /\ \A i \in 1 .. Size(p) : p.questions[i] \in Questions /\ p.questions[i] # None
           /\ \A i, k \in 1 .. Size(p) : p.questions[i] = p.questions[k] => i = k
           /\ \A i : QuestionAt(p, i) \in Questions \cup {None}
           /\ \A i \in 1 .. Size(p) : QuestionAt(p, i) = p.questions[i]
           /\ p.back \in BOOLEAN
<1>1. p.questions \in Seq(Questions) /\ \A i, k \in DOMAIN p.questions :
          p.questions[i] = p.questions[k] => i = k
  BY DEF Papers
<1>2. Len(p.questions) \in Nat /\ DOMAIN p.questions = 1 .. Len(p.questions)
      /\ \A i \in 1 .. Len(p.questions) : p.questions[i] \in Questions
  BY <1>1
<1>3. p.back \in BOOLEAN
  BY DEF Papers
<1> QED BY <1>1, <1>2, <1>3, RunnerAssumption DEF Size, QuestionAt

LEMMA PreviewIsPaper ==
    ASSUME NEW t \in Tests, NEW p \in preview(t)
    PROVE  p \in Papers
<1>1. PICK s \in Orders(DOMAIN t.key) : p = [questions |-> s, key |-> t.key, back |-> t.back]
  BY DEF preview
<1>2. t.key \in UNION {[S -> Options] : S \in SUBSET Questions} /\ t.back \in BOOLEAN
  BY DEF Tests
<1>3. DOMAIN t.key \subseteq Questions
  BY <1>2
<1>4. IsFiniteSet(DOMAIN t.key) /\ Cardinality(DOMAIN t.key) \in Nat
  BY <1>3, RunnerAssumption, FS_Subset, FS_CardinalityType
<1>5. /\ s \in [1 .. Cardinality(DOMAIN t.key) -> DOMAIN t.key]
      /\ \A i, k \in DOMAIN s : s[i] = s[k] => i = k
  BY <1>1 DEF Orders
<1>6. s \in Seq(Questions)
  BY <1>3, <1>4, <1>5
<1> QED BY <1>1, <1>2, <1>5, <1>6 DEF Papers

\* A set of places that has some place has a first one.
LEMMA FirstPlace ==
    ASSUME NEW n \in Nat, NEW S \in SUBSET (1 .. n), S # {}
    PROVE  \E i \in S : \A k \in 1 .. i - 1 : k \notin S
<1> DEFINE Upto == {1 .. i : i \in S}
<1>1. Upto \subseteq FiniteSubsetsOf(1 .. n) /\ Upto # {}
  <2>1. \A i \in S : IsFiniteSet(1 .. i)
    BY FS_Interval
  <2>2. \A i \in S : 1 .. i \subseteq 1 .. n
    OBVIOUS
  <2>3. \A i \in S : 1 .. i \in FiniteSubsetsOf(1 .. n)
    BY <2>1, <2>2 DEF FiniteSubsetsOf
  <2> QED BY <2>3
<1>2. PICK U \in Upto : \A V \in Upto : <<V, U>> \notin StrictSubsetOrdering(1 .. n)
  <2> HIDE DEF Upto
  <2> QED BY <1>1, FS_StrictSubsetOrderingWellFounded, WFMin
<1>3. PICK i \in S : U = 1 .. i
  OBVIOUS
<1>4. ASSUME NEW k \in 1 .. i - 1, k \in S PROVE FALSE
  <2>1. 1 .. k \in Upto
    BY <1>4
  <2>2. 1 .. k \subseteq 1 .. i /\ i \in 1 .. i /\ i \notin 1 .. k
    BY <1>4
  <2>3. <<1 .. k, 1 .. i>> \in StrictSubsetOrdering(1 .. n)
    BY <1>1, <1>3, <2>1, <2>2 DEF StrictSubsetOrdering, FiniteSubsetsOf
  <2> QED BY <1>2, <1>3, <2>1, <2>3
<1> QED BY <1>4

LEMMA ResumeIsFirst ==
    ASSUME NEW p \in Papers, p.questions # <<>>, NEW answers \in Answers
    PROVE  LET at == resumeAt(p, answers)
               open(i) == answers[p.questions[i]] = None
           IN  /\ at \in 1 .. Size(p)
               /\ p.back => \A k \in 1 .. at - 1 : ~open(k)
               /\ ~p.back =>
                     /\ at = Size(p) \/ \A k \in at .. Size(p) : open(k)
                     /\ \A k \in 1 .. at - 1 : \E j \in k .. Size(p) : ~open(j)
<1> DEFINE open(i) == answers[p.questions[i]] = None
           after(i) == \A k \in DOMAIN p.questions : k >= i => open(k)
           Good(i) == IF p.back
                      THEN (open(i) \/ i = Size(p)) /\ \A k \in 1 .. i - 1 : ~open(k)
                      ELSE (after(i) \/ i = Size(p)) /\ \A k \in 1 .. i - 1 : ~after(k)
           at == resumeAt(p, answers)
<1>1. Size(p) \in Nat \ {0} /\ DOMAIN p.questions = 1 .. Size(p)
  BY PaperShape DEF Size
<1>2. \E i \in DOMAIN p.questions : Good(i)
  <2>1. CASE p.back
    <3> DEFINE S == {i \in 1 .. Size(p) : open(i) \/ i = Size(p)}
    <3>1. Size(p) \in S
      BY <1>1
    <3>2. PICK i \in S : \A k \in 1 .. i - 1 : k \notin S
      <4> HIDE DEF S
      <4>1. S # {} /\ S \subseteq 1 .. Size(p)
        BY <3>1 DEF S
      <4> QED BY <4>1, <1>1, FirstPlace
    <3>3. \A k \in 1 .. i - 1 : ~open(k)
      BY <3>2, <1>1
    <3> QED BY <3>2, <3>3, <2>1, <1>1
  <2>2. CASE ~p.back
    <3> DEFINE S == {i \in 1 .. Size(p) : after(i) \/ i = Size(p)}
    <3>1. Size(p) \in S
      BY <1>1
    <3>2. PICK i \in S : \A k \in 1 .. i - 1 : k \notin S
      <4> HIDE DEF S
      <4>1. S # {} /\ S \subseteq 1 .. Size(p)
        BY <3>1 DEF S
      <4> QED BY <4>1, <1>1, FirstPlace
    <3>3. \A k \in 1 .. i - 1 : k \in 1 .. Size(p)
      BY <3>2, <1>1
    <3>4. \A k \in 1 .. i - 1 : ~after(k)
      BY <3>2, <3>3
    <3> QED BY <3>2, <3>4, <2>2, <1>1
  <2> QED BY <2>1, <2>2
<1>3. at \in DOMAIN p.questions /\ Good(at)
  <2>1. at = CHOOSE i \in DOMAIN p.questions : Good(i)
    BY DEF resumeAt
  <2> HIDE DEF Good, at
  <2> QED BY <2>1, <1>2
<1> HIDE DEF at
<1>4. CASE p.back
  <2>1. at \in 1 .. Size(p) /\ \A k \in 1 .. at - 1 : ~open(k)
    BY <1>1, <1>3, <1>4
  <2> QED BY <1>4, <2>1 DEF at
<1>5. CASE ~p.back
  <2>1. after(at) \/ at = Size(p)
    BY <1>3, <1>5
  <2>2. \A k \in 1 .. at - 1 : ~after(k)
    BY <1>3, <1>5
  <2>3. at \in 1 .. Size(p)
    BY <1>1, <1>3
  <2>4. \A k \in 1 .. at - 1 : \E j \in k .. Size(p) : ~open(j)
    BY <1>1, <2>2, <2>3
  <2>5. at = Size(p) \/ \A k \in at .. Size(p) : open(k)
    BY <1>1, <2>1, <2>3
  <2> QED BY <1>5, <2>3, <2>4, <2>5 DEF at
<1> QED BY <1>4, <1>5 DEF at

-----------------------------------------------------------------------------
(* Steps inside the runner.                                                 *)

LEMMA ScoreStays == ASSUME RInv, UNCHANGED <<server, scores, handed>> PROVE ScoreInv'
<1>1. ScoreInv /\ test' = test /\ since' = since /\ calls' = calls /\ score' = score
      /\ handed' = handed
  BY DEF RInv, server, scores
<1>2. \A x : OfLastHandIn(x)' <=> OfLastHandIn(x)
  BY <1>1 DEF OfLastHandIn, ScoreOf
<1> QED BY <1>1, <1>2 DEF ScoreInv

\* The run r takes the question on screen for shown, and nothing beyond it.
CameOn(r) ==
    /\ r.index \in 1 .. Size(paper) /\ Came(r.index - 1)
    /\ r.timer # 0 => r.timer \in 2 .. Size(paper) /\ Came(r.timer - 1)
    /\ r.leaving # NotLeaving =>
          /\ r.leaving.index \in 1 .. Size(paper) /\ r.leaving.last = Size(paper)
          /\ r.leaving.question = paper.questions[r.leaving.index]
          /\ Came(r.leaving.index)
    /\ r.review => Came(Size(paper))

\* Without going back, it goes on, and so does its timer, unless the move was late.
GoesOn(r, isLate) ==
    ~paper.back /\ ~isLate =>
        /\ r.index >= run.index
        /\ r.timer # 0 /\ ~StaysLate(r) => r.timer >= r.index

ComesTo(r, isLate) == r \in Runs /\ (steady => CameOn(r) /\ GoesOn(r, isLate))

LEMMA Pages ==
    ASSUME RInv
    PROVE  /\ paper \in Papers /\ Size(paper) \in Nat
           /\ DOMAIN paper.questions = 1 .. Size(paper)
           /\ \A i \in 1 .. Size(paper) :
                 paper.questions[i] \in Questions /\ paper.questions[i] # None
           /\ \A i, k \in 1 .. Size(paper) : paper.questions[i] = paper.questions[k] => i = k
           /\ \A i : QuestionAt(paper, i) \in Questions \cup {None}
           /\ \A i \in 1 .. Size(paper) : QuestionAt(paper, i) = paper.questions[i]
           /\ None \notin Questions /\ None \notin Options
           /\ seen \in SUBSET Questions /\ passed \in SUBSET Questions
           /\ paper.back \in BOOLEAN /\ steady \in BOOLEAN /\ late \in BOOLEAN
           /\ run # None => run \in Runs
<1>1. paper \in Papers
  BY DEF RInv, TypeOK
<1> QED BY <1>1, PaperShape, RunnerAssumption DEF RInv, TypeOK

LEMMA RunTyped == ASSUME NEW r \in Runs PROVE r.index \in Nat \ {0} /\ r.timer \in Nat
  BY DEF Runs

LEMMA BehindLies ==
    ASSUME NEW p \in Papers, NEW n \in Nat
    PROVE  /\ Behind(p, n) \in SUBSET Questions
           /\ \A i \in 1 .. Size(p) : p.questions[i] \in Behind(p, n) => i < n
<1>1. /\ DOMAIN p.questions = 1 .. Size(p) /\ \A i \in 1 .. Size(p) : p.questions[i] \in Questions
      /\ \A i, k \in 1 .. Size(p) : p.questions[i] = p.questions[k] => i = k
  BY PaperShape
<1>2. ASSUME NEW q \in Behind(p, n) PROVE \E k \in 1 .. Size(p) : k < n /\ q = p.questions[k]
  BY <1>1 DEF Behind
<1>3. ASSUME NEW i \in 1 .. Size(p), p.questions[i] \in Behind(p, n) PROVE i < n
  <2>1. PICK k \in 1 .. Size(p) : k < n /\ p.questions[i] = p.questions[k]
    BY <1>2, <1>3
  <2>2. i = k
    BY <1>1, <2>1
  <2> QED BY <2>1, <2>2
<1> QED BY <1>1, <1>2, <1>3

LEMMA MovesSeen ==
    ASSUME RInv, run # None, NEW r \in Runs, r # None, NEW isLate \in BOOLEAN, Moves(r, isLate)
    PROVE  /\ run' = r /\ paper' = paper /\ steady' = steady
           /\ late' = (isLate \/ StaysLate(r)) /\ late' \in BOOLEAN
           /\ passed' \in SUBSET Questions /\ seen' \in SUBSET Questions
           /\ seen \subseteq seen' /\ QuestionAt(paper, r.index) \in seen' \cup {None}
           /\ \A i \in 1 .. Size(paper) : paper.questions[i] \in passed' => i < r.index
<1> DEFINE now == QuestionAt(paper, r.index)
<1>1. paper' = paper /\ steady' = steady /\ run' = r
  BY DEF Moves, Noted
<1>2. now \in Questions \cup {None} /\ r.index \in Nat
  BY Pages DEF Runs
<1>3. /\ passed' = (passed \cup {Current}) \cap Behind(paper, r.index)
      /\ seen' = (seen \cup {now}) \ {None}
  BY <1>1 DEF Moves, Noted
<1> HIDE DEF now
<1>4. /\ passed' \in SUBSET Questions
      /\ \A i \in 1 .. Size(paper) : paper.questions[i] \in passed' => i < r.index
  <2>1. /\ Behind(paper, r.index) \in SUBSET Questions
        /\ \A i \in 1 .. Size(paper) : paper.questions[i] \in Behind(paper, r.index) => i < r.index
    BY <1>2, BehindLies, Pages
  <2> QED BY <1>3, <2>1
<1>5. /\ seen' \in SUBSET Questions /\ seen \subseteq seen' /\ now \in seen' \cup {None}
  BY <1>2, <1>3, Pages
<1>6. late' = (isLate \/ StaysLate(r)) /\ late' \in BOOLEAN
  BY DEF Moves
<1> QED BY <1>1, <1>4, <1>5, <1>6 DEF now

\* The runner moves, no further back than it may.
RunsOn ==
    /\ RInv' /\ run # None /\ paper' = paper /\ steady' = steady
    /\ \E r, isLate : ComesTo(r, isLate) /\ run' = r /\ (isLate => late')

\* A save that arrives is of a question that has come.
SavesWhatCame ==
    /\ saved' \in Answers
    /\ ~Staff => \A i \in DOMAIN paper.questions :
         saved'[paper.questions[i]] # None => (saved[paper.questions[i]] # None \/ Came(i))

LEMMA RunKeeps ==
    ASSUME RInv, run # None, NEW r, NEW isLate \in BOOLEAN, ComesTo(r, isLate), Moves(r, isLate),
           heard' \in [Questions -> Nat], r.plays = heard',
           \A q \in Questions : heard'[q] <= Replays + 1,
           SavesWhatCame
    PROVE  RunsOn
<1> USE DEF ComesTo
<1>1. UNCHANGED <<server, paper, refresh, screen, begun, opened, scores, handed, steady>>
  BY DEF Moves
<1>2. ScoreInv'
  BY <1>1, ScoreStays
<1>3. late' = (isLate \/ StaysLate(r)) /\ late' \in BOOLEAN /\ run' = r
  BY DEF Moves, Noted
<1>4. ASSUME r = None PROVE RInv'
  <2>1. run' = None /\ passed' = passed /\ seen' = seen
    BY <1>4, RunnerAssumption DEF Moves, Noted, RInv, TypeOK
  <2>2. TypeOK'
    BY <1>1, <1>3, <2>1 DEF RInv, TypeOK, server, scores, SavesWhatCame
  <2>3. RunInv' /\ ClipsInv'
    BY <2>1 DEF RunInv, ClipsInv, ClipsPlayAsOften
  <2>4. CandidateInv'
    BY <1>1, <2>1 DEF RInv, CandidateInv, Staff, server, scores, Came, Size, SavesWhatCame
  <2>5. EveryQuestionCame'
    BY <1>1, <2>1 DEF RInv, EveryQuestionCame
  <2> QED BY <1>2, <2>2, <2>3, <2>4, <2>5 DEF RInv
<1>5. ASSUME r # None PROVE RInv'
  <2>1. /\ run' = r /\ passed' \in SUBSET Questions /\ seen' \in SUBSET Questions
        /\ seen \subseteq seen' /\ QuestionAt(paper, r.index) \in seen' \cup {None}
        /\ \A i \in 1 .. Size(paper) : paper.questions[i] \in passed' => i < r.index
    BY <1>5, MovesSeen
  <2>2. TypeOK'
    BY <1>1, <1>3, <2>1 DEF RInv, TypeOK, server, scores, SavesWhatCame
  <2>3. \A i : Came(i) => Came(i)'
    BY <1>1, <2>1 DEF Came
  <2>4. steady => Came(r.index)'
    <3> SUFFICES ASSUME steady PROVE Came(r.index)'
      OBVIOUS
    <3>1. r.index \in 1 .. Size(paper) /\ Came(r.index - 1)
      BY DEF CameOn
    <3>2. paper.questions[r.index] \in seen'
      BY <2>1, <3>1, Pages
    <3> QED BY <1>1, <2>1, <3>1, <3>2 DEF Came
  <2>5. RunInv'
    <3>1. Size(paper)' = Size(paper) /\ paper' = paper /\ steady' = steady
          /\ DOMAIN paper.questions = 1 .. Size(paper)
      BY <1>1, Pages DEF Size
    <3>2. steady => RunCame'
      BY <2>1, <2>3, <2>4, <3>1 DEF CameOn, RunCame
    <3>3. steady /\ ~paper.back /\ ~late' => (r.timer # 0 => r.timer >= r.index)
      BY <1>3 DEF GoesOn
    <3>4. steady /\ ~paper.back => RunForward'
      BY <2>1, <3>1, <3>3 DEF RunForward
    <3>5. screen' = "running"
      BY <1>1 DEF RInv, RunInv
    <3> QED BY <3>1, <3>2, <3>4, <3>5 DEF RunInv
  <2>6. CandidateInv'
    <3> SUFFICES ASSUME ~Staff' PROVE CandidateInv'
      BY DEF CandidateInv
    <3>1. ~Staff /\ steady /\ CandidateInv
      BY <1>1 DEF Staff, server, RInv, CandidateInv
    <3>2. /\ steady' /\ (refresh.state = "none")' /\ (calls = <<>>)' /\ (score = NoScore)'
          /\ (screen = "running" => paper.questions # <<>>)'
      BY <1>1, <3>1 DEF CandidateInv, scores
    <3>3. \A i \in DOMAIN paper.questions :
             saved'[paper.questions[i]] # None \/ opened[paper.questions[i]] # None => Came(i)'
      BY <2>3, <3>1 DEF CandidateInv, SavesWhatCame
    <3>4. ~paper.back => \A i \in DOMAIN paper.questions :
             paper.questions[i] \in passed' => i < Size(paper)
      BY <2>1, <3>1, Pages DEF CameOn
    <3> QED BY <1>1, <3>2, <3>3, <3>4 DEF CandidateInv, Size
  <2>7. ClipsInv'
    BY <2>1 DEF ClipsInv, ClipsPlayAsOften
  <2>8. EveryQuestionCame'
    BY <1>1, <2>1 DEF RInv, EveryQuestionCame
  <2> QED BY <1>2, <2>2, <2>5, <2>6, <2>7, <2>8 DEF RInv
<1>6. isLate => late'
  BY <1>3
<1> QED BY <1>1, <1>3, <1>4, <1>5, <1>6 DEF RunsOn

\* r is where the runner is, whatever was answered, played or pressed.
SameRun(r) ==
    /\ r \in Runs /\ r.index = run.index /\ r.leaving = run.leaving
    /\ r.timer \in {0, run.timer} /\ (r.review /\ steady => run.review \/ Came(Size(paper)))

LEMMA SameComes ==
    ASSUME RInv, run # None, NEW r, SameRun(r), NEW isLate
    PROVE  ComesTo(r, isLate)
<1> SUFFICES ASSUME steady PROVE CameOn(r) /\ GoesOn(r, isLate)
  BY DEF SameRun, ComesTo
<1>1. RunCame /\ (~paper.back => RunForward)
  BY DEF RInv, RunInv
<1>2. run.index \in 1 .. Size(paper) /\ Came(run.index - 1)
  BY <1>1, Pages DEF RunCame, Came
<1>3. CameOn(r)
  BY <1>1, <1>2 DEF SameRun, CameOn, RunCame
<1>4. GoesOn(r, isLate)
  BY <1>1, <1>2 DEF SameRun, GoesOn, StaysLate, RunForward
<1> QED BY <1>3, <1>4

LEMMA RunIsSame ==
    ASSUME RInv, run # None
    PROVE  SameRun(run) /\ SameRun(Cleared(run))
<1>1. run \in Runs
  BY Pages
<1> QED BY <1>1 DEF SameRun, Cleared, Runs

\* The leaving question, on screen or beside it.
LEMMA LeavingPlace ==
    ASSUME RInv, Leaving
    PROVE  /\ run \in Runs /\ run.leaving.index \in Nat /\ run.leaving.last \in Nat
           /\ run.leaving.question \in Questions
           /\ steady =>
                /\ run.leaving.index \in 1 .. Size(paper) /\ Came(run.leaving.index)
                /\ run.leaving.last = Size(paper)
                /\ run.leaving.question = paper.questions[run.leaving.index]
<1>1. run \in Runs /\ run # None
  BY Pages DEF Leaving, Open
<1>2. run.leaving.index \in Nat /\ run.leaving.last \in Nat /\ run.leaving.question \in Questions
  BY <1>1 DEF Runs, Leaving
<1>3. steady => RunCame
  BY <1>1 DEF RInv, RunInv
<1> QED BY <1>1, <1>2, <1>3 DEF RunCame, Leaving

LEMMA LeavesComes ==
    ASSUME RInv, run # None, NEW r, SameRun(r), NEW target
    PROVE  LET was == Leaves(r, target)
           IN  /\ was \in {NotLeaving} \cup [question : Questions, index : Nat, last : Nat]
               /\ steady /\ was # NotLeaving =>
                    /\ was.index \in 1 .. Size(paper) /\ was.last = Size(paper)
                    /\ was.question = paper.questions[was.index]
                    /\ Came(was.index)
<1> DEFINE was == Leaves(r, target)
           new == [question |-> QuestionAt(paper, r.index), index |-> r.index, last |-> Size(paper)]
           Good(w) == steady /\ w # NotLeaving =>
                    /\ w.index \in 1 .. Size(paper) /\ w.last = Size(paper)
                    /\ w.question = paper.questions[w.index]
                    /\ Came(w.index)
           Past == {NotLeaving} \cup [question : Questions, index : Nat, last : Nat]
<1>1. run \in Runs /\ r \in Runs /\ r.leaving = run.leaving /\ r.index = run.index
  BY Pages DEF SameRun
<1>2. was \in {NotLeaving, r.leaving} \/ (was = new /\ QuestionAt(paper, r.index) # None)
  BY DEF Leaves
<1>3. r.leaving \in Past /\ NotLeaving \in Past /\ r.index \in Nat \ {0}
  BY <1>1 DEF Runs, NotLeaving
<1>4. QuestionAt(paper, r.index) # None => new \in Past
  BY <1>3, Pages
<1>5. Good(NotLeaving)
  OBVIOUS
<1>6. steady => RunCame
  BY DEF RInv, RunInv
<1>7. Good(r.leaving)
  BY <1>1, <1>3, <1>6, Pages DEF RunCame
<1>8. steady => run.index \in 1 .. Size(paper) /\ Came(run.index)
  BY <1>6 DEF RunCame
<1>9. Good(new)
  BY <1>1, <1>8, Pages
<1> HIDE DEF new
<1>10. was \in Past
  BY <1>2, <1>3, <1>4
<1>11. Good(was)
  <2> HIDE DEF Good, was
  <2> QED BY <1>2, <1>5, <1>7, <1>9
<1> HIDE DEF was
<1> QED BY <1>10, <1>11 DEF was

LEMMA ShowComes ==
    ASSUME RInv, run # None, NEW r, SameRun(r), r.timer = 0, NEW target \in Nat \ {0}, NEW isLate,
           steady => /\ target \in 1 .. Size(paper) /\ Came(target - 1)
                     /\ ~paper.back /\ ~isLate => target >= run.index
    PROVE  ComesTo(Show(r, target), isLate) /\ Show(r, target).plays = r.plays
<1>1. CASE target = r.index
  BY <1>1, SameComes DEF Show
<1>2. CASE target # r.index
  <2> DEFINE s == [r EXCEPT !.index = target, !.pointer = FALSE, !.clip = NoClip,
                            !.leaving = Leaves(r, target)]
             was == Leaves(r, target)
  <2>1. s = Show(r, target)
    BY <1>2 DEF Show
  <2>2. /\ was \in {NotLeaving} \cup [question : Questions, index : Nat, last : Nat]
        /\ steady /\ was # NotLeaving =>
             /\ was.index \in 1 .. Size(paper) /\ was.last = Size(paper)
             /\ was.question = paper.questions[was.index]
             /\ Came(was.index)
    BY LeavesComes
  <2> HIDE DEF was
  <2>3. r \in Runs
    BY DEF SameRun
  <2>4. s \in Runs /\ s.index = target /\ s.leaving = was /\ s.timer = 0
        /\ s.review = r.review /\ s.plays = r.plays
    BY <2>2, <2>3 DEF Runs, NoClip, was
  <2> HIDE DEF s
  <2>5. steady => CameOn(s) /\ GoesOn(s, isLate)
    <3> SUFFICES ASSUME steady PROVE CameOn(s) /\ GoesOn(s, isLate)
      OBVIOUS
    <3>1. s.review => Came(Size(paper))
      BY <2>4 DEF SameRun, RInv, RunInv, RunCame
    <3> QED BY <2>2, <2>4, <3>1 DEF CameOn, GoesOn
  <2> QED BY <2>1, <2>4, <2>5 DEF ComesTo
<1> QED BY <1>1, <1>2

LEMMA ClearedSame ==
    ASSUME NEW r, SameRun(r)
    PROVE  SameRun(Cleared(r)) /\ Cleared(r).timer = 0 /\ Cleared(r).plays = r.plays
  BY DEF SameRun, Cleared, Runs

LEMMA GoComes ==
    ASSUME RInv, run # None, NEW r, SameRun(r), NEW from, NEW target \in Int, NEW isLate,
           steady /\ MayGo(from, target) =>
               /\ Came(target - 1)
               /\ ~paper.back /\ ~isLate => target >= run.index
    PROVE  ComesTo(go(r, from, target), isLate) /\ go(r, from, target).plays = r.plays
<1>1. CASE MayGo(from, target)
  <2>1. target \in 1 .. Size(paper) /\ target \in Nat \ {0}
    BY <1>1, Pages DEF MayGo
  <2> QED BY <1>1, <2>1, ClearedSame, ShowComes DEF go
<1>2. CASE ~MayGo(from, target)
  BY <1>2, ClearedSame, SameComes DEF go
<1> QED BY <1>1, <1>2

\* From the question on screen, or from the one that is leaving.
LEMMA NextComes ==
    ASSUME RInv, run # None, NEW r, SameRun(r), NEW from, NEW isLate,
           from = run.index \/ (Leaving /\ from = run.leaving.index /\ (MovedOnTwice => isLate))
    PROVE  ComesTo(next(r, from), isLate) /\ next(r, from).plays = r.plays
<1>1. /\ from \in Nat
      /\ steady => Came(from) /\ (~isLate => from + 1 >= run.index)
  <2>1. CASE from = run.index
    <3>1. from \in Nat
      BY <2>1, Pages DEF Runs
    <3> QED BY <2>1, <3>1 DEF RInv, RunInv, RunCame
  <2>2. CASE Leaving /\ from = run.leaving.index /\ (MovedOnTwice => isLate)
    <3>1. run.index \in Nat /\ run.leaving.index \in Nat
      BY <2>2, LeavingPlace DEF Runs
    <3> QED BY <2>2, <3>1, LeavingPlace DEF MovedOnTwice
  <2> QED BY <2>1, <2>2
<1>2. CASE isLast(from, Size(paper))
  <2>1. SameRun([r EXCEPT !.review = TRUE]) /\ [r EXCEPT !.review = TRUE].plays = r.plays
    BY <1>1, <1>2 DEF SameRun, Runs, isLast
  <2> QED BY <1>2, <2>1, SameComes DEF next
<1>3. CASE ~isLast(from, Size(paper))
  <2>1. from + 1 \in Int /\ (from + 1) - 1 = from
    BY <1>1
  <2> QED BY <1>1, <1>3, <2>1, GoComes DEF next
<1> QED BY <1>2, <1>3

LEMMA ChosenComes ==
    ASSUME RInv, run # None, NEW q \in Questions, NEW from \in Nat, NEW last \in Nat,
           NEW o \in Options, NEW confirmed \in BOOLEAN, NEW isLate,
           steady => /\ from \in 1 .. Size(paper) /\ last = Size(paper) /\ Came(from)
                     /\ ~paper.back /\ ~isLate => from + 1 >= run.index
    PROVE  /\ ComesTo(chosen(run, q, from, last, o, confirmed), isLate)
           /\ chosen(run, q, from, last, o, confirmed).plays = run.plays
<1> DEFINE c == Cleared(run)
           timer == IF confirmed /\ from # last THEN from + 1 ELSE 0
           r == chosen(run, q, from, last, o, confirmed)
<1>1. SameRun(c) /\ c \in Runs /\ c.timer = 0 /\ c.plays = run.plays
  BY RunIsSame, ClearedSame DEF SameRun
<1> HIDE DEF c
<1>2. r = [c EXCEPT !.answers[q] = o, !.timer = timer]
  BY DEF chosen, c
<1>3. timer \in Nat /\ (steady /\ timer # 0 =>
          /\ timer \in 2 .. Size(paper) /\ Came(timer - 1)
          /\ ~paper.back /\ ~isLate => timer >= run.index)
  BY Pages
<1> HIDE DEF timer, r
<1>4. r \in Runs /\ r.timer = timer /\ r.plays = run.plays
  <2>1. c.answers \in Answers /\ [c.answers EXCEPT ![q] = o] \in Answers
    BY <1>1 DEF Runs, Answers
  <2> QED BY <1>1, <1>2, <1>3, <2>1 DEF Runs
<1>5. (CameOn(c) /\ GoesOn(c, isLate) /\ c.index = run.index) \/ ~steady
  BY <1>1, SameComes DEF ComesTo, SameRun
<1>6. r.index = c.index /\ r.leaving = c.leaving /\ r.review = c.review
  BY <1>1, <1>2 DEF Runs
<1>7. steady => CameOn(r) /\ GoesOn(r, isLate)
  BY <1>3, <1>4, <1>5, <1>6 DEF CameOn, GoesOn
<1> QED BY <1>4, <1>7 DEF ComesTo, r

LEMMA PointerComes ==
    ASSUME NEW r, NEW isLate, ComesTo(r, isLate), NEW pressed \in BOOLEAN
    PROVE  /\ ComesTo([r EXCEPT !.pointer = pressed], isLate)
           /\ [r EXCEPT !.pointer = pressed].plays = r.plays
<1> DEFINE s == [r EXCEPT !.pointer = pressed]
<1>1. s \in Runs /\ s.index = r.index /\ s.leaving = r.leaving /\ s.review = r.review
      /\ s.timer = r.timer /\ s.plays = r.plays
  BY DEF ComesTo, Runs
<1> HIDE DEF s
<1>2. steady => CameOn(s) /\ GoesOn(s, isLate)
  BY <1>1 DEF ComesTo, CameOn, GoesOn, StaysLate
<1> QED BY <1>1, <1>2 DEF ComesTo, s

LEMMA SaveOfCame ==
    ASSUME RInv, NEW q \in Questions, NEW o \in Options, Save(q, o),
           ~Staff => \E i \in 1 .. Size(paper) : q = paper.questions[i] /\ Came(i)
    PROVE  SavesWhatCame
<1>1. saved \in Answers
  BY DEF RInv, TypeOK
<1>2. saved' \in {saved, [saved EXCEPT ![q] = o]}
  BY DEF Save
<1>3. saved' \in Answers /\ \A p \in Questions : p # q => saved'[p] = saved[p]
  BY <1>1, <1>2 DEF Answers
<1> QED BY <1>3, Pages DEF SavesWhatCame

\* A step that saves and plays nothing.
LEMMA MovesKeep ==
    ASSUME RInv, run # None, NEW r, NEW isLate \in BOOLEAN, ComesTo(r, isLate),
           r.plays = run.plays, Moves(r, isLate), UNCHANGED <<saved, heard>>
    PROVE  RunsOn
<1>1. heard \in [Questions -> Nat] /\ run.plays = heard /\ saved \in Answers
      /\ \A q \in Questions : heard[q] <= Replays + 1
  BY DEF RInv, TypeOK, ClipsInv, ClipsPlayAsOften
<1>2. SavesWhatCame
  BY <1>1 DEF SavesWhatCame
<1> QED BY <1>1, <1>2, RunKeeps

LEMMA BecomesKeeps ==
    ASSUME RInv, run # None, NEW r, SameRun(r), r.plays = run.plays, Becomes(r),
           UNCHANGED <<saved, heard>>
    PROVE  RunsOn
<1>1. ComesTo(r, FALSE) /\ FALSE \in BOOLEAN
  BY SameComes
<1> QED BY <1>1, MovesKeep DEF Becomes

LEMMA ChoosesKeep ==
    ASSUME RInv, run # None, NEW r, NEW isLate \in BOOLEAN, ComesTo(r, isLate),
           r.plays = run.plays, Moves(r, isLate),
           NEW q \in Questions, NEW o \in Options, Save(q, o), UNCHANGED heard,
           ~Staff => \E i \in 1 .. Size(paper) : q = paper.questions[i] /\ Came(i)
    PROVE  RunsOn
<1>1. heard \in [Questions -> Nat] /\ run.plays = heard
      /\ \A p \in Questions : heard[p] <= Replays + 1
  BY DEF RInv, TypeOK, ClipsInv, ClipsPlayAsOften
<1> QED BY <1>1, SaveOfCame, RunKeeps

-----------------------------------------------------------------------------
(* Each action.                                                             *)

LEMMA CurrentCame ==
    ASSUME RInv, run # None, Current # None
    PROVE  /\ Current \in Questions /\ run.index \in Nat /\ run \in Runs
           /\ Current = QuestionAt(paper, run.index)
           /\ steady => /\ run.index \in 1 .. Size(paper) /\ Came(run.index)
                        /\ Current = paper.questions[run.index]
           /\ ~Staff => steady
<1>1. Current = QuestionAt(paper, run.index)
  BY DEF Current
<1>2. run \in Runs /\ run.index \in Nat
  BY Pages DEF Runs
<1>3. steady => run.index \in 1 .. Size(paper) /\ Came(run.index)
  BY DEF RInv, RunInv, RunCame
<1>4. ~Staff => steady
  BY DEF RInv, CandidateInv
<1> QED BY <1>1, <1>2, <1>3, <1>4, Pages

LEMMA ChooseKeeps ==
    ASSUME RInv, Open, Current # None, NEW o \in Options, NEW confirmed \in BOOLEAN,
           NEW pressed \in BOOLEAN, Choose(o, confirmed, pressed)
    PROVE  RunsOn
<1>1. run # None
  BY DEF Open
<1>2. /\ Current \in Questions /\ run.index \in Nat /\ Size(paper) \in Nat
      /\ steady => /\ run.index \in 1 .. Size(paper) /\ Came(run.index)
                   /\ Current = paper.questions[run.index]
      /\ ~Staff => steady
  BY <1>1, CurrentCame, Pages
<1> DEFINE r == [chosen(run, Current, run.index, Size(paper), o, confirmed)
                   EXCEPT !.pointer = pressed]
<1>3. ComesTo(r, FALSE) /\ r.plays = run.plays
  <2> DEFINE c == chosen(run, Current, run.index, Size(paper), o, confirmed)
  <2>1. steady => run.index + 1 >= run.index
    BY <1>2
  <2>2. ComesTo(c, FALSE) /\ c.plays = run.plays
    BY <1>1, <1>2, <2>1, ChosenComes
  <2>3. r = [c EXCEPT !.pointer = pressed]
    OBVIOUS
  <2> HIDE DEF c, r
  <2>4. /\ ComesTo([c EXCEPT !.pointer = pressed], FALSE)
        /\ [c EXCEPT !.pointer = pressed].plays = c.plays
    BY <2>2, PointerComes
  <2> QED BY <2>2, <2>3, <2>4
<1>4. Moves(r, FALSE) /\ FALSE \in BOOLEAN /\ Save(Current, o) /\ UNCHANGED heard
  BY DEF Choose, Becomes
<1> HIDE DEF r
<1>5. ~Staff => \E i \in 1 .. Size(paper) : Current = paper.questions[i] /\ Came(i)
  BY <1>2
<1> QED BY <1>1, <1>2, <1>3, <1>4, <1>5, ChoosesKeep

LEMMA PointerSame ==
    ASSUME RInv, run # None
    PROVE  run.pointer \in BOOLEAN /\ SameRun([run EXCEPT !.pointer = TRUE])
           /\ [run EXCEPT !.pointer = TRUE].plays = run.plays
<1>1. run \in Runs
  BY Pages
<1> QED BY <1>1 DEF SameRun, Runs

LEMMA LetterKeeps == ASSUME RInv, NEW o \in Options, Letter(o) PROVE RunsOn
<1>1. run.pointer \in BOOLEAN
  BY PointerSame DEF Letter, Open
<1> QED BY <1>1, ChooseKeeps DEF Letter

LEMMA ClickKeeps == ASSUME RInv, NEW o \in Options, Click(o) PROVE RunsOn
<1>1. Open /\ Current # None /\ run # None
  BY DEF Click, Displayed, Open
<1>2. CASE run.answers[Current] # o /\ Choose(o, TRUE, FALSE)
  BY <1>1, <1>2, ChooseKeeps
<1>3. CASE /\ Becomes(next([run EXCEPT !.pointer = TRUE], run.index))
           /\ UNCHANGED <<saved, heard>>
  <2> DEFINE r == [run EXCEPT !.pointer = TRUE]
  <2>1. SameRun(r) /\ r.plays = run.plays
    BY <1>1, PointerSame
  <2> HIDE DEF r
  <2>2. ComesTo(next(r, run.index), FALSE) /\ next(r, run.index).plays = run.plays
    BY <1>1, <2>1, NextComes
  <2>3. Moves(next(r, run.index), FALSE) /\ FALSE \in BOOLEAN /\ UNCHANGED <<saved, heard>>
    BY <1>3 DEF r, Becomes
  <2> QED BY <1>1, <2>2, <2>3, MovesKeep
<1> QED BY <1>2, <1>3 DEF Click

LEMMA PressAwayKeeps == ASSUME RInv, PressAway PROVE RunsOn
<1>1. run # None
  BY DEF PressAway, Displayed, Open
<1> QED BY <1>1, PointerSame, BecomesKeeps DEF PressAway

LEMMA ArrowKeeps == ASSUME RInv, NEW o \in Options, Arrow(o) PROVE RunsOn
<1>1. Open /\ Current # None /\ run.pointer \in BOOLEAN
  BY PointerSame DEF Arrow, Displayed, Open
<1> QED BY <1>1, ChooseKeeps DEF Arrow

LEMMA EnterKeeps == ASSUME RInv, Enter PROVE RunsOn
<1>1. run # None /\ SameRun(run)
  BY RunIsSame DEF Enter, Open
<1>2. ComesTo(next(run, run.index), FALSE) /\ next(run, run.index).plays = run.plays
      /\ FALSE \in BOOLEAN
  BY <1>1, NextComes
<1> QED BY <1>1, <1>2, MovesKeep DEF Enter, Becomes

LEMMA PreviousKeeps == ASSUME RInv, Previous PROVE RunsOn
<1>1. run # None /\ SameRun(run) /\ run \in Runs /\ paper.back
  BY RunIsSame, Pages DEF Previous, Open
<1>2. run.index \in Nat /\ run.index - 1 \in Int
  BY <1>1, RunTyped
<1>3. steady => Came((run.index - 1) - 1)
  <2> SUFFICES ASSUME steady PROVE Came((run.index - 1) - 1)
    OBVIOUS
  <2>1. Came(run.index)
    BY <1>1 DEF RInv, RunInv, RunCame
  <2>2. \A i \in 1 .. (run.index - 1) - 1 : i \in 1 .. run.index
    BY <1>2
  <2> QED BY <2>1, <2>2 DEF Came
<1> DEFINE r == go(run, run.index, run.index - 1)
<1>4. ComesTo(r, FALSE) /\ r.plays = run.plays
  BY <1>1, <1>2, <1>3, GoComes
<1>5. Moves(r, FALSE) /\ FALSE \in BOOLEAN /\ UNCHANGED <<saved, heard>>
  BY DEF Previous, Becomes
<1> HIDE DEF r
<1> QED BY <1>1, <1>4, <1>5, MovesKeep

LEMMA AdvanceKeeps == ASSUME RInv, Advance PROVE RunsOn
<1> DEFINE r == Show(Cleared(run), run.timer)
<1>1. run # None /\ run.timer # 0 /\ run \in Runs
  BY Pages DEF Advance
<1>2. run.timer \in Nat \ {0}
  BY <1>1 DEF Runs
<1>3. SameRun(Cleared(run)) /\ Cleared(run).timer = 0 /\ Cleared(run).plays = run.plays
  BY <1>1, RunIsSame, ClearedSame
<1>4. steady => /\ run.timer \in 1 .. Size(paper) /\ Came(run.timer - 1)
                /\ ~paper.back /\ ~late => run.timer >= run.index
  <2> SUFFICES ASSUME steady
               PROVE  /\ run.timer \in 1 .. Size(paper) /\ Came(run.timer - 1)
                      /\ ~paper.back /\ ~late => run.timer >= run.index
    OBVIOUS
  <2>1. RunCame /\ (~paper.back => RunForward)
    BY <1>1 DEF RInv, RunInv
  <2> QED BY <1>1, <2>1, Pages DEF RunCame, RunForward
<1>5. ComesTo(r, late) /\ r.plays = run.plays
  BY <1>1, <1>2, <1>3, <1>4, ShowComes
<1>6. Moves(r, late) /\ late \in BOOLEAN /\ UNCHANGED <<saved, heard>>
  BY Pages DEF Advance
<1> HIDE DEF r
<1> QED BY <1>1, <1>5, <1>6, MovesKeep

LEMMA LeftKeeps == ASSUME RInv, Left PROVE RunsOn
<1> DEFINE r == [run EXCEPT !.leaving = NotLeaving]
<1>1. run # None /\ run \in Runs
  BY Pages DEF Left
<1>2. r \in Runs /\ r.plays = run.plays /\ r.leaving = NotLeaving /\ r.index = run.index
      /\ r.timer = run.timer /\ r.review = run.review
  BY <1>1 DEF Runs, NotLeaving
<1>3. Moves(r, FALSE) /\ FALSE \in BOOLEAN /\ UNCHANGED <<saved, heard>>
  BY DEF Left, Becomes
<1> HIDE DEF r
<1>4. steady => CameOn(run) /\ GoesOn(run, FALSE)
  BY <1>1, RunIsSame, SameComes DEF ComesTo
<1>5. ComesTo(r, FALSE)
  BY <1>2, <1>4 DEF ComesTo, CameOn, GoesOn, StaysLate
<1> QED BY <1>1, <1>2, <1>3, <1>5, MovesKeep

LEMMA ClickLeavingKeeps == ASSUME RInv, NEW o \in Options, ClickLeaving(o) PROVE RunsOn
<1> DEFINE was == run.leaving
           r == chosen(run, was.question, was.index, was.last, o, TRUE)
<1>1. /\ Leaving /\ run # None
      /\ Moves(r, MovedOnTwice) /\ Save(was.question, o) /\ UNCHANGED heard
  BY DEF ClickLeaving, Leaving, Open
<1>2. /\ was.index \in Nat /\ was.last \in Nat /\ was.question \in Questions
      /\ steady => /\ was.index \in 1 .. Size(paper) /\ Came(was.index)
                   /\ was.last = Size(paper)
                   /\ was.question = paper.questions[was.index]
      /\ run.index \in Nat
  BY <1>1, LeavingPlace DEF Runs
<1>3. ~Staff => steady
  BY DEF RInv, CandidateInv
<1>4. MovedOnTwice \in BOOLEAN /\ (~MovedOnTwice => was.index + 1 >= run.index)
  BY <1>2 DEF MovedOnTwice
<1>5. ComesTo(r, MovedOnTwice) /\ r.plays = run.plays
  <2> HIDE DEF was
  <2>1. /\ run # None /\ was.question \in Questions /\ was.index \in Nat /\ was.last \in Nat
        /\ TRUE \in BOOLEAN
        /\ steady => /\ was.index \in 1 .. Size(paper) /\ was.last = Size(paper) /\ Came(was.index)
                     /\ ~paper.back /\ ~MovedOnTwice => was.index + 1 >= run.index
    BY <1>1, <1>2, <1>4
  <2>2. /\ ComesTo(chosen(run, was.question, was.index, was.last, o, TRUE), MovedOnTwice)
        /\ chosen(run, was.question, was.index, was.last, o, TRUE).plays = run.plays
    BY <2>1, ChosenComes
  <2> QED BY <2>2
<1> HIDE DEF r, was
<1> QED BY <1>1, <1>2, <1>3, <1>4, <1>5, ChoosesKeep

LEMMA NextLeavingKeeps == ASSUME RInv, NextLeaving PROVE RunsOn
<1> DEFINE r == next(run, run.leaving.index)
<1>1. run # None /\ SameRun(run) /\ Leaving
  BY RunIsSame DEF NextLeaving, Leaving, Open
<1>2. ComesTo(r, MovedOnTwice) /\ r.plays = run.plays
  BY <1>1, NextComes
<1>3. Moves(r, MovedOnTwice) /\ MovedOnTwice \in BOOLEAN /\ UNCHANGED <<saved, heard>>
  BY DEF NextLeaving, MovedOnTwice
<1> HIDE DEF r
<1> QED BY <1>1, <1>2, <1>3, MovesKeep

ClipTimes == {"start", "mid", "near end", "end"}

LEMMA ToggleKeeps == ASSUME RInv, toggle PROVE RunsOn
<1> DEFINE q == Current
           plays == run.plays[q]
<1>1. run # None /\ run \in Runs /\ q \in Questions /\ UNCHANGED saved
  BY CurrentCame DEF toggle, Displayed, Open
<1>2. run.plays \in [Questions -> Nat] /\ run.clip \in [playing : BOOLEAN, time : ClipTimes]
  BY <1>1 DEF Runs, ClipTimes
<1>3. /\ run.plays = heard /\ plays \in Nat /\ heard \in [Questions -> Nat]
      /\ \A p \in Questions : heard[p] <= Replays + 1
  BY <1>1, <1>2 DEF RInv, ClipsInv, ClipsPlayAsOften
<1>4. ASSUME NEW on \in BOOLEAN, Becomes([run EXCEPT !.clip.playing = on]), UNCHANGED heard
      PROVE  RunsOn
  <2> DEFINE r == [run EXCEPT !.clip.playing = on]
  <2>1. SameRun(r) /\ r.plays = run.plays
    BY <1>1, <1>2, <1>4 DEF SameRun, Runs, ClipTimes
  <2>2. Becomes(r) /\ UNCHANGED <<saved, heard>>
    BY <1>1, <1>4
  <2> HIDE DEF r
  <2> QED BY <1>1, <2>1, <2>2, BecomesKeeps
<1>5. ASSUME ~atStart, heard' = [heard EXCEPT ![q] = IF Clip.time = "end" THEN @ + 1 ELSE @]
      PROVE  UNCHANGED heard
  <2>1. Clip.time # "end"
    BY <1>5 DEF atStart
  <2> HIDE DEF q
  <2> QED BY <1>1, <1>3, <1>5, <2>1
<1>6. CASE /\ left(plays) > 0
           /\ Becomes([run EXCEPT !.plays[q] = @ + 1,
                                  !.clip = [playing |-> TRUE, time |-> "start"]])
           /\ heard' = [heard EXCEPT ![q] = @ + 1]
  <2> DEFINE more == [run.plays EXCEPT ![q] = @ + 1]
             r == [run EXCEPT !.plays = more, !.clip = [playing |-> TRUE, time |-> "start"]]
  <2>1. more \in [Questions -> Nat] /\ heard' = more
    BY <1>1, <1>2, <1>3, <1>6
  <2>2. \A p \in Questions : heard'[p] <= Replays + 1
    BY <1>1, <1>2, <1>3, <1>6, RunnerAssumption DEF left
  <2> HIDE DEF more, q
  <2>3. SameRun(r) /\ r.plays = more
    BY <1>1, <2>1 DEF SameRun, Runs
  <2>4. Moves(r, FALSE)
    BY <1>1, <1>6 DEF more, q, Becomes
  <2> HIDE DEF r
  <2>5. ComesTo(r, FALSE) /\ FALSE \in BOOLEAN
    BY <1>1, <2>3, SameComes
  <2>6. SavesWhatCame
    BY <1>1 DEF RInv, TypeOK, SavesWhatCame
  <2> QED BY <1>1, <2>1, <2>2, <2>3, <2>4, <2>5, <2>6, RunKeeps
<1>7. \/ Becomes([run EXCEPT !.clip.playing = FALSE]) /\ UNCHANGED heard
      \/ /\ left(plays) > 0
         /\ Becomes([run EXCEPT !.plays[q] = @ + 1,
                                !.clip = [playing |-> TRUE, time |-> "start"]])
         /\ heard' = [heard EXCEPT ![q] = @ + 1]
      \/ /\ ~atStart /\ Becomes([run EXCEPT !.clip.playing = TRUE])
         /\ heard' = [heard EXCEPT ![q] = IF Clip.time = "end" THEN @ + 1 ELSE @]
  BY DEF toggle
<1> HIDE DEF q, plays
<1> QED BY <1>4, <1>5, <1>6, <1>7

LEMMA PlaysKeeps == ASSUME RInv, Plays PROVE RunsOn
<1>1. run # None /\ run \in Runs /\ UNCHANGED <<saved, heard>>
  BY Pages DEF Plays
<1>2. PICK t \in ClipTimes : Becomes([run EXCEPT !.clip = [playing |-> t # "end", time |-> t]])
  BY DEF Plays, ClipTimes
<1> DEFINE clip == [playing |-> t # "end", time |-> t]
           r == [run EXCEPT !.clip = clip]
<1>3. clip \in [playing : BOOLEAN, time : ClipTimes] /\ Becomes(r)
  BY <1>2
<1> HIDE DEF clip
<1>4. SameRun(r) /\ r.plays = run.plays
  BY <1>1, <1>3 DEF SameRun, Runs, ClipTimes
<1> HIDE DEF r
<1> QED BY <1>1, <1>3, <1>4, BecomesKeeps

LEMMA ReviewSame ==
    ASSUME RInv, run # None
    PROVE  LET r == [run EXCEPT !.review = FALSE] IN SameRun(r) /\ r.plays = run.plays
<1>1. run \in Runs
  BY Pages
<1> QED BY <1>1 DEF SameRun, Runs

LEMMA KeepGoingKeeps == ASSUME RInv, KeepGoing PROVE RunsOn
<1> DEFINE r == [run EXCEPT !.review = FALSE]
<1>1. run # None /\ Becomes(r) /\ UNCHANGED <<saved, heard>>
  BY DEF KeepGoing
<1>2. SameRun(r) /\ r.plays = run.plays
  BY <1>1, ReviewSame
<1> HIDE DEF r
<1> QED BY <1>1, <1>2, BecomesKeeps

LEMMA JumpToKeeps == ASSUME RInv, NEW i, JumpTo(i) PROVE RunsOn
<1> DEFINE r == [run EXCEPT !.review = FALSE]
<1>1. /\ run # None /\ run.review /\ paper.back /\ i \in 1 .. Size(paper)
      /\ Moves(go(r, run.index, i), FALSE) /\ FALSE \in BOOLEAN /\ UNCHANGED <<saved, heard>>
  BY Pages DEF JumpTo, Becomes
<1>2. SameRun(r) /\ r.plays = run.plays
  BY <1>1, ReviewSame
<1> HIDE DEF r
<1>3. steady => Came(i - 1)
  <2> SUFFICES ASSUME steady PROVE Came(i - 1)
    OBVIOUS
  <2>1. Came(Size(paper))
    BY <1>1 DEF RInv, RunInv, RunCame
  <2> QED BY <1>1, <2>1, Pages DEF Came
<1>4. i \in Int /\ (~paper.back => i >= run.index)
  BY <1>1, Pages
<1>5. ComesTo(go(r, run.index, i), FALSE) /\ go(r, run.index, i).plays = r.plays
  BY <1>1, <1>2, <1>3, <1>4, GoComes
<1> QED BY <1>1, <1>2, <1>5, MovesKeep

-----------------------------------------------------------------------------
(* Starting, handing in, leaving.                                           *)

LEMMA NewRunTyped ==
    ASSUME NEW answers \in Answers, NEW at \in Nat \ {0}
    PROVE  LET r == NewRun(answers, at)
           IN  /\ r \in Runs /\ r.index = at /\ r.timer = 0 /\ r.leaving = NotLeaving
               /\ ~r.review /\ r.plays = [q \in Questions |-> 0]
  BY DEF NewRun, Runs, NoClip

LEMMA NoAnswersTyped == NoAnswers \in Answers
  BY DEF NoAnswers, Answers

\* A runner starts at a question that has nothing unseen before it.
Starts(answers, at) ==
    /\ answers \in Answers /\ at \in 1 .. Size(paper) /\ run' = NewRun(answers, at)
    /\ passed' \in SUBSET Questions /\ seen' \in SUBSET Questions
    /\ \A i \in 1 .. at : paper.questions[i] \in seen'
    /\ \A i \in 1 .. Size(paper) : paper.questions[i] \in passed' => i < at
    /\ ~Staff => seen \subseteq seen'

LEMMA BeginStarts == ASSUME RInv, paper.questions # <<>>, begin PROVE \E at : Starts(NoAnswers, at)
<1>1. Size(paper) \in Nat \ {0}
  BY Pages DEF Size, RInv, TypeOK, Papers
<1>2. /\ 1 \in 1 .. Size(paper) /\ run' = NewRun(NoAnswers, 1) /\ Staff
      /\ paper.questions[1] \in Questions /\ passed' = {} /\ seen' = {paper.questions[1]}
  BY <1>1, Pages DEF begin
<1> QED BY <1>1, <1>2, NoAnswersTyped DEF Starts

LEMMA MountedStarts ==
    ASSUME RInv, ~Staff, paper.questions # <<>>, NEW answers \in Answers, Mounted(answers),
           \A i \in 1 .. Size(paper) : answers[paper.questions[i]] # None => Came(i)
    PROVE  Starts(answers, resumeAt(paper, answers))
<1> DEFINE at == resumeAt(paper, answers)
           open(i) == answers[paper.questions[i]] = None
<1>1. Size(paper) \in Nat /\ paper \in Papers
  BY Pages
<1>2. /\ at \in 1 .. Size(paper)
      /\ paper.back => \A k \in 1 .. at - 1 : ~open(k)
      /\ ~paper.back =>
            /\ at = Size(paper) \/ \A k \in at .. Size(paper) : open(k)
            /\ \A k \in 1 .. at - 1 : \E j \in k .. Size(paper) : ~open(j)
  BY <1>1, ResumeIsFirst
<1>3. /\ run' = NewRun(answers, at)
      /\ passed' = passed \cap Behind(paper, at)
      /\ seen' = seen \cup {paper.questions[at]}
  BY DEF Mounted
<1> HIDE DEF at
<1>4. \A i \in 1 .. Size(paper) : ~open(i) => Came(i)
  OBVIOUS
<1>5. \A i \in 1 .. at - 1 : paper.questions[i] \in seen
  <2> TAKE i \in 1 .. at - 1
  <2>1. i \in 1 .. Size(paper)
    BY <1>2, Pages
  <2>2. CASE paper.back
    <3>1. Came(i)
      BY <1>2, <1>4, <2>1, <2>2
    <3> QED BY <2>1, <3>1 DEF Came
  <2>3. CASE ~paper.back
    <3>1. PICK j \in i .. Size(paper) : ~open(j)
      BY <1>2, <2>3
    <3>2. j \in 1 .. Size(paper)
      BY <2>1, Pages
    <3>3. Came(j)
      BY <1>4, <3>1, <3>2
    <3> QED BY <2>1, <3>1, <3>2, <3>3, Pages DEF Came
  <2> QED BY <2>2, <2>3
<1>6. \A i \in 1 .. at : paper.questions[i] \in seen'
  BY <1>2, <1>3, <1>5, Pages
<1>7. /\ passed' \in SUBSET Questions
      /\ \A i \in 1 .. Size(paper) : paper.questions[i] \in passed' => i < at
  <2>1. /\ Behind(paper, at) \in SUBSET Questions
        /\ \A i \in 1 .. Size(paper) : paper.questions[i] \in Behind(paper, at) => i < at
    BY <1>1, <1>2, BehindLies
  <2> QED BY <1>3, <2>1
<1>8. seen' \in SUBSET Questions /\ seen \subseteq seen'
  BY <1>2, <1>3, Pages
<1> QED BY <1>2, <1>3, <1>6, <1>7, <1>8 DEF Starts, at

LEMMA StartHolds ==
    ASSUME RInv, UNCHANGED <<server, paper, refresh, saved, calls>>, paper.questions # <<>>,
           screen' = "running", steady' = TRUE, ~Staff => score' = NoScore,
           heard' = [q \in Questions |-> 0], opened' \in {opened, saved},
           NEW answers, NEW at, Starts(answers, at)
    PROVE  run' \in Runs /\ RunInv' /\ CandidateInv' /\ ClipsInv'
<1>1. /\ answers \in Answers /\ at \in 1 .. Size(paper) /\ run' = NewRun(answers, at)
      /\ \A i \in 1 .. at : paper.questions[i] \in seen'
      /\ \A i \in 1 .. Size(paper) : paper.questions[i] \in passed' => i < at
      /\ ~Staff => seen \subseteq seen'
  BY DEF Starts
<1>2. /\ run' \in Runs /\ run'.index = at /\ run'.timer = 0 /\ run'.leaving = NotLeaving
      /\ ~run'.review /\ run'.plays = [q \in Questions |-> 0]
  BY <1>1, NewRunTyped
<1>3. paper' = paper /\ Size(paper)' = Size(paper) /\ DOMAIN paper.questions = 1 .. Size(paper)
      /\ Size(paper) \in Nat
  BY Pages DEF Size
<1>4. RunInv'
  <2>1. RunCame'
    BY <1>1, <1>2, <1>3 DEF RunCame, Came
  <2>2. RunForward'
    BY <1>1, <1>2, <1>3 DEF RunForward
  <2> QED BY <1>3, <2>1, <2>2 DEF RunInv
<1>5. CandidateInv'
  <2> SUFFICES ASSUME ~Staff' PROVE CandidateInv'
    BY DEF CandidateInv
  <2>1. ~Staff /\ CandidateInv
    BY DEF Staff, server, RInv
  <2>2. \A i \in DOMAIN paper.questions :
           saved'[paper.questions[i]] # None \/ opened'[paper.questions[i]] # None => Came(i)'
    BY <1>1, <1>3, <2>1 DEF CandidateInv, Came
  <2>3. \A i \in DOMAIN paper.questions : paper.questions[i] \in passed' => i < Size(paper)
    BY <1>1, <1>3
  <2> QED BY <1>3, <2>1, <2>2, <2>3 DEF CandidateInv
<1>6. ClipsInv'
  BY <1>2, RunnerAssumption DEF ClipsInv, ClipsPlayAsOften
<1> QED BY <1>2, <1>4, <1>5, <1>6

\* What the candidate's runner can be mounted with has come.
LEMMA AnswersCame ==
    ASSUME RInv, ~Staff
    PROVE  /\ saved \in Answers /\ opened \in Answers
           /\ \A i \in 1 .. Size(paper) : saved[paper.questions[i]] # None => Came(i)
           /\ \A i \in 1 .. Size(paper) : opened[paper.questions[i]] # None => Came(i)
<1>1. saved \in Answers /\ opened \in Answers
  BY DEF RInv, TypeOK
<1> QED BY <1>1, Pages DEF RInv, CandidateInv

LEMMA BeginKeeps == ASSUME RInv, Begin PROVE RInv'
<1>1. /\ UNCHANGED <<server, paper, refresh, saved, calls>> /\ paper.questions # <<>>
      /\ screen' = "running" /\ begun' = begun + 1
      /\ score' = NoScore /\ handed' = NotHanded /\ since' = {} /\ steady' = TRUE
      /\ heard' = [q \in Questions |-> 0] /\ late' = FALSE
  BY DEF Begin
<1>2. opened' \in {opened, saved}
  BY DEF Begin, begin, Continue
<1>3. \E answers, at : Starts(answers, at)
  <2>1. CASE begin
    BY <1>1, <2>1, BeginStarts
  <2>2. CASE Continue
    <3>1. ~Staff /\ Mounted(saved)
      BY <2>2 DEF Continue
    <3> QED BY <1>1, <3>1, AnswersCame, MountedStarts
  <2> QED BY <2>1, <2>2 DEF Begin
<1>4. PICK answers, at : Starts(answers, at)
  BY <1>3
<1>5. run' \in Runs /\ RunInv' /\ CandidateInv' /\ ClipsInv'
  BY <1>1, <1>2, <1>4, StartHolds
<1>6. TypeOK'
  <2>1. score' \in [call : 0 .. Len(calls'), state : {"none", "pending", "shown", "failed"},
                    result : Results \cup {None}]
    BY <1>1 DEF NoScore, RInv, TypeOK
  <2>2. handed' \in [answers : Answers, reason : {"submitted", "timed-out", None}]
    BY <1>1, NoAnswersTyped DEF NotHanded
  <2>3. begun' \in Nat /\ heard' \in [Questions -> Nat]
    BY <1>1 DEF RInv, TypeOK
  <2>4. passed' \in SUBSET Questions /\ seen' \in SUBSET Questions
    BY <1>4 DEF Starts
  <2> QED BY <1>1, <1>2, <1>5, <2>1, <2>2, <2>3, <2>4 DEF RInv, TypeOK, server
<1>7. ScoreInv'
  BY <1>1 DEF ScoreInv, NoScore
<1>8. EveryQuestionCame'
  BY <1>1, RunnerAssumption DEF EveryQuestionCame, NotHanded
<1> QED BY <1>5, <1>6, <1>7, <1>8 DEF RInv

LEMMA OverviewFailsKeeps == ASSUME RInv, OverviewFails PROVE RInv'
<1>1. /\ UNCHANGED <<server, paper, refresh, screen, begun, saved, opened, scores, handed, passed,
                     seen, heard, steady>>
      /\ run' = None /\ late' = FALSE
  BY DEF OverviewFails
<1>2. TypeOK'
  BY <1>1 DEF RInv, TypeOK, server, scores
<1>3. RunInv' /\ ClipsInv'
  BY <1>1 DEF RunInv, RInv, ClipsInv, ClipsPlayAsOften
<1>4. CandidateInv'
  BY <1>1 DEF RInv, CandidateInv, Staff, server, scores, Came, Size
<1>5. ScoreInv' /\ EveryQuestionCame'
  BY <1>1, ScoreStays DEF RInv, EveryQuestionCame
<1> QED BY <1>2, <1>3, <1>4, <1>5 DEF RInv

LEMMA OverviewComesKeeps == ASSUME RInv, OverviewComes PROVE RInv'
<1>1. /\ UNCHANGED <<server, paper, refresh, screen, begun, saved, opened, scores, handed, steady>>
      /\ heard' = [q \in Questions |-> 0] /\ late' = FALSE
      /\ ~Staff /\ screen = "running" /\ Mounted(opened)
  BY DEF OverviewComes, Mounted
<1>2. steady /\ score = NoScore /\ paper.questions # <<>>
  BY <1>1 DEF RInv, CandidateInv
<1> DEFINE at == resumeAt(paper, opened)
<1>3. Starts(opened, at)
  BY <1>1, <1>2, AnswersCame, MountedStarts
<1> HIDE DEF at
<1>4. run' \in Runs /\ RunInv' /\ CandidateInv' /\ ClipsInv'
  <2>1. UNCHANGED <<server, paper, refresh, saved, calls>> /\ score' = NoScore
        /\ screen' = "running" /\ steady' = TRUE /\ opened' \in {opened, saved}
    BY <1>1, <1>2 DEF scores, RInv, TypeOK
  <2> QED BY <1>1, <1>2, <1>3, <2>1, StartHolds
<1>5. /\ passed' \in SUBSET Questions /\ seen' \in SUBSET Questions /\ seen \subseteq seen'
  BY <1>1, <1>3 DEF Starts
<1>6. TypeOK'
  BY <1>1, <1>4, <1>5 DEF RInv, TypeOK, server, scores
<1>7. ScoreInv'
  BY <1>1, ScoreStays
<1>8. EveryQuestionCame'
  BY <1>1, <1>5 DEF RInv, EveryQuestionCame
<1> QED BY <1>4, <1>6, <1>7, <1>8 DEF RInv

LEMMA ScoreTyped ==
    ASSUME NEW t \in Tests, NEW answers \in Answers
    PROVE  ScoreOf(t, answers) \in Results
<1>1. DOMAIN t.key \subseteq Questions
  BY DEF Tests
<1> QED BY <1>1 DEF ScoreOf, Results

Calls == [answers : Answers, state : {"sent", "served", "done"}, result : Results \cup {None}]

LEMMA HandOverKeeps ==
    ASSUME RInv, run # None, NEW reason \in {"submitted", "timed-out"}, HandOver(reason),
           reason = "submitted" => run.review
    PROVE  RInv'
<1>1. /\ UNCHANGED <<server, paper, refresh, begun, saved, opened, passed, seen, heard, steady>>
      /\ screen' \in {"result", "done"} /\ run' = None /\ late' = FALSE
      /\ handed' = [answers |-> run.answers, reason |-> reason]
  BY DEF HandOver
<1>2. run.answers \in Answers
  BY Pages DEF Runs
<1>3. calls \in Seq(Calls) /\ Len(calls) \in Nat
  BY DEF RInv, TypeOK, Calls
<1>4. handed' \in [answers : Answers, reason : {"submitted", "timed-out", None}]
  BY <1>1, <1>2
<1>5. ASSUME Staff PROVE TypeOK' /\ CandidateInv' /\ ScoreInv'
  <2> DEFINE new == [answers |-> run.answers, state |-> "sent", result |-> None]
  <2>1. /\ calls' = Append(calls, new)
        /\ score' = [call |-> Len(calls) + 1, state |-> "pending", result |-> None]
        /\ since' = {test}
    BY <1>5 DEF HandOver
  <2>2. new \in Calls
    BY <1>2 DEF Calls
  <2> HIDE DEF new
  <2>3. calls' \in Seq(Calls) /\ Len(calls') = Len(calls) + 1 /\ calls'[Len(calls) + 1] = new
    BY <1>3, <2>1, <2>2
  <2>4. score' \in [call : 0 .. Len(calls'), state : {"none", "pending", "shown", "failed"},
                    result : Results \cup {None}]
    BY <1>3, <2>1, <2>3
  <2>5. TypeOK'
    BY <1>1, <1>4, <2>1, <2>3, <2>4 DEF RInv, TypeOK, server, Calls
  <2>6. CandidateInv'
    BY <1>1, <1>5 DEF CandidateInv, Staff, server
  <2>7. ScoreInv'
    BY <1>1, <2>1, <2>3 DEF ScoreInv, server, new
  <2> QED BY <2>5, <2>6, <2>7
<1>6. ASSUME ~Staff PROVE TypeOK' /\ CandidateInv' /\ ScoreInv'
  <2>1. UNCHANGED scores
    BY <1>6 DEF HandOver
  <2>2. TypeOK'
    BY <1>1, <1>4, <2>1 DEF RInv, TypeOK, server, scores
  <2>3. CandidateInv'
    BY <1>1, <2>1 DEF RInv, CandidateInv, Staff, server, scores, Came, Size
  <2>4. score = NoScore
    BY <1>6 DEF RInv, CandidateInv
  <2>5. ScoreInv'
    BY <1>1, <2>1, <2>4 DEF RInv, ScoreInv, NoScore, server, scores
  <2> QED BY <2>2, <2>3, <2>5
<1>7. RunInv' /\ ClipsInv'
  BY <1>1 DEF RunInv, RInv, ClipsInv, ClipsPlayAsOften
<1>8. EveryQuestionCame'
  <2> SUFFICES ASSUME handed'.reason = "submitted", steady'
               PROVE  Range(paper'.questions) \subseteq seen'
    BY DEF EveryQuestionCame
  <2>1. run.review /\ steady
    BY <1>1
  <2>2. Came(Size(paper))
    BY <2>1 DEF RInv, RunInv, RunCame
  <2> QED BY <1>1, <2>2, Pages DEF Came, Range
<1> QED BY <1>5, <1>6, <1>7, <1>8 DEF RInv

LEMMA ConfirmKeeps == ASSUME RInv, Confirm PROVE RInv'
  BY HandOverKeeps DEF Confirm

LEMMA TimesUpKeeps == ASSUME RInv, TimesUp PROVE RInv'
  BY HandOverKeeps DEF TimesUp

LEMMA LeaveKeeps == ASSUME RInv, Leave PROVE RInv'
<1>1. /\ UNCHANGED <<server, begun, saved, passed, seen, heard>>
      /\ screen' = "intro" /\ run' = None /\ steady' = TRUE /\ late' = FALSE
      /\ opened' = NoAnswers
      /\ refresh' = NoRefresh /\ score' = NoScore /\ handed' = NotHanded /\ since' = {}
      /\ IF Staff THEN paper' \in preview(test) ELSE paper' = paper
      /\ calls' = [c \in DOMAIN calls |->
            [calls[c] EXCEPT !.state = "done", !.answers = NoAnswers, !.result = None]]
  BY DEF Leave
<1>2. calls \in Seq(Calls) /\ Len(calls) \in Nat
  BY DEF RInv, TypeOK, Calls
<1>3. \A k \in Calls :
         [k EXCEPT !.state = "done", !.answers = NoAnswers, !.result = None] \in Calls
  BY NoAnswersTyped DEF Calls
<1>4. calls' \in Seq(Calls)
  <2>1. DOMAIN calls = 1 .. Len(calls) /\ \A c \in 1 .. Len(calls) : calls[c] \in Calls
    BY <1>2
  <2>2. calls' \in [1 .. Len(calls) -> Calls]
    BY <1>1, <1>3, <2>1
  <2> QED BY <1>2, <2>2
<1>5. paper' \in Papers
  BY <1>1, PreviewIsPaper DEF RInv, TypeOK
<1>6. TypeOK'
  <2>1. Len(calls') \in Nat
    BY <1>4
  <2>2. score' \in [call : 0 .. Len(calls'), state : {"none", "pending", "shown", "failed"},
                    result : Results \cup {None}]
    <3>1. score' = NoScore
      BY <1>1
    <3>2. 0 \in 0 .. Len(calls')
      BY <2>1
    <3> QED BY <3>1, <3>2 DEF NoScore
  <2>3. handed' \in [answers : Answers, reason : {"submitted", "timed-out", None}]
    BY <1>1, NoAnswersTyped DEF NotHanded
  <2>4. refresh'.state = "none"
    BY <1>1 DEF NoRefresh
  <2> QED BY <1>1, <1>4, <1>5, <2>2, <2>3, <2>4, NoAnswersTyped DEF RInv, TypeOK, server, Calls
<1>7. RunInv' /\ ClipsInv'
  BY <1>1 DEF RunInv, RInv, ClipsInv, ClipsPlayAsOften
<1>8. CandidateInv'
  <2> SUFFICES ASSUME ~Staff' PROVE CandidateInv'
    BY DEF CandidateInv
  <2>1. ~Staff /\ CandidateInv
    BY <1>1 DEF Staff, server, RInv
  <2>2. calls' = <<>>
    BY <1>1, <2>1 DEF CandidateInv
  <2>3. paper' = paper
    BY <1>1, <2>1
  <2>4. \A i \in DOMAIN paper.questions :
           saved'[paper.questions[i]] # None \/ opened'[paper.questions[i]] # None => Came(i)'
    <3>1. \A i \in DOMAIN paper.questions : opened'[paper.questions[i]] = None
      BY <1>1, Pages DEF NoAnswers
    <3>2. \A i \in DOMAIN paper.questions : saved[paper.questions[i]] # None => Came(i)
      BY <2>1 DEF CandidateInv
    <3> QED BY <1>1, <2>3, <3>1, <3>2 DEF Came
  <2> QED BY <1>1, <2>1, <2>2, <2>3, <2>4 DEF CandidateInv, NoRefresh, Size
<1>9. ScoreInv'
  BY <1>1 DEF ScoreInv, NoScore
<1>10. EveryQuestionCame'
  BY <1>1, RunnerAssumption DEF EveryQuestionCame, NotHanded
<1> QED BY <1>6, <1>7, <1>8, <1>9, <1>10 DEF RInv

-----------------------------------------------------------------------------
(* The preview's page, and the server.                                      *)

LEMMA ReshuffleKeeps == ASSUME RInv, Reshuffle PROVE RInv'
<1>1. /\ UNCHANGED <<server, paper, begun, saved, opened, scores, handed, passed, seen, heard,
                     steady>>
      /\ Staff /\ screen' = "intro" /\ run' = None /\ late' = FALSE
      /\ refresh' = [state |-> "asked", paper |-> None]
  BY DEF Reshuffle
<1>2. TypeOK'
  BY <1>1 DEF RInv, TypeOK, server, scores
<1>3. RunInv' /\ ClipsInv' /\ CandidateInv'
  BY <1>1 DEF RunInv, RInv, ClipsInv, ClipsPlayAsOften, CandidateInv, Staff, server
<1>4. ScoreInv' /\ EveryQuestionCame'
  BY <1>1, ScoreStays DEF RInv, EveryQuestionCame
<1> QED BY <1>2, <1>3, <1>4 DEF RInv

LEMMA ServeRefreshKeeps == ASSUME RInv, ServeRefresh PROVE RInv'
<1>1. UNCHANGED <<server, paper, screen, begun, run, saved, opened, scores, handed, passed, seen,
                  heard, steady, late>>
  BY DEF ServeRefresh
<1>2. PICK p \in preview(test) : refresh' = [state |-> "served", paper |-> p]
  BY DEF ServeRefresh
<1>3. refresh'.state = "served" /\ refresh'.paper \in Papers
  BY <1>2, PreviewIsPaper DEF RInv, TypeOK
<1>4. Staff
  BY DEF ServeRefresh, RInv, CandidateInv
<1>5. TypeOK'
  BY <1>1, <1>3 DEF RInv, TypeOK, server, scores
<1>6. RunInv'
  BY <1>1 DEF RInv, RunInv, RunCame, RunForward, Came, Size
<1>7. ClipsInv' /\ CandidateInv'
  BY <1>1, <1>4 DEF RInv, ClipsInv, ClipsPlayAsOften, CandidateInv, Staff, server
<1>8. ScoreInv' /\ EveryQuestionCame'
  BY <1>1, ScoreStays DEF RInv, EveryQuestionCame
<1> QED BY <1>5, <1>6, <1>7, <1>8 DEF RInv

LEMMA RefreshedKeeps == ASSUME RInv, Refreshed PROVE RInv'
<1> DEFINE p == refresh.paper
           fresh == p.questions # <<>> /\ paper.questions = <<>> /\ screen = "running"
           r == IF p.questions = <<>> THEN None
                ELSE IF fresh THEN NewRun(NoAnswers, 1)
                ELSE run
           now == IF r = None THEN None ELSE QuestionAt(p, r.index)
<1>1. /\ UNCHANGED <<server, screen, begun, saved, opened, scores, handed, late>>
      /\ refresh.state = "served" /\ paper' = p /\ refresh' = NoRefresh /\ steady' = FALSE
      /\ heard' = IF fresh THEN [q \in Questions |-> 0] ELSE heard
      /\ run' = r
      /\ passed' = IF r = None THEN passed ELSE (passed \cup {Current}) \cap Behind(p, r.index)
      /\ seen' = IF r = None THEN seen ELSE (seen \cup {now}) \ {None}
  BY DEF Refreshed, Noted
<1>2. p \in Papers /\ Staff
  BY <1>1 DEF RInv, TypeOK, CandidateInv
<1>3. now \in Questions \cup {None} /\ Current \in Questions \cup {None}
  BY <1>2, PaperShape, Pages DEF Current
<1>4. r # None => r \in Runs
  BY NewRunTyped, NoAnswersTyped, Pages
<1> HIDE DEF now, p
<1>5. passed' \in SUBSET Questions /\ seen' \in SUBSET Questions
  <2>1. r # None => Behind(p, r.index) \in SUBSET Questions
    BY <1>2, <1>4, BehindLies DEF Runs
  <2> QED BY <1>1, <1>3, <2>1, Pages
<1>6. heard' \in [Questions -> Nat] /\ \A q \in Questions : heard'[q] <= Replays + 1
  <2>1. heard \in [Questions -> Nat] /\ \A q \in Questions : heard[q] <= Replays + 1
    BY DEF RInv, TypeOK, ClipsInv, ClipsPlayAsOften
  <2> QED BY <1>1, <2>1, RunnerAssumption
<1>7. run' # None => run'.plays = heard'
  <2>1. NewRun(NoAnswers, 1).plays = [q \in Questions |-> 0]
    BY DEF NewRun
  <2> QED BY <1>1, <2>1 DEF RInv, ClipsInv
<1>8. run' # None => screen' = "running"
  BY <1>1 DEF RInv, RunInv
<1> HIDE DEF r, fresh
<1>9. refresh'.state = "none"
  BY <1>1 DEF NoRefresh
<1>10. TypeOK'
  BY <1>1, <1>2, <1>4, <1>5, <1>6, <1>9 DEF RInv, TypeOK, server, scores
<1>11. RunInv' /\ ClipsInv' /\ CandidateInv' /\ EveryQuestionCame'
  BY <1>1, <1>2, <1>6, <1>7, <1>8
     DEF RunInv, ClipsInv, ClipsPlayAsOften, CandidateInv, Staff, server, EveryQuestionCame
<1>12. ScoreInv'
  BY <1>1, ScoreStays
<1> QED BY <1>10, <1>11, <1>12 DEF RInv

\* One call to score changed: what it was before tells the rest.
LEMMA CallChanges ==
    ASSUME RInv, NEW c \in DOMAIN calls, NEW new \in Calls,
           calls' = [calls EXCEPT ![c] = new]
    PROVE  /\ calls' \in Seq(Calls) /\ Len(calls') = Len(calls) /\ calls[c] \in Calls
           /\ calls'[c] = new /\ \A d \in DOMAIN calls : d # c => calls'[d] = calls[d]
           /\ score.call \in 0 .. Len(calls) /\ Len(calls) \in Nat
           /\ DOMAIN calls = 1 .. Len(calls) /\ Staff
<1>1. calls \in Seq(Calls) /\ score.call \in 0 .. Len(calls)
  BY DEF RInv, TypeOK, Calls
<1>2. Staff
  BY DEF RInv, CandidateInv
<1> QED BY <1>1, <1>2

LEMMA ServeScoreKeeps == ASSUME RInv, NEW c \in DOMAIN calls, ServeScore(c) PROVE RInv'
<1> DEFINE result == ScoreOf(test, calls[c].answers)
           new == [calls[c] EXCEPT !.state = "served", !.result = result]
<1>1. /\ UNCHANGED <<server, paper, refresh, screen, begun, run, saved, opened, score, since,
                     handed, passed, seen, heard, steady, late>>
      /\ calls[c].state = "sent" /\ calls' = [calls EXCEPT ![c] = new]
  BY DEF ServeScore
<1>2. calls[c] \in Calls /\ test \in Tests
  <2>1. calls \in Seq(Calls) /\ test \in Tests
    BY DEF RInv, TypeOK, Calls
  <2> QED BY <2>1
<1>3. result \in Results
  BY <1>2, ScoreTyped DEF Calls
<1>4. new \in Calls /\ new.state = "served" /\ new.result = result
  <2> HIDE DEF result
  <2> QED BY <1>2, <1>3 DEF Calls
<1> HIDE DEF new
<1>5. /\ calls' \in Seq(Calls) /\ Len(calls') = Len(calls)
      /\ calls'[c] = new /\ \A d \in DOMAIN calls : d # c => calls'[d] = calls[d]
      /\ score.call \in 0 .. Len(calls) /\ Len(calls) \in Nat
      /\ DOMAIN calls = 1 .. Len(calls) /\ Staff
  BY <1>1, <1>4, CallChanges
<1>6. TypeOK'
  BY <1>1, <1>5 DEF RInv, TypeOK, server, Calls
<1>7. RunInv' /\ ClipsInv' /\ CandidateInv' /\ EveryQuestionCame'
  BY <1>1, <1>5 DEF RInv, RunInv, RunCame, RunForward, Came, Size, ClipsInv, ClipsPlayAsOften,
                    CandidateInv, Staff, server, EveryQuestionCame
<1>8. ScoreInv'
  <2>1. ScoreInv /\ test' = test /\ since' = since /\ handed' = handed /\ score' = score
    BY <1>1 DEF RInv, server
  <2>2. \A x : OfLastHandIn(x) => OfLastHandIn(x)'
    BY <2>1 DEF OfLastHandIn, ScoreOf
  <2>3. ASSUME score.call = c PROVE OfLastHandIn(result)
    <3>1. calls[c].answers = handed.answers /\ test \in since
      BY <1>1, <1>5, <2>1, <2>3 DEF ScoreInv
    <3> QED BY <3>1 DEF OfLastHandIn
  <2> HIDE DEF result
  <2>4. ASSUME score.call # 0
        PROVE  /\ since # {}
               /\ calls'[score.call].state = "sent" => calls'[score.call].answers = handed.answers
               /\ calls'[score.call].state = "served" => OfLastHandIn(calls'[score.call].result)
    <3>1. CASE score.call = c
      BY <1>4, <1>5, <2>1, <2>3, <2>4, <3>1 DEF ScoreInv
    <3>2. CASE score.call # c
      <4>1. calls'[score.call] = calls[score.call]
        BY <1>5, <2>4, <3>2
      <4> QED BY <2>1, <2>4, <4>1 DEF ScoreInv
    <3> QED BY <3>1, <3>2
  <2> QED BY <2>1, <2>2, <2>4 DEF ScoreInv
<1> QED BY <1>6, <1>7, <1>8 DEF RInv

LEMMA SettleKeeps ==
    ASSUME RInv, NEW c \in DOMAIN calls, NEW state \in {"shown", "failed"},
           NEW result \in Results \cup {None}, Settle(c, state, result),
           state = "shown" => calls[c].state = "served" /\ result = calls[c].result
    PROVE  RInv'
<1> DEFINE new == [answers |-> NoAnswers, state |-> "done", result |-> None]
<1>1. /\ UNCHANGED <<server, paper, refresh, screen, begun, run, saved, opened, since, handed,
                     passed, seen, heard, steady, late>>
      /\ calls' = [calls EXCEPT ![c] = new]
      /\ score' = IF watched(c) THEN [score EXCEPT !.state = state, !.result = result] ELSE score
  BY DEF Settle
<1>2. new \in Calls /\ new.state = "done"
  BY NoAnswersTyped DEF Calls
<1> HIDE DEF new
<1>3. /\ calls' \in Seq(Calls) /\ Len(calls') = Len(calls)
      /\ calls'[c] = new /\ \A d \in DOMAIN calls : d # c => calls'[d] = calls[d]
      /\ score.call \in 0 .. Len(calls) /\ Len(calls) \in Nat
      /\ DOMAIN calls = 1 .. Len(calls) /\ Staff
  BY <1>1, <1>2, CallChanges
<1> DEFINE Scores == [call : 0 .. Len(calls), state : {"none", "pending", "shown", "failed"},
                      result : Results \cup {None}]
<1>4. score \in Scores
  BY DEF RInv, TypeOK
<1>5. /\ score' \in Scores /\ score'.call = score.call
      /\ score'.state = (IF score.call = c THEN state ELSE score.state)
      /\ score'.result = (IF score.call = c THEN result ELSE score.result)
  BY <1>1, <1>4 DEF watched
<1>6. TypeOK'
  BY <1>1, <1>3, <1>5 DEF RInv, TypeOK, server, Calls
<1>7. RunInv' /\ ClipsInv' /\ CandidateInv' /\ EveryQuestionCame'
  BY <1>1, <1>3 DEF RInv, RunInv, RunCame, RunForward, Came, Size, ClipsInv, ClipsPlayAsOften,
                    CandidateInv, Staff, server, EveryQuestionCame
<1>8. ScoreInv'
  <2>1. ScoreInv /\ test' = test /\ since' = since /\ handed' = handed
    BY <1>1 DEF RInv, server
  <2>2. \A x : OfLastHandIn(x) => OfLastHandIn(x)'
    BY <2>1 DEF OfLastHandIn, ScoreOf
  <2>3. ASSUME score.call # 0
        PROVE  /\ since # {}
               /\ calls'[score.call].state = "sent" => calls'[score.call].answers = handed.answers
               /\ calls'[score.call].state = "served" => OfLastHandIn(calls'[score.call].result)
    <3>1. CASE score.call = c
      BY <1>2, <1>3, <2>1, <2>3, <3>1 DEF ScoreInv
    <3>2. CASE score.call # c
      <4>1. calls'[score.call] = calls[score.call]
        BY <1>3, <2>3, <3>2
      <4> QED BY <2>1, <2>3, <4>1 DEF ScoreInv
    <3> QED BY <3>1, <3>2
  <2>4. score'.state = "shown" => OfLastHandIn(score'.result)
    <3>1. CASE score.call = c /\ state = "shown"
      BY <1>3, <1>5, <2>1, <3>1 DEF ScoreInv
    <3>2. CASE score.call = c /\ state # "shown"
      BY <1>5, <3>2
    <3>3. CASE score.call # c
      BY <1>5, <2>1, <3>3 DEF ScoreInv
    <3> QED BY <3>1, <3>2, <3>3
  <2> QED BY <1>5, <2>1, <2>2, <2>3, <2>4 DEF ScoreInv
<1> QED BY <1>6, <1>7, <1>8 DEF RInv

LEMMA ScoreRepliesKeeps == ASSUME RInv, NEW c \in DOMAIN calls, ScoreReplies(c) PROVE RInv'
<1>1. calls[c].result \in Results \cup {None}
  <2>1. calls \in Seq(Calls)
    BY DEF RInv, TypeOK, Calls
  <2>2. calls[c] \in Calls
    BY <2>1
  <2> QED BY <2>2 DEF Calls
<1> QED BY <1>1, SettleKeeps DEF ScoreReplies

LEMMA ScoreFailsKeeps == ASSUME RInv, NEW c \in DOMAIN calls, ScoreFails(c) PROVE RInv'
  BY SettleKeeps DEF ScoreFails

LEMMA EditKeeps == ASSUME RInv, Edit PROVE RInv'
<1>1. /\ UNCHANGED <<visit, paper, refresh, screen, begun, run, saved, opened, calls, score,
                     handed, passed, seen, heard, steady, late>>
      /\ edits' = edits + 1 /\ test' \in visit.later
      /\ since' = IF since = {} THEN {} ELSE since \cup {test'}
  BY DEF Edit
<1>2. test' \in Tests /\ since' \in SUBSET Tests
  BY <1>1, VisitsAssumption DEF RInv, TypeOK
<1>3. TypeOK'
  BY <1>1, <1>2 DEF RInv, TypeOK
<1>4. RunInv' /\ ClipsInv' /\ CandidateInv' /\ EveryQuestionCame'
  BY <1>1 DEF RInv, RunInv, RunCame, RunForward, Came, Size, ClipsInv, ClipsPlayAsOften,
              CandidateInv, Staff, EveryQuestionCame
<1>5. ScoreInv'
  <2>1. since \subseteq since' /\ (since' # {} => since # {} /\ test' \in since')
    BY <1>1
  <2>2. \A x : OfLastHandIn(x) => OfLastHandIn(x)'
    BY <1>1, <2>1 DEF OfLastHandIn, ScoreOf
  <2> QED BY <1>1, <2>1, <2>2 DEF RInv, ScoreInv
<1> QED BY <1>3, <1>4, <1>5 DEF RInv

-----------------------------------------------------------------------------
(* Initially, and by every step.                                            *)

LEMMA InitHolds == Init => RInv
<1> SUFFICES ASSUME Init PROVE RInv
  OBVIOUS
<1>1. test \in Tests /\ paper \in Papers
  BY VisitsAssumption, PreviewIsPaper DEF Init
<1>2. TypeOK
  <2>1. score \in [call : 0 .. Len(calls), state : {"none", "pending", "shown", "failed"},
                   result : Results \cup {None}]
    BY DEF Init, NoScore
  <2>2. handed \in [answers : Answers, reason : {"submitted", "timed-out", None}]
    BY NoAnswersTyped DEF Init, NotHanded
  <2>3. steady \in BOOLEAN /\ late \in BOOLEAN /\ since \in SUBSET Tests
        /\ passed \in SUBSET Questions /\ seen \in SUBSET Questions /\ heard \in [Questions -> Nat]
    BY DEF Init
  <2>4. visit \in Visits /\ edits \in Nat /\ begun \in Nat /\ refresh.state = "none"
        /\ screen = "intro" /\ run = None /\ calls = <<>>
    BY DEF Init, NoRefresh
  <2>5. saved \in Answers /\ opened \in Answers
    BY NoAnswersTyped DEF Init
  <2> QED BY <1>1, <2>1, <2>2, <2>3, <2>4, <2>5 DEF TypeOK
<1>3. RunInv /\ ClipsInv
  BY RunnerAssumption DEF Init, RunInv, ClipsInv, ClipsPlayAsOften
<1>4. CandidateInv
  <2>1. \A i \in DOMAIN paper.questions :
           saved[paper.questions[i]] = None /\ opened[paper.questions[i]] = None
    BY <1>1, PaperShape DEF Init, NoAnswers
  <2> QED BY <2>1 DEF Init, CandidateInv, NoRefresh
<1>5. ScoreInv /\ EveryQuestionCame
  BY RunnerAssumption DEF Init, ScoreInv, EveryQuestionCame, NoScore, NotHanded
<1> QED BY <1>2, <1>3, <1>4, <1>5 DEF RInv

\* The runner goes on, one is mounted, or nothing comes.
Stands == run' = None \/ (run' = run /\ paper' = paper) \/ ~steady'

LEMMA NextKeeps == ASSUME RInv, Next PROVE RInv' /\ (RunsOn \/ Begin \/ OverviewComes \/ Stands)
<1>1. ASSUME NEW o \in Options, Letter(o) \/ Click(o) \/ Arrow(o) \/ ClickLeaving(o) PROVE RunsOn
  BY <1>1, LetterKeeps, ClickKeeps, ArrowKeeps, ClickLeavingKeeps
<1>2. visit.options \subseteq Options
  BY VisitsAssumption DEF RInv, TypeOK
<1>3. ASSUME PressAway \/ Enter \/ Previous \/ Advance \/ Left \/ NextLeaving PROVE RunsOn
  BY <1>3, PressAwayKeeps, EnterKeeps, PreviousKeeps, AdvanceKeeps, LeftKeeps, NextLeavingKeeps
<1>4. ASSUME toggle \/ Plays \/ KeepGoing PROVE RunsOn
  BY <1>4, ToggleKeeps, PlaysKeeps, KeepGoingKeeps
<1>5. ASSUME NEW i, JumpTo(i) PROVE RunsOn
  BY <1>5, JumpToKeeps
<1>6. ASSUME Begin \/ OverviewComes PROVE RInv'
  BY <1>6, BeginKeeps, OverviewComesKeeps
<1>7. ASSUME Confirm \/ TimesUp \/ Leave \/ OverviewFails PROVE RInv' /\ Stands
  BY <1>7, ConfirmKeeps, TimesUpKeeps, LeaveKeeps, OverviewFailsKeeps
     DEF Stands, Confirm, TimesUp, HandOver, Leave, OverviewFails
<1>8. ASSUME Reshuffle \/ ServeRefresh \/ Refreshed \/ Edit PROVE RInv' /\ Stands
  BY <1>8, ReshuffleKeeps, ServeRefreshKeeps, RefreshedKeeps, EditKeeps
     DEF Stands, Reshuffle, ServeRefresh, Refreshed, Edit
<1>9. ASSUME NEW c \in DOMAIN calls, ServeScore(c) \/ ScoreReplies(c) \/ ScoreFails(c)
      PROVE  RInv' /\ Stands
  BY <1>9, ServeScoreKeeps, ScoreRepliesKeeps, ScoreFailsKeeps
     DEF Stands, ServeScore, ScoreReplies, ScoreFails, Settle
<1>10. RunsOn => RInv'
  BY DEF RunsOn
<1> QED BY <1>1, <1>2, <1>3, <1>4, <1>5, <1>6, <1>7, <1>8, <1>9, <1>10 DEF Next

LEMMA StepKeeps == RInv /\ [Next]_vars => RInv'
<1> SUFFICES ASSUME RInv, [Next]_vars PROVE RInv'
  OBVIOUS
<1>1. CASE Next
  BY <1>1, NextKeeps
<1>2. CASE UNCHANGED vars
  <2>1. UNCHANGED <<server, paper, refresh, screen, begun, run, saved, opened, scores, handed,
                    passed, seen, heard, steady, late>>
    BY <1>2 DEF vars
  <2>2. TypeOK' /\ RunInv' /\ CandidateInv'
    BY <2>1 DEF RInv, TypeOK, server, scores, RunInv, RunCame, RunForward, Came, Size,
                CandidateInv, Staff
  <2>3. ScoreInv' /\ ClipsInv' /\ EveryQuestionCame'
    BY <2>1, ScoreStays DEF RInv, ClipsInv, ClipsPlayAsOften, EveryQuestionCame
  <2> QED BY <2>2, <2>3 DEF RInv
<1> QED BY <1>1, <1>2

\* What the runner, its timer and the question that leaves can rely on, and
\* which test a score under way is of (assessment-runner.tsx, preview-flow.tsx).
THEOREM Invariance == Spec => []RInv
  BY InitHolds, StepKeeps, PTL DEF Spec

\* The page, its run and the requests to score stay well formed.
THEOREM TypeCorrect == Spec => []TypeOK
<1>1. RInv => TypeOK
  BY DEF RInv
<1> QED BY <1>1, Invariance, PTL

\* A confirmed hand-in comes after every question of the paper has been the
\* runner's (goTo(), submit() of assessment-runner.tsx).
THEOREM AllQuestionsCame == Spec => []EveryQuestionCame
<1>1. RInv => EveryQuestionCame
  BY DEF RInv
<1> QED BY <1>1, Invariance, PTL

\* The score a preview shows is of the answers handed in last (PreviewFlow).
THEOREM ScoreOfLast == Spec => []ScoreIsOfLastHandIn
<1>1. RInv => ScoreIsOfLastHandIn
  BY DEF RInv, ScoreInv, OfLastHandIn, ScoreIsOfLastHandIn
<1> QED BY <1>1, Invariance, PTL

\* No clip plays more often than the test allows while the runner is mounted
\* (runner-audio.tsx).
THEOREM ClipsLimited == Spec => []ClipsPlayAsOften
<1>1. RInv => ClipsPlayAsOften
  BY DEF RInv, ClipsInv
<1> QED BY <1>1, Invariance, PTL

-----------------------------------------------------------------------------
(* No way back.                                                             *)

Comes == Current' # Current /\ Current' \in passed /\ steady' /\ ~paper'.back

LEMMA RunsOnForward == ASSUME RInv, RunsOn, Comes PROVE late'
<1> SUFFICES ASSUME ~late' PROVE FALSE
  OBVIOUS
<1>1. PICK r, isLate : ComesTo(r, isLate) /\ run' = r /\ (isLate => late')
  BY DEF RunsOn
<1>2. paper' = paper /\ steady' = steady /\ run # None
  BY DEF RunsOn
<1>3. steady /\ ~paper.back /\ ~isLate
  BY <1>1, <1>2 DEF Comes
<1>4. r.index \in 1 .. Size(paper) /\ r.index >= run.index /\ run.index \in 1 .. Size(paper)
  BY <1>1, <1>2, <1>3 DEF ComesTo, CameOn, GoesOn, RInv, RunInv, RunCame
<1>5. run' # None
  BY Pages DEF Comes, Current
<1>6. Current' = paper.questions[r.index]
  BY <1>1, <1>2, <1>4, <1>5, Pages DEF Current, QuestionAt
<1>7. r.index < run.index
  BY <1>2, <1>3, <1>4, <1>6, Pages DEF Comes, RInv, RunInv, RunForward
<1> QED BY <1>4, <1>7, Pages

\* A candidate's runner is mounted with the answers that the test was opened with.
LEMMA MountedMayCome ==
    ASSUME RInv, ~Staff, paper.questions # <<>>, paper' = paper, NEW answers \in Answers,
           Mounted(answers), Comes
    PROVE  answers[Current'] = None
<1> DEFINE at == resumeAt(paper, answers)
<1>1. run' = NewRun(answers, at)
  BY DEF Mounted
<1>2. paper \in Papers /\ ~paper.back
  BY DEF RInv, TypeOK, Comes
<1>3. /\ at \in 1 .. Size(paper)
      /\ at = Size(paper) \/ \A k \in at .. Size(paper) : answers[paper.questions[k]] = None
  BY <1>2, ResumeIsFirst
<1> HIDE DEF at
<1>4. run'.index = at /\ run' # None
  BY <1>1, Pages DEF NewRun, Comes, Current
<1>5. Current' = paper.questions[at]
  BY <1>3, <1>4, Pages DEF Current, QuestionAt
<1>6. at < Size(paper)
  BY <1>2, <1>3, <1>5, Pages DEF Comes, RInv, CandidateInv
<1> QED BY <1>3, <1>5, <1>6, Pages

LEMMA BeginMayCome ==
    ASSUME RInv, Begin, Comes
    PROVE  run = None /\ (Staff \/ opened'[Current'] = None)
<1>1. paper' = paper /\ screen \in {"intro", "result"} /\ paper.questions # <<>>
  BY DEF Begin, begin, Continue
<1>2. run = None
  BY <1>1 DEF RInv, RunInv
<1>3. ASSUME ~Staff PROVE opened'[Current'] = None
  <2>1. opened' = saved /\ Mounted(saved)
    BY <1>3 DEF Begin, begin, Continue
  <2>2. saved[Current'] = None
    BY <1>1, <1>3, <2>1, AnswersCame, MountedMayCome
  <2> QED BY <2>1, <2>2
<1> QED BY <1>2, <1>3

LEMMA OverviewMayCome ==
    ASSUME RInv, OverviewComes, Comes
    PROVE  run = None /\ opened'[Current'] = None
<1>1. /\ ~Staff /\ screen = "running" /\ run = None /\ Mounted(opened)
      /\ UNCHANGED <<paper, opened>>
  BY DEF OverviewComes
<1>2. paper.questions # <<>>
  BY <1>1 DEF RInv, CandidateInv
<1>3. opened[Current'] = None
  BY <1>1, <1>2, AnswersCame, MountedMayCome
<1> QED BY <1>1, <1>3

\* Without going back, what brings a question back that was moved on from is a
\* choice or click on a question that was leaving after the runner had moved on
\* twice, or a runner mounted with answers that lack it (goTo(), choose(),
\* resumeAt() of assessment-runner.tsx, take-flow.tsx).
THEOREM NoQuestionComesBack == Spec => NoWayBack
<1>1. RInv /\ [Next]_vars =>
         [LET now == Current'
          IN  now # Current /\ now \in passed /\ steady' /\ ~paper'.back =>
                late' \/ (run = None /\ (Staff \/ opened'[now] = None))]_vars
  <2> SUFFICES ASSUME RInv, Next, Comes
               PROVE  late' \/ (run = None /\ (Staff \/ opened'[Current'] = None))
    BY DEF Comes
  <2>1. CASE RunsOn
    BY <2>1, RunsOnForward
  <2>2. CASE Begin
    BY <2>2, BeginMayCome
  <2>3. CASE OverviewComes
    BY <2>3, OverviewMayCome
  <2>4. CASE Stands
    <3>1. Current' \in {None, Current} \/ ~steady'
      BY <2>4 DEF Stands, Current
    <3> QED BY <3>1, Pages DEF Comes
  <2> QED BY <2>1, <2>2, <2>3, <2>4, NextKeeps
<1> QED BY <1>1, Invariance, PTL DEF Spec, NoWayBack

=============================================================================
