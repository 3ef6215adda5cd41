---------------------------- MODULE SumTheorems -----------------------------
(***************************************************************************)
(* Sums over finite sets.  What the rows of a key's jobs report, what the  *)
(* counters of a span of days hold, what the runs in flight may still      *)
(* spend: each is SumFunctionOnSet(f, S), which the library defines by     *)
(* recursion over the subsets of S.  The lemmas below say how such a sum   *)
(* changes with its summands and how it is bounded.                        *)
(***************************************************************************)
EXTENDS FiniteSetTheorems, TLAPS

-----------------------------------------------------------------------------
(* Induction over a finite set, and what the recursion of the library says *)

\* Induction over a finite set: what holds of a set as soon as it holds of each
\* set with one element less holds of it.
LEMMA SubsetInduction ==
    ASSUME NEW S, IsFiniteSet(S), NEW G,
           \A T \in SUBSET S : (\A x \in T : T \ {x} \in G) => T \in G
    PROVE  S \in G
<1> DEFINE Bad == {T \in SUBSET S : T \notin G}
<1>1. IsWellFoundedOn(StrictSubsetOrdering(S), SUBSET S)
    BY FS_StrictSubsetOrderingWellFounded, FS_FiniteSubsetsOfFinite
<1>2. SUFFICES ASSUME Bad # {} PROVE FALSE
    OBVIOUS
<1>3. PICK T \in Bad : \A U \in Bad : <<U, T>> \notin StrictSubsetOrdering(S)
    <2>1. Bad \subseteq SUBSET S
        OBVIOUS
    <2> HIDE DEF Bad
    <2> QED BY <1>1, <1>2, <2>1, WFMin
<1>4. ASSUME NEW x \in T PROVE T \ {x} \in G
    <2>1. <<T \ {x}, T>> \in StrictSubsetOrdering(S)
        BY DEF StrictSubsetOrdering
    <2> QED BY <1>3, <2>1
<1> QED BY <1>4

\* How a sum over s is worked out: a value for s, and for every set on the way
\* down to the empty one.
Pick(s) == CHOOSE x \in s : TRUE

Working(g, f, s) ==
    /\ g = [t \in DOMAIN g |-> g[t]] /\ s \in DOMAIN g
    /\ \A t \in DOMAIN g :
          IF t = {} THEN g[t] = 0
          ELSE t \ {Pick(t)} \in DOMAIN g /\ g[t] = f[Pick(t)] + g[t \ {Pick(t)}]

\* Every sum over a finite set can be worked out.
LEMMA WorkingExists ==
    ASSUME NEW S, IsFiniteSet(S), NEW f
    PROVE  \E g : Working(g, f, S)
<1> DEFINE G == {T \in SUBSET S : \E g : Working(g, f, T)}
<1>1. ASSUME NEW T \in SUBSET S, \A x \in T : T \ {x} \in G PROVE T \in G
    <2>1. CASE T = {}
        <3> DEFINE g == [t \in {{}} |-> 0]
        <3>1. Working(g, f, T)
            BY <2>1 DEF Working
        <3> QED BY <3>1
    <2>2. CASE T # {}
        <3>1. Pick(T) \in T
            BY <2>2 DEF Pick
        <3>2. PICK g : Working(g, f, T \ {Pick(T)})
            BY <1>1, <3>1
        <3>3. CASE T \in DOMAIN g
            BY <3>2, <3>3 DEF Working
        <3>4. CASE T \notin DOMAIN g
            <4> DEFINE U == T \ {Pick(T)}
            <4> DEFINE h == [t \in DOMAIN g \cup {T} |->
                               IF t = T THEN f[Pick(T)] + g[U] ELSE g[t]]
            <4>1. U \in DOMAIN g
                BY <3>2 DEF Working
            <4>2. \A t \in DOMAIN g : h[t] = g[t]
                BY <3>4
            <4>3. h[T] = f[Pick(T)] + h[U]
                BY <4>1, <4>2
            <4>4. \A t \in DOMAIN g :
                      IF t = {} THEN g[t] = 0
                      ELSE t \ {Pick(t)} \in DOMAIN g /\ g[t] = f[Pick(t)] + g[t \ {Pick(t)}]
                BY <3>2 DEF Working
            <4>5. DOMAIN h = DOMAIN g \cup {T} /\ h = [t \in DOMAIN h |-> h[t]]
                OBVIOUS
            <4> HIDE DEF h
            <4>6. Working(h, f, T)
                BY <2>2, <4>1, <4>2, <4>3, <4>4, <4>5 DEF Working
            <4> QED BY <4>6
        <3> QED BY <3>3, <3>4
    <2> QED BY <2>1, <2>2
<1> HIDE DEF G
<1>2. S \in G
    BY <1>1, SubsetInduction
<1> QED BY <1>2 DEF G

\* All workings of a sum agree.
LEMMA WorkingUnique ==
    ASSUME NEW S, IsFiniteSet(S), NEW f
    PROVE  \A g, h : Working(g, f, S) /\ Working(h, f, S) => g[S] = h[S]
<1> DEFINE G == {T \in SUBSET S :
                    \A g, h : Working(g, f, T) /\ Working(h, f, T) => g[T] = h[T]}
<1>1. ASSUME NEW T \in SUBSET S, \A x \in T : T \ {x} \in G PROVE T \in G
    <2> SUFFICES ASSUME NEW g, NEW h, Working(g, f, T), Working(h, f, T)
                 PROVE  g[T] = h[T]
        OBVIOUS
    <2>1. CASE T = {}
        BY <2>1 DEF Working
    <2>2. CASE T # {}
        <3> DEFINE U == T \ {Pick(T)}
        <3>1. Pick(T) \in T
            BY <2>2 DEF Pick
        <3>2. Working(g, f, U) /\ Working(h, f, U)
            BY <2>2 DEF Working
        <3>3. g[U] = h[U]
            BY <1>1, <3>1, <3>2
        <3>4. g[T] = f[Pick(T)] + g[U] /\ h[T] = f[Pick(T)] + h[U]
            BY <2>2 DEF Working
        <3> QED BY <3>3, <3>4
    <2> QED BY <2>1, <2>2
<1> HIDE DEF G
<1>2. S \in G
    BY <1>1, SubsetInduction
<1> QED BY <1>2 DEF G

\* The library's sum is what any working of it says.
LEMMA SumIsWorked ==
    ASSUME NEW S, IsFiniteSet(S), NEW f, NEW g, Working(g, f, S)
    PROVE  SumFunctionOnSet(f, S) = g[S]
<1> DEFINE Eq(it) == it = [s \in SUBSET S |-> IF s = {} THEN 0
                                             ELSE f[Pick(s)] + it[s \ {Pick(s)}]]
           it0 == CHOOSE it : Eq(it)
<1>1. SumFunctionOnSet(f, S) = it0[S]
    BY DEF SumFunctionOnSet, FoldFunctionOnSet, MapThenFoldSet, Pick
<1>2. \E it : Eq(it)
    <2> DEFINE w == [s \in SUBSET S |-> CHOOSE h : Working(h, f, s)]
               it == [s \in SUBSET S |-> w[s][s]]
    <2>1. ASSUME NEW s \in SUBSET S PROVE Working(w[s], f, s)
        <3>1. IsFiniteSet(s)
            BY FS_Subset
        <3> QED BY <3>1, WorkingExists
    <2>2. ASSUME NEW s \in SUBSET S
          PROVE  it[s] = IF s = {} THEN 0 ELSE f[Pick(s)] + it[s \ {Pick(s)}]
        <3> DEFINE u == s \ {Pick(s)}
        <3>1. CASE s = {}
            <4>1. w[s][s] = 0
                BY <2>1, <3>1 DEF Working
            <4> QED BY <3>1, <4>1
        <3>2. CASE s # {}
            <4>1. u \in SUBSET S /\ IsFiniteSet(u)
                BY FS_Subset
            <4>2. Working(w[s], f, s)
                BY <2>1
            <4> HIDE DEF w
            <4>3. w[s][s] = f[Pick(s)] + w[s][u] /\ Working(w[s], f, u)
                BY <3>2, <4>2 DEF Working
            <4>4. w[s][u] = w[u][u]
                BY <2>1, <4>1, <4>3, WorkingUnique
            <4> QED BY <3>2, <4>1, <4>3, <4>4
        <3> QED BY <3>1, <3>2
    <2> HIDE DEF it
    <2>3. it = [s \in SUBSET S |-> it[s]]
        BY DEF it
    <2>4. Eq(it)
        BY <2>2, <2>3
    <2> QED BY <2>4
<1> HIDE DEF it0
<1>3. Eq(it0)
    BY <1>2 DEF it0
<1>4. Working(it0, f, S)
    <2>1. DOMAIN it0 = SUBSET S
        BY <1>3
    <2>2. ASSUME NEW t \in SUBSET S
          PROVE  IF t = {} THEN it0[t] = 0
                 ELSE t \ {Pick(t)} \in SUBSET S /\ it0[t] = f[Pick(t)] + it0[t \ {Pick(t)}]
        BY <1>3
    <2>3. it0 = [t \in DOMAIN it0 |-> it0[t]]
        BY <1>3
    <2> HIDE DEF Eq
    <2> QED BY <2>1, <2>2, <2>3 DEF Working
<1> QED BY <1>1, <1>4, WorkingUnique

-----------------------------------------------------------------------------
(* What a sum is, one summand after the other *)

\* An empty sum is 0.
LEMMA SumEmpty ==
    ASSUME NEW f
    PROVE  SumFunctionOnSet(f, {}) = 0
<1>1. PICK g : Working(g, f, {})
    BY FS_EmptySet, WorkingExists
<1>2. g[{}] = 0
    BY <1>1 DEF Working
<1>3. SumFunctionOnSet(f, {}) = g[{}]
    BY <1>1, FS_EmptySet, SumIsWorked
<1> QED BY <1>2, <1>3

\* A sum starts with the element that CHOOSE picks.
LEMMA SumPick ==
    ASSUME NEW S, IsFiniteSet(S), S # {}, NEW f
    PROVE  SumFunctionOnSet(f, S) = f[Pick(S)] + SumFunctionOnSet(f, S \ {Pick(S)})
<1> DEFINE U == S \ {Pick(S)}
<1>1. PICK g : Working(g, f, S)
    BY WorkingExists
<1>2. IsFiniteSet(U)
    BY FS_Subset
<1>3. Working(g, f, U) /\ g[S] = f[Pick(S)] + g[U]
    BY <1>1 DEF Working
<1>4. SumFunctionOnSet(f, S) = g[S]
    BY <1>1, SumIsWorked
<1>5. SumFunctionOnSet(f, U) = g[U]
    BY <1>2, <1>3, SumIsWorked
<1> QED BY <1>3, <1>4, <1>5

\* A sum of naturals is a natural.
LEMMA SumNat ==
    ASSUME NEW S, IsFiniteSet(S), NEW f, \A x \in S : f[x] \in Nat
    PROVE  SumFunctionOnSet(f, S) \in Nat
<1> DEFINE G == {T \in SUBSET S : SumFunctionOnSet(f, T) \in Nat}
<1>1. ASSUME NEW T \in SUBSET S, \A x \in T : T \ {x} \in G PROVE T \in G
    <2>1. CASE T = {}
        BY <2>1, SumEmpty
    <2>2. CASE T # {}
        <3>1. Pick(T) \in T /\ IsFiniteSet(T)
            BY <2>2, FS_Subset DEF Pick
        <3>2. SumFunctionOnSet(f, T) = f[Pick(T)] + SumFunctionOnSet(f, T \ {Pick(T)})
            BY <2>2, <3>1, SumPick
        <3>3. SumFunctionOnSet(f, T \ {Pick(T)}) \in Nat /\ f[Pick(T)] \in Nat
            BY <1>1, <3>1
        <3> HIDE DEF Pick
        <3> QED BY <3>2, <3>3
    <2> QED BY <2>1, <2>2
<1> HIDE DEF G
<1>2. S \in G
    BY <1>1, SubsetInduction
<1> QED BY <1>2 DEF G

\* It is the same whichever element it starts with.
LEMMA SumRemove ==
    ASSUME NEW S, IsFiniteSet(S), NEW f, \A x \in S : f[x] \in Nat, NEW y \in S
    PROVE  SumFunctionOnSet(f, S) = f[y] + SumFunctionOnSet(f, S \ {y})
<1> DEFINE Sum(T) == SumFunctionOnSet(f, T)
           G == {T \in SUBSET S : \A x \in T : Sum(T) = f[x] + Sum(T \ {x})}
<1>1. ASSUME NEW T \in SUBSET S, \A x \in T : T \ {x} \in G PROVE T \in G
    <2> SUFFICES ASSUME NEW x \in T PROVE Sum(T) = f[x] + Sum(T \ {x})
        OBVIOUS
    <2> DEFINE p == Pick(T)
    <2>1. p \in T /\ IsFiniteSet(T)
        BY FS_Subset DEF Pick
    <2>2. Sum(T) = f[p] + Sum(T \ {p})
        BY <2>1, SumPick
    <2>3. CASE x = p
        BY <2>2, <2>3
    <2>4. CASE x # p
        <3> DEFINE U == T \ {x, p}
        <3>1. U = (T \ {p}) \ {x} /\ U = (T \ {x}) \ {p} /\ U \in SUBSET S /\ IsFiniteSet(U)
            BY FS_Subset
        <3>2. T \ {p} \in G /\ T \ {x} \in G
            BY <1>1, <2>1
        <3>3. Sum(T \ {p}) = f[x] + Sum(U)
            BY <2>1, <2>4, <3>1, <3>2
        <3>4. Sum(T \ {x}) = f[p] + Sum(U)
            BY <2>1, <2>4, <3>1, <3>2
        <3>5. Sum(U) \in Nat /\ f[x] \in Nat /\ f[p] \in Nat
            <4> HIDE DEF p
            <4> QED BY <2>1, <3>1, SumNat
        <3> HIDE DEF p, U, Sum
        <3> QED BY <2>2, <3>3, <3>4, <3>5
    <2> QED BY <2>3, <2>4
<1> HIDE DEF G
<1>2. S \in G
    BY <1>1, SubsetInduction
<1> QED BY <1>2 DEF G

-----------------------------------------------------------------------------
(* How two sums compare *)

\* A sum with smaller summands is smaller.
LEMMA SumLE ==
    ASSUME NEW S, IsFiniteSet(S), NEW f, NEW g,
           \A x \in S : f[x] \in Nat /\ g[x] \in Nat /\ f[x] <= g[x]
    PROVE  SumFunctionOnSet(f, S) <= SumFunctionOnSet(g, S)
<1> DEFINE F(T) == SumFunctionOnSet(f, T)
           H(T) == SumFunctionOnSet(g, T)
           G == {T \in SUBSET S : F(T) <= H(T)}
<1>1. ASSUME NEW T \in SUBSET S, \A x \in T : T \ {x} \in G PROVE T \in G
    <2>1. CASE T = {}
        BY <2>1, SumEmpty
    <2>2. CASE T # {}
        <3>1. PICK p \in T : TRUE
            BY <2>2
        <3>2. IsFiniteSet(T) /\ IsFiniteSet(T \ {p})
            BY FS_Subset
        <3>3. F(T) = f[p] + F(T \ {p}) /\ H(T) = g[p] + H(T \ {p})
            BY <3>1, <3>2, SumRemove
        <3>4. F(T \ {p}) \in Nat /\ H(T \ {p}) \in Nat
            BY <3>2, SumNat
        <3>5. F(T \ {p}) <= H(T \ {p})
            BY <1>1, <3>1
        <3>6. f[p] \in Nat /\ g[p] \in Nat /\ f[p] <= g[p]
            BY <3>1
        <3>7. F(T) <= H(T)
            <4> HIDE DEF F, H
            <4> QED BY <3>3, <3>4, <3>5, <3>6
        <3> QED BY <3>7
    <2> QED BY <2>1, <2>2
<1> HIDE DEF G
<1>2. S \in G
    BY <1>1, SubsetInduction
<1> QED BY <1>2 DEF G

\* A sum depends on its summands only.
LEMMA SumSame ==
    ASSUME NEW S, IsFiniteSet(S), NEW f, NEW g, \A x \in S : f[x] \in Nat /\ f[x] = g[x]
    PROVE  SumFunctionOnSet(f, S) = SumFunctionOnSet(g, S)
<1>1. SumFunctionOnSet(f, S) <= SumFunctionOnSet(g, S)
    BY SumLE
<1>2. SumFunctionOnSet(g, S) <= SumFunctionOnSet(f, S)
    BY SumLE
<1>3. SumFunctionOnSet(f, S) \in Nat /\ SumFunctionOnSet(g, S) \in Nat
    BY SumNat
<1> QED BY <1>1, <1>2, <1>3

\* When one summand changes, the sum changes by as much.
LEMMA SumChange ==
    ASSUME NEW S, IsFiniteSet(S), NEW f, NEW g,
           \A x \in S : f[x] \in Nat /\ g[x] \in Nat,
           NEW y \in S, \A x \in S \ {y} : f[x] = g[x]
    PROVE  SumFunctionOnSet(g, S) + f[y] = SumFunctionOnSet(f, S) + g[y]
<1> DEFINE F == SumFunctionOnSet(f, S \ {y})
<1>1. IsFiniteSet(S \ {y})
    BY FS_Subset
<1>2. SumFunctionOnSet(f, S) = f[y] + F
    BY SumRemove
<1>3. SumFunctionOnSet(g, S) = g[y] + SumFunctionOnSet(g, S \ {y})
    BY SumRemove
<1>4. SumFunctionOnSet(g, S \ {y}) = F
    BY <1>1, SumSame
<1>5. F \in Nat
    BY <1>1, SumNat
<1> HIDE DEF F
<1> QED BY <1>2, <1>3, <1>4, <1>5

\* A sum whose summands beyond a part are 0, and at most b within it, is at most
\* b times the size of the part.
LEMMA SumBound ==
    ASSUME NEW S, IsFiniteSet(S), NEW f, NEW P, NEW b \in Nat,
           \A x \in S : f[x] \in Nat /\ f[x] <= b /\ (x \notin P => f[x] = 0)
    PROVE  SumFunctionOnSet(f, S) <= b * Cardinality(S \cap P)
<1> DEFINE F(T) == SumFunctionOnSet(f, T)
           C(T) == Cardinality(T \cap P)
           G == {T \in SUBSET S : F(T) <= b * C(T)}
<1>1. ASSUME NEW T \in SUBSET S, \A x \in T : T \ {x} \in G PROVE T \in G
    <2>1. CASE T = {}
        <3>1. T \cap P = {}
            BY <2>1
        <3>2. C(T) = 0
            BY <3>1, FS_EmptySet
        <3>3. F(T) = 0
            BY <2>1, SumEmpty
        <3>4. F(T) <= b * C(T)
            <4> HIDE DEF F, C
            <4> QED BY <3>2, <3>3
        <3> QED BY <3>4
    <2>2. CASE T # {}
        <3>1. PICK p \in T : TRUE
            BY <2>2
        <3> DEFINE U == T \ {p}
        <3>2. IsFiniteSet(T) /\ IsFiniteSet(U) /\ IsFiniteSet(T \cap P) /\ IsFiniteSet(U \cap P)
            BY FS_Subset
        <3>3. F(T) = f[p] + F(U) /\ F(U) \in Nat
            BY <3>1, <3>2, SumRemove, SumNat
        <3>4. F(U) <= b * C(U)
            BY <1>1, <3>1
        <3>5. C(T) \in Nat /\ C(U) \in Nat
            BY <3>2, FS_CardinalityType
        <3>6. F(T) <= b * C(T)
            <4>1. CASE p \in P
                <5>1. U \cap P = (T \cap P) \ {p} /\ p \in T \cap P
                    BY <3>1, <4>1
                <5>2. C(U) = C(T) - 1
                    <6>1. Cardinality((T \cap P) \ {p}) = Cardinality(T \cap P) - 1
                        BY <3>2, <5>1, FS_RemoveElement
                    <6> QED BY <5>1, <6>1
                <5>3. f[p] \in Nat /\ f[p] <= b
                    BY <3>1
                <5>4. b * C(T) = b * C(U) + b
                    <6> HIDE DEF C
                    <6> QED BY <3>5, <5>2
                <5> DEFINE m == b * C(U)
                <5>5. m \in Nat
                    BY <3>5
                <5> HIDE DEF F, C, m
                <5>6. F(U) <= m /\ b * C(T) = m + b
                    BY <3>4, <5>4 DEF m
                <5> QED BY <3>3, <5>3, <5>5, <5>6
            <4>2. CASE p \notin P
                <5>1. U \cap P = T \cap P
                    BY <4>2
                <5>2. f[p] = 0
                    BY <3>1, <4>2
                <5>3. F(T) = F(U) /\ C(T) = C(U)
                    BY SMTT(30), <3>3, <5>1, <5>2
                <5> QED BY <3>4, <5>3
            <4> QED BY <4>1, <4>2
        <3> QED BY <3>6
    <2> QED BY <2>1, <2>2
<1> HIDE DEF G
<1>2. S \in G
    BY <1>1, SubsetInduction
<1> QED BY <1>2 DEF G

\* A sum of nothing but zeros is 0.
LEMMA SumZero ==
    ASSUME NEW S, IsFiniteSet(S), NEW f, \A x \in S : f[x] = 0
    PROVE  SumFunctionOnSet(f, S) = 0
<1>1. Cardinality(S \cap {}) = 0
    BY FS_EmptySet
<1> DEFINE b == 0
<1>2. SumFunctionOnSet(f, S) <= b * Cardinality(S \cap {})
    <2>1. b \in Nat /\ \A x \in S : f[x] \in Nat /\ f[x] <= b /\ (x \notin {} => f[x] = 0)
        OBVIOUS
    <2> HIDE DEF b
    <2> QED BY <2>1, SumBound
<1>3. SumFunctionOnSet(f, S) \in Nat
    BY SumNat
<1> QED BY <1>1, <1>2, <1>3
=============================================================================
