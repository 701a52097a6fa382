--------------------------- MODULE ReorderRxProofs ---------------------------
(***************************************************************************)
(* Proofs about the receiving half of the reorder shim (reorder_rx.c), for *)
(* any set of flows, any ring sizes, budgets and pool: the ring, its       *)
(* counters and the shared pool describe the same packets, gap periods are *)
(* counted once each, and delivery is in order and loses nothing.          *)
(*                                                                         *)
(* The byte counters are sums over the packets held, so the first part     *)
(* builds the algebra of sums over finite sets, by induction in the form   *)
(* of least elements.  Then come the ring operations (insert, remove,      *)
(* grow), the steps of one arrival that are built from them, and last the  *)
(* invariant RxInv over the table of flows.                                *)
(***************************************************************************)
EXTENDS ReorderRx, FiniteSetTheorems, WellFoundedInduction, TLAPS

-----------------------------------------------------------------------------
(* Induction.  Sets of naturals take the place of predicates. *)

LEMMA LeastNumber ==
    ASSUME NEW S \in SUBSET Nat, S # {}
    PROVE  \E i \in S : \A j \in S : i <= j
<1>1. PICK i \in S : \A j \in S : ~(<<j, i>> \in OpToRel(<, Nat))
  BY WFMin, NatLessThanWellFounded
<1>2. \A j \in S : ~(j < i)
  BY <1>1 DEF OpToRel
<1> QED BY <1>2

LEMMA Induct ==
    ASSUME NEW P \in SUBSET Nat, 0 \in P, \A n \in P : n + 1 \in P
    PROVE  P = Nat
<1> SUFFICES ASSUME Nat \ P # {} PROVE FALSE
  OBVIOUS
<1>1. PICK i \in Nat \ P : \A j \in Nat \ P : i <= j
  BY LeastNumber
<1>2. i # 0 /\ i - 1 \in Nat /\ (i - 1) + 1 = i
  OBVIOUS
<1>3. i - 1 \in P
  BY <1>1, <1>2
<1> QED
  BY <1>1, <1>2, <1>3

(* The greatest element of a finite set of numbers. *)
LEMMA GreatestNumber ==
    ASSUME NEW S \in SUBSET Nat, IsFiniteSet(S), S # {}
    PROVE  \E i \in S : \A j \in S : j <= i
<1> DEFINE P == {n \in Nat : \A T \in SUBSET S : T # {} /\ Cardinality(T) <= n
                                  => \E i \in T : \A j \in T : j <= i}
<1>1. \A T \in SUBSET S : IsFiniteSet(T) /\ Cardinality(T) \in Nat
  BY FS_Subset, FS_CardinalityType
<1>2. 0 \in P
  BY <1>1, FS_EmptySet
<1>3. ASSUME NEW n \in P PROVE n + 1 \in P
  <2> SUFFICES ASSUME NEW T \in SUBSET S, T # {}, Cardinality(T) <= n + 1
               PROVE  \E i \in T : \A j \in T : j <= i
    OBVIOUS
  <2>1. PICK t \in T : TRUE
    OBVIOUS
  <2>2. Cardinality(T \ {t}) = Cardinality(T) - 1
    BY <1>1, FS_RemoveElement
  <2>3. CASE T \ {t} = {}
    BY <2>3, <2>1
  <2>4. CASE T \ {t} # {}
    <3>1. T \ {t} \in SUBSET S /\ Cardinality(T \ {t}) <= n
      BY <2>2, <1>1
    <3>2. PICK i \in T \ {t} : \A j \in T \ {t} : j <= i
      BY <3>1, <2>4
    <3>3. i \in Nat /\ t \in Nat
      OBVIOUS
    <3>4. CASE t <= i
      BY <3>2, <3>4
    <3>5. CASE i <= t
      <4>1. \A j \in T : j <= t
        BY <3>2, <3>3, <3>5
      <4> QED BY <4>1
    <3> QED BY <3>3, <3>4, <3>5
  <2> QED BY <2>3, <2>4
<1> HIDE DEF P
<1>4. P = Nat
  <2>1. P \in SUBSET Nat
    BY DEF P
  <2> QED BY <2>1, <1>2, <1>3, Induct
<1>5. Cardinality(S) \in P
  BY <1>1, <1>4
<1> QED BY <1>1, <1>5 DEF P

-----------------------------------------------------------------------------
(* Sums over finite sets *)

Pick(s) == CHOOSE i \in s : TRUE

(* it gives the sum of f over every set of the family D. *)
Sums(f, it, D) == it = [s \in D |-> IF s = {} THEN 0 ELSE f[Pick(s)] + it[s \ {Pick(s)}]]

SumsOver(f, it, S) == Sums(f, it, SUBSET S)

Agree(f, g, S) == \A u \in S : f[u] = g[u]
Into(f, S, R) == \A s \in S : f[s] \in R

Small(S, n) == {s \in SUBSET S : Cardinality(s) <= n}

LEMMA Subsets ==
    ASSUME NEW S, IsFiniteSet(S)
    PROVE  \A s \in SUBSET S :
              /\ IsFiniteSet(s) /\ Cardinality(s) \in Nat /\ Cardinality(s) <= Cardinality(S)
              /\ Cardinality(s) = 0 <=> s = {}
              /\ \A c \in s : Cardinality(s \ {c}) = Cardinality(s) - 1
<1> SUFFICES ASSUME NEW s \in SUBSET S
             PROVE  /\ IsFiniteSet(s) /\ Cardinality(s) \in Nat /\ Cardinality(s) <= Cardinality(S)
                    /\ Cardinality(s) = 0 <=> s = {}
                    /\ \A c \in s : Cardinality(s \ {c}) = Cardinality(s) - 1
  OBVIOUS
<1>1. IsFiniteSet(s) /\ Cardinality(s) <= Cardinality(S)
  BY FS_Subset
<1> QED BY <1>1, FS_CardinalityType, FS_EmptySet, FS_RemoveElement

LEMMA PickIn == ASSUME NEW s, s # {} PROVE Pick(s) \in s
  BY DEF Pick

LEMMA SumsExist ==
    ASSUME NEW S, IsFiniteSet(S), NEW f
    PROVE  \E it : SumsOver(f, it, S)
<1> DEFINE P == {n \in Nat : \E it : Sums(f, it, Small(S, n))}
<1>1. 0 \in P
  <2> DEFINE it == [s \in Small(S, 0) |-> 0]
  <2>1. \A s \in Small(S, 0) : s = {}
    BY Subsets DEF Small
  <2>2. Sums(f, it, Small(S, 0))
    BY <2>1 DEF Sums
  <2> QED BY <2>2
<1>2. ASSUME NEW n \in P PROVE n + 1 \in P
  <2>1. PICK it : Sums(f, it, Small(S, n))
    OBVIOUS
  <2> DEFINE jt == [s \in Small(S, n + 1) |-> IF s = {} THEN 0 ELSE f[Pick(s)] + it[s \ {Pick(s)}]]
  <2>2. \A s \in Small(S, n) : jt[s] = it[s] /\ s \in Small(S, n + 1)
    <3>1. n \in Nat
      OBVIOUS
    <3>2. \A s \in Small(S, n) : s \in Small(S, n + 1)
      BY <3>1, Subsets DEF Small
    <3>3. \A s \in Small(S, n) : it[s] = IF s = {} THEN 0 ELSE f[Pick(s)] + it[s \ {Pick(s)}]
      BY <2>1 DEF Sums
    <3> QED BY <3>2, <3>3
  <2>3. \A s \in Small(S, n + 1) : s # {} => s \ {Pick(s)} \in Small(S, n)
    <3> SUFFICES ASSUME NEW s \in Small(S, n + 1), s # {} PROVE s \ {Pick(s)} \in Small(S, n)
      OBVIOUS
    <3>1. Pick(s) \in s /\ s \in SUBSET S /\ Cardinality(s) <= n + 1
      BY PickIn DEF Small
    <3>2. Cardinality(s \ {Pick(s)}) = Cardinality(s) - 1 /\ Cardinality(s) \in Nat
      BY <3>1, Subsets
    <3> QED BY <3>1, <3>2 DEF Small
  <2>4. \A s \in Small(S, n + 1) : s # {} => jt[s \ {Pick(s)}] = it[s \ {Pick(s)}]
    BY <2>2, <2>3
  <2>5. jt = [s \in Small(S, n + 1) |-> IF s = {} THEN 0 ELSE f[Pick(s)] + jt[s \ {Pick(s)}]]
    BY <2>4
  <2> HIDE DEF jt
  <2>6. Sums(f, jt, Small(S, n + 1))
    BY <2>5 DEF Sums
  <2> QED BY <2>6
<1> HIDE DEF P
<1>3. P \in SUBSET Nat
  BY DEF P
<1>4. P = Nat
  BY <1>1, <1>2, <1>3, Induct
<1>5. Cardinality(S) \in P
  BY <1>4, FS_CardinalityType
<1>6. Small(S, Cardinality(S)) = SUBSET S
  BY Subsets DEF Small
<1> QED BY <1>5, <1>6 DEF P, SumsOver

LEMMA SumsAgree ==
    ASSUME NEW S, IsFiniteSet(S), NEW T, IsFiniteSet(T), NEW f, NEW g, NEW it, NEW jt,
           SumsOver(f, it, S), SumsOver(g, jt, T),
           S \subseteq T, Agree(f, g, S)
    PROVE  it[S] = jt[S]
<1> DEFINE P == {n \in Nat : \A V \in SUBSET S : Cardinality(V) <= n => it[V] = jt[V]}
<1>0. \A V \in SUBSET S : V \in SUBSET S /\ V \in SUBSET T
  OBVIOUS
<1>1. 0 \in P
  <2>1. \A V \in SUBSET S : Cardinality(V) <= 0 => V = {}
    BY <1>0, Subsets
  <2>2. it[{}] = 0 /\ jt[{}] = 0
    BY DEF SumsOver, Sums
  <2> QED BY <2>1, <2>2
<1>2. ASSUME NEW n \in P PROVE n + 1 \in P
  <2> SUFFICES ASSUME NEW V \in SUBSET S, Cardinality(V) <= n + 1 PROVE it[V] = jt[V]
    OBVIOUS
  <2>1. CASE V = {}
    BY <2>1 DEF SumsOver, Sums
  <2>2. CASE V # {}
    <3>1. Pick(V) \in V
      BY <2>2, PickIn
    <3>2. Cardinality(V \ {Pick(V)}) <= n /\ V \ {Pick(V)} \in SUBSET S
      BY <3>1, <1>0, Subsets
    <3>3. it[V \ {Pick(V)}] = jt[V \ {Pick(V)}]
      BY <3>2
    <3>4. it[V] = f[Pick(V)] + it[V \ {Pick(V)}] /\ jt[V] = g[Pick(V)] + jt[V \ {Pick(V)}]
      BY <1>0, <2>2 DEF SumsOver, Sums
    <3>5. f[Pick(V)] = g[Pick(V)]
      BY <3>1 DEF Agree
    <3> QED BY <3>3, <3>4, <3>5
  <2> QED BY <2>1, <2>2
<1> HIDE DEF P
<1>3. P \in SUBSET Nat
  BY DEF P
<1>4. P = Nat
  BY <1>1, <1>2, <1>3, Induct
<1>5. Cardinality(S) \in P /\ Cardinality(S) \in Nat
  BY <1>4, Subsets
<1> QED BY <1>5 DEF P

LEMMA SumsInt ==
    ASSUME NEW S, IsFiniteSet(S), NEW f, NEW it, SumsOver(f, it, S),
           NEW R, R = Int \/ R = Nat, Into(f, S, R)
    PROVE  \A U \in SUBSET S : it[U] \in R
<1> DEFINE P == {n \in Nat : \A V \in SUBSET S : Cardinality(V) <= n => it[V] \in R}
<1>0. 0 \in R /\ \A a, b \in R : a + b \in R
  OBVIOUS
<1>1. 0 \in P
  <2>1. \A V \in SUBSET S : Cardinality(V) <= 0 => V = {}
    BY Subsets
  <2>2. it[{}] = 0
    BY DEF SumsOver, Sums
  <2> QED BY <1>0, <2>1, <2>2
<1>2. ASSUME NEW n \in P PROVE n + 1 \in P
  <2> SUFFICES ASSUME NEW V \in SUBSET S, Cardinality(V) <= n + 1 PROVE it[V] \in R
    OBVIOUS
  <2>1. CASE V = {}
    BY <1>0, <2>1 DEF SumsOver, Sums
  <2>2. CASE V # {}
    <3>1. Pick(V) \in V
      BY <2>2, PickIn
    <3>2. Cardinality(V \ {Pick(V)}) <= n /\ V \ {Pick(V)} \in SUBSET S
      BY <3>1, Subsets
    <3>3. it[V \ {Pick(V)}] \in R
      BY <3>2
    <3>4. it[V] = f[Pick(V)] + it[V \ {Pick(V)}]
      BY <2>2 DEF SumsOver, Sums
    <3>5. f[Pick(V)] \in R
      BY <3>1 DEF Into
    <3> QED BY <1>0, <3>3, <3>4, <3>5
  <2> QED BY <2>1, <2>2
<1> HIDE DEF P
<1>3. P \in SUBSET Nat
  BY DEF P
<1>4. P = Nat
  BY <1>1, <1>2, <1>3, Induct
<1>5. \A U \in SUBSET S : Cardinality(U) \in P /\ Cardinality(U) \in Nat
  BY <1>4, Subsets
<1> QED BY <1>5 DEF P

(* Any element may come first. *)
LEMMA SumsPeel ==
    ASSUME NEW S, IsFiniteSet(S), NEW f, NEW it, SumsOver(f, it, S), Into(f, S, Int),
           NEW a \in S
    PROVE  it[S] = f[a] + it[S \ {a}]
<1> DEFINE P == {n \in Nat : \A V \in SUBSET S : Cardinality(V) <= n
                                => \A c \in V : it[V] = f[c] + it[V \ {c}]}
<1>1. 0 \in P
  <2>1. \A V \in SUBSET S : Cardinality(V) <= 0 => V = {}
    BY Subsets
  <2> QED BY <2>1
<1>2. ASSUME NEW n \in P PROVE n + 1 \in P
  <2> SUFFICES ASSUME NEW V \in SUBSET S, Cardinality(V) <= n + 1, NEW c \in V
               PROVE  it[V] = f[c] + it[V \ {c}]
    OBVIOUS
  <2> DEFINE p == Pick(V)
  <2>1. p \in V
    BY PickIn
  <2>2. it[V] = f[p] + it[V \ {p}]
    BY <2>1 DEF SumsOver, Sums
  <2>3. CASE c = p
    BY <2>2, <2>3
  <2>4. CASE c # p
    <3>1. /\ Cardinality(V \ {p}) <= n /\ Cardinality(V \ {c}) <= n
          /\ V \ {p} \in SUBSET S /\ V \ {c} \in SUBSET S
      BY <2>1, Subsets
    <3>2. it[V \ {p}] = f[c] + it[(V \ {p}) \ {c}]
      BY <3>1, <2>4
    <3>3. it[V \ {c}] = f[p] + it[(V \ {c}) \ {p}]
      BY <3>1, <2>4, <2>1
    <3>4. (V \ {c}) \ {p} = (V \ {p}) \ {c} /\ (V \ {p}) \ {c} \in SUBSET S
      OBVIOUS
    <3>5. it[(V \ {p}) \ {c}] \in Int
      <4>1. \A U \in SUBSET S : it[U] \in Int
        BY SumsInt
      <4> QED BY <3>4, <4>1
    <3>6. f[c] \in Int /\ f[p] \in Int
      BY <2>1 DEF Into
    <3>7. it[V \ {c}] = f[p] + it[(V \ {p}) \ {c}]
      BY <3>3, <3>4
    <3> DEFINE rest == it[(V \ {p}) \ {c}]
    <3>8. it[V] = f[p] + (f[c] + rest) /\ it[V \ {c}] = f[p] + rest /\ rest \in Int
      BY <2>2, <3>2, <3>5, <3>7
    <3> HIDE DEF p, rest
    <3> QED BY <3>6, <3>8
  <2> QED BY <2>3, <2>4
<1> HIDE DEF P
<1>3. P \in SUBSET Nat
  BY DEF P
<1>4. P = Nat
  BY <1>1, <1>2, <1>3, Induct
<1>5. Cardinality(S) \in P /\ Cardinality(S) \in Nat
  BY <1>4, Subsets
<1> QED BY <1>5 DEF P

LEMMA SumIs ==
    ASSUME NEW S, IsFiniteSet(S), NEW f, DOMAIN f = S
    PROVE  \E it : SumsOver(f, it, S) /\ SumFunction(f) = it[S]
<1> DEFINE it == CHOOSE it : SumsOver(f, it, S)
<1>1. SumsOver(f, it, S)
  BY SumsExist
<1>2. SumFunction(f) = it[S]
  BY DEF SumFunction, SumFunctionOnSet, FoldFunctionOnSet, MapThenFoldSet, SumsOver, Sums, Pick
<1> QED BY <1>1, <1>2

LEMMA SumEmpty == \A f : DOMAIN f = {} => SumFunction(f) = 0
<1> SUFFICES ASSUME NEW f, DOMAIN f = {} PROVE SumFunction(f) = 0
  OBVIOUS
<1>1. PICK it : SumsOver(f, it, {}) /\ SumFunction(f) = it[{}]
  BY SumIs, FS_EmptySet
<1> QED BY <1>1 DEF SumsOver, Sums

LEMMA SumInt ==
    ASSUME NEW S, IsFiniteSet(S), NEW R, R = Int \/ R = Nat, NEW f \in [S -> R]
    PROVE  SumFunction(f) \in R
<1>1. PICK it : SumsOver(f, it, S) /\ SumFunction(f) = it[S]
  BY SumIs
<1>2. Into(f, S, R)
  BY DEF Into
<1>3. \A U \in SUBSET S : it[U] \in R
  BY <1>1, <1>2, SumsInt
<1> QED BY <1>1, <1>3

(* One term is taken out of a sum. *)
LEMMA SumPeel ==
    ASSUME NEW S, IsFiniteSet(S), NEW f \in [S -> Int], NEW c \in S
    PROVE  SumFunction(f) = f[c] + SumFunction([s \in S \ {c} |-> f[s]])
<1> DEFINE g == [s \in S \ {c} |-> f[s]]
<1>1. PICK it : SumsOver(f, it, S) /\ SumFunction(f) = it[S]
  BY SumIs
<1>2. IsFiniteSet(S \ {c})
  BY FS_RemoveElement
<1>3. PICK jt : SumsOver(g, jt, S \ {c}) /\ SumFunction(g) = jt[S \ {c}]
  BY <1>2, SumIs
<1>4. it[S \ {c}] = jt[S \ {c}]
  <2> DEFINE T == S \ {c}
  <2>1. T \subseteq S /\ Agree(g, f, T)
    BY DEF Agree
  <2>2. IsFiniteSet(T) /\ SumsOver(g, jt, T)
    BY <1>2, <1>3
  <2> HIDE DEF g, T
  <2>3. jt[T] = it[T]
    BY <1>1, <2>1, <2>2, SumsAgree
  <2> QED BY <2>3 DEF T
<1>5. it[S] = f[c] + it[S \ {c}]
  <2>1. Into(f, S, Int)
    BY DEF Into
  <2> QED BY <1>1, <2>1, SumsPeel
<1> HIDE DEF g
<1>6. SumFunction(f) = f[c] + SumFunction(g)
  BY <1>1, <1>3, <1>4, <1>5
<1> QED BY <1>6 DEF g

(* One term changes. *)
LEMMA SumUpdate ==
    ASSUME NEW S, IsFiniteSet(S), NEW f \in [S -> Int], NEW g \in [S -> Int], NEW c \in S,
           \A s \in S \ {c} : f[s] = g[s]
    PROVE  SumFunction(g) = SumFunction(f) - f[c] + g[c]
<1>1. [s \in S \ {c} |-> f[s]] = [s \in S \ {c} |-> g[s]]
  OBVIOUS
<1>2. IsFiniteSet(S \ {c}) /\ [s \in S \ {c} |-> f[s]] \in [S \ {c} -> Int]
  BY FS_RemoveElement
<1> DEFINE h == [s \in S \ {c} |-> f[s]]
<1>3. SumFunction(h) \in Int
  BY <1>2, SumInt
<1>4. SumFunction(f) = f[c] + SumFunction(h) /\ SumFunction(g) = g[c] + SumFunction(h)
  BY <1>1, SumPeel
<1>5. f[c] \in Int /\ g[c] \in Int
  OBVIOUS
<1> HIDE DEF h
<1> QED BY <1>3, <1>4, <1>5

(* The sum over a set is the sum over two parts of it. *)
LEMMA SumSplit ==
    ASSUME NEW S, IsFiniteSet(S), NEW f \in [S -> Int], NEW T \in SUBSET S
    PROVE  SumFunction(f) = SumFunction([s \in T |-> f[s]]) + SumFunction([s \in S \ T |-> f[s]])
<1> DEFINE Part(V) == [s \in V |-> f[s]]
           Split(V) == SumFunction(f) = SumFunction(Part(V)) + SumFunction(Part(S \ V))
           P == {n \in Nat : \A V \in SUBSET S : Cardinality(V) <= n => Split(V)}
<1>0. \A V \in SUBSET S : /\ IsFiniteSet(V) /\ Part(V) \in [V -> Int]
                           /\ SumFunction(Part(V)) \in Int
  <2> SUFFICES ASSUME NEW V \in SUBSET S
               PROVE  IsFiniteSet(V) /\ Part(V) \in [V -> Int] /\ SumFunction(Part(V)) \in Int
    OBVIOUS
  <2>1. IsFiniteSet(V) /\ Part(V) \in [V -> Int]
    BY Subsets
  <2> QED BY <2>1, SumInt
<1>1. 0 \in P
  <2>1. \A V \in SUBSET S : Cardinality(V) <= 0 => V = {}
    BY Subsets
  <2>2. Part(S \ {}) = f
    OBVIOUS
  <2>3. SumFunction(Part({})) = 0
    BY SumEmpty
  <2>4. SumFunction(f) \in Int
    BY SumInt
  <2>5. Split({})
    BY <2>2, <2>3, <2>4
  <2> HIDE DEF Split
  <2> QED BY <2>1, <2>5
<1> HIDE DEF Split
<1>2. ASSUME NEW n \in P PROVE n + 1 \in P
  <2> SUFFICES ASSUME NEW V \in SUBSET S, Cardinality(V) <= n + 1
               PROVE  Split(V)
    OBVIOUS
  <2>1. CASE V = {}
    <3>1. V \in SUBSET S /\ Cardinality(V) <= n
      BY <2>1, FS_EmptySet
    <3> QED BY <3>1
  <2>2. CASE V # {}
    <3> DEFINE c == Pick(V)
    <3>1. c \in V
      BY <2>2, PickIn
    <3> HIDE DEF c
    <3> DEFINE W == V \ {c}
    <3>2. W \in SUBSET S /\ Cardinality(W) <= n
      BY <3>1, Subsets
    <3>3. SumFunction(f) = SumFunction(Part(W)) + SumFunction(Part(S \ W))
      <4>1. Split(W)
        BY <3>2
      <4> QED BY <4>1 DEF Split
    <3>4. SumFunction(Part(V)) = f[c] + SumFunction(Part(W))
      <4>1. SumFunction(Part(V)) = Part(V)[c] + SumFunction([s \in V \ {c} |-> Part(V)[s]])
        BY <1>0, <3>1, SumPeel
      <4>2. [s \in V \ {c} |-> Part(V)[s]] = Part(W) /\ Part(V)[c] = f[c]
        BY <3>1
      <4> QED BY <4>1, <4>2
    <3>5. SumFunction(Part(S \ W)) = f[c] + SumFunction(Part(S \ V))
      <4>0. c \in S \ W /\ S \ W \in SUBSET S
        BY <3>1
      <4> DEFINE X == S \ W
      <4>3. c \in X /\ IsFiniteSet(X) /\ Part(X) \in [X -> Int]
        BY <1>0, <4>0
      <4> HIDE DEF X
      <4>4. SumFunction(Part(X)) = Part(X)[c] + SumFunction([s \in X \ {c} |-> Part(X)[s]])
        BY <4>3, SumPeel
      <4>1. SumFunction(Part(S \ W)) = Part(S \ W)[c] + SumFunction([s \in (S \ W) \ {c} |-> Part(S \ W)[s]])
        BY <4>4 DEF X
      <4>2. [s \in (S \ W) \ {c} |-> Part(S \ W)[s]] = Part(S \ V) /\ Part(S \ W)[c] = f[c]
        BY <3>1
      <4> QED BY <4>1, <4>2
    <3>6. /\ SumFunction(Part(W)) \in Int /\ SumFunction(Part(S \ V)) \in Int
          /\ SumFunction(Part(V)) \in Int /\ SumFunction(Part(S \ W)) \in Int /\ f[c] \in Int
      BY <1>0, <3>1
    <3> HIDE DEF Part, W
    <3> QED BY <3>3, <3>4, <3>5, <3>6 DEF Split
  <2> QED BY <2>1, <2>2
<1> HIDE DEF P
<1>3. P \in SUBSET Nat
  BY DEF P
<1>4. P = Nat
  BY <1>1, <1>2, <1>3, Induct
<1>5. Cardinality(T) \in P /\ Cardinality(T) \in Nat
  BY <1>4, Subsets
<1>6. Split(T)
  BY <1>5 DEF P
<1> QED BY <1>6 DEF Split

LEMMA SumDiff ==
    ASSUME NEW S, IsFiniteSet(S), NEW f \in [S -> Int], NEW g \in [S -> Int]
    PROVE  SumFunction([s \in S |-> f[s] - g[s]]) = SumFunction(f) - SumFunction(g)
<1> DEFINE F(V) == [s \in V |-> f[s]]
           G(V) == [s \in V |-> g[s]]
           D(V) == [s \in V |-> f[s] - g[s]]
           Holds(V) == SumFunction(D(V)) = SumFunction(F(V)) - SumFunction(G(V))
           P == {n \in Nat : \A V \in SUBSET S : Cardinality(V) <= n => Holds(V)}
<1>0. ASSUME NEW V \in SUBSET S
      PROVE  /\ IsFiniteSet(V) /\ F(V) \in [V -> Int] /\ G(V) \in [V -> Int] /\ D(V) \in [V -> Int]
             /\ SumFunction(F(V)) \in Int /\ SumFunction(G(V)) \in Int /\ SumFunction(D(V)) \in Int
  <2>1. IsFiniteSet(V) /\ F(V) \in [V -> Int] /\ G(V) \in [V -> Int] /\ D(V) \in [V -> Int]
    BY Subsets
  <2> HIDE DEF F, G, D
  <2> QED BY <2>1, SumInt
<1>1. 0 \in P
  <2>1. \A V \in SUBSET S : Cardinality(V) <= 0 => V = {}
    BY Subsets
  <2>2. SumFunction(F({})) = 0 /\ SumFunction(G({})) = 0 /\ SumFunction(D({})) = 0
    BY SumEmpty
  <2>3. Holds({})
    BY <2>2
  <2> HIDE DEF Holds
  <2> QED BY <2>1, <2>3
<1>2. ASSUME NEW n \in P PROVE n + 1 \in P
  <2> HIDE DEF Holds
  <2> SUFFICES ASSUME NEW V \in SUBSET S, Cardinality(V) <= n + 1
               PROVE  Holds(V)
    OBVIOUS
  <2>1. CASE V = {}
    <3>1. V \in SUBSET S /\ Cardinality(V) <= n
      BY <2>1, FS_EmptySet
    <3> QED BY <3>1
  <2>2. CASE V # {}
    <3> DEFINE c == Pick(V)
    <3>1. c \in V
      BY <2>2, PickIn
    <3> HIDE DEF c
    <3> DEFINE W == V \ {c}
    <3>2. W \in SUBSET S /\ Cardinality(W) <= n
      BY <3>1, Subsets
    <3>3. Holds(W)
      BY <3>2
    <3>8. /\ IsFiniteSet(V) /\ F(V) \in [V -> Int] /\ G(V) \in [V -> Int] /\ D(V) \in [V -> Int]
      BY <1>0
    <3>4. SumFunction(F(V)) = f[c] + SumFunction(F(W))
      <4>1. SumFunction(F(V)) = F(V)[c] + SumFunction([s \in V \ {c} |-> F(V)[s]])
        <5> HIDE DEF F
        <5> QED BY ZenonT(90), <3>1, <3>8, SumPeel
      <4>2. [s \in V \ {c} |-> F(V)[s]] = F(W) /\ F(V)[c] = f[c]
        BY <3>1
      <4> QED BY <4>1, <4>2
    <3>5. SumFunction(G(V)) = g[c] + SumFunction(G(W))
      <4>1. SumFunction(G(V)) = G(V)[c] + SumFunction([s \in V \ {c} |-> G(V)[s]])
        <5> HIDE DEF G
        <5> QED BY ZenonT(90), <3>1, <3>8, SumPeel
      <4>2. [s \in V \ {c} |-> G(V)[s]] = G(W) /\ G(V)[c] = g[c]
        BY <3>1
      <4> QED BY <4>1, <4>2
    <3>6. SumFunction(D(V)) = (f[c] - g[c]) + SumFunction(D(W))
      <4>1. SumFunction(D(V)) = D(V)[c] + SumFunction([s \in V \ {c} |-> D(V)[s]])
        <5> HIDE DEF D
        <5> QED BY ZenonT(90), <3>1, <3>8, SumPeel
      <4>2. [s \in V \ {c} |-> D(V)[s]] = D(W) /\ D(V)[c] = f[c] - g[c]
        BY <3>1
      <4> QED BY <4>1, <4>2
    <3>7. /\ SumFunction(F(W)) \in Int /\ SumFunction(G(W)) \in Int /\ SumFunction(D(W)) \in Int
          /\ f[c] \in Int /\ g[c] \in Int
      BY <1>0, <3>1, <3>2
    <3> HIDE DEF F, G, D, W
    <3> QED BY <3>3, <3>4, <3>5, <3>6, <3>7 DEF Holds
  <2> QED BY <2>1, <2>2
<1> HIDE DEF P, Holds
<1>3. P \in SUBSET Nat
  BY DEF P
<1>4. P = Nat
  BY <1>1, <1>2, <1>3, Induct
<1>5. Cardinality(S) \in P /\ Cardinality(S) \in Nat /\ S \in SUBSET S
  BY <1>4, Subsets
<1>6. Holds(S)
  BY <1>5 DEF P
<1>7. F(S) = f /\ G(S) = g
  OBVIOUS
<1> QED BY <1>6, <1>7 DEF Holds

-----------------------------------------------------------------------------
(* Sets of sequence numbers, in ascending order *)

Rises(q) == \A i, j \in DOMAIN q : i < j => q[i] < q[j]

LEMMA AscendingExists ==
    ASSUME NEW S \in SUBSET Nat, IsFiniteSet(S)
    PROVE  \E q \in [1..Cardinality(S) -> S] : Rises(q)
<1> DEFINE Has(T) == \E q \in [1..Cardinality(T) -> T] : Rises(q)
           P == {n \in Nat : \A T \in SUBSET S : Cardinality(T) <= n => Has(T)}
<1>0. \A s \in SUBSET S :
         /\ IsFiniteSet(s) /\ Cardinality(s) \in Nat /\ (Cardinality(s) = 0 <=> s = {})
         /\ \A c \in s : Cardinality(s \ {c}) = Cardinality(s) - 1
  BY Subsets
<1>1. 0 \in P
  <2>1. \A T \in SUBSET S : Cardinality(T) <= 0 => T = {}
    BY <1>0
  <2>2. Has({})
    <3>1. Cardinality({}) = 0
      BY FS_EmptySet
    <3>2. [i \in 1..0 |-> i] \in [1..0 -> {}] /\ Rises([i \in 1..0 |-> i])
      BY DEF Rises
    <3> QED BY <3>1, <3>2
  <2> HIDE DEF Has
  <2> QED BY <2>1, <2>2
<1>2. ASSUME NEW n \in P PROVE n + 1 \in P
  <2> SUFFICES ASSUME NEW T \in SUBSET S, Cardinality(T) <= n + 1 PROVE Has(T)
    OBVIOUS
  <2>1. CASE T = {}
    <3>1. Cardinality(T) <= n
      BY <2>1, FS_EmptySet
    <3> HIDE DEF Has
    <3> QED BY <3>1
  <2>2. CASE T # {}
    <3>1. IsFiniteSet(T) /\ T \in SUBSET Nat
      BY <1>0
    <3>2. PICK m \in T : \A j \in T : j <= m
      BY <2>2, <3>1, GreatestNumber
    <3> DEFINE c == Cardinality(T)
               R == T \ {m}
    <3>3. c \in Nat /\ c > 0 /\ Cardinality(R) = c - 1 /\ R \in SUBSET S
      BY <2>2, <3>2, <1>0
    <3>4. Cardinality(R) <= n
      BY <3>3
    <3>5. Has(R)
      <4> HIDE DEF Has, R
      <4> QED BY <3>3, <3>4
    <3>6. PICK q \in [1..(c - 1) -> R] : Rises(q)
      BY <3>3, <3>5
    <3> HIDE DEF c
    <3> DEFINE p == [i \in 1..c |-> IF i = c THEN m ELSE q[i]]
    <3>7. \A i \in 1..c : i # c => i \in 1..(c - 1) /\ q[i] \in T /\ q[i] < m
      <4> SUFFICES ASSUME NEW i \in 1..c, i # c PROVE i \in 1..(c - 1) /\ q[i] \in T /\ q[i] < m
        OBVIOUS
      <4>1. i \in 1..(c - 1)
        BY <3>3
      <4>2. q[i] \in T /\ q[i] # m
        BY <4>1
      <4>3. q[i] \in Nat /\ m \in Nat /\ q[i] <= m
        BY <4>2, <3>1, <3>2
      <4> QED BY <4>1, <4>2, <4>3
    <3>8. p \in [1..c -> T]
      BY <3>7, <3>2
    <3>9. ASSUME NEW i \in 1..c, NEW j \in 1..c, i < j PROVE p[i] < p[j]
      <4>1. i # c /\ p[i] = q[i]
        BY <3>9, <3>3
      <4>2. CASE j = c
        BY <4>1, <4>2, <3>7
      <4>3. CASE j # c
        <5>1. i \in DOMAIN q /\ j \in DOMAIN q
          BY <4>1, <4>3, <3>7
        <5> QED BY <5>1, <4>1, <4>3, <3>6, <3>9 DEF Rises
      <4> QED BY <4>2, <4>3
    <3>10. Rises(p)
      BY <3>9 DEF Rises
    <3> HIDE DEF p
    <3>11. \E z \in [1..c -> T] : Rises(z)
      BY <3>8, <3>10
    <3> QED BY <3>11 DEF c
  <2> QED BY <2>1, <2>2
<1> HIDE DEF P
<1>3. P \in SUBSET Nat
  BY DEF P
<1>4. P = Nat
  BY <1>1, <1>2, <1>3, Induct
<1>5. Cardinality(S) \in P /\ Cardinality(S) \in Nat
  BY <1>4, <1>0
<1>6. Has(S)
  <2> HIDE DEF Has
  <2> QED BY <1>5 DEF P
<1> QED BY <1>6

LEMMA AscendingFacts ==
    ASSUME NEW S \in SUBSET Nat, IsFiniteSet(S)
    PROVE  LET q == Ascending(S)
           IN  /\ q \in Seq(S) /\ q \in [1..Len(q) -> S] /\ Len(q) \in Nat
               /\ \A i, j \in 1..Len(q) : i < j => q[i] < q[j]
               /\ Range(q) = S
<1> DEFINE q == Ascending(S)
           n == Cardinality(S)
<1>0. n \in Nat
  BY FS_CardinalityType
<1>1. q \in [1..n -> S] /\ Rises(q)
  BY AscendingExists DEF Ascending, Rises
<1> HIDE DEF q
<1>2. q \in Seq(S) /\ Len(q) = n
  BY <1>0, <1>1
<1>3. \A i, j \in 1..n : i < j => q[i] < q[j]
  BY <1>1 DEF Rises
<1>4. IsInjective(q)
  <2> SUFFICES ASSUME NEW i \in 1..n, NEW j \in 1..n, q[i] = q[j] PROVE i = j
    BY <1>1 DEF IsInjective
  <2>1. q[i] \in Nat /\ q[j] \in Nat
    BY <1>1
  <2>2. ~(i < j) /\ ~(j < i)
    BY <1>3, <2>1
  <2> QED BY <2>2, <1>0
<1>5. q \in Injection(1..n, S)
  BY <1>1, <1>4 DEF Injection
<1>6. Cardinality(1..n) = n
  BY <1>0, FS_Interval
<1>7. q \in Surjection(1..n, S)
  BY <1>5, <1>6, FS_Injection
<1>8. Range(q) = S
  BY <1>1, <1>7 DEF Surjection, Range
<1> QED BY <1>0, <1>1, <1>2, <1>3, <1>8 DEF q

-----------------------------------------------------------------------------
(* Constants and remainders *)

LEMMA Constants ==
    /\ MaxSeq \in Nat /\ Cap \in Nat /\ Cap >= 1 /\ Cap \in Sizes /\ Sizes \subseteq 1..Cap
    /\ PoolBytes \in Nat /\ Lens \subseteq Nat /\ 0 \notin Lens /\ ZeroWait \subseteq Keys
    /\ Seqs \subseteq Nat
BY ReorderAssumption DEF Sizes, Seqs

LEMMA Mods ==
    ASSUME NEW w \in Nat, w > 0, NEW s \in Nat
    PROVE  s % w \in 0..(w - 1)
OBVIOUS

LEMMA ModDistinct ==
    ASSUME NEW w \in Nat, w > 0, NEW s \in Nat, NEW t \in Nat,
           s % w = t % w, s - t < w, t - s < w
    PROVE  s = t
<1> DEFINE a == s \div w
           b == t \div w
           m == s % w
<1>1. a \in Int /\ b \in Int /\ m \in Int
  OBVIOUS
<1>2. s = w * a + m /\ t = w * b + m
  OBVIOUS
<1> HIDE DEF a, b, m
<1>3. CASE a = b
  BY <1>1, <1>2, <1>3
<1>4. CASE a > b
  <2>1. w * a >= w * (b + 1)
    BY <1>1, <1>4
  <2> QED BY <1>1, <1>2, <2>1
<1>5. CASE b > a
  <2>1. w * b >= w * (a + 1)
    BY <1>1, <1>5
  <2> QED BY <1>1, <1>2, <2>1
<1> QED BY <1>1, <1>3, <1>4, <1>5

-----------------------------------------------------------------------------
(* The ring *)

(* Every packet is in the slot of its number and in the window from e on. *)
Placed(r, e) ==
    /\ r \in Ring
    /\ \A i \in Occupied(r) : /\ r.slots[i].seq \in e..(e + r.size - 1)
                              /\ r.slots[i].seq % r.size = i
    /\ Held(r) \subseteq Seqs

Counted(r) == r.count = Cardinality(Held(r)) /\ r.bytes = BytesOf(r, Held(r))

LenOf(r, S) == [s \in S |-> r.slots[s % r.size].len]

LEMMA RingFields ==
    ASSUME NEW r \in Ring
    PROVE  /\ r.size \in Nat /\ r.size <= Cap /\ (r.size > 0 => r.size \in Sizes)
           /\ r.slots \in [Index -> Slot] /\ r.count \in Int /\ r.bytes \in Int
           /\ \A i \in Index : r.slots[i].seq \in Nat /\ r.slots[i].len \in Nat
<1>1. /\ r.size \in Sizes \union {0} /\ r.slots \in [Index -> Slot]
      /\ r.count \in Int /\ r.bytes \in Int
  BY DEF Ring
<1>2. r.size \in Nat /\ r.size <= Cap /\ (r.size > 0 => r.size \in Sizes)
  <2>1. CASE r.size = 0
    BY <2>1, Constants
  <2>2. CASE r.size \in Sizes
    <3>1. r.size \in 1..Cap
      BY <2>2, Constants
    <3> QED BY <2>2, <3>1, Constants
  <2> QED BY <1>1, <2>1, <2>2
<1>3. \A i \in Index : r.slots[i] \in Slot
  BY <1>1
<1>4. \A i \in Index : r.slots[i].seq \in Nat /\ r.slots[i].len \in Nat
  BY <1>3 DEF Slot
<1> QED BY <1>1, <1>2, <1>4

LEMMA SeqSets ==
    ASSUME NEW S, S \subseteq Seqs
    PROVE  IsFiniteSet(S) /\ S \in SUBSET Nat /\ Cardinality(S) \in Nat
<1>1. IsFiniteSet(Seqs)
  BY Constants, FS_Interval DEF Seqs
<1>2. IsFiniteSet(S)
  BY <1>1, FS_Subset
<1> QED BY <1>2, Constants, FS_CardinalityType

(* Where a held packet is. *)
LEMMA HeldAt ==
    ASSUME NEW r, NEW e \in Nat, Placed(r, e), NEW s \in Held(r)
    PROVE  /\ s \in Nat /\ r.size \in Nat /\ r.size > 0
           /\ s % r.size \in Index /\ s % r.size \in Occupied(r)
           /\ r.slots[s % r.size].seq = s
           /\ r.slots[s % r.size].len \in Nat /\ r.slots[s % r.size].len > 0
           /\ e <= s /\ s < e + r.size
<1>1. PICK i \in Occupied(r) : r.slots[i].seq = s
  BY DEF Held
<1>2. i \in Index /\ r.slots[i].len > 0
  BY DEF Occupied
<1>3. /\ r.size \in Nat /\ r.slots[i].seq \in Nat /\ r.slots[i].len \in Nat
  BY <1>2, RingFields DEF Placed
<1>4. s \in e..(e + r.size - 1) /\ s % r.size = i
  BY <1>1 DEF Placed
<1>5. r.size > 0
  BY <1>1, <1>3, <1>4
<1> QED BY <1>1, <1>2, <1>3, <1>4, <1>5

LEMMA Contains ==
    ASSUME NEW r, NEW e \in Nat, Placed(r, e), NEW s \in Nat
    PROVE  RingContains(r, s) <=> s \in Held(r)
<1>1. ASSUME s \in Held(r) PROVE RingContains(r, s)
  BY <1>1, HeldAt DEF RingContains
<1>2. ASSUME RingContains(r, s) PROVE s \in Held(r)
  <2>1. r.size \in Nat /\ r.size <= Cap /\ r.size > 0
    BY <1>2, RingFields DEF RingContains, Placed
  <2>2. s % r.size \in 0..(r.size - 1)
    BY <2>1, Mods
  <2>3. s % r.size \in Index
    BY <2>1, <2>2, Constants DEF Index
  <2>4. s % r.size \in Occupied(r)
    BY <2>3, <1>2 DEF Occupied, RingContains
  <2> QED BY <2>4, <1>2 DEF Held, RingContains
<1> QED BY <1>1, <1>2

LEMMA Lengths ==
    ASSUME NEW r, NEW e \in Nat, Placed(r, e), NEW S, S \subseteq Held(r)
    PROVE  /\ LenOf(r, S) \in [S -> Nat] /\ LenOf(r, S) \in [S -> Int]
           /\ IsFiniteSet(S) /\ S \in SUBSET Nat /\ S \subseteq Seqs
           /\ BytesOf(r, S) = SumFunction(LenOf(r, S)) /\ BytesOf(r, S) \in Nat
<1>1. S \subseteq Seqs
  BY DEF Placed
<1>2. LenOf(r, S) \in [S -> Nat]
  BY HeldAt DEF LenOf
<1>3. LenOf(r, S) \in [S -> Int]
  BY <1>2
<1>4. BytesOf(r, S) = SumFunction(LenOf(r, S))
  BY DEF BytesOf, LenOf
<1>5. IsFiniteSet(S) /\ S \in SUBSET Nat
  BY <1>1, SeqSets
<1>6. SumFunction(LenOf(r, S)) \in Nat
  BY <1>2, <1>5, SumInt
<1> QED BY <1>1, <1>2, <1>3, <1>4, <1>5, <1>6

LEMMA BytesSplit ==
    ASSUME NEW r, NEW e \in Nat, Placed(r, e), NEW S, S \subseteq Held(r)
    PROVE  BytesOf(r, Held(r)) = BytesOf(r, S) + BytesOf(r, Held(r) \ S)
<1> DEFINE H == Held(r)
           f == LenOf(r, H)
<1>1. f \in [H -> Int] /\ IsFiniteSet(H) /\ S \in SUBSET H
  BY Lengths
<1>2. SumFunction(f) = SumFunction([s \in S |-> f[s]]) + SumFunction([s \in H \ S |-> f[s]])
  <2> HIDE DEF f, H
  <2> QED BY ZenonT(90), <1>1, SumSplit
<1>3. [s \in S |-> f[s]] = LenOf(r, S) /\ [s \in H \ S |-> f[s]] = LenOf(r, H \ S)
  BY DEF LenOf
<1> QED BY <1>2, <1>3, Lengths

LEMMA NewRingPlaced ==
    /\ NewRing \in Ring /\ Held(NewRing) = {} /\ Occupied(NewRing) = {}
    /\ \A e \in Nat : Placed(NewRing, e)
    /\ Counted(NewRing) /\ NewRing.count = 0 /\ NewRing.bytes = 0
<1>1. NewRing \in Ring
  BY DEF NewRing, Ring, Empty, Slot
<1>2. Occupied(NewRing) = {}
  BY DEF Occupied, NewRing, Empty
<1>3. Held(NewRing) = {}
  BY <1>2 DEF Held
<1>4. \A e \in Nat : Placed(NewRing, e)
  BY <1>1, <1>2, <1>3 DEF Placed
<1>5. BytesOf(NewRing, {}) = 0
  BY SumEmpty DEF BytesOf
<1>6. Cardinality({}) = 0
  BY FS_EmptySet
<1>7. NewRing.count = 0 /\ NewRing.bytes = 0
  BY DEF NewRing
<1> QED BY <1>1, <1>2, <1>3, <1>4, <1>5, <1>6, <1>7 DEF Counted

LEMMA EmptyCount ==
    ASSUME NEW r, NEW e \in Nat, Placed(r, e), Counted(r)
    PROVE  /\ r.count = 0 <=> Held(r) = {}
           /\ r.bytes \in Nat /\ r.bytes = BytesOf(r, Held(r))
           /\ Held(r) = {} => r.bytes = 0
<1>1. IsFiniteSet(Held(r)) /\ BytesOf(r, Held(r)) \in Nat
  BY Lengths
<1>2. Held(r) = {} => BytesOf(r, Held(r)) = 0
  BY SumEmpty DEF BytesOf
<1> QED BY <1>1, <1>2, FS_EmptySet DEF Counted

(* Two packets of one window have different places. *)
LEMMA PlacesDiffer ==
    ASSUME NEW e \in Nat, NEW w \in Nat, w > 0, NEW s \in Nat, NEW t \in Nat,
           e <= s, s < e + w, e <= t, t < e + w, s % w = t % w
    PROVE  s = t
<1>1. s - t < w /\ t - s < w
  OBVIOUS
<1> QED BY <1>1, ModDistinct

(* Removing the packets of S. *)
LEMMA RemovePlaced ==
    ASSUME NEW r, NEW e \in Nat, Placed(r, e), Counted(r), NEW S, S \subseteq Held(r)
    PROVE  LET z == RingRemove(r, S)
           IN  /\ Placed(z, e) /\ Counted(z) /\ Held(z) = Held(r) \ S
               /\ z.size = r.size /\ z.bytes = r.bytes - BytesOf(r, S)
<1> DEFINE z == RingRemove(r, S)
           sl == [i \in Index |-> IF i \in Occupied(r) /\ r.slots[i].seq \in S THEN Empty ELSE r.slots[i]]
<1>1. r \in Ring /\ r.count \in Int /\ r.bytes \in Int /\ BytesOf(r, S) \in Nat /\ Cardinality(S) \in Nat
  BY RingFields, Lengths, FS_CardinalityType DEF Placed
<1>3. sl \in [Index -> Slot]
  BY RingFields DEF Placed, Empty, Slot
<1> DEFINE n == r.count - Cardinality(S)
           b == r.bytes - BytesOf(r, S)
<1>4. z = [r EXCEPT !.slots = sl, !.count = n, !.bytes = b]
  BY DEF RingRemove
<1>n. n \in Int /\ b \in Int
  BY <1>1
<1> HIDE DEF z, sl, n, b
<1>c. z.size = r.size /\ z.slots = sl /\ z.count = n /\ z.bytes = b /\ z \in Ring
  BY <1>1, <1>3, <1>4, <1>n DEF Ring
<1>2. /\ z.size = r.size /\ z.slots = sl /\ z.count = r.count - Cardinality(S)
      /\ z.bytes = r.bytes - BytesOf(r, S) /\ z \in Ring
  BY <1>c DEF n, b
<1> USE DEF sl
<1>5. \A i \in Index : i \in Occupied(z) <=> i \in Occupied(r) /\ r.slots[i].seq \notin S
  BY <1>2 DEF Occupied, Empty
<1>6. \A i \in Occupied(z) : z.slots[i] = r.slots[i] /\ i \in Occupied(r) /\ r.slots[i].seq \notin S
  BY <1>2, <1>5 DEF Occupied
<1>7. Held(z) = Held(r) \ S
  <2>1. Held(z) \subseteq Held(r) \ S
    BY <1>6 DEF Held
  <2>2. ASSUME NEW s \in Held(r), s \notin S PROVE s \in Held(z)
    <3>1. PICK i \in Occupied(r) : r.slots[i].seq = s
      BY DEF Held
    <3>2. i \in Occupied(z)
      BY <1>5, <2>2, <3>1 DEF Occupied
    <3> QED BY <1>6, <3>1, <3>2 DEF Held
  <2> QED BY <2>1, <2>2
<1>8. Placed(z, e)
  BY <1>2, <1>6, <1>7 DEF Placed
<1>9. z.count = Cardinality(Held(z))
  <2>1. IsFiniteSet(Held(r)) /\ r.count = Cardinality(Held(r)) /\ Held(r) \cap S = S
    BY Lengths DEF Counted
  <2>2. Cardinality(Held(r) \ S) = Cardinality(Held(r)) - Cardinality(Held(r) \cap S)
    BY <2>1, FS_Difference
  <2> QED BY <2>1, <2>2, <1>2, <1>7
<1>10. z.bytes = BytesOf(z, Held(z))
  <2>1. LenOf(z, Held(z)) = LenOf(r, Held(r) \ S)
    <3>1. \A s \in Held(z) : z.slots[s % z.size] = r.slots[s % r.size]
      <4> SUFFICES ASSUME NEW s \in Held(z) PROVE z.slots[s % z.size] = r.slots[s % r.size]
        OBVIOUS
      <4>1. s % z.size \in Occupied(z)
        BY <1>8, HeldAt
      <4> QED BY <4>1, <1>2, <1>6
    <3> QED BY <1>7, <3>1 DEF LenOf
  <2>2. BytesOf(z, Held(z)) = BytesOf(r, Held(r) \ S)
    BY <2>1, <1>8, Lengths
  <2>3. BytesOf(r, Held(r)) = BytesOf(r, S) + BytesOf(r, Held(r) \ S) /\ r.bytes = BytesOf(r, Held(r))
    BY BytesSplit DEF Counted
  <2>4. BytesOf(r, Held(r) \ S) \in Nat
    BY Lengths
  <2> QED BY <1>1, <1>2, <2>2, <2>3, <2>4
<1> QED BY <1>2, <1>7, <1>8, <1>9, <1>10 DEF Counted, z

(* The window may move up to the lowest packet. *)
LEMMA PlacedUp ==
    ASSUME NEW r, NEW e \in Nat, Placed(r, e), NEW d \in Nat, e <= d, \A s \in Held(r) : d <= s
    PROVE  Placed(r, d)
<1>1. r.size \in Nat
  BY RingFields DEF Placed
<1>2. \A i \in Occupied(r) : r.slots[i].seq \in Held(r)
  BY DEF Held
<1>3. \A i \in Occupied(r) : r.slots[i].seq \in e..(e + r.size - 1) /\ d <= r.slots[i].seq
  BY <1>2 DEF Placed
<1>4. \A i \in Occupied(r) : r.slots[i].seq \in d..(d + r.size - 1)
  BY <1>1, <1>3
<1> QED BY <1>4 DEF Placed

LEMMA Grows ==
    ASSUME NEW r \in Ring, NEW span \in Nat, span < Cap
    PROVE  LET w == GrownSize(r, span)
           IN  w \in Sizes /\ w \in Nat /\ w > 0 /\ w <= Cap /\ w >= r.size /\ w > span
<1> DEFINE C == {w \in Sizes : w >= r.size /\ (w > span \/ w = Cap)}
<1>1. r.size \in Nat /\ r.size <= Cap
  BY RingFields
<1>2. Cap \in C /\ C \in SUBSET Nat
  <2>1. Cap \in C
    BY <1>1, Constants
  <2>2. \A w \in Sizes : w \in 1..Cap
    BY Constants
  <2> QED BY <2>1, <2>2
<1>3. \E i \in C : \A j \in C : i <= j
  BY <1>2, LeastNumber
<1>4. Min(C) \in C
  BY <1>3 DEF Min
<1>5. GrownSize(r, span) = Min(C)
  BY DEF GrownSize
<1> DEFINE w == Min(C)
<1>6. w \in Sizes /\ w >= r.size /\ (w > span \/ w = Cap)
  BY <1>4
<1> HIDE DEF w
<1>7. w \in 1..Cap
  BY <1>6, Constants
<1> QED BY <1>5, <1>6, <1>7, Constants DEF w

(* Growth keeps the packets, their lengths and the window. *)
LEMMA GrowPlaced ==
    ASSUME NEW r, NEW e \in Nat, Placed(r, e), Counted(r), NEW span \in Nat, span < Cap
    PROVE  LET z == GrowToCover(r, span)
           IN  /\ Placed(z, e) /\ Counted(z) /\ Held(z) = Held(r)
               /\ z.size > span /\ z.size \in Nat /\ z.size <= Cap
               /\ z.count = r.count /\ z.bytes = r.bytes
<1>0. r \in Ring /\ r.size \in Nat /\ r.size <= Cap
  BY RingFields DEF Placed
<1>1. CASE r.size > span
  BY <1>0, <1>1 DEF GrowToCover
<1>2. CASE ~(r.size > span)
  <2> DEFINE w == GrownSize(r, span)
             sl == Rehashed(r, w)
             z == GrowToCover(r, span)
  <2>1. w \in Sizes /\ w \in Nat /\ w > 0 /\ w <= Cap /\ w >= r.size /\ w > span
    BY <1>0, Grows
  <2>2. z = [r EXCEPT !.size = w, !.slots = sl]
    BY <1>2 DEF GrowToCover
  <2> HIDE DEF w
  <2>3. \A j \in Occupied(r) : /\ j \in Index /\ r.slots[j].seq \in Nat
                               /\ e <= r.slots[j].seq /\ r.slots[j].seq < e + w
                               /\ r.slots[j].len > 0 /\ r.slots[j] \in Slot
                               /\ r.slots[j].seq % r.size = j
    <3> SUFFICES ASSUME NEW j \in Occupied(r)
                 PROVE  /\ j \in Index /\ r.slots[j].seq \in Nat
                        /\ e <= r.slots[j].seq /\ r.slots[j].seq < e + w
                        /\ r.slots[j].len > 0 /\ r.slots[j] \in Slot
                        /\ r.slots[j].seq % r.size = j
      OBVIOUS
    <3>1. j \in Index /\ r.slots[j].len > 0
      BY DEF Occupied
    <3>2. r.slots[j].seq \in Nat /\ r.slots[j] \in Slot
      BY <1>0, <3>1, RingFields
    <3>3. r.slots[j].seq \in e..(e + r.size - 1) /\ r.slots[j].seq % r.size = j
      BY DEF Placed
    <3> QED BY <1>0, <2>1, <3>1, <3>2, <3>3
  <2>4. \A i, j \in Occupied(r) : r.slots[i].seq % w = r.slots[j].seq % w => i = j
    <3> SUFFICES ASSUME NEW i \in Occupied(r), NEW j \in Occupied(r),
                        r.slots[i].seq % w = r.slots[j].seq % w
                 PROVE  i = j
      OBVIOUS
    <3>1. r.slots[i].seq = r.slots[j].seq
      BY <2>1, <2>3, PlacesDiffer
    <3> QED BY <2>3, <3>1
  <2> DEFINE From(i) == {j \in Occupied(r) : r.slots[j].seq % w = i}
  <2>5. \A i \in Index : sl[i] = IF From(i) = {} THEN Empty ELSE r.slots[Max(From(i))]
    BY DEF Rehashed
  <2>6. \A j \in Occupied(r) : LET i == r.slots[j].seq % w
                               IN  i \in Index /\ From(i) = {j} /\ sl[i] = r.slots[j]
    <3> SUFFICES ASSUME NEW j \in Occupied(r), NEW i, i = r.slots[j].seq % w
                 PROVE  i \in Index /\ From(i) = {j} /\ sl[i] = r.slots[j]
      OBVIOUS
    <3>1. i \in 0..(w - 1)
      BY <2>1, <2>3, Mods
    <3>2. i \in Index
      BY <2>1, <3>1, Constants DEF Index
    <3>3. From(i) = {j}
      BY <2>4
    <3>4. j \in Int
      BY <2>3, Constants DEF Index
    <3>5. Max({j}) = j
      BY <3>4 DEF Max
    <3>6. sl[i] = r.slots[Max(From(i))]
      BY <2>5, <3>2, <3>3
    <3> QED BY <3>2, <3>3, <3>5, <3>6
  <2>7. \A i \in Index : sl[i].len > 0 =>
           \E j \in Occupied(r) : r.slots[j].seq % w = i /\ sl[i] = r.slots[j]
    <3> SUFFICES ASSUME NEW i \in Index, sl[i].len > 0
                 PROVE  \E j \in Occupied(r) : r.slots[j].seq % w = i /\ sl[i] = r.slots[j]
      OBVIOUS
    <3>1. From(i) # {}
      <4>1. From(i) = {} => sl[i] = Empty
        BY <2>5
      <4>2. Empty.len = 0
        BY DEF Empty
      <4> HIDE DEF From, sl
      <4> QED BY <4>1, <4>2
    <3>2. PICK j \in Occupied(r) : r.slots[j].seq % w = i
      BY <3>1
    <3> QED BY <2>6, <3>2
  <2>8. sl \in [Index -> Slot]
    <3>1. Empty \in Slot
      BY DEF Empty, Slot
    <3>2. \A i \in Index : sl[i] \in Slot
      <4> SUFFICES ASSUME NEW i \in Index PROVE sl[i] \in Slot
        OBVIOUS
      <4>1. CASE From(i) = {}
        BY <2>5, <3>1, <4>1
      <4>2. CASE From(i) # {}
        <5>1. PICK j \in Occupied(r) : r.slots[j].seq % w = i
          BY <4>2
        <5> QED BY <2>3, <2>6, <5>1
      <4> QED BY <4>1, <4>2
    <3>3. sl = [i \in Index |-> sl[i]]
      BY DEF Rehashed
    <3> HIDE DEF sl
    <3> QED BY <3>2, <3>3
  <2> HIDE DEF sl, z
  <2>9. z.size = w /\ z.slots = sl /\ z.count = r.count /\ z.bytes = r.bytes /\ z \in Ring
    BY <1>0, <2>1, <2>2, <2>8 DEF Ring
  <2>10. \A i \in Occupied(z) : \E j \in Occupied(r) :
            i = r.slots[j].seq % w /\ z.slots[i] = r.slots[j]
    BY <2>7, <2>9 DEF Occupied
  <2>11. \A j \in Occupied(r) : r.slots[j].seq % w \in Occupied(z) /\ z.slots[r.slots[j].seq % w] = r.slots[j]
    <3> SUFFICES ASSUME NEW j \in Occupied(r)
                 PROVE  r.slots[j].seq % w \in Occupied(z) /\ z.slots[r.slots[j].seq % w] = r.slots[j]
      OBVIOUS
    <3>1. r.slots[j].seq % w \in Index /\ sl[r.slots[j].seq % w] = r.slots[j]
      BY <2>6
    <3> QED BY <2>3, <2>9, <3>1 DEF Occupied
  <2>12. Held(z) = Held(r)
    <3>1. Held(z) \subseteq Held(r)
      BY <2>10 DEF Held
    <3>2. Held(r) \subseteq Held(z)
      <4> SUFFICES ASSUME NEW s \in Held(r) PROVE s \in Held(z)
        OBVIOUS
      <4>1. PICK j \in Occupied(r) : r.slots[j].seq = s
        BY DEF Held
      <4>2. r.slots[j].seq % w \in Occupied(z) /\ z.slots[r.slots[j].seq % w].seq = s
        BY <2>11, <4>1
      <4> QED BY <4>2 DEF Held
    <3> QED BY <3>1, <3>2
  <2>13. Placed(z, e)
    <3>1. ASSUME NEW i \in Occupied(z)
          PROVE  z.slots[i].seq \in e..(e + z.size - 1) /\ z.slots[i].seq % z.size = i
      <4>1. PICK j \in Occupied(r) : i = r.slots[j].seq % w /\ z.slots[i] = r.slots[j]
        BY <2>10
      <4> QED BY <2>1, <2>3, <2>9, <4>1
    <3> QED BY <2>9, <2>12, <3>1 DEF Placed
  <2>14. LenOf(z, Held(z)) = LenOf(r, Held(r))
    <3>1. ASSUME NEW s \in Held(r) PROVE z.slots[s % z.size] = r.slots[s % r.size]
      <4>1. s % r.size \in Occupied(r) /\ r.slots[s % r.size].seq = s
        BY HeldAt
      <4> QED BY <2>9, <2>11, <4>1
    <3> QED BY <2>12, <3>1 DEF LenOf
  <2>15. BytesOf(z, Held(z)) = BytesOf(r, Held(r))
    BY <2>13, <2>14, Lengths
  <2> QED BY <2>1, <2>9, <2>12, <2>13, <2>15 DEF Counted, z
<1> QED BY <1>1, <1>2

(* A packet comes in that was not there. *)
LEMMA InsertPlaced ==
    ASSUME NEW r, NEW e \in Nat, Placed(r, e), Counted(r), NEW s \in Seqs, NEW len \in Lens,
           e <= s, s - e < Cap, s \notin Held(r)
    PROVE  LET z == RingInsert(r, s, len, e)
           IN  /\ Placed(z, e) /\ Counted(z) /\ Held(z) = Held(r) \union {s}
               /\ z.bytes = r.bytes + len
<1> DEFINE g == GrowToCover(r, s - e)
           z == RingInsert(r, s, len, e)
           p == s % g.size
           new == [seq |-> s, len |-> len]
<1>0. s \in Nat /\ len \in Nat /\ len > 0 /\ s - e \in Nat
  BY Constants
<1>1. /\ Placed(g, e) /\ Counted(g) /\ Held(g) = Held(r)
      /\ g.size > s - e /\ g.size \in Nat /\ g.size <= Cap
      /\ g.count = r.count /\ g.bytes = r.bytes
  BY <1>0, GrowPlaced
<1>2. z = [g EXCEPT !.slots[p] = new, !.count = g.count + 1, !.bytes = g.bytes + len]
  BY DEF RingInsert
<1> HIDE DEF g, z
<1>3. g \in Ring /\ g.slots \in [Index -> Slot] /\ g.count \in Int /\ g.bytes \in Int
  BY <1>1, RingFields DEF Placed
<1>4. p \in Index /\ g.size > 0
  <2>1. g.size > 0
    BY <1>0, <1>1
  <2>2. p \in 0..(g.size - 1)
    BY <1>0, <1>1, <2>1, Mods
  <2> QED BY <1>1, <2>1, <2>2, Constants DEF Index
<1>5. p \notin Occupied(g)
  <2> SUFFICES ASSUME p \in Occupied(g) PROVE FALSE
    OBVIOUS
  <2> DEFINE t == g.slots[p].seq
  <2>1. t \in Held(g)
    BY DEF Held
  <2>2. t % g.size = p
    BY <1>1 DEF Placed
  <2>3. t \in Nat /\ e <= t /\ t < e + g.size
    BY <1>1, <2>1, HeldAt
  <2>4. e <= s /\ s < e + g.size
    BY <1>0, <1>1
  <2> HIDE DEF t
  <2>5. t = s
    BY <1>0, <1>1, <1>4, <2>2, <2>3, <2>4, PlacesDiffer
  <2> QED BY <1>1, <2>1, <2>5
<1>6. new \in Slot
  BY <1>0 DEF Slot
<1> HIDE DEF p, new
<1>7. /\ z.size = g.size /\ z.count = g.count + 1 /\ z.bytes = g.bytes + len
      /\ z.slots = [g.slots EXCEPT ![p] = new] /\ z \in Ring
  <2> DEFINE sl == [g.slots EXCEPT ![p] = new]
             n == g.count + 1
             b == g.bytes + len
  <2>1. sl \in [Index -> Slot] /\ n \in Int /\ b \in Int
    <3>1. sl \in [Index -> Slot]
      BY <1>3, <1>6
    <3> QED BY <3>1, <1>0, <1>3
  <2>2. z = [g EXCEPT !.slots = sl, !.count = n, !.bytes = b]
    BY <1>2
  <2> HIDE DEF sl, n, b
  <2>3. z.size = g.size /\ z.slots = sl /\ z.count = n /\ z.bytes = b /\ z \in Ring
    BY <1>3, <2>1, <2>2 DEF Ring
  <2> QED BY <2>3 DEF sl, n, b
<1>8. /\ \A i \in Index : i # p => z.slots[i] = g.slots[i]
      /\ z.slots[p] = new /\ new.seq = s /\ new.len = len
  BY <1>3, <1>4, <1>7 DEF new
<1>9. Occupied(z) = Occupied(g) \union {p}
  <2>1. \A i \in Index : i \in Occupied(z) <=> i \in Occupied(g) \/ i = p
    BY <1>0, <1>4, <1>8 DEF Occupied
  <2> QED BY <1>4, <2>1 DEF Occupied
<1>10. \A i \in Occupied(g) : z.slots[i] = g.slots[i]
  BY <1>5, <1>8 DEF Occupied
<1>11. Held(z) = Held(g) \union {s}
  <2>1. Held(z) \subseteq Held(g) \union {s}
    BY <1>8, <1>9, <1>10 DEF Held
  <2>2. s \in Held(z)
    BY <1>8, <1>9 DEF Held
  <2>3. Held(g) \subseteq Held(z)
    <3> SUFFICES ASSUME NEW t \in Held(g) PROVE t \in Held(z)
      OBVIOUS
    <3>1. PICK i \in Occupied(g) : g.slots[i].seq = t
      BY DEF Held
    <3>2. i \in Occupied(z) /\ z.slots[i].seq = t
      BY <1>9, <1>10, <3>1
    <3> QED BY <3>2 DEF Held
  <2> QED BY <2>1, <2>2, <2>3
<1>12. Placed(z, e)
  <2>1. ASSUME NEW i \in Occupied(z)
        PROVE  z.slots[i].seq \in e..(e + z.size - 1) /\ z.slots[i].seq % z.size = i
    <3>1. CASE i = p
      <4>1. z.slots[i].seq = s /\ z.size = g.size
        BY <1>7, <1>8, <3>1
      <4>2. s \in e..(e + g.size - 1)
        BY <1>0, <1>1
      <4> QED BY <4>1, <4>2, <3>1 DEF p
    <3>2. CASE i # p
      <4>1. i \in Occupied(g) /\ z.slots[i] = g.slots[i] /\ z.size = g.size
        BY <1>7, <1>9, <1>10, <3>2
      <4> QED BY <1>1, <4>1 DEF Placed
    <3> QED BY <3>1, <3>2
  <2>2. Held(z) \subseteq Seqs
    BY <1>1, <1>11 DEF Placed
  <2> QED BY <1>7, <2>1, <2>2 DEF Placed
<1>13. z.count = Cardinality(Held(z))
  <2>1. IsFiniteSet(Held(g)) /\ g.count = Cardinality(Held(g))
    BY <1>1, Lengths DEF Counted
  <2>2. Cardinality(Held(g) \union {s}) = Cardinality(Held(g)) + 1
    BY <1>1, <2>1, FS_AddElement
  <2> QED BY <1>7, <1>11, <2>1, <2>2
<1>14. z.bytes = BytesOf(z, Held(z))
  <2> DEFINE H == Held(z)
             f == LenOf(z, H)
  <2>1. f \in [H -> Int] /\ IsFiniteSet(H) /\ s \in H /\ BytesOf(z, H) = SumFunction(f)
    BY <1>11, <1>12, Lengths
  <2>2. SumFunction(f) = f[s] + SumFunction([t \in H \ {s} |-> f[t]])
    <3> HIDE DEF f, H
    <3> QED BY <2>1, SumPeel
  <2>3. f[s] = len
    BY <2>1, <1>7, <1>8 DEF LenOf, p
  <2>4. H \ {s} = Held(g)
    BY <1>1, <1>11
  <2>5. [t \in H \ {s} |-> f[t]] = LenOf(g, Held(g))
    <3>1. ASSUME NEW t \in Held(g) PROVE z.slots[t % z.size] = g.slots[t % g.size]
      <4>1. t % g.size \in Occupied(g)
        BY <1>1, HeldAt
      <4> QED BY <1>7, <1>10, <4>1
    <3> QED BY <2>4, <3>1 DEF LenOf
  <2>6. SumFunction(LenOf(g, Held(g))) = BytesOf(g, Held(g)) /\ BytesOf(g, Held(g)) = g.bytes
    BY <1>1, Lengths DEF Counted
  <2> HIDE DEF f, H
  <2>7. BytesOf(z, H) = len + g.bytes
    BY <2>1, <2>2, <2>3, <2>5, <2>6
  <2> QED BY <1>0, <1>3, <1>7, <2>7 DEF H
<1> QED BY <1>1, <1>7, <1>11, <1>12, <1>13, <1>14 DEF Counted, z

-----------------------------------------------------------------------------
(* What is delivered: an ascending run of numbers from a window *)

Run(q, lo, hi) ==
    /\ q \in Seq(Seqs)
    /\ \A i \in 1..Len(q) : lo <= q[i] /\ q[i] < hi
    /\ \A i, j \in 1..Len(q) : i < j => q[i] < q[j]

LEMMA RunRange ==
    ASSUME NEW q \in Seq(Seqs)
    PROVE  /\ Len(q) \in Nat /\ DOMAIN q = 1..Len(q)
           /\ \A i \in 1..Len(q) : q[i] \in Seqs /\ q[i] \in Nat
           /\ \A s : s \in Range(q) <=> \E i \in 1..Len(q) : q[i] = s
<1>1. Len(q) \in Nat /\ DOMAIN q = 1..Len(q) /\ \A i \in 1..Len(q) : q[i] \in Seqs
  OBVIOUS
<1>2. Seqs \subseteq Nat
  BY Constants DEF Seqs
<1>3. Range(q) = {q[i] : i \in 1..Len(q)}
  BY <1>1, Zenon DEF Range
<1>4. \A s : s \in Range(q) <=> \E i \in 1..Len(q) : q[i] = s
  BY <1>3, Zenon
<1> QED
  BY <1>1, <1>2, <1>4

LEMMA RunEmpty == ASSUME NEW e PROVE Run(<<>>, e, e) /\ Range(<<>>) = {} /\ <<>> \in Seq(Seqs)
  BY DEF Run, Range

LEMMA RunUp ==
    ASSUME NEW q, NEW a \in Nat, NEW b \in Nat, NEW c \in Nat, b <= c, Run(q, a, b)
    PROVE  Run(q, a, c)
<1>1. \A i \in 1..Len(q) : q[i] \in Nat
  BY RunRange DEF Run
<1> QED BY <1>1 DEF Run

LEMMA RunJoin ==
    ASSUME NEW p, NEW q, NEW a \in Nat, NEW b \in Nat, NEW c \in Nat, a <= b, b <= c,
           Run(p, a, b), Run(q, b, c)
    PROVE  Run(p \o q, a, c) /\ Range(p \o q) = Range(p) \union Range(q)
<1> DEFINE r == p \o q
           m == Len(p)
           n == Len(q)
<1>1. /\ p \in Seq(Seqs) /\ q \in Seq(Seqs) /\ m \in Nat /\ n \in Nat
      /\ \A i \in 1..m : p[i] \in Nat /\ p[i] \in Seqs /\ a <= p[i] /\ p[i] < b
      /\ \A i \in 1..n : q[i] \in Nat /\ q[i] \in Seqs /\ b <= q[i] /\ q[i] < c
  BY RunRange DEF Run
<1>2. r \in Seq(Seqs) /\ Len(r) = m + n
  BY <1>1
<1>3. /\ \A i \in 1..m : r[i] = p[i]
      /\ \A i \in 1..n : r[m + i] = q[i]
      /\ \A i \in 1..(m + n) : i \in 1..m \/ (i - m \in 1..n /\ r[i] = q[i - m])
  BY <1>1
<1>p. \A i, j \in 1..m : i < j => p[i] < p[j]
  BY DEF Run
<1>q. \A i, j \in 1..n : i < j => q[i] < q[j]
  BY DEF Run
<1> HIDE DEF r, m, n
<1>4. \A i \in 1..(m + n) : a <= r[i] /\ r[i] < c
  BY <1>1, <1>3
<1>5. ASSUME NEW i \in 1..(m + n), NEW j \in 1..(m + n), i < j PROVE r[i] < r[j]
  <2>1. CASE i \in 1..m /\ j \in 1..m
    BY <1>3, <1>5, <1>p, <2>1
  <2>2. CASE i \in 1..m /\ j \notin 1..m
    <3>1. j - m \in 1..n /\ r[j] = q[j - m] /\ r[i] = p[i]
      BY <1>3, <2>2
    <3>2. p[i] < b /\ b <= q[j - m] /\ p[i] \in Nat /\ q[j - m] \in Nat
      BY <1>1, <2>2, <3>1
    <3> QED BY <3>1, <3>2
  <2>3. CASE i \notin 1..m
    <3>1. i - m \in 1..n /\ r[i] = q[i - m]
      BY <1>3, <2>3
    <3>2. j \notin 1..m
      BY <1>1, <1>5, <2>3
    <3>3. j - m \in 1..n /\ r[j] = q[j - m]
      BY <1>3, <3>2
    <3>4. i - m < j - m
      BY <1>1, <1>5
    <3> QED BY <1>q, <3>1, <3>3, <3>4
  <2> QED BY <2>1, <2>2, <2>3
<1>6. Run(r, a, c)
  BY <1>2, <1>4, <1>5 DEF Run
<1>7. Range(r) = Range(p) \union Range(q)
  <2>1. \A s : s \in Range(r) <=> \E i \in 1..(m + n) : r[i] = s
    BY <1>2, RunRange
  <2>2. \A s : s \in Range(p) <=> \E i \in 1..m : p[i] = s
    BY <1>1, RunRange DEF m
  <2>3. \A s : s \in Range(q) <=> \E i \in 1..n : q[i] = s
    BY <1>1, RunRange DEF n
  <2>4. ASSUME NEW s \in Range(r) PROVE s \in Range(p) \union Range(q)
    <3>1. PICK i \in 1..(m + n) : r[i] = s
      BY <2>1
    <3>2. CASE i \in 1..m
      BY <1>3, <2>2, <3>1, <3>2
    <3>3. CASE i \notin 1..m
      BY <1>3, <2>3, <3>1, <3>3
    <3> QED BY <3>2, <3>3
  <2>5. ASSUME NEW s \in Range(p) PROVE s \in Range(r)
    <3>1. PICK i \in 1..m : p[i] = s
      BY <2>2
    <3>2. i \in 1..(m + n) /\ r[i] = s
      BY <1>1, <1>3, <3>1
    <3> QED BY <2>1, <3>2
  <2>6. ASSUME NEW s \in Range(q) PROVE s \in Range(r)
    <3>1. PICK i \in 1..n : q[i] = s
      BY <2>3
    <3>2. m + i \in 1..(m + n) /\ r[m + i] = s
      BY <1>1, <1>3, <3>1
    <3> QED BY <2>1, <3>2
  <2> QED BY <2>4, <2>5, <2>6
<1> QED BY <1>6, <1>7 DEF r

LEMMA RunOne ==
    ASSUME NEW s \in Seqs
    PROVE  Run(<<s>>, s, s + 1) /\ Range(<<s>>) = {s}
<1>1. s \in Nat
  BY Constants
<1>2. <<s>> \in Seq(Seqs) /\ Len(<<s>>) = 1 /\ <<s>>[1] = s
  OBVIOUS
<1>3. Range(<<s>>) = {s}
  <2>1. \A t : t \in Range(<<s>>) <=> \E i \in 1..1 : <<s>>[i] = t
    BY <1>2, RunRange
  <2> QED BY <1>2, <2>1
<1> QED BY <1>1, <1>2, <1>3 DEF Run

(* The packets of S in order. *)
LEMMA RunAscending ==
    ASSUME NEW S, S \subseteq Seqs, NEW a \in Nat, NEW b \in Nat,
           \A s \in S : a <= s /\ s < b
    PROVE  Run(Ascending(S), a, b) /\ Range(Ascending(S)) = S
<1> DEFINE q == Ascending(S)
<1>1. S \in SUBSET Nat /\ IsFiniteSet(S)
  BY SeqSets
<1>2. /\ q \in Seq(S) /\ q \in [1..Len(q) -> S] /\ Len(q) \in Nat
      /\ \A i, j \in 1..Len(q) : i < j => q[i] < q[j]
      /\ Range(q) = S
  BY <1>1, AscendingFacts
<1> HIDE DEF q
<1>3. q \in Seq(Seqs)
  BY <1>2
<1>4. \A i \in 1..Len(q) : q[i] \in S
  BY <1>2
<1>5. Run(q, a, b)
  BY <1>2, <1>3, <1>4 DEF Run
<1> QED BY <1>2, <1>5 DEF q

-----------------------------------------------------------------------------
(* A step on one flow *)

Results == {"none", "delivered", "buffered", "late", "limit", "far_ahead"}

Steps == [f : Flow, pool : Nat, out : Seq(Seqs), result : Results]

(* The ring of x is sound, the pool is rest, the bytes of the other flows, *)
(* and the bytes held, and since the flow expected e every packet of H has *)
(* been delivered or is held.                                              *)
Going(x, rest, e, H) ==
    /\ x \in Steps
    /\ Placed(x.f.buffer, x.f.expected)
    /\ Counted(x.f.buffer)
    /\ x.pool = rest + x.f.buffer.bytes
    /\ x.pool <= PoolBytes
    /\ e <= x.f.expected
    /\ Run(x.out, e, x.f.expected)
    /\ H \subseteq Held(x.f.buffer) \union Range(x.out)

(* A gap period is counted once, and packets are not held without one. *)
Half(f) ==
    /\ f.gaps = IF f.timer THEN 1 ELSE 0
    /\ Held(f.buffer) # {} => f.timer

Full(f) ==
    /\ f.gaps = IF f.timer THEN 1 ELSE 0
    /\ f.timer <=> Held(f.buffer) # {}

Settled(f) == f.expected \notin Held(f.buffer)

Kept(x, rest, e, H) ==
    /\ Going(x, rest, e, H)
    /\ Full(x.f)
    /\ Settled(x.f)
    /\ x.f.initialized

(* What the steps that deliver leave alone. *)
Same(x, y) ==
    /\ y.f.timer = x.f.timer /\ y.f.gaps = x.f.gaps
    /\ y.f.initialized = x.f.initialized /\ y.f.pass_through = x.f.pass_through
    /\ y.result = x.result

LEMMA Fields ==
    ASSUME NEW x \in Steps
    PROVE  /\ x.f \in Flow /\ x.pool \in Nat /\ x.out \in Seq(Seqs) /\ x.result \in Results
           /\ x.f.initialized \in BOOLEAN /\ x.f.expected \in Nat /\ x.f.buffer \in Ring
           /\ x.f.timer \in BOOLEAN /\ x.f.pass_through \in BOOLEAN
           /\ x.f.seen \in Nat /\ x.f.large \in Nat /\ x.f.gaps \in Int
  BY DEF Steps, Flow

(* Delivering the lowest packets held. *)
LEMMA DeliverHeldGoing ==
    ASSUME NEW x, NEW rest \in Nat, NEW e \in Nat, NEW H, Going(x, rest, e, H),
           NEW S, S \subseteq Held(x.f.buffer),
           \A t \in S : \A v \in Held(x.f.buffer) : v < t => v \in S
    PROVE  LET y == DeliverHeld(x, S)
           IN  /\ Going(y, rest, e, H) /\ Same(x, y)
               /\ Held(y.f.buffer) = Held(x.f.buffer) \ S
               /\ x.f.expected <= y.f.expected /\ y.pool <= x.pool
               /\ S = {} => y = x
               /\ S # {} => y.f.expected - 1 \in S
<1> DEFINE r == x.f.buffer
           d == x.f.expected
<1>f. x \in Steps /\ r \in Ring /\ d \in Nat /\ x.pool \in Nat /\ x.out \in Seq(Seqs) /\ x.f \in Flow
  BY Fields DEF Going
<1>g. Placed(r, d) /\ Counted(r) /\ x.pool = rest + r.bytes /\ x.pool <= PoolBytes /\ e <= d
      /\ Run(x.out, e, d) /\ H \subseteq Held(r) \union Range(x.out)
  BY DEF Going
<1>1. CASE S = {}
  BY <1>1, <1>f DEF DeliverHeld, Same
<1>2. CASE S # {}
  <2> DEFINE m == Max(S)
             y == DeliverHeld(x, S)
             z == RingRemove(r, S)
             b == BytesOf(r, S)
  <2>1. S \subseteq Seqs /\ IsFiniteSet(S) /\ S \in SUBSET Nat /\ b \in Nat
    <3> HIDE DEF r, d
    <3>1. S \subseteq Held(r)
      BY DEF r
    <3> QED BY SMTT(60), ZenonT(90), <1>f, <1>g, <3>1, Lengths
  <2>2. m \in S /\ \A t \in S : t <= m
    <3>1. \E k \in S : \A s \in S : k >= s
      BY <1>2, <2>1, <1>f, <1>g, HeldAt, GreatestNumber
    <3> QED
      BY <3>1, <2>1 DEF Max
  <2>3. m \in Nat /\ m \in Seqs /\ d <= m /\ m + 1 \in Nat
    <3>1. m \in Held(r) /\ m \in Seqs
      BY <2>1, <2>2
    <3>2. m \in Nat /\ d <= m
      BY <3>1, <1>f, <1>g, HeldAt
    <3> QED
      BY <3>1, <3>2
  <2>4. Placed(z, d) /\ Counted(z) /\ Held(z) = Held(r) \ S /\ z.bytes = r.bytes - b
    BY <1>f, <1>g, RemovePlaced
  <2>5. Placed(z, m + 1)
    <3>1. \A s \in Held(z) : m + 1 <= s
      <4> SUFFICES ASSUME NEW s \in Held(z) PROVE m + 1 <= s
        OBVIOUS
      <4>1. s \in Held(r) /\ s \notin S /\ s \in Nat
        BY <2>4, <1>f, <1>g, HeldAt
      <4>2. ~(s < m) /\ s # m
        BY <2>2, <4>1
      <4> QED
        BY <4>1, <4>2, <2>3
    <3> QED
      BY <2>4, <2>3, <1>f, <3>1, PlacedUp
  <2>6. b <= r.bytes /\ r.bytes \in Nat
    <3>1. BytesOf(r, Held(r)) = b + BytesOf(r, Held(r) \ S) /\ BytesOf(r, Held(r) \ S) \in Nat
      BY <1>f, <1>g, BytesSplit, Lengths
    <3>2. r.bytes = BytesOf(r, Held(r))
      BY <1>g DEF Counted
    <3> QED
      BY <2>1, <3>1, <3>2
  <2>7. PoolRelease(x.pool, b) = x.pool - b /\ x.pool - b = rest + z.bytes /\ x.pool - b \in Nat /\ x.pool - b <= PoolBytes
    BY SMTT(90), <1>f, <1>g, <2>1, <2>4, <2>6, Constants DEF PoolRelease
  <2>8. Run(Ascending(S), d, m + 1) /\ Range(Ascending(S)) = S
    <3>1. \A s \in S : d <= s /\ s < m + 1
      BY <2>1, <2>2, <2>3, <1>f, <1>g, HeldAt
    <3> QED
      BY <2>1, <2>3, <1>f, <3>1, RunAscending
  <2> DEFINE q == x.out \o Ascending(S)
  <2>9. Run(q, e, m + 1) /\ Range(q) = Range(x.out) \union S /\ q \in Seq(Seqs)
    <3>1. Run(q, e, m + 1) /\ Range(q) = Range(x.out) \union Range(Ascending(S))
      BY <1>f, <1>g, <2>3, <2>8, RunJoin
    <3> QED
      BY <3>1, <2>8 DEF Run
  <2> HIDE DEF q
  <2>10. y = [x EXCEPT !.out = q, !.pool = x.pool - b, !.f = [x.f EXCEPT !.expected = m + 1, !.buffer = z]]
    BY <1>2, <2>7 DEF DeliverHeld, q
  <2> HIDE DEF z, b, m, y
  <2>11. z \in Ring
    BY <2>4 DEF Placed
  <2>12. y.f \in Flow /\ y.f.expected = m + 1 /\ y.f.buffer = z /\ y.out = q /\ y.pool = x.pool - b /\ Same(x, y)
    BY <1>f, <2>3, <2>10, <2>11 DEF Steps, Flow, Same
  <2>13. y \in Steps
    BY <1>f, <2>7, <2>9, <2>10, <2>12 DEF Steps
  <2>14. H \subseteq Held(z) \union Range(q)
    BY <1>g, <2>4, <2>9
  <2>15. Going(y, rest, e, H)
    BY <1>f, <1>g, <2>3, <2>4, <2>5, <2>7, <2>9, <2>12, <2>13, <2>14 DEF Going
  <2>16. y.pool <= x.pool
    BY <1>f, <2>1, <2>12 DEF b
  <2> QED
    BY <2>15, <2>12, <2>4, <2>2, <2>3, <2>16, <1>2, <1>f DEF y
<1> QED
  BY <1>1, <1>2

(* The packets that follow expected without a hole. *)
LEMMA DrainGoing ==
    ASSUME NEW x, NEW rest \in Nat, NEW e \in Nat, NEW H, Going(x, rest, e, H)
    PROVE  LET y == DrainContiguous(x)
           IN  /\ Going(y, rest, e, H) /\ Same(x, y) /\ Settled(y.f)
               /\ Held(y.f.buffer) \subseteq Held(x.f.buffer)
               /\ x.f.expected <= y.f.expected /\ y.pool <= x.pool
<1> DEFINE r == x.f.buffer
           d == x.f.expected
           S == RunFrom(r, d)
           y == DrainContiguous(x)
<1>f. x \in Steps /\ r \in Ring /\ d \in Nat /\ r.size \in Nat /\ Placed(r, d)
  BY Fields, RingFields DEF Going
<1>1. \A s : s \in S <=> s \in d..(d + r.size) /\ \A u \in d..s : u \in Held(r)
  <2>1. \A u \in Nat : RingContains(r, u) <=> u \in Held(r)
    BY <1>f, Contains
  <2>2. ASSUME NEW s \in d..(d + r.size), NEW u \in d..s
        PROVE  u \in Nat
    BY <1>f
  <2>3. S = {s \in d..(d + r.size) : \A u \in d..s : RingContains(r, u)}
    BY DEF RunFrom
  <2>4. ASSUME NEW s
        PROVE  s \in S <=> s \in d..(d + r.size) /\ \A u \in d..s : u \in Held(r)
    <3>1. CASE s \in d..(d + r.size)
      BY <2>1, <2>2, <2>3, <3>1
    <3>2. CASE s \notin d..(d + r.size)
      BY <2>3, <3>2
    <3> QED
      BY <3>1, <3>2
  <2> QED
    BY <2>4
<1>2. S \subseteq Held(r)
  <2> SUFFICES ASSUME NEW s \in S PROVE s \in Held(r)
    OBVIOUS
  <2>1. s \in d..(d + r.size) /\ \A u \in d..s : u \in Held(r)
    BY <1>1
  <2>2. s \in d..s
    BY <2>1, <1>f
  <2> QED
    BY <2>1, <2>2
<1>3. ASSUME NEW t \in S, NEW v \in Held(r), v < t
      PROVE  v \in S
  <2>1. t \in d..(d + r.size) /\ \A u \in d..t : u \in Held(r)
    BY <1>1
  <2>2. v \in Nat /\ d <= v
    BY <1>f, HeldAt
  <2>3. v \in d..(d + r.size) /\ \A u \in d..v : u \in d..t
    BY <2>1, <2>2, <1>3, <1>f
  <2> QED
    BY <2>1, <2>3, <1>1
<1> HIDE DEF S
<1>4. /\ Going(y, rest, e, H) /\ Same(x, y) /\ Held(y.f.buffer) = Held(r) \ S
      /\ d <= y.f.expected /\ y.pool <= x.pool /\ (S = {} => y = x) /\ (S # {} => y.f.expected - 1 \in S)
  <2>1. y = DeliverHeld(x, S)
    BY DEF DrainContiguous, S
  <2> HIDE DEF y
  <2> QED
    BY <2>1, <1>2, <1>3, DeliverHeldGoing
<1>5. Settled(y.f)
  <2>1. SUFFICES ASSUME y.f.expected \in Held(y.f.buffer) PROVE FALSE
    BY DEF Settled
  <2> DEFINE v == y.f.expected
  <2>2. v \in Held(r) /\ v \notin S
    BY <2>1, <1>4
  <2>3. v \in Nat /\ d <= v /\ v < d + r.size
    BY <2>2, <1>f, HeldAt
  <2>4. CASE S = {}
    <3>1. v = d
      BY <1>4, <2>4
    <3>2. \A u \in d..v : u = v
      BY <3>1, <1>f
    <3> QED
      BY <1>1, <1>f, <2>2, <2>3, <3>2
  <2>5. CASE S # {}
    <3>1. v - 1 \in S
      BY <1>4, <2>5
    <3>2. \A u \in d..(v - 1) : u \in Held(r)
      BY <1>1, <3>1
    <3>3. \A u \in d..v : u \in d..(v - 1) \/ u = v
      BY <2>3, <1>f
    <3> QED
      BY <1>1, <1>f, <2>2, <2>3, <3>2, <3>3
  <2> QED
    BY <2>4, <2>5
<1> QED
  BY <1>4, <1>5

(* Giving up on what is missing before the lowest packet held. *)
LEMMA SkipGoing ==
    ASSUME NEW x, NEW rest \in Nat, NEW e \in Nat, NEW H, Going(x, rest, e, H)
    PROVE  LET y == SkipToLowestAndDrain(x)
           IN  /\ Going(y, rest, e, H) /\ Same(x, y) /\ Settled(y.f)
               /\ Held(y.f.buffer) \subseteq Held(x.f.buffer)
               /\ x.f.expected <= y.f.expected /\ y.pool <= x.pool
<1> DEFINE r == x.f.buffer
           d == x.f.expected
           m == LowestSeq(r, d)
           z == [x EXCEPT !.f = [x.f EXCEPT !.expected = m]]
<1>f. /\ x \in Steps /\ x.f \in Flow /\ r \in Ring /\ d \in Nat /\ r.size \in Nat /\ Placed(r, d)
      /\ Run(x.out, e, d) /\ e <= d /\ H \subseteq Held(r) \union Range(x.out)
      /\ Counted(r) /\ x.pool = rest + r.bytes /\ x.pool <= PoolBytes
  BY Fields, RingFields DEF Going
<1>1. m \in Nat /\ d <= m /\ \A s \in Held(r) : m <= s
  <2> DEFINE F == {s \in d..(d + r.size - 1) : RingContains(r, s)}
  <2>1. F \subseteq Nat /\ \A s \in F : d <= s
    BY <1>f
  <2>2. \A s \in Held(r) : s \in F
    <3> SUFFICES ASSUME NEW s \in Held(r) PROVE s \in F
      OBVIOUS
    <3>1. s \in Nat /\ d <= s /\ s < d + r.size
      BY <1>f, HeldAt
    <3>2. RingContains(r, s)
      BY <3>1, <1>f, Contains
    <3> QED
      BY <3>1, <3>2, <1>f
  <2>3. m = IF F = {} THEN d ELSE Min(F)
    BY DEF LowestSeq
  <2>4. CASE F = {}
    BY <2>2, <2>3, <2>4, <1>f
  <2>5. CASE F # {}
    <3>1. \E a \in F : \A b \in F : a <= b
      BY <2>1, <2>5, LeastNumber
    <3> HIDE DEF F
    <3>2. Min(F) \in F /\ \A b \in F : Min(F) <= b
      BY <3>1 DEF Min
    <3> QED
      BY <2>1, <2>2, <2>3, <2>5, <3>2
  <2> QED
    BY <2>4, <2>5
<1> HIDE DEF m
<1>2. z \in Steps /\ z.f.expected = m /\ z.f.buffer = r /\ z.pool = x.pool /\ z.out = x.out /\ Same(x, z)
  BY <1>f, <1>1 DEF Steps, Flow, Same
<1>3. Placed(r, m)
  BY <1>f, <1>1, PlacedUp
<1>4. Run(x.out, e, m)
  BY <1>f, <1>1, RunUp
<1>5. Going(z, rest, e, H)
  BY <1>f, <1>1, <1>2, <1>3, <1>4 DEF Going
<1>6. SkipToLowestAndDrain(x) = DrainContiguous(z)
  BY DEF SkipToLowestAndDrain, m
<1> HIDE DEF z
<1> QED
  <2> DEFINE y == DrainContiguous(z)
  <2>1. /\ Going(y, rest, e, H) /\ Same(z, y) /\ Settled(y.f)
        /\ Held(y.f.buffer) \subseteq Held(z.f.buffer) /\ z.f.expected <= y.f.expected
        /\ y.pool <= z.pool
    BY <1>5, DrainGoing
  <2>2. y.f.expected \in Nat
    BY <2>1, Fields DEF Going
  <2>3. Same(x, y)
    BY <1>2, <2>1 DEF Same
  <2>4. x.f.expected <= y.f.expected
    BY <1>1, <1>2, <1>f, <2>1, <2>2
  <2> QED
    BY <1>2, <1>6, <2>1, <2>3, <2>4

LEMMA WithFlow ==
    ASSUME NEW x \in Steps, NEW h \in Flow
    PROVE  LET y == [x EXCEPT !.f = h]
           IN  /\ y \in Steps /\ y.f = h
               /\ y.pool = x.pool /\ y.out = x.out /\ y.result = x.result
  BY DEF Steps

Timed(f, b, g) == [f EXCEPT !.timer = b, !.gaps = g]

LEMMA TimerFields ==
    ASSUME NEW f \in Flow, NEW b \in BOOLEAN, NEW g \in Int
    PROVE  LET h == Timed(f, b, g)
           IN  /\ h \in Flow /\ h.timer = b /\ h.gaps = g
               /\ h.buffer = f.buffer /\ h.expected = f.expected
               /\ h.initialized = f.initialized /\ h.pass_through = f.pass_through
  BY DEF Flow, Timed

(* Ending a period and starting one. *)
LEMMA EndGoing ==
    ASSUME NEW x, NEW rest \in Nat, NEW e \in Nat, NEW H, Going(x, rest, e, H), Half(x.f)
    PROVE  LET y == EndPeriod(x)
           IN  /\ Going(y, rest, e, H) /\ y.f.timer = FALSE /\ y.f.gaps = 0
               /\ y.f.buffer = x.f.buffer /\ y.f.expected = x.f.expected
               /\ y.pool = x.pool /\ y.out = x.out /\ y.result = x.result
               /\ y.f.initialized = x.f.initialized /\ y.f.pass_through = x.f.pass_through
<1> DEFINE g == IF x.f.timer THEN x.f.gaps - 1 ELSE x.f.gaps
           y == EndPeriod(x)
<1>1. x \in Steps /\ x.f \in Flow /\ x.f.gaps \in Int
  BY Fields DEF Going
<1>2. g = 0
  BY <1>1 DEF Half
<1>3. y = [x EXCEPT !.f = Timed(x.f, FALSE, 0)]
  <2>1. y = [x EXCEPT !.f = Timed(x.f, FALSE, g)]
    BY <1>1 DEF EndPeriod, StopTimer, Steps, Flow, Timed
  <2> QED
    BY <1>2, <2>1
<1> DEFINE h == Timed(x.f, FALSE, 0)
<1>4. /\ h \in Flow /\ h.timer = FALSE /\ h.gaps = 0
      /\ h.buffer = x.f.buffer /\ h.expected = x.f.expected
      /\ h.initialized = x.f.initialized /\ h.pass_through = x.f.pass_through
  <2>1. FALSE \in BOOLEAN /\ 0 \in Int /\ x.f \in Flow
    BY <1>1
  <2> QED
    BY <2>1, TimerFields, Zenon
<1> HIDE DEF y, h
<1>5. y = [x EXCEPT !.f = h]
  BY <1>3 DEF h
<1>6. y \in Steps /\ y.f = h /\ y.pool = x.pool /\ y.out = x.out /\ y.result = x.result
  BY <1>1, <1>4, <1>5, WithFlow
<1> QED
  <2>1. Going(y, rest, e, H)
    BY <1>4, <1>6 DEF Going
  <2> QED
    BY <1>4, <1>6, <2>1 DEF y

LEMMA ArmGoing ==
    ASSUME NEW x, NEW rest \in Nat, NEW e \in Nat, NEW H, Going(x, rest, e, H),
           x.f.gaps = 0
    PROVE  LET y == ArmTimer(x)
           IN  /\ Going(y, rest, e, H) /\ y.f.timer = TRUE /\ y.f.gaps = 1
               /\ y.f.buffer = x.f.buffer /\ y.f.expected = x.f.expected
               /\ y.pool = x.pool /\ y.out = x.out /\ y.result = x.result
               /\ y.f.initialized = x.f.initialized /\ y.f.pass_through = x.f.pass_through
<1> DEFINE y == ArmTimer(x)
<1>1. x \in Steps /\ x.f \in Flow /\ x.f.gaps \in Int
  BY Fields DEF Going
<1>2. y = [x EXCEPT !.f = Timed(x.f, TRUE, 1)]
  <2>1. x.f.gaps + 1 = 1
    OBVIOUS
  <2> QED
    BY <1>1, <2>1 DEF ArmTimer, Steps, Flow, Timed
<1> DEFINE h == Timed(x.f, TRUE, 1)
<1>3. /\ h \in Flow /\ h.timer = TRUE /\ h.gaps = 1
      /\ h.buffer = x.f.buffer /\ h.expected = x.f.expected
      /\ h.initialized = x.f.initialized /\ h.pass_through = x.f.pass_through
  <2>1. TRUE \in BOOLEAN /\ 1 \in Int /\ x.f \in Flow
    BY <1>1
  <2> QED
    BY <2>1, TimerFields, Zenon
<1> HIDE DEF y, h
<1>5. y = [x EXCEPT !.f = h]
  BY <1>2 DEF h
<1>6. y \in Steps /\ y.f = h /\ y.pool = x.pool /\ y.out = x.out /\ y.result = x.result
  BY <1>1, <1>3, <1>5, WithFlow
<1> QED
  <2>1. Going(y, rest, e, H)
    BY <1>3, <1>6 DEF Going
  <2> QED
    BY <1>3, <1>6, <2>1 DEF y

LEMMA CountHeld ==
    ASSUME NEW x, NEW rest, NEW e, NEW H, Going(x, rest, e, H)
    PROVE  x.f.buffer.count = 0 <=> Held(x.f.buffer) = {}
<1>1. x.f.expected \in Nat /\ Placed(x.f.buffer, x.f.expected) /\ Counted(x.f.buffer)
  BY Fields DEF Going
<1> QED
  BY <1>1, EmptyCount

(* A period that nothing is held for ends. *)
LEMMA CloseKept ==
    ASSUME NEW x, NEW rest \in Nat, NEW e \in Nat, NEW H, Going(x, rest, e, H),
           Half(x.f), Settled(x.f), x.f.initialized
    PROVE  LET y == IF x.f.buffer.count = 0 THEN EndPeriod(x) ELSE x
           IN  /\ Kept(y, rest, e, H)
               /\ y.f.expected = x.f.expected /\ y.f.buffer = x.f.buffer
               /\ y.result = x.result
<1>1. CASE x.f.buffer.count = 0
  <2> DEFINE y == EndPeriod(x)
  <2>1. /\ Going(y, rest, e, H) /\ y.f.timer = FALSE /\ y.f.gaps = 0
        /\ y.f.buffer = x.f.buffer /\ y.f.expected = x.f.expected
        /\ y.result = x.result /\ y.f.initialized = x.f.initialized
    BY EndGoing
  <2>2. Held(x.f.buffer) = {}
    BY <1>1, CountHeld
  <2> HIDE DEF y
  <2>3. Kept(y, rest, e, H)
    BY <2>1, <2>2 DEF Kept, Full, Settled
  <2> QED
    BY <1>1, <2>1, <2>3 DEF y
<1>2. CASE x.f.buffer.count # 0
  <2>1. Held(x.f.buffer) # {}
    BY <1>2, CountHeld
  <2>2. Full(x.f)
    BY <2>1 DEF Half, Full
  <2> QED
    BY <1>2, <2>2 DEF Kept
<1> QED
  BY <1>1, <1>2

LEMMA ResultKept ==
    ASSUME NEW x, NEW rest, NEW e, NEW H, Kept(x, rest, e, H), NEW r \in Results
    PROVE  LET y == Result(x, r)
           IN  /\ Kept(y, rest, e, H) /\ y.f = x.f /\ y.pool = x.pool
               /\ y.out = x.out /\ y.result = r
<1> DEFINE y == Result(x, r)
<1>1. x \in Steps
  BY DEF Kept, Going
<1>2. y \in Steps /\ y.f = x.f /\ y.pool = x.pool /\ y.out = x.out /\ y.result = r
  BY <1>1 DEF Result, Steps
<1> HIDE DEF y
<1>3. Kept(y, rest, e, H)
  BY <1>2 DEF Kept, Going
<1> QED
  BY <1>2, <1>3 DEF y

(* The gap timer runs out: the period ends, and if packets are still held  *)
(* the next one starts.                                                    *)
LEMMA TimeoutKept ==
    ASSUME NEW x, NEW rest \in Nat, NEW e \in Nat, NEW H, Kept(x, rest, e, H), x.f.timer
    PROVE  Kept(OnGapTimeout(x), rest, e, H) /\ OnGapTimeout(x).pool <= x.pool
<1> DEFINE z == SkipToLowestAndDrain(x)
           y == EndPeriod(z)
<1>1. Going(x, rest, e, H) /\ Full(x.f) /\ x.f.initialized
  BY DEF Kept
<1>2. Held(x.f.buffer) # {} /\ x.f.buffer.count # 0
  BY <1>1, CountHeld DEF Full
<1>3. /\ Going(z, rest, e, H) /\ Same(x, z) /\ Settled(z.f)
      /\ Held(z.f.buffer) \subseteq Held(x.f.buffer) /\ z.pool <= x.pool
  BY <1>1, SkipGoing
<1> HIDE DEF z
<1>4. Half(z.f) /\ z.f.initialized
  BY <1>1, <1>3 DEF Half, Full, Same
<1>5. /\ Going(y, rest, e, H) /\ y.f.timer = FALSE /\ y.f.gaps = 0
      /\ y.f.buffer = z.f.buffer /\ y.f.expected = z.f.expected
      /\ y.f.initialized = z.f.initialized /\ y.pool = z.pool
  BY <1>3, <1>4, EndGoing
<1>6. OnGapTimeout(x) = IF y.f.buffer.count = 0 THEN y ELSE ArmTimer(y)
  BY <1>2 DEF OnGapTimeout, z
<1> HIDE DEF y
<1>7. CASE y.f.buffer.count = 0
  <2>1. Held(y.f.buffer) = {}
    BY <1>5, <1>7, CountHeld
  <2> QED
    BY <1>3, <1>4, <1>5, <1>6, <1>7, <2>1 DEF Kept, Full, Settled
<1>8. CASE y.f.buffer.count # 0
  <2> DEFINE a == ArmTimer(y)
  <2>1. Held(y.f.buffer) # {}
    BY <1>5, <1>8, CountHeld
  <2>2. /\ Going(a, rest, e, H) /\ a.f.timer = TRUE /\ a.f.gaps = 1
        /\ a.f.buffer = y.f.buffer /\ a.f.expected = y.f.expected
        /\ a.f.initialized = y.f.initialized /\ a.pool = y.pool
    BY <1>5, ArmGoing
  <2> HIDE DEF a
  <2>3. Kept(a, rest, e, H)
    BY <1>3, <1>4, <1>5, <2>1, <2>2 DEF Kept, Full, Settled
  <2> QED
    BY <1>3, <1>5, <1>6, <1>8, <2>2, <2>3 DEF a
<1> QED
  BY <1>7, <1>8

(* A flush for space keeps the period unless it empties the ring. *)
LEMMA FlushKept ==
    ASSUME NEW x, NEW rest \in Nat, NEW e \in Nat, NEW H, Kept(x, rest, e, H)
    PROVE  Kept(OverflowFlush(x), rest, e, H)
<1> DEFINE z == SkipToLowestAndDrain(x)
<1>1. Going(x, rest, e, H) /\ Full(x.f) /\ x.f.initialized
  BY DEF Kept
<1>3. /\ Going(z, rest, e, H) /\ Same(x, z) /\ Settled(z.f)
      /\ Held(z.f.buffer) \subseteq Held(x.f.buffer)
  BY <1>1, SkipGoing
<1> HIDE DEF z
<1>4. Half(z.f) /\ z.f.initialized
  BY <1>1, <1>3 DEF Half, Full, Same
<1>5. OverflowFlush(x) = IF z.f.buffer.count = 0 THEN EndPeriod(z) ELSE z
  BY DEF OverflowFlush, z
<1> QED
  BY <1>3, <1>4, <1>5, CloseKept

(* The packet the flow waits for is delivered, with those that follow it. *)
LEMMA InOrderKept ==
    ASSUME NEW x, NEW rest \in Nat, NEW e \in Nat, NEW H, Kept(x, rest, e, H),
           NEW s \in Seqs, s = x.f.expected
    PROVE  Kept(InOrder(x, s), rest, e, H) /\ InOrder(x, s).result = "delivered"
<1> DEFINE r == x.f.buffer
           c == DeliverCurrent(x, s)
           y == DrainContiguous(c)
           z == IF y.f.buffer.count = 0 THEN EndPeriod(y) ELSE y
<1>1. /\ Going(x, rest, e, H) /\ Full(x.f) /\ x.f.initialized /\ Settled(x.f)
      /\ x \in Steps /\ x.f \in Flow /\ x.out \in Seq(Seqs) /\ x.pool \in Nat
      /\ Placed(r, s) /\ Counted(r) /\ Run(x.out, e, s) /\ e <= s
      /\ H \subseteq Held(r) \union Range(x.out)
      /\ x.pool = rest + r.bytes /\ x.pool <= PoolBytes
  BY Fields DEF Kept, Going
<1>2. s \in Nat /\ s + 1 \in Nat
  BY Constants
<1>3. Placed(r, s + 1)
  <2>1. \A t \in Held(r) : s + 1 <= t
    <3> SUFFICES ASSUME NEW t \in Held(r) PROVE s + 1 <= t
      OBVIOUS
    <3>1. t \in Nat /\ s <= t
      BY <1>1, <1>2, HeldAt
    <3>2. t # s
      BY <1>1 DEF Settled
    <3> QED
      BY <1>2, <3>1, <3>2
  <2> QED
    BY <1>1, <1>2, <2>1, PlacedUp
<1> DEFINE q == x.out \o <<s>>
<1>4. Run(q, e, s + 1) /\ Range(q) = Range(x.out) \union {s} /\ q \in Seq(Seqs)
  <2>1. Run(<<s>>, s, s + 1) /\ Range(<<s>>) = {s}
    BY RunOne
  <2>2. Run(q, e, s + 1) /\ Range(q) = Range(x.out) \union Range(<<s>>)
    BY <1>1, <1>2, <2>1, RunJoin
  <2> QED
    BY <2>1, <2>2 DEF Run
<1>5. c = [x EXCEPT !.out = q, !.f = [x.f EXCEPT !.expected = s + 1]]
  <2>1. Append(x.out, s) = q
    BY SMTT(90), <1>1
  <2> QED
    BY <1>1, <2>1 DEF DeliverCurrent
<1> HIDE DEF q, c
<1>6. /\ c.f \in Flow /\ c.f.expected = s + 1 /\ c.f.buffer = r /\ c.out = q /\ c.pool = x.pool
      /\ c.f.timer = x.f.timer /\ c.f.gaps = x.f.gaps /\ c.f.initialized = x.f.initialized
  BY <1>1, <1>2, <1>5 DEF Steps, Flow
<1>7. c \in Steps
  BY <1>1, <1>4, <1>5, <1>6 DEF Steps
<1>8. Going(c, rest, e, H)
  <2>1. H \subseteq Held(r) \union Range(q)
    BY <1>1, <1>4
  <2> QED
    BY <1>1, <1>2, <1>3, <1>4, <1>6, <1>7, <2>1 DEF Going
<1>9. /\ Going(y, rest, e, H) /\ Same(c, y) /\ Settled(y.f)
      /\ Held(y.f.buffer) \subseteq Held(c.f.buffer)
  BY <1>8, DrainGoing
<1> HIDE DEF y
<1>10. Half(y.f) /\ y.f.initialized
  BY <1>1, <1>6, <1>9 DEF Half, Full, Same
<1>11. Kept(z, rest, e, H)
  BY <1>9, <1>10, CloseKept
<1>12. InOrder(x, s) = Result(z, "delivered")
  BY DEF InOrder, y, c
<1> HIDE DEF z
<1> QED
  BY <1>11, <1>12, ResultKept DEF Results

(* A packet above expected is held. *)
LEMMA InsertKept ==
    ASSUME NEW x, NEW rest \in Nat, NEW e \in Nat, NEW H, Kept(x, rest, e, H),
           NEW s \in Seqs, NEW len \in Lens, NEW ok \in BOOLEAN,
           x.f.expected < s, ~FarAhead(s, x.f.expected), s \notin Held(x.f.buffer),
           ~PoolWouldExhaust(x, len)
    PROVE  Kept(BufferInsertCommitted(x, s, len, ok), rest, e, H)
<1> DEFINE r == x.f.buffer
           d == x.f.expected
<1>1. /\ Going(x, rest, e, H) /\ Full(x.f) /\ x.f.initialized /\ Settled(x.f)
      /\ x \in Steps /\ x.f \in Flow /\ x.out \in Seq(Seqs) /\ x.pool \in Nat /\ d \in Nat /\ r \in Ring
      /\ Placed(r, d) /\ Counted(r) /\ Run(x.out, e, d) /\ e <= d
      /\ H \subseteq Held(r) \union Range(x.out)
      /\ x.pool = rest + r.bytes /\ x.pool <= PoolBytes
  BY Fields DEF Kept, Going
<1>2. s \in Nat /\ len \in Nat /\ s - d < Cap /\ r.bytes \in Int
  BY <1>1, Constants, RingFields DEF FarAhead
<1>3. CASE ~ok
  BY <1>3, ResultKept DEF BufferInsertCommitted, Results
<1>4. CASE ok
  <2> DEFINE z == RingInsert(r, s, len, d)
             p == x.pool + len
             y == [x EXCEPT !.f = [x.f EXCEPT !.buffer = z], !.pool = p]
             a == IF r.count = 0 THEN ArmTimer(y) ELSE y
  <2>1. Placed(z, d) /\ Counted(z) /\ Held(z) = Held(r) \union {s} /\ z.bytes = r.bytes + len
    BY SMTT(90), <1>1, <1>2, InsertPlaced
  <2>2. p \in Nat /\ p <= PoolBytes /\ p = rest + z.bytes
    <3> HIDE DEF z
    <3>1. x.pool + len <= PoolBytes
      BY SMTT(90), <1>1, <1>2, Constants DEF PoolWouldExhaust
    <3>2. x.pool = rest + r.bytes /\ z.bytes = r.bytes + len /\ x.pool \in Nat
      BY <1>1, <2>1
    <3> HIDE DEF r
    <3>3. p \in Nat /\ p = rest + z.bytes
      BY <1>2, <3>2
    <3> QED
      BY <3>1, <3>3
  <2>3. BufferInsertCommitted(x, s, len, ok) = Result(a, "buffered")
    BY <1>4 DEF BufferInsertCommitted
  <2> HIDE DEF z, p
  <2>4. z \in Ring
    BY <2>1 DEF Placed
  <2>5. /\ y \in Steps /\ y.f \in Flow /\ y.f.expected = d /\ y.f.buffer = z /\ y.out = x.out /\ y.pool = p
        /\ y.f.timer = x.f.timer /\ y.f.gaps = x.f.gaps /\ y.f.initialized = x.f.initialized
    BY <1>1, <2>2, <2>4 DEF Steps, Flow
  <2> HIDE DEF y
  <2>6. Going(y, rest, e, H)
    <3>1. H \subseteq Held(z) \union Range(x.out)
      BY <1>1, <2>1
    <3> QED
      BY <1>1, <2>1, <2>2, <2>5, <3>1 DEF Going
  <2>7. Settled(y.f)
    BY <1>1, <1>2, <2>1, <2>5 DEF Settled
  <2>8. Kept(a, rest, e, H)
    <3>1. CASE r.count = 0
      <4>1. Held(r) = {} /\ ~x.f.timer /\ x.f.gaps = 0
        BY <1>1, <3>1, CountHeld DEF Full
      <4> DEFINE b == ArmTimer(y)
      <4>2. /\ Going(b, rest, e, H) /\ b.f.timer = TRUE /\ b.f.gaps = 1
            /\ b.f.buffer = y.f.buffer /\ b.f.expected = y.f.expected
            /\ b.f.initialized = y.f.initialized
        BY <2>5, <2>6, <4>1, ArmGoing
      <4> HIDE DEF b
      <4>3. Kept(b, rest, e, H)
        BY <1>1, <2>1, <2>5, <2>7, <4>2 DEF Kept, Full, Settled
      <4> QED
        BY <3>1, <4>3 DEF b
    <3>2. CASE r.count # 0
      <4>1. Held(r) # {}
        BY <1>1, <3>2, CountHeld
      <4>2. Full(y.f)
        BY <1>1, <2>1, <2>5, <4>1 DEF Full
      <4> QED
        BY <1>1, <2>5, <2>6, <2>7, <3>2, <4>2 DEF Kept
    <3> QED
      BY <3>1, <3>2
  <2> HIDE DEF a
  <2> QED
    BY <2>3, <2>8, ResultKept DEF Results
<1> QED
  BY <1>3, <1>4

(* "buffered" asks for admission only of a packet that has room in the     *)
(* window and is not there yet.                                            *)
LEMMA ReclassifyKept ==
    ASSUME NEW x, NEW rest \in Nat, NEW e \in Nat, NEW H, Kept(x, rest, e, H), NEW s \in Seqs
    PROVE  LET y == ReclassifyAfterFlush(x, s)
           IN  /\ Kept(y, rest, e, H)
               /\ y.result = "buffered" => /\ y.f.expected < s /\ ~FarAhead(s, y.f.expected)
                                           /\ s \notin Held(y.f.buffer)
<1> DEFINE d == x.f.expected
           y == ReclassifyAfterFlush(x, s)
<1>1. d \in Nat /\ s \in Nat /\ Placed(x.f.buffer, d)
  BY Fields, Constants DEF Kept, Going
<1>2. CASE s < d
  <2>1. y = Result(x, "late")
    BY <1>1, <1>2 DEF ReclassifyAfterFlush
  <2> QED
    BY <2>1, ResultKept DEF Results
<1>3. CASE s = d
  <2>1. y = InOrder(x, s)
    BY <1>1, <1>3 DEF ReclassifyAfterFlush
  <2> QED
    BY <1>3, <2>1, InOrderKept
<1>4. CASE s > d /\ FarAhead(s, d)
  <2>1. y = Result(x, "far_ahead")
    BY <1>1, <1>4 DEF ReclassifyAfterFlush
  <2> QED
    BY <2>1, ResultKept DEF Results
<1>5. CASE s > d /\ ~FarAhead(s, d)
  <2>1. RingContains(x.f.buffer, s) <=> s \in Held(x.f.buffer)
    BY <1>1, Contains
  <2>2. CASE s \in Held(x.f.buffer)
    <3>1. y = Result(x, "limit")
      BY <1>1, <1>5, <2>1, <2>2 DEF ReclassifyAfterFlush
    <3> QED
      BY <3>1, ResultKept DEF Results
  <2>3. CASE s \notin Held(x.f.buffer)
    <3>1. y = Result(x, "buffered")
      BY <1>1, <1>5, <2>1, <2>3 DEF ReclassifyAfterFlush
    <3>2. Kept(y, rest, e, H) /\ y.f = x.f
      BY <3>1, ResultKept DEF Results
    <3> QED
      BY <1>1, <1>5, <2>3, <3>2
  <2> QED
    BY <2>2, <2>3
<1> QED
  BY <1>1, <1>2, <1>3, <1>4, <1>5

LEMMA PoolAdmitKept ==
    ASSUME NEW x, NEW rest \in Nat, NEW e \in Nat, NEW H, Kept(x, rest, e, H),
           NEW s \in Seqs, NEW len \in Lens, NEW ok \in BOOLEAN,
           x.f.expected < s, ~FarAhead(s, x.f.expected), s \notin Held(x.f.buffer)
    PROVE  Kept(PoolAdmit(x, s, len, ok), rest, e, H)
<1> DEFINE z == OverflowFlush(x)
           y == ReclassifyAfterFlush(z, s)
           a == PoolAdmit(x, s, len, ok)
<1>1. CASE ~PoolWouldExhaust(x, len)
  <2>1. a = BufferInsertCommitted(x, s, len, ok)
    BY <1>1 DEF PoolAdmit
  <2> QED
    BY <1>1, <2>1, InsertKept
<1>2. CASE PoolWouldExhaust(x, len) /\ x.f.buffer.count = 0
  <2>1. a = Result(x, "limit")
    BY <1>2 DEF PoolAdmit
  <2> QED
    BY <2>1, ResultKept DEF Results
<1>3. CASE PoolWouldExhaust(x, len) /\ x.f.buffer.count # 0
  <2>1. Kept(z, rest, e, H)
    BY FlushKept
  <2> HIDE DEF z
  <2>2. /\ Kept(y, rest, e, H)
        /\ y.result = "buffered" => /\ y.f.expected < s /\ ~FarAhead(s, y.f.expected)
                                    /\ s \notin Held(y.f.buffer)
    BY <2>1, ReclassifyKept
  <2>3. a = IF y.result # "buffered" THEN y
            ELSE IF PoolWouldExhaust(y, len) THEN Result(y, "limit")
            ELSE BufferInsertCommitted(y, s, len, ok)
    BY <1>3 DEF PoolAdmit, z
  <2> HIDE DEF y, a
  <2>4. CASE y.result # "buffered"
    BY <2>2, <2>3, <2>4 DEF a
  <2>5. CASE y.result = "buffered" /\ PoolWouldExhaust(y, len)
    <3>1. Kept(Result(y, "limit"), rest, e, H)
      BY <2>2, ResultKept DEF Results
    <3> QED
      BY <2>3, <2>5, <3>1 DEF a
  <2>6. CASE y.result = "buffered" /\ ~PoolWouldExhaust(y, len)
    <3>1. Kept(BufferInsertCommitted(y, s, len, ok), rest, e, H)
      BY <2>2, <2>6, InsertKept
    <3> QED
      BY <2>3, <2>6, <3>1 DEF a
  <2> QED
    BY <2>4, <2>5, <2>6
<1> QED
  BY <1>1, <1>2, <1>3

LEMMA BufferAdmitKept ==
    ASSUME NEW x, NEW rest \in Nat, NEW e \in Nat, NEW H, Kept(x, rest, e, H),
           NEW s \in Seqs, NEW len \in Lens, NEW ok \in BOOLEAN,
           x.f.expected < s, ~FarAhead(s, x.f.expected)
    PROVE  Kept(BufferAdmit(x, s, len, ok), rest, e, H)
<1> DEFINE z == OverflowFlush(x)
           y == ReclassifyAfterFlush(z, s)
           a == BufferAdmit(x, s, len, ok)
<1>1. RingContains(x.f.buffer, s) <=> s \in Held(x.f.buffer)
  BY Fields, Constants, Contains DEF Kept, Going
<1>2. CASE RingContains(x.f.buffer, s)
  <2>1. a = Result(x, "limit")
    BY <1>2 DEF BufferAdmit
  <2> QED
    BY <2>1, ResultKept DEF Results
<1>5. CASE ~RingContains(x.f.buffer, s) /\ WouldExceedPerFlowLimits(x.f, len) /\ x.f.buffer.count = 0
  <2>1. a = Result(x, "limit")
    BY <1>5 DEF BufferAdmit
  <2> QED
    BY <2>1, ResultKept DEF Results
<1>3. CASE ~RingContains(x.f.buffer, s) /\ ~WouldExceedPerFlowLimits(x.f, len)
  <2>1. a = PoolAdmit(x, s, len, ok)
    BY <1>3 DEF BufferAdmit
  <2> QED
    BY <1>1, <1>3, <2>1, PoolAdmitKept
<1>4. CASE ~RingContains(x.f.buffer, s) /\ WouldExceedPerFlowLimits(x.f, len) /\ x.f.buffer.count # 0
  <2>1. Kept(z, rest, e, H)
    BY FlushKept
  <2> HIDE DEF z
  <2>2. /\ Kept(y, rest, e, H)
        /\ y.result = "buffered" => /\ y.f.expected < s /\ ~FarAhead(s, y.f.expected)
                                    /\ s \notin Held(y.f.buffer)
    BY <2>1, ReclassifyKept
  <2>3. a = IF y.result # "buffered" THEN y ELSE PoolAdmit(y, s, len, ok)
    BY <1>4 DEF BufferAdmit, z
  <2> HIDE DEF y, a
  <2>4. CASE y.result # "buffered"
    BY <2>2, <2>3, <2>4 DEF a
  <2>5. CASE y.result = "buffered"
    <3>1. Kept(PoolAdmit(y, s, len, ok), rest, e, H)
      BY <2>2, <2>5, PoolAdmitKept
    <3> QED
      BY <2>3, <2>5, <3>1 DEF a
  <2> QED
    BY <2>4, <2>5
<1> HIDE DEF a, y, z
<1> QED
  BY <1>2, <1>3, <1>4, <1>5

LEMMA ProcessKept ==
    ASSUME NEW x, NEW rest \in Nat, NEW e \in Nat, NEW H, Kept(x, rest, e, H),
           NEW s \in Seqs, NEW len \in Lens, NEW ok \in BOOLEAN
    PROVE  Kept(ProcessReorderPacket(x, s, len, ok), rest, e, H)
<1> DEFINE d == x.f.expected
           a == ProcessReorderPacket(x, s, len, ok)
<1>1. d \in Nat /\ s \in Nat /\ x.f.initialized
  BY Fields, Constants DEF Kept, Going
<1>2. CASE s = d
  <2>1. a = InOrder(x, s)
    BY <1>1, <1>2 DEF ProcessReorderPacket
  <2> QED
    BY <1>2, <2>1, InOrderKept
<1>3. CASE s < d
  <2>1. a = Result(x, "late")
    BY <1>1, <1>3 DEF ProcessReorderPacket
  <2> QED
    BY <2>1, ResultKept DEF Results
<1>4. CASE s > d /\ FarAhead(s, d)
  <2>1. a = Result(x, "far_ahead")
    BY <1>1, <1>4 DEF ProcessReorderPacket
  <2> QED
    BY <2>1, ResultKept DEF Results
<1>5. CASE s > d /\ ~FarAhead(s, d)
  <2>1. a = BufferAdmit(x, s, len, ok)
    BY <1>1, <1>5 DEF ProcessReorderPacket
  <2>2. d < s
    BY <1>1, <1>5
  <2> QED
    BY <1>5, <2>1, <2>2, BufferAdmitKept
<1> QED
  BY <1>1, <1>2, <1>3, <1>4, <1>5

(* The classifier and the demotion of a flow. *)
LEMMA ClassifyKept ==
    ASSUME NEW x, NEW rest, NEW e, NEW H, Kept(x, rest, e, H), NEW len
    PROVE  Kept(ClassifyUpdate(x, len), rest, e, H)
<1>1. CASE x.f.seen >= Window
  BY <1>1 DEF ClassifyUpdate
<1>2. CASE ~(x.f.seen >= Window)
  <2> DEFINE l == IF InnerUdpPayloadLen(len) >= SmallThreshold THEN x.f.large + 1 ELSE x.f.large
             n == x.f.seen + 1
             h == [x.f EXCEPT !.seen = n, !.large = l]
             y == [x EXCEPT !.f = h]
  <2>1. x \in Steps /\ x.f \in Flow /\ l \in Nat /\ n \in Nat
    BY Fields DEF Kept, Going
  <2>2. ClassifyUpdate(x, len) = y
    BY <1>2, <2>1 DEF ClassifyUpdate, Steps, Flow
  <2> HIDE DEF l, n
  <2>3. /\ h \in Flow /\ h.expected = x.f.expected /\ h.buffer = x.f.buffer /\ h.timer = x.f.timer
        /\ h.gaps = x.f.gaps /\ h.initialized = x.f.initialized
    BY <2>1 DEF Flow
  <2> HIDE DEF h
  <2>4. y \in Steps /\ y.f = h /\ y.pool = x.pool /\ y.out = x.out
    BY <2>1, <2>3, WithFlow
  <2> HIDE DEF y
  <2> QED
    BY <2>2, <2>3, <2>4 DEF Kept, Going, Full, Settled
<1> QED
  BY <1>1, <1>2

(* A ring that holds nothing may be freed. *)
LEMMA FreedRing ==
    ASSUME NEW x, NEW rest \in Nat, NEW e \in Nat, NEW H, Going(x, rest, e, H),
           Held(x.f.buffer) = {}
    PROVE  LET y == [x EXCEPT !.f = [x.f EXCEPT !.buffer = NewRing]]
           IN  /\ Going(y, rest, e, H) /\ Same(x, y) /\ y.f.buffer = NewRing
               /\ y.pool = rest /\ y.f.expected = x.f.expected /\ y.out = x.out
<1> DEFINE h == [x.f EXCEPT !.buffer = NewRing]
           y == [x EXCEPT !.f = h]
<1>1. x \in Steps /\ x.f \in Flow /\ x.f.expected \in Nat
  BY Fields DEF Going
<1>2. NewRing \in Ring /\ Held(NewRing) = {} /\ Placed(NewRing, x.f.expected) /\ Counted(NewRing)
      /\ NewRing.bytes = 0
  BY <1>1, NewRingPlaced
<1>3. x.f.buffer.bytes = 0
  BY <1>1, EmptyCount DEF Going
<1>4. /\ h \in Flow /\ h.buffer = NewRing /\ h.expected = x.f.expected /\ h.timer = x.f.timer
      /\ h.gaps = x.f.gaps /\ h.initialized = x.f.initialized /\ h.pass_through = x.f.pass_through
  BY <1>1, <1>2 DEF Flow
<1> HIDE DEF h
<1>5. y \in Steps /\ y.f = h /\ y.pool = x.pool /\ y.out = x.out /\ y.result = x.result
  BY <1>1, <1>4, WithFlow
<1>6. Going(y, rest, e, H)
  BY <1>1, <1>2, <1>3, <1>4, <1>5 DEF Going
<1>7. y.pool = rest
  BY <1>3, <1>5 DEF Going
<1> QED
  BY <1>4, <1>5, <1>6, <1>7 DEF Same, h

Passed(x, b) == [x EXCEPT !.f.pass_through = b]

LEMMA PassedKept ==
    ASSUME NEW x, NEW rest, NEW e, NEW H, Kept(x, rest, e, H), NEW b \in BOOLEAN
    PROVE  Kept(Passed(x, b), rest, e, H)
<1> DEFINE h == [x.f EXCEPT !.pass_through = b]
           y == [x EXCEPT !.f = h]
<1>1. x \in Steps /\ x.f \in Flow
  BY Fields DEF Kept, Going
<1>2. Passed(x, b) = y
  BY DEF Passed
<1>3. /\ h \in Flow /\ h.expected = x.f.expected /\ h.buffer = x.f.buffer /\ h.timer = x.f.timer
      /\ h.gaps = x.f.gaps /\ h.initialized = x.f.initialized
  BY <1>1 DEF Flow
<1> HIDE DEF h
<1>4. y \in Steps /\ y.f = h /\ y.pool = x.pool /\ y.out = x.out
  BY <1>1, <1>3, WithFlow
<1> HIDE DEF y
<1> QED
  BY <1>2, <1>3, <1>4 DEF Kept, Going, Full, Settled

LEMMA DemoteKept ==
    ASSUME NEW x, NEW rest \in Nat, NEW e \in Nat, NEW H, Kept(x, rest, e, H)
    PROVE  Kept([FlushBufferForDemote(x) EXCEPT !.f.pass_through = TRUE], rest, e, H)
<1> DEFINE z == EndPeriod(x)
           y == DeliverHeld(z, Held(x.f.buffer))
           n == [y EXCEPT !.f = [y.f EXCEPT !.buffer = NewRing]]
<1>1. Going(x, rest, e, H) /\ Full(x.f) /\ x.f.initialized /\ Half(x.f)
  BY DEF Kept, Full, Half
<1>2. /\ Going(z, rest, e, H) /\ z.f.timer = FALSE /\ z.f.gaps = 0
      /\ z.f.buffer = x.f.buffer /\ z.f.initialized = x.f.initialized
  BY <1>1, EndGoing
<1> HIDE DEF z
<1>3. Going(y, rest, e, H) /\ Same(z, y) /\ Held(y.f.buffer) = {}
  <2>1. y = DeliverHeld(z, Held(z.f.buffer))
    BY <1>2
  <2>2. /\ Going(y, rest, e, H) /\ Same(z, y)
        /\ Held(y.f.buffer) = Held(z.f.buffer) \ Held(z.f.buffer)
    BY <1>2, <2>1, DeliverHeldGoing
  <2> QED
    BY <2>2
<1> HIDE DEF y
<1>4. Going(n, rest, e, H) /\ Same(y, n) /\ n.f.buffer = NewRing
  BY <1>3, FreedRing
<1>5. FlushBufferForDemote(x) = n
  BY DEF FlushBufferForDemote, y, z
<1> HIDE DEF n
<1>6. Held(n.f.buffer) = {}
  BY <1>4, NewRingPlaced
<1>7. Kept(n, rest, e, H)
  BY <1>1, <1>2, <1>3, <1>4, <1>6 DEF Kept, Full, Settled, Same
<1>8. Kept(Passed(n, TRUE), rest, e, H)
  BY <1>7, PassedKept, TRUE \in BOOLEAN, Zenon
<1> QED
  BY <1>5, <1>8, Zenon DEF Passed

LEMMA ClassifiedKept ==
    ASSUME NEW x, NEW rest \in Nat, NEW e \in Nat, NEW H, Kept(x, rest, e, H), NEW len
    PROVE  Kept(Classified(x, len), rest, e, H)
<1> DEFINE y == ClassifyUpdate(x, len)
           d == [FlushBufferForDemote(y) EXCEPT !.f.pass_through = TRUE]
<1>1. Kept(y, rest, e, H)
  BY ClassifyKept
<1>2. Kept(d, rest, e, H)
  BY <1>1, DemoteKept
<1>3. Classified(x, len) = x \/ Classified(x, len) = y \/ Classified(x, len) = d
  BY DEF Classified
<1> HIDE DEF d, y
<1> QED
  BY <1>1, <1>2, <1>3

-----------------------------------------------------------------------------
(* A new epoch *)

Fresh(x, rest) ==
    /\ x \in Steps /\ x.f.buffer = NewRing /\ ~x.f.timer /\ x.f.gaps = 0
    /\ x.pool = rest /\ rest <= PoolBytes /\ x.out = <<>>

Opened(x, s, b) == [DeliverCurrent(x, s) EXCEPT !.f.initialized = b]

LEMMA OpenedFields ==
    ASSUME NEW x \in Steps, x.out = <<>>, NEW s \in Seqs, NEW b \in BOOLEAN
    PROVE  LET y == Opened(x, s, b)
           IN  /\ y \in Steps /\ y.f.buffer = x.f.buffer /\ y.f.timer = x.f.timer
               /\ y.f.gaps = x.f.gaps /\ y.pool = x.pool /\ y.out = <<s>>
               /\ y.f.expected = s + 1 /\ y.f.initialized = b
<1> DEFINE h == [x.f EXCEPT !.expected = s + 1, !.initialized = b]
           y == [x EXCEPT !.out = <<s>>, !.f = h]
<1>1. x.f \in Flow /\ s + 1 \in Nat
  BY Fields, Constants
<1>2. Append(x.out, s) = <<s>> /\ <<s>> \in Seq(Seqs)
  OBVIOUS
<1>3. Opened(x, s, b) = y
  BY <1>1, <1>2 DEF Opened, DeliverCurrent, Steps, Flow
<1>4. /\ h \in Flow /\ h.buffer = x.f.buffer /\ h.timer = x.f.timer
      /\ h.gaps = x.f.gaps /\ h.expected = s + 1 /\ h.initialized = b
  BY <1>1 DEF Flow
<1> HIDE DEF h
<1>5. y \in Steps /\ y.f = h /\ y.pool = x.pool /\ y.out = <<s>>
  BY <1>2, <1>4 DEF Steps
<1> QED
  BY <1>3, <1>4, <1>5

LEMMA ColdStartKept ==
    ASSUME NEW x, NEW rest \in Nat, Fresh(x, rest), NEW s \in Seqs
    PROVE  Kept(ColdStart(x, s), rest, s, {})
<1> DEFINE y == Opened(x, s, TRUE)
<1>1. x \in Steps /\ x.out = <<>> /\ TRUE \in BOOLEAN /\ s \in Nat /\ s + 1 \in Nat
  BY Constants DEF Fresh
<1>2. /\ y \in Steps /\ y.f.buffer = x.f.buffer /\ y.f.timer = x.f.timer
      /\ y.f.gaps = x.f.gaps /\ y.pool = x.pool /\ y.out = <<s>>
      /\ y.f.expected = s + 1 /\ y.f.initialized = TRUE
  BY <1>1, OpenedFields, Zenon
<1>3. ColdStart(x, s) = Result(y, "delivered")
  BY DEF ColdStart, Opened
<1> HIDE DEF y
<1>4. Placed(NewRing, s + 1) /\ Counted(NewRing) /\ Held(NewRing) = {} /\ NewRing.bytes = 0
  BY <1>1, NewRingPlaced
<1>5. Run(<<s>>, s, s + 1)
  BY RunOne
<1>6. Going(y, rest, s, {})
  BY <1>1, <1>2, <1>4, <1>5 DEF Going, Fresh
<1>7. Kept(y, rest, s, {})
  BY <1>2, <1>4, <1>6 DEF Kept, Full, Settled, Fresh
<1> QED
  BY <1>3, <1>7, ResultKept DEF Results

Renewed(x, p, b) ==
    [x EXCEPT !.pool = p, !.f = [x.f EXCEPT !.buffer = NewRing, !.pass_through = b,
                                            !.seen = 0, !.large = 0]]

LEMMA RenewedFields ==
    ASSUME NEW x \in Steps, NEW p \in Nat, NEW b \in BOOLEAN
    PROVE  LET y == Renewed(x, p, b)
           IN  /\ y \in Steps /\ y.f.buffer = NewRing /\ y.f.timer = x.f.timer
               /\ y.f.gaps = x.f.gaps /\ y.pool = p /\ y.out = x.out
<1> DEFINE h == [x.f EXCEPT !.buffer = NewRing, !.pass_through = b, !.seen = 0, !.large = 0]
<1>1. x.f \in Flow /\ NewRing \in Ring
  BY Fields, NewRingPlaced
<1>2. h \in Flow /\ h.buffer = NewRing /\ h.timer = x.f.timer /\ h.gaps = x.f.gaps
  BY <1>1 DEF Flow
<1> HIDE DEF h
<1>3. Renewed(x, p, b) = [x EXCEPT !.pool = p, !.f = h]
  BY DEF Renewed, h
<1> QED
  BY <1>2, <1>3 DEF Steps

(* A reset gives back what the flow held and leaves it empty. *)
LEMMA ResetFresh ==
    ASSUME NEW x, NEW rest \in Nat, NEW e \in Nat, NEW H, Going(x, rest, e, H), Half(x.f),
           x.out = <<>>
    PROVE  Fresh(ResetReorderFlow(x), rest)
<1> DEFINE z == EndPeriod(x)
           r == x.f.buffer
           y == Renewed(z, rest, FALSE)
<1>1. /\ Going(z, rest, e, H) /\ z.f.timer = FALSE /\ z.f.gaps = 0
      /\ z.f.buffer = x.f.buffer /\ z.pool = x.pool /\ z.out = x.out
  BY EndGoing
<1>2. z \in Steps /\ z.f \in Flow
  BY <1>1, Fields DEF Going
<1>3. PoolRelease(z.pool, BytesOf(r, Held(r))) = rest /\ rest <= PoolBytes
  <2>1. r.bytes = BytesOf(r, Held(r)) /\ x.pool = rest + r.bytes /\ x.pool <= PoolBytes
    BY DEF Going, Counted
  <2>2. r.bytes \in Nat
    BY Fields, EmptyCount DEF Going
  <2> QED
    BY <1>1, <2>1, <2>2, Constants DEF PoolRelease
<1>4. ResetReorderFlow(x) = y
  BY <1>2, <1>3 DEF ResetReorderFlow, DiscardBufferForReset, Renewed, Steps, Flow
<1> HIDE DEF z
<1>5. /\ y \in Steps /\ y.f.buffer = NewRing /\ y.f.timer = z.f.timer
      /\ y.f.gaps = z.f.gaps /\ y.pool = rest /\ y.out = z.out
  BY <1>2, RenewedFields, FALSE \in BOOLEAN, Zenon
<1> HIDE DEF y
<1> QED
  BY <1>1, <1>3, <1>4, <1>5 DEF Fresh

-----------------------------------------------------------------------------
(* A packet for one flow *)

FlowOK(f) ==
    /\ f \in Flow /\ f.initialized
    /\ Placed(f.buffer, f.expected) /\ Counted(f.buffer)
    /\ Settled(f) /\ Full(f)

(* What a step leaves: a sound flow, and the pool of the others and its own. *)
Sound(x, rest) ==
    /\ x \in Steps /\ FlowOK(x.f)
    /\ x.pool = rest + x.f.buffer.bytes /\ x.pool <= PoolBytes

LEMMA KeptSound ==
    ASSUME NEW x, NEW rest, NEW e, NEW H, Kept(x, rest, e, H)
    PROVE  Sound(x, rest)
  BY Fields DEF Kept, Going, Sound, FlowOK

LEMMA Started ==
    ASSUME NEW f \in Flow, NEW p \in Nat
    PROVE  LET x == Start(f, p)
           IN  x \in Steps /\ x.f = f /\ x.pool = p /\ x.out = <<>>
  BY DEF Start, Steps, Results

LEMMA StartKept ==
    ASSUME NEW f, FlowOK(f), NEW rest \in Nat, NEW p \in Nat,
           p = rest + f.buffer.bytes, p <= PoolBytes
    PROVE  Kept(Start(f, p), rest, f.expected, Held(f.buffer))
<1> DEFINE x == Start(f, p)
<1>1. x \in Steps /\ x.f = f /\ x.pool = p /\ x.out = <<>>
  BY Started DEF FlowOK
<1>2. Run(<<>>, f.expected, f.expected) /\ f.expected \in Nat
  BY RunEmpty DEF FlowOK, Flow
<1> HIDE DEF x
<1>3. Kept(x, rest, f.expected, Held(f.buffer))
  BY <1>1, <1>2 DEF Kept, Going, FlowOK
<1> QED
  BY <1>3 DEF x

LEMMA NewFlowFields ==
    /\ NewFlow \in Flow /\ NewFlow.buffer = NewRing /\ ~NewFlow.timer /\ NewFlow.gaps = 0
    /\ ~NewFlow.initialized /\ ~NewFlow.pass_through
<1>1. NewRing \in Ring
  BY NewRingPlaced
<1> QED
  BY <1>1 DEF NewFlow, Flow

LEMMA StartFresh ==
    ASSUME NEW p \in Nat, p <= PoolBytes
    PROVE  LET x == Start(NewFlow, p)
           IN  Fresh(x, p) /\ Going(x, p, 0, {}) /\ Half(x.f) /\ x.f = NewFlow
<1> DEFINE x == Start(NewFlow, p)
<1>1. x \in Steps /\ x.f = NewFlow /\ x.pool = p /\ x.out = <<>>
  BY Started, NewFlowFields
<1> HIDE DEF x
<1>2. x.f.expected = 0
  BY <1>1 DEF NewFlow
<1>3. Run(<<>>, 0, 0)
  BY RunEmpty
<1>4. Placed(NewRing, 0) /\ Counted(NewRing) /\ Held(NewRing) = {} /\ NewRing.bytes = 0
  BY NewRingPlaced
<1>5. Fresh(x, p)
  BY <1>1, NewFlowFields DEF Fresh
<1>6. Going(x, p, 0, {})
  BY <1>1, <1>2, <1>3, <1>4, NewFlowFields DEF Going
<1>7. Half(x.f)
  BY <1>1, <1>4, NewFlowFields DEF Half
<1> QED
  BY <1>1, <1>5, <1>6, <1>7 DEF x

(* What an arrival does to a flow f that exists: y is sound, and without a *)
(* reset nothing is lost and what is delivered is in order.                *)
Arrived(f, rest, reset, idle, y) ==
    /\ Sound(y, rest)
    /\ ~HonoursReset(f, reset, idle) =>
         /\ Held(f.buffer) \subseteq Held(y.f.buffer) \union Range(y.out)
         /\ ~f.pass_through => /\ Run(y.out, f.expected, y.f.expected)
                               /\ f.expected <= y.f.expected

LEMMA OnReorderedSound ==
    ASSUME NEW f, FlowOK(f), NEW rest \in Nat, NEW p \in Nat,
           p = rest + f.buffer.bytes, p <= PoolBytes,
           NEW s \in Seqs, NEW len \in Lens, NEW reset \in BOOLEAN, NEW idle \in BOOLEAN,
           NEW ok \in BOOLEAN
    PROVE  Arrived(f, rest, reset, idle, OnReordered(Start(f, p), s, reset, idle, len, ok))
<1> DEFINE x == Start(f, p)
           y == OnReordered(x, s, reset, idle, len, ok)
           e == f.expected
           H == Held(f.buffer)
<1>1. x \in Steps /\ x.f = f /\ x.pool = p /\ x.out = <<>>
  BY Started DEF FlowOK
<1>2. Kept(x, rest, e, H)
  BY StartKept
<1>3. e \in Nat /\ s \in Nat
  BY Constants DEF FlowOK, Flow
<1> HIDE DEF x
<1>4. CASE HonoursReset(f, reset, idle)
  <2>1. y = ColdStart(ResetReorderFlow(x), s)
    BY <1>1, <1>4 DEF OnReordered
  <2>2. Half(x.f) /\ Going(x, rest, e, H)
    BY <1>2 DEF Kept, Full, Half
  <2>3. Fresh(ResetReorderFlow(x), rest)
    BY <1>1, <1>3, <2>2, ResetFresh
  <2>4. Kept(y, rest, s, {})
    BY <2>1, <2>3, ColdStartKept
  <2> HIDE DEF y
  <2>5. Sound(y, rest)
    BY <2>4, KeptSound
  <2> QED
    BY <1>4, <2>5 DEF x, y, Arrived
<1>5. CASE ~HonoursReset(f, reset, idle) /\ f.pass_through
  <2>1. y = [x EXCEPT !.out = Append(x.out, s)]
    BY <1>1, <1>5 DEF OnReordered
  <2>2. Append(x.out, s) \in Seq(Seqs)
    BY <1>1
  <2> HIDE DEF y
  <2>3. y \in Steps /\ y.f = x.f /\ y.pool = x.pool
    BY <1>1, <2>1, <2>2 DEF Steps
  <2>4. Sound(y, rest)
    BY <1>1, <2>3 DEF Sound
  <2> QED
    BY <1>1, <1>5, <2>3, <2>4 DEF x, y, Arrived
<1>6. CASE ~HonoursReset(f, reset, idle) /\ ~f.pass_through
  <2> DEFINE z == ProcessReorderPacket(x, s, len, ok)
  <2>1. y = Classified(z, len)
    BY <1>1, <1>6 DEF OnReordered
  <2>2. Kept(z, rest, e, H)
    BY <1>2, <1>3, ProcessKept
  <2> HIDE DEF z
  <2>3. Kept(y, rest, e, H)
    BY <1>3, <2>1, <2>2, ClassifiedKept
  <2> HIDE DEF y
  <2>4. Sound(y, rest)
    BY <2>3, KeptSound
  <2>5. H \subseteq Held(y.f.buffer) \union Range(y.out) /\ Run(y.out, e, y.f.expected) /\ e <= y.f.expected
    BY <2>3 DEF Kept, Going
  <2> QED
    BY <2>4, <2>5 DEF x, y, Arrived
<1> QED
  BY <1>4, <1>5, <1>6

(* The first packet of a flow. *)
LEMMA OnReorderedNew ==
    ASSUME NEW p \in Nat, p <= PoolBytes,
           NEW s \in Seqs, NEW len \in Lens, NEW reset \in BOOLEAN, NEW idle \in BOOLEAN,
           NEW ok \in BOOLEAN
    PROVE  Sound(OnReordered(Start(NewFlow, p), s, reset, idle, len, ok), p)
<1> DEFINE x == Start(NewFlow, p)
           y == OnReordered(x, s, reset, idle, len, ok)
<1>1. Fresh(x, p) /\ Going(x, p, 0, {}) /\ Half(x.f) /\ x.f = NewFlow
  BY StartFresh
<1>2. ~x.f.initialized /\ ~x.f.pass_through
  BY <1>1, NewFlowFields
<1> HIDE DEF x
<1>3. CASE HonoursReset(x.f, reset, idle)
  <2>1. y = ColdStart(ResetReorderFlow(x), s)
    BY <1>3 DEF OnReordered
  <2>2. Fresh(ResetReorderFlow(x), p)
    BY <1>1, ResetFresh DEF Fresh
  <2>3. Kept(y, p, s, {})
    BY <2>1, <2>2, ColdStartKept
  <2> HIDE DEF y
  <2> QED
    BY <2>3, KeptSound DEF y, x
<1>4. CASE ~HonoursReset(x.f, reset, idle)
  <2>1. y = Classified(ColdStart(x, s), len)
    BY <1>2, <1>4 DEF OnReordered, ProcessReorderPacket
  <2>2. Kept(ColdStart(x, s), p, s, {})
    BY <1>1, ColdStartKept
  <2>3. Kept(y, p, s, {})
    BY <2>1, <2>2, ClassifiedKept, Constants
  <2> HIDE DEF y
  <2> QED
    BY <2>3, KeptSound DEF y, x
<1> QED
  BY <1>3, <1>4

LEMMA OnGapTimeoutSound ==
    ASSUME NEW f, FlowOK(f), f.timer, NEW rest \in Nat, NEW p \in Nat,
           p = rest + f.buffer.bytes, p <= PoolBytes
    PROVE  LET y == OnGapTimeout(Start(f, p))
           IN  /\ Sound(y, rest) /\ y.pool <= p
               /\ Held(f.buffer) \subseteq Held(y.f.buffer) \union Range(y.out)
               /\ Run(y.out, f.expected, y.f.expected) /\ f.expected <= y.f.expected
<1> DEFINE x == Start(f, p)
           y == OnGapTimeout(x)
<1>1. x.f = f /\ x.pool = p
  BY Started DEF FlowOK
<1>2. Kept(x, rest, f.expected, Held(f.buffer)) /\ f.expected \in Nat
  BY StartKept DEF FlowOK, Flow
<1> HIDE DEF x
<1>3. Kept(y, rest, f.expected, Held(f.buffer)) /\ y.pool <= x.pool
  BY <1>1, <1>2, TimeoutKept
<1> HIDE DEF y
<1>4. Sound(y, rest)
  BY <1>3, KeptSound
<1>5. /\ Held(f.buffer) \subseteq Held(y.f.buffer) \union Range(y.out)
      /\ Run(y.out, f.expected, y.f.expected) /\ f.expected <= y.f.expected
  BY <1>3 DEF Kept, Going
<1> QED
  BY <1>1, <1>3, <1>4, <1>5 DEF x, y

-----------------------------------------------------------------------------
(* The table and the pool *)

Load(f) == BytesOf(f.buffer, Held(f.buffer))

Loads(fl, D) == SumFunction([k \in D |-> Load(fl[k])])

AllOK(fl, D) == IsFiniteSet(D) /\ \A k \in D : FlowOK(fl[k])

LEMMA LoadIsBytes ==
    ASSUME NEW f, FlowOK(f)
    PROVE  Load(f) = f.buffer.bytes /\ Load(f) \in Nat /\ f.expected \in Nat
<1>1. f.expected \in Nat /\ Placed(f.buffer, f.expected) /\ Counted(f.buffer)
  BY DEF FlowOK, Flow
<1> QED
  BY <1>1, EmptyCount DEF Load

LEMMA LoadsNat ==
    ASSUME NEW fl, NEW D, AllOK(fl, D)
    PROVE  /\ [k \in D |-> Load(fl[k])] \in [D -> Nat]
           /\ [k \in D |-> Load(fl[k])] \in [D -> Int]
           /\ Loads(fl, D) \in Nat
<1> DEFINE g == [k \in D |-> Load(fl[k])]
<1>1. g \in [D -> Nat] /\ IsFiniteSet(D)
  BY LoadIsBytes DEF AllOK
<1>2. g \in [D -> Int]
  BY <1>1
<1> HIDE DEF g
<1>3. SumFunction(g) \in Nat
  BY <1>1, SumInt
<1> QED
  BY <1>1, <1>2, <1>3 DEF Loads, g

LEMMA LoadsSame ==
    ASSUME NEW fl, NEW gl, NEW D, \A k \in D : fl[k] = gl[k]
    PROVE  Loads(fl, D) = Loads(gl, D)
<1>1. [k \in D |-> Load(fl[k])] = [k \in D |-> Load(gl[k])]
  OBVIOUS
<1> QED
  BY <1>1 DEF Loads

LEMMA LoadsSplit ==
    ASSUME NEW fl, NEW D, AllOK(fl, D), NEW T \in SUBSET D
    PROVE  /\ Loads(fl, D) = Loads(fl, T) + Loads(fl, D \ T)
           /\ AllOK(fl, T) /\ AllOK(fl, D \ T)
<1> DEFINE g == [k \in D |-> Load(fl[k])]
<1>1. AllOK(fl, T) /\ AllOK(fl, D \ T)
  BY FS_Subset DEF AllOK
<1>2. g \in [D -> Int] /\ IsFiniteSet(D)
  BY LoadsNat DEF AllOK
<1>3. [k \in T |-> g[k]] = [k \in T |-> Load(fl[k])]
      /\ [k \in D \ T |-> g[k]] = [k \in D \ T |-> Load(fl[k])]
  OBVIOUS
<1> HIDE DEF g
<1>4. SumFunction(g) = SumFunction([k \in T |-> g[k]]) + SumFunction([k \in D \ T |-> g[k]])
  BY <1>2, SumSplit
<1> QED
  BY <1>1, <1>3, <1>4 DEF Loads, g

LEMMA LoadsOne ==
    ASSUME NEW fl, NEW D, AllOK(fl, D), NEW k \in D
    PROVE  /\ Loads(fl, D) = Loads(fl, D \ {k}) + fl[k].buffer.bytes
           /\ AllOK(fl, D \ {k}) /\ Loads(fl, D \ {k}) \in Nat
<1> DEFINE g == [j \in D |-> Load(fl[j])]
<1>1. AllOK(fl, D \ {k})
  BY FS_RemoveElement DEF AllOK
<1>2. g \in [D -> Int] /\ IsFiniteSet(D) /\ g[k] = Load(fl[k])
  BY LoadsNat DEF AllOK
<1>3. [j \in D \ {k} |-> g[j]] = [j \in D \ {k} |-> Load(fl[j])]
  OBVIOUS
<1> HIDE DEF g
<1>4. SumFunction(g) = g[k] + SumFunction([j \in D \ {k} |-> g[j]])
  BY <1>2, SumPeel
<1>5. Load(fl[k]) = fl[k].buffer.bytes /\ Load(fl[k]) \in Nat
  BY LoadIsBytes DEF AllOK
<1>6. Loads(fl, D \ {k}) \in Nat
  BY <1>1, LoadsNat
<1>7. Loads(fl, D) = Load(fl[k]) + Loads(fl, D \ {k})
  BY <1>2, <1>3, <1>4 DEF Loads, g
<1> QED
  BY <1>1, <1>5, <1>6, <1>7

(* A flow joins others that stay as they are. *)
LEMMA Install ==
    ASSUME NEW fl, NEW gl, NEW T, AllOK(fl, T), NEW k, k \notin T,
           \A j \in T : gl[j] = fl[j], FlowOK(gl[k])
    PROVE  /\ AllOK(gl, T \union {k})
           /\ Loads(gl, T \union {k}) = Loads(fl, T) + gl[k].buffer.bytes
<1> DEFINE D == T \union {k}
<1>1. AllOK(gl, D)
  BY FS_AddElement DEF AllOK
<1>2. D \ {k} = T /\ k \in D
  OBVIOUS
<1> HIDE DEF D
<1>3. Loads(gl, D) = Loads(gl, T) + gl[k].buffer.bytes
  BY <1>1, <1>2, LoadsOne
<1>4. Loads(gl, T) = Loads(fl, T)
  BY LoadsSame
<1> QED
  BY <1>1, <1>3, <1>4 DEF D

(* The inductive invariant.  Between two calls every flow in the table is   *)
(* in good order (FlowOK: its packets in their slots, its counts exact, the *)
(* number it waits for not held, its timer running while packets are held), *)
(* a flow outside the table is blank, and the pool is the sum of what the   *)
(* flows hold.                                                              *)
RxInv ==
    /\ table \subseteq Keys
    /\ table \intersect ZeroWait = {}
    /\ AllOK(flow, table)
    /\ flow \in [Keys -> Flow]
    /\ \A k \in Keys \ table : flow[k] = NewFlow
    /\ pool = Loads(flow, table)
    /\ pool <= PoolBytes
    /\ out \in [Keys -> Seq(Seqs)]

LEMMA InitInv == Init => RxInv
<1> SUFFICES ASSUME Init PROVE RxInv
  OBVIOUS
<1>1. NewFlow \in Flow
  BY NewFlowFields
<1>2. table = {} /\ flow = [k \in Keys |-> NewFlow] /\ pool = 0 /\ out = [k \in Keys |-> <<>>]
  BY DEF Init, Nothing
<1>3. AllOK(flow, table)
  BY <1>2, FS_EmptySet DEF AllOK
<1>4. Loads(flow, table) = 0
  BY <1>2, SumEmpty DEF Loads
<1>5. out \in [Keys -> Seq(Seqs)]
  BY <1>2
<1> QED
  BY <1>1, <1>2, <1>3, <1>4, <1>5, Constants DEF RxInv

(* What is taken out of the table is taken off the pool. *)
LEMMA Evicts ==
    ASSUME RxInv, NEW V \in SUBSET table
    PROVE  LET left == PoolRelease(pool, BytesHeldBy(V))
           IN  /\ left = Loads(flow, table \ V) /\ left \in Nat /\ left <= PoolBytes
               /\ AllOK(flow, table \ V)
<1>1. BytesHeldBy(V) = Loads(flow, V)
  BY DEF BytesHeldBy, Loads, Load
<1>2. /\ Loads(flow, table) = Loads(flow, V) + Loads(flow, table \ V)
      /\ AllOK(flow, V) /\ AllOK(flow, table \ V)
  BY LoadsSplit DEF RxInv
<1>3. Loads(flow, V) \in Nat /\ Loads(flow, table \ V) \in Nat
  BY <1>2, LoadsNat
<1>4. pool = Loads(flow, V) + Loads(flow, table \ V) /\ pool <= PoolBytes
  BY <1>2 DEF RxInv
<1> QED
  BY <1>1, <1>2, <1>3, <1>4, Constants DEF PoolRelease

-----------------------------------------------------------------------------
(* The steps *)

InOrderStep ==
    \A k \in table \intersect table' :
        flow[k].initialized /\ ~flow[k].pass_through => Ascends(k) \/ HonouredReset(k)

NothingLostStep ==
    \A k \in table \intersect table' :
        \/ Held(flow[k].buffer) \subseteq Held(flow'[k].buffer) \union Range(out'[k])
        \/ HonouredReset(k)

LEMMA RunAscends ==
    ASSUME NEW k, Run(out'[k], flow[k].expected, flow'[k].expected),
           flow[k].expected \in Nat, flow'[k].expected \in Nat,
           flow[k].expected <= flow'[k].expected
    PROVE  Ascends(k)
<1> DEFINE q == out'[k]
           a == flow[k].expected
           b == flow'[k].expected
<1>1. /\ Run(q, a, b) /\ a \in Nat /\ b \in Nat /\ a <= b
  OBVIOUS
<1>2. Ascends(k) <=>
        /\ \A i \in 1..Len(q) : q[i] \in a..(b - 1)
        /\ \A i, j \in 1..Len(q) : i < j => q[i] < q[j]
        /\ a <= b
  BY DEF Ascends
<1> HIDE DEF q, a, b
<1>3. \A i \in 1..Len(q) : q[i] \in Nat
  BY <1>1, RunRange DEF Run
<1>4. \A i \in 1..Len(q) : q[i] \in a..(b - 1)
  BY <1>1, <1>3 DEF Run
<1> QED
  BY <1>1, <1>2, <1>4 DEF Run

LEMMA Untouched ==
    ASSUME NEW k, flow'[k] = flow[k], out'[k] = <<>>
    PROVE  /\ Held(flow[k].buffer) \subseteq Held(flow'[k].buffer) \union Range(out'[k])
           /\ FlowOK(flow[k]) => Ascends(k)
<1>1. ASSUME FlowOK(flow[k]) PROVE Ascends(k)
  <2>1. flow[k].expected \in Nat
    BY <1>1, LoadIsBytes
  <2>2. Run(out'[k], flow[k].expected, flow'[k].expected)
    BY RunEmpty
  <2> QED
    BY <2>1, <2>2, RunAscends
<1> QED
  BY <1>1

Memory == {"enough", "no_flow", "no_copy"}

(* The memory for a copy makes no difference to an honoured reset. *)
LEMMA ResetNeedsNoCopy ==
    ASSUME NEW k \in table, NEW s \in Seqs, NEW reset \in BOOLEAN, NEW idle \in BOOLEAN,
           NEW len \in Lens, NEW memory \in Memory,
           flow[k].initialized, HonoursReset(flow[k], reset, idle),
           OnPacket(k, s, reset, len, idle, memory)
    PROVE  HonouredReset(k)
<1>1. reset = TRUE /\ idle = TRUE
  BY DEF HonoursReset
<1> DEFINE X(l, ok) == OnReordered(Start(flow[k], l), s, reset, idle, len, ok)
<1>2. ASSUME NEW l, NEW a, NEW b PROVE X(l, a) = X(l, b)
  <2>1. Start(flow[k], l).f = flow[k]
    BY DEF Start
  <2> QED
    BY <2>1 DEF OnReordered
<1>3. OnPacket(k, s, reset, len, idle, "enough")
  <2> DEFINE Left(V) == PoolRelease(pool, BytesHeldBy(V))
             Drop(m) == k \notin table /\ m = "no_flow"
             Effect(V, x, d) ==
               /\ table' = (table \ V) \union (IF d THEN {} ELSE {k})
               /\ flow' = [j \in Keys |-> IF j \in V THEN NewFlow
                                          ELSE IF j = k /\ ~d THEN x.f
                                          ELSE flow[j]]
               /\ pool' = IF d THEN Left(V) ELSE x.pool
               /\ out' = IF d THEN Nothing ELSE [Nothing EXCEPT ![k] = x.out]
             Guard(m) == k \notin ZeroWait /\ IF k \in table THEN m # "no_flow" ELSE ~idle
  <2>1. ASSUME NEW m
        PROVE  OnPacket(k, s, reset, len, idle, m) <=>
                  /\ Guard(m)
                  /\ \E V \in SUBSET table :
                       Evictable(k, V) /\ Effect(V, X(Left(V), m # "no_copy"), Drop(m))
    BY Zenon DEF OnPacket
  <2>6. Drop(memory) = FALSE /\ Drop("enough") = FALSE
    BY Zenon
  <2>7. Guard(memory) => Guard("enough")
    OBVIOUS
  <2> HIDE DEF Effect, X, Left, Drop, Guard
  <2>2. PICK V \in SUBSET table :
          Evictable(k, V) /\ Effect(V, X(Left(V), memory # "no_copy"), Drop(memory))
    BY <2>1, Zenon
  <2>3. X(Left(V), memory # "no_copy") = X(Left(V), "enough" # "no_copy")
    BY <1>2, Zenon
  <2>4. Effect(V, X(Left(V), "enough" # "no_copy"), Drop("enough"))
    BY <2>2, <2>3, <2>6, Zenon
  <2>5. Guard("enough")
    BY <2>1, <2>7, Zenon
  <2> QED
    BY <2>1, <2>2, <2>4, <2>5, Zenon
<1>4. OnPacket(k, s, TRUE, len, TRUE, "enough")
  BY <1>1, <1>3, Zenon
<1> QED
  BY <1>4 DEF HonouredReset

(* Flow k becomes x.f, the flows of V go, the others stay. *)
Stored(k, V, x) ==
    /\ table' = (table \ V) \union {k}
    /\ flow' = [j \in Keys |-> IF j \in V THEN NewFlow ELSE IF j = k THEN x.f ELSE flow[j]]
    /\ pool' = x.pool
    /\ out' = [Nothing EXCEPT ![k] = x.out]

Refused(V) ==
    /\ table' = table \ V
    /\ flow' = [j \in Keys |-> IF j \in V THEN NewFlow ELSE flow[j]]
    /\ pool' = PoolRelease(pool, BytesHeldBy(V))
    /\ out' = Nothing

LEMMA PacketCases ==
    ASSUME NEW k, NEW s, NEW reset, NEW len, NEW idle, NEW memory,
           OnPacket(k, s, reset, len, idle, memory)
    PROVE  /\ k \notin ZeroWait
           /\ \E V \in SUBSET table :
                /\ Evictable(k, V)
                /\ \/ k \notin table /\ Refused(V)
                   \/ Stored(k, V, OnReordered(Start(flow[k], PoolRelease(pool, BytesHeldBy(V))),
                                               s, reset, idle, len, memory # "no_copy"))
<1> DEFINE L(V) == PoolRelease(pool, BytesHeldBy(V))
           X(V) == OnReordered(Start(flow[k], L(V)), s, reset, idle, len, memory # "no_copy")
           d == k \notin table /\ memory = "no_flow"
           Effect(V, x, l) ==
               /\ table' = (table \ V) \union (IF d THEN {} ELSE {k})
               /\ flow' = [j \in Keys |-> IF j \in V THEN NewFlow
                                          ELSE IF j = k /\ ~d THEN x.f
                                          ELSE flow[j]]
               /\ pool' = IF d THEN l ELSE x.pool
               /\ out' = IF d THEN Nothing ELSE [Nothing EXCEPT ![k] = x.out]
<1>1. PICK V \in SUBSET table : Evictable(k, V) /\ Effect(V, X(V), L(V))
  BY Zenon DEF OnPacket
<1>2. k \notin ZeroWait
  BY Zenon DEF OnPacket
<1> DEFINE x == X(V)
           l == L(V)
<1>3. Effect(V, x, l)
  BY <1>1, Zenon
<1> HIDE DEF X, L, x, l
<1>4. CASE d
  <2>1. /\ table' = (table \ V) \union {}
        /\ flow' = [j \in Keys |-> IF j \in V THEN NewFlow ELSE flow[j]]
        /\ pool' = l
        /\ out' = Nothing
    BY <1>3, <1>4
  <2>2. Refused(V)
    BY <2>1 DEF Refused, l, L
  <2> QED
    BY <1>1, <1>2, <1>4, <2>2
<1>5. CASE ~d
  <2>1. /\ table' = (table \ V) \union {k}
        /\ flow' = [j \in Keys |-> IF j \in V THEN NewFlow ELSE IF j = k THEN x.f ELSE flow[j]]
        /\ pool' = x.pool
        /\ out' = [Nothing EXCEPT ![k] = x.out]
    BY <1>3, <1>5
  <2>2. Stored(k, V, x)
    BY <2>1 DEF Stored
  <2> QED
    BY <1>1, <1>2, <2>2, Zenon DEF x, X, L
<1> QED
  BY <1>4, <1>5

LEMMA OutType ==
    ASSUME NEW k \in Keys, NEW q \in Seq(Seqs)
    PROVE  /\ Nothing \in [Keys -> Seq(Seqs)] /\ [Nothing EXCEPT ![k] = q] \in [Keys -> Seq(Seqs)]
           /\ [Nothing EXCEPT ![k] = q][k] = q
           /\ \A j \in Keys : Nothing[j] = <<>> /\ (j # k => [Nothing EXCEPT ![k] = q][j] = <<>>)
<1>1. Nothing = [j \in Keys |-> <<>>] /\ <<>> \in Seq(Seqs)
  BY DEF Nothing
<1>2. Nothing \in [Keys -> Seq(Seqs)] /\ \A j \in Keys : Nothing[j] = <<>>
  BY <1>1, Zenon
<1> QED
  BY <1>2

(* Nothing is left of the flows of V. *)
LEMMA StoredInv ==
    ASSUME RxInv, NEW k \in Keys, k \notin ZeroWait, NEW V \in SUBSET table, NEW x, NEW rest,
           rest = Loads(flow, (table \ V) \ {k}), k \in V => FALSE,
           Sound(x, rest), Stored(k, V, x)
    PROVE  RxInv'
<1> DEFINE T == (table \ V) \ {k}
<1>1. AllOK(flow, T)
  BY FS_Subset DEF RxInv, AllOK
<1>2. FlowOK(x.f) /\ x.f \in Flow /\ x.pool \in Nat /\ x.out \in Seq(Seqs)
      /\ x.pool = rest + x.f.buffer.bytes /\ x.pool <= PoolBytes
  BY Fields DEF Sound
<1>3. flow'[k] = x.f /\ \A j \in T : flow'[j] = flow[j]
  BY DEF Stored, RxInv
<1>4. table' = T \union {k} /\ k \notin T
  BY DEF Stored
<1> HIDE DEF T
<1>5. AllOK(flow', table') /\ Loads(flow', table') = Loads(flow, T) + flow'[k].buffer.bytes
  BY <1>1, <1>2, <1>3, <1>4, Install
<1>6. pool' = Loads(flow', table') /\ pool' <= PoolBytes
  BY <1>2, <1>3, <1>5 DEF Stored, T
<1>7. out' \in [Keys -> Seq(Seqs)]
  BY <1>2, OutType DEF Stored
<1>8. /\ flow' \in [Keys -> Flow]
      /\ \A j \in Keys \ table' : flow'[j] = NewFlow
      /\ table' \subseteq Keys
      /\ table' \intersect ZeroWait = {}
  BY <1>2, NewFlowFields DEF Stored, RxInv
<1> QED
  BY <1>5, <1>6, <1>7, <1>8 DEF RxInv, Loads, Load

LEMMA PacketStep ==
    ASSUME RxInv, NEW k \in Keys, NEW s \in Seqs, NEW reset \in BOOLEAN, NEW idle \in BOOLEAN,
           NEW len \in Lens, NEW memory \in Memory, OnPacket(k, s, reset, len, idle, memory)
    PROVE  RxInv' /\ InOrderStep /\ NothingLostStep
<1>1. PICK V \in SUBSET table :
        /\ Evictable(k, V)
        /\ \/ k \notin table /\ Refused(V)
           \/ Stored(k, V, OnReordered(Start(flow[k], PoolRelease(pool, BytesHeldBy(V))),
                                       s, reset, idle, len, memory # "no_copy"))
  BY PacketCases
<1>z. k \notin ZeroWait
  BY PacketCases
<1> DEFINE left == PoolRelease(pool, BytesHeldBy(V))
           ok == memory # "no_copy"
           x == OnReordered(Start(flow[k], left), s, reset, idle, len, ok)
<1>2. /\ left = Loads(flow, table \ V) /\ left \in Nat /\ left <= PoolBytes
      /\ AllOK(flow, table \ V)
  BY Evicts
<1>3. ok \in BOOLEAN
  OBVIOUS
<1>o. \A j \in Keys : FlowOK(flow[j]) \/ flow[j] = NewFlow
  BY DEF RxInv, AllOK
<1>4. ASSUME NEW j \in table, flow'[j] = flow[j], out'[j] = <<>>
      PROVE  /\ Held(flow[j].buffer) \subseteq Held(flow'[j].buffer) \union Range(out'[j])
             /\ Ascends(j)
  BY <1>4, Untouched DEF RxInv, AllOK
<1> HIDE DEF left, ok
<1>5. CASE k \in table
  <2> DEFINE f == flow[k]
             rest == Loads(flow, table \ {k})
  <2>1. V = {}
    BY <1>1, <1>5 DEF Evictable
  <2>2. Stored(k, V, x)
    BY <1>1, <1>5 DEF left, ok
  <2>3. FlowOK(f) /\ left = rest + f.buffer.bytes /\ rest \in Nat
    <3>1. left = Loads(flow, table)
      BY <1>2, <2>1
    <3> QED
      BY <1>5, <3>1, LoadsOne DEF RxInv, AllOK
  <2>4. /\ Sound(x, rest)
        /\ ~HonoursReset(f, reset, idle) =>
              /\ Held(f.buffer) \subseteq Held(x.f.buffer) \union Range(x.out)
              /\ ~f.pass_through => /\ Run(x.out, f.expected, x.f.expected)
                                    /\ f.expected <= x.f.expected
    <3>1. Arrived(f, rest, reset, idle, x)
      BY <1>2, <1>3, <2>3, OnReorderedSound
    <3> QED
      BY <3>1 DEF Arrived
  <2> HIDE DEF x
  <2>5. RxInv'
    <3>1. rest = Loads(flow, (table \ V) \ {k})
      BY <2>1
    <3> QED
      BY <1>z, <2>1, <2>2, <2>4, <3>1, StoredInv
  <2>6. /\ flow'[k] = x.f /\ out'[k] = x.out
        /\ \A j \in table : j # k => flow'[j] = flow[j] /\ out'[j] = <<>>
    <3>1. x.out \in Seq(Seqs)
      BY <2>4, Fields DEF Sound
    <3> QED
      BY <2>1, <2>2, <3>1, OutType DEF Stored, RxInv
  <2>7. HonoursReset(f, reset, idle) => HonouredReset(k)
    BY <1>5, <2>3, ResetNeedsNoCopy DEF FlowOK
  <2>8. ~HonoursReset(f, reset, idle) =>
          /\ Held(f.buffer) \subseteq Held(flow'[k].buffer) \union Range(out'[k])
          /\ ~f.pass_through => Ascends(k)
    <3>1. f.expected \in Nat /\ x.f.expected \in Nat
      BY <2>3, <2>4, LoadIsBytes DEF Sound
    <3> QED
      BY <2>4, <2>6, <3>1, RunAscends
  <2>9. InOrderStep
    BY <1>4, <2>6, <2>7, <2>8 DEF InOrderStep
  <2>10. NothingLostStep
    BY <1>4, <2>6, <2>7, <2>8 DEF NothingLostStep
  <2> QED
    BY <2>5, <2>9, <2>10
<1>6. CASE k \notin table /\ Refused(V)
  <2>1. /\ table' = table \ V /\ pool' = left /\ out' = Nothing
        /\ flow' = [j \in Keys |-> IF j \in V THEN NewFlow ELSE flow[j]]
    BY <1>6 DEF Refused, left
  <2>2. \A j \in table' : flow'[j] = flow[j] /\ out'[j] = <<>> /\ j \in table
    BY <2>1, OutType DEF RxInv, Nothing
  <2>3. AllOK(flow', table')
    BY <1>2, <2>1, <2>2 DEF AllOK
  <2>4. Loads(flow', table') = Loads(flow, table \ V)
    BY <2>1, <2>2, LoadsSame
  <2>5. /\ flow' \in [Keys -> Flow]
        /\ \A j \in Keys \ table' : flow'[j] = NewFlow
        /\ table' \subseteq Keys
        /\ table' \intersect ZeroWait = {}
    BY <2>1, NewFlowFields DEF RxInv
  <2>6. out' \in [Keys -> Seq(Seqs)]
    BY <2>1, OutType DEF Nothing
  <2>7. RxInv'
    BY <1>2, <2>1, <2>3, <2>4, <2>5, <2>6 DEF RxInv, Loads, Load
  <2> QED
    BY <1>4, <2>2, <2>7 DEF InOrderStep, NothingLostStep
<1>7. CASE k \notin table /\ Stored(k, V, x)
  <2>1. flow[k] = NewFlow
    BY <1>7 DEF RxInv
  <2>2. Sound(x, left)
    BY <1>2, <1>3, <2>1, OnReorderedNew
  <2> HIDE DEF x
  <2>3. left = Loads(flow, (table \ V) \ {k})
    <3>1. (table \ V) \ {k} = table \ V
      BY <1>7
    <3> QED
      BY <1>2, <3>1
  <2>4. RxInv'
    BY <1>z, <1>7, <2>2, <2>3, StoredInv
  <2>5. \A j \in table \intersect table' : flow'[j] = flow[j] /\ out'[j] = <<>>
    <3>1. x.out \in Seq(Seqs)
      BY <2>2, Fields DEF Sound
    <3> QED
      BY <1>7, <3>1, OutType DEF Stored, RxInv
  <2> QED
    BY <1>4, <2>4, <2>5 DEF InOrderStep, NothingLostStep
<1> QED
  BY <1>1, <1>5, <1>6, <1>7 DEF left, ok

After(k) == OnGapTimeout(Start(flow[k], pool))

LEMMA TickEffect ==
    ASSUME NEW fired, NEW idle, Tick(fired, idle), fired \subseteq Keys
    PROVE  /\ fired \subseteq table /\ \A k \in fired : flow[k].timer
           /\ idle \subseteq table \ fired
           /\ table' = table \ idle
           /\ flow' = [k \in Keys |-> IF k \in idle THEN NewFlow
                                      ELSE IF k \in fired THEN After(k).f ELSE flow[k]]
           /\ pool' = PoolRelease(PoolRelease(pool, SumFunction([k \in fired |-> pool - After(k).pool])),
                                  BytesHeldBy(idle))
           /\ out' = [k \in Keys |-> IF k \in fired THEN After(k).out ELSE <<>>]
<1> DEFINE after == [k \in Keys |-> After(k)]
           given == SumFunction([k \in fired |-> pool - after[k].pool])
<1>1. /\ fired \subseteq {k \in table : flow[k].timer}
      /\ idle \subseteq table \ fired
      /\ table' = table \ idle
      /\ flow' = [k \in Keys |-> IF k \in idle THEN NewFlow
                                 ELSE IF k \in fired THEN after[k].f ELSE flow[k]]
      /\ pool' = PoolRelease(PoolRelease(pool, given), BytesHeldBy(idle))
      /\ out' = [k \in Keys |-> IF k \in fired THEN after[k].out ELSE <<>>]
  BY Zenon DEF Tick, After
<1>2. \A k \in Keys : after[k] = After(k)
  OBVIOUS
<1> HIDE DEF after
<1>3. [k \in fired |-> pool - after[k].pool] = [k \in fired |-> pool - After(k).pool]
  BY <1>2
<1>4. [k \in Keys |-> IF k \in idle THEN NewFlow ELSE IF k \in fired THEN after[k].f ELSE flow[k]]
      = [k \in Keys |-> IF k \in idle THEN NewFlow ELSE IF k \in fired THEN After(k).f ELSE flow[k]]
  BY <1>2
<1>5. [k \in Keys |-> IF k \in fired THEN after[k].out ELSE <<>>]
      = [k \in Keys |-> IF k \in fired THEN After(k).out ELSE <<>>]
  BY <1>2
<1>6. fired \subseteq table /\ \A k \in fired : flow[k].timer
  BY <1>1
<1> QED
  BY <1>1, <1>3, <1>4, <1>5, <1>6

LEMMA TickStep ==
    ASSUME RxInv, NEW fired \in SUBSET Keys, NEW idle \in SUBSET Keys, Tick(fired, idle)
    PROVE  RxInv' /\ InOrderStep /\ NothingLostStep
<1> DEFINE given == SumFunction([k \in fired |-> pool - After(k).pool])
           stay == (table \ idle) \ fired
<1>1. /\ fired \subseteq table /\ (\A k \in fired : flow[k].timer)
      /\ idle \subseteq table \ fired
      /\ table' = table \ idle
      /\ flow' = [k \in Keys |-> IF k \in idle THEN NewFlow
                                 ELSE IF k \in fired THEN After(k).f ELSE flow[k]]
      /\ pool' = PoolRelease(PoolRelease(pool, given), BytesHeldBy(idle))
      /\ out' = [k \in Keys |-> IF k \in fired THEN After(k).out ELSE <<>>]
  BY TickEffect
<1>i. /\ table \subseteq Keys /\ AllOK(flow, table) /\ pool = Loads(flow, table) /\ pool <= PoolBytes
      /\ table \intersect ZeroWait = {} /\ flow \in [Keys -> Flow]
      /\ \A k \in Keys \ table : flow[k] = NewFlow
  BY DEF RxInv
<1>n. pool \in Nat
  BY <1>i, LoadsNat
<1>2. ASSUME NEW k \in fired
      PROVE  /\ flow'[k] = After(k).f /\ out'[k] = After(k).out /\ k \in table /\ k \in Keys /\ k \notin idle
             /\ FlowOK(flow[k]) /\ FlowOK(After(k).f) /\ After(k) \in Steps
             /\ pool - After(k).pool = Load(flow[k]) - Load(flow'[k])
             /\ pool - After(k).pool \in Nat
             /\ Held(flow[k].buffer) \subseteq Held(flow'[k].buffer) \union Range(out'[k])
             /\ Ascends(k)
  <2> DEFINE f == flow[k]
             y == After(k)
             rest == Loads(flow, table \ {k})
  <2>1. k \in table /\ k \in Keys /\ k \notin idle /\ f.timer /\ FlowOK(f)
    BY <1>1, <1>i DEF AllOK
  <2>2. pool = rest + f.buffer.bytes /\ rest \in Nat
    BY <1>i, <2>1, LoadsOne
  <2>3. flow'[k] = y.f /\ out'[k] = y.out
    BY <1>1, <2>1
  <2> HIDE DEF rest
  <2>4. /\ Sound(y, rest) /\ y.pool <= pool
        /\ Held(f.buffer) \subseteq Held(y.f.buffer) \union Range(y.out)
        /\ Run(y.out, f.expected, y.f.expected) /\ f.expected <= y.f.expected
    BY <1>i, <1>n, <2>1, <2>2, OnGapTimeoutSound DEF After
  <2> HIDE DEF y
  <2>5. /\ y \in Steps /\ FlowOK(y.f) /\ y.pool = rest + y.f.buffer.bytes /\ y.pool \in Nat
    BY <2>4, Fields DEF Sound
  <2>6. /\ Load(f) = f.buffer.bytes /\ Load(f) \in Nat /\ Load(y.f) = y.f.buffer.bytes /\ Load(y.f) \in Nat
        /\ f.expected \in Nat /\ y.f.expected \in Nat
    BY <2>1, <2>5, LoadIsBytes
  <2>7. pool - y.pool = Load(f) - Load(y.f) /\ pool - y.pool \in Nat
    BY <1>n, <2>2, <2>4, <2>5, <2>6
  <2>8. Ascends(k)
    BY <2>3, <2>4, <2>6, RunAscends
  <2> QED
    BY <2>1, <2>3, <2>4, <2>5, <2>7, <2>8 DEF y
<1>3. ASSUME NEW k \in stay
      PROVE  flow'[k] = flow[k] /\ out'[k] = <<>> /\ k \in table /\ k \in Keys /\ FlowOK(flow[k])
  BY <1>1, <1>i DEF AllOK
<1>4. AllOK(flow', table')
  <2>1. IsFiniteSet(table')
    BY <1>1, <1>i, FS_Subset DEF AllOK
  <2>2. \A k \in table' : k \in fired \/ k \in stay
    BY <1>1
  <2> QED
    BY <1>2, <1>3, <2>1, <2>2 DEF AllOK
<1> DEFINE A == Loads(flow, fired)
           B == Loads(flow', fired)
           C == Loads(flow, idle)
           R == Loads(flow, stay)
<1>5. pool = A + C + R /\ A \in Nat /\ C \in Nat /\ R \in Nat /\ AllOK(flow, fired)
  <2>1. Loads(flow, table) = C + Loads(flow, table \ idle) /\ AllOK(flow, idle) /\ AllOK(flow, table \ idle)
    BY <1>1, <1>i, LoadsSplit
  <2>2. /\ Loads(flow, table \ idle) = Loads(flow, fired) + Loads(flow, (table \ idle) \ fired)
        /\ AllOK(flow, fired) /\ AllOK(flow, (table \ idle) \ fired)
    <3>1. fired \in SUBSET (table \ idle)
      BY <1>1
    <3> QED
      BY <2>1, <3>1, LoadsSplit
  <2>3. A \in Nat /\ C \in Nat /\ R \in Nat
    BY <2>1, <2>2, LoadsNat
  <2> HIDE DEF A, C, R
  <2> QED
    BY <1>i, <2>1, <2>2, <2>3 DEF A, R
<1>6. Loads(flow', table') = B + R /\ B \in Nat /\ AllOK(flow', fired)
  <2>1. fired \in SUBSET table' /\ table' \ fired = stay
    BY <1>1
  <2>2. /\ Loads(flow', table') = Loads(flow', fired) + Loads(flow', table' \ fired)
        /\ AllOK(flow', fired)
    BY <1>4, <2>1, LoadsSplit
  <2>3. Loads(flow', stay) = Loads(flow, stay)
    BY <1>3, LoadsSame
  <2>4. B \in Nat
    BY <2>2, LoadsNat
  <2> QED
    BY <2>1, <2>2, <2>3, <2>4
<1>7. given = A - B /\ given \in Nat
  <2> DEFINE a == [k \in fired |-> Load(flow[k])]
             b == [k \in fired |-> Load(flow'[k])]
             g == [k \in fired |-> pool - After(k).pool]
  <2>1. a \in [fired -> Int] /\ b \in [fired -> Int] /\ IsFiniteSet(fired)
    BY <1>5, <1>6, LoadsNat DEF AllOK
  <2>2. g = [k \in fired |-> a[k] - b[k]] /\ g \in [fired -> Nat]
    BY <1>2
  <2>3. SumFunction([k \in fired |-> a[k] - b[k]]) = SumFunction(a) - SumFunction(b)
    <3> HIDE DEF a, b
    <3> QED
      BY <2>1, SumDiff
  <2>4. SumFunction(g) \in Nat
    <3> HIDE DEF g
    <3> QED
      BY <2>1, <2>2, SumInt
  <2> QED
    BY <2>2, <2>3, <2>4 DEF Loads
<1>8. BytesHeldBy(idle) = C
  BY DEF BytesHeldBy, Loads, Load
<1>9. pool' = B + R /\ pool' <= PoolBytes
  <2>1. pool' = PoolRelease(PoolRelease(pool, given), C)
    BY <1>1, <1>8
  <2>2. B \in Nat
    BY <1>6
  <2> HIDE DEF A, B, C, R, given
  <2>3. PoolRelease(pool, given) = B + C + R
    BY <1>5, <1>7, <2>2 DEF PoolRelease
  <2>4. PoolRelease(B + C + R, C) = B + R
    BY <1>5, <2>2 DEF PoolRelease
  <2>5. B + R <= pool
    BY <1>5, <1>7, <2>2
  <2> QED
    BY <1>5, <1>i, <1>n, <2>1, <2>2, <2>3, <2>4, <2>5, Constants
<1>10. flow' \in [Keys -> Flow]
  <2>1. \A k \in Keys : (IF k \in idle THEN NewFlow ELSE IF k \in fired THEN After(k).f ELSE flow[k]) \in Flow
    BY <1>2, <1>i, NewFlowFields DEF FlowOK
  <2> QED
    BY <1>1, <2>1
<1>11. out' \in [Keys -> Seq(Seqs)]
  <2>1. \A k \in Keys : (IF k \in fired THEN After(k).out ELSE <<>>) \in Seq(Seqs)
    BY <1>2, Fields
  <2> QED
    BY <1>1, <2>1
<1>12. table' \subseteq Keys /\ table' \intersect ZeroWait = {} /\ \A k \in Keys \ table' : flow'[k] = NewFlow
  BY <1>1, <1>i
<1>13. RxInv'
  BY <1>4, <1>6, <1>9, <1>10, <1>11, <1>12 DEF RxInv, Loads, Load
<1>14. ASSUME NEW k \in table'
       PROVE  Held(flow[k].buffer) \subseteq Held(flow'[k].buffer) \union Range(out'[k]) /\ Ascends(k)
  <2>1. CASE k \in fired
    BY <1>2, <2>1
  <2>2. CASE k \notin fired
    <3>1. k \in stay
      BY <1>1, <2>2
    <3> QED
      BY <1>3, <3>1, Untouched
  <2> QED
    BY <2>1, <2>2
<1> QED
  BY <1>13, <1>14 DEF InOrderStep, NothingLostStep

LEMMA PassStep ==
    ASSUME RxInv, NEW k \in Keys, NEW s \in Seqs, PassThrough(k, s)
    PROVE  RxInv' /\ InOrderStep /\ NothingLostStep
<1>1. /\ k \in ZeroWait /\ out' = [Nothing EXCEPT ![k] = <<s>>]
      /\ table' = table /\ flow' = flow /\ pool' = pool
  BY DEF PassThrough
<1>2. <<s>> \in Seq(Seqs)
  OBVIOUS
<1>3. out' \in [Keys -> Seq(Seqs)]
  BY <1>1, <1>2, OutType
<1>4. RxInv'
  BY <1>1, <1>3 DEF RxInv, AllOK, Loads
<1>5. ASSUME NEW j \in table'
      PROVE  Held(flow[j].buffer) \subseteq Held(flow'[j].buffer) \union Range(out'[j]) /\ Ascends(j)
  <2>1. j # k /\ j \in Keys /\ FlowOK(flow[j])
    BY <1>1 DEF RxInv, AllOK
  <2>2. out'[j] = <<>> /\ flow'[j] = flow[j]
    BY <1>1, <1>2, <2>1, OutType
  <2> QED
    BY <2>1, <2>2, Untouched
<1> QED
  BY <1>4, <1>5 DEF InOrderStep, NothingLostStep

LEMMA FreeStep ==
    ASSUME RxInv, RxFreeAndNew
    PROVE  RxInv' /\ InOrderStep /\ NothingLostStep
<1>1. /\ table' = {} /\ flow' = [k \in Keys |-> NewFlow] /\ pool' = 0 /\ out' = [k \in Keys |-> <<>>]
  BY DEF RxFreeAndNew, Nothing
<1>2. AllOK(flow', table')
  BY <1>1, FS_EmptySet DEF AllOK
<1>3. Loads(flow', table') = 0
  BY <1>1, SumEmpty DEF Loads
<1>4. out' \in [Keys -> Seq(Seqs)] /\ flow' \in [Keys -> Flow]
  BY <1>1, NewFlowFields
<1>5. RxInv'
  BY <1>1, <1>2, <1>3, <1>4, Constants DEF RxInv, Loads, Load
<1> QED
  BY <1>1, <1>5 DEF InOrderStep, NothingLostStep

LEMMA NextStep ==
    ASSUME RxInv, Next
    PROVE  RxInv' /\ InOrderStep /\ NothingLostStep
<1>1. ASSUME NEW k \in Keys, NEW s \in Seqs, NEW reset \in BOOLEAN, NEW idle \in BOOLEAN,
             NEW len \in Lens, NEW memory \in Memory, OnPacket(k, s, reset, len, idle, memory)
      PROVE  RxInv' /\ InOrderStep /\ NothingLostStep
  BY <1>1, PacketStep
<1>2. ASSUME NEW k \in Keys, NEW s \in Seqs, PassThrough(k, s)
      PROVE  RxInv' /\ InOrderStep /\ NothingLostStep
  BY <1>2, PassStep
<1>3. ASSUME NEW fired \in SUBSET Keys, NEW idle \in SUBSET Keys, Tick(fired, idle)
      PROVE  RxInv' /\ InOrderStep /\ NothingLostStep
  BY <1>3, TickStep
<1>4. ASSUME RxFreeAndNew
      PROVE  RxInv' /\ InOrderStep /\ NothingLostStep
  BY <1>4, FreeStep
<1> QED
  BY <1>1, <1>2, <1>3, <1>4, Zenon DEF Next, Memory

LEMMA InvStutters ==
    ASSUME RxInv, UNCHANGED vars
    PROVE  RxInv'
  BY DEF RxInv, AllOK, Loads, vars

(* The invariant gives what the run checks. *)
LEMMA InvBuffers == RxInv => BuffersExact
<1> SUFFICES ASSUME RxInv PROVE BuffersExact
  OBVIOUS
<1>1. /\ table \subseteq Keys /\ AllOK(flow, table) /\ pool = Loads(flow, table) /\ pool <= PoolBytes
      /\ flow \in [Keys -> Flow] /\ out \in [Keys -> Seq(Seqs)]
  BY DEF RxInv
<1>2. pool \in Nat
  BY <1>1, LoadsNat
<1>3. TypeOK
  BY <1>1, <1>2 DEF TypeOK
<1>4. PoolExact
  BY <1>1 DEF PoolExact, BytesHeldBy, Loads, Load
<1>5. ASSUME NEW k \in table
      PROVE  LET r == flow[k].buffer
             IN  /\ \A i \in Occupied(r) :
                       /\ r.slots[i].seq % r.size = i
                       /\ r.slots[i].seq \in (flow[k].expected + 1)..(flow[k].expected + r.size - 1)
                 /\ r.count = Cardinality(Held(r))
                 /\ r.bytes = BytesOf(r, Held(r))
  <2> DEFINE r == flow[k].buffer
             e == flow[k].expected
  <2>1. Placed(r, e) /\ Counted(r) /\ e \notin Held(r) /\ e \in Nat
    BY <1>1, LoadIsBytes DEF AllOK, FlowOK, Settled
  <2> HIDE DEF r, e
  <2>2. ASSUME NEW i \in Occupied(r)
        PROVE  /\ r.slots[i].seq % r.size = i
               /\ r.slots[i].seq \in (e + 1)..(e + r.size - 1)
    <3>1. r.slots[i].seq \in e..(e + r.size - 1) /\ r.slots[i].seq % r.size = i
      BY <2>1 DEF Placed
    <3>2. r.slots[i].seq # e
      BY <2>1 DEF Held
    <3>3. r.size \in Nat
      BY <2>1, RingFields DEF Placed
    <3> QED
      BY <2>1, <3>1, <3>2, <3>3
  <2> QED
    BY <2>1, <2>2 DEF Counted, r, e
<1>6. RingSound
  BY <1>5 DEF RingSound
<1> QED
  BY <1>3, <1>4, <1>6 DEF BuffersExact

LEMMA InvGaps == RxInv => GapPeriods
  BY DEF RxInv, AllOK, FlowOK, Full, GapPeriods, TimerMatchesBuffer, GapIdentity

(* After any arrival, drop, flush, ring growth, demotion, eviction and      *)
(* reset of reorder_rx.c, each flow's packets sit in the slots of their     *)
(* numbers inside the window, its count and byte counter are those of the   *)
(* packets held, and the shared pool is charged for exactly the packets of  *)
(* all flows and never above its limit.                                     *)
THEOREM RxBuffersExact == Spec => []BuffersExact
<1>1. RxInv /\ [Next]_vars => RxInv'
  BY NextStep, InvStutters
<1> QED
  BY InitInv, InvBuffers, <1>1, PTL DEF Spec

(* The gap timer of a flow runs exactly while packets are held, and every   *)
(* gap period that reorder_rx.c arms ends in exactly one counter: armed and *)
(* ended periods differ by the one in progress (sections 11.1 and 17).      *)
THEOREM RxGapPeriods == Spec => []GapPeriods
<1>1. RxInv /\ [Next]_vars => RxInv'
  BY NextStep, InvStutters
<1> QED
  BY InitInv, InvGaps, <1>1, PTL DEF Spec

(* What reorder_rx.c hands up for a flow that is not demoted is ascending   *)
(* and lies in the window that expected moves across; a packet held leaves  *)
(* the ring only by being handed up.  An honoured reset and the end of the  *)
(* flow are the only exceptions.                                            *)
THEOREM RxDeliverySound == Spec => DeliverySound
<1>1. RxInv /\ [Next]_vars => RxInv'
  BY NextStep, InvStutters
<1>2. RxInv /\ [Next]_vars => [InOrderStep]_vars /\ [NothingLostStep]_vars
  BY NextStep
<1>3. Spec => [][InOrderStep]_vars /\ [][NothingLostStep]_vars
  BY InitInv, <1>1, <1>2, PTL DEF Spec
<1> QED
  BY <1>3, PTL DEF DeliverySound, DeliversInOrder, HeldNotLost, InOrderStep, NothingLostStep
=============================================================================
