---------------------------- MODULE SumTheorems ----------------------------
(***************************************************************************)
(* Sums over finite sets: what the community modules' MapThenSumSet, which *)
(* adds the members in an order nobody knows, gives for every set.         *)
(***************************************************************************)
EXTENDS Integers, FiniteSetsExt, FiniteSetTheorems, WellFoundedInduction, TLAPS

Sum(f, S) == MapThenSumSet(LAMBDA x : f[x], S)

-----------------------------------------------------------------------------
(* Least counterexamples take the place of inductions.                     *)

\* A number of a set of naturals is the least.
LEMMA LeastExists ==
    ASSUME NEW T \in SUBSET Nat, T # {} PROVE \E r \in T : \A q \in T : r <= q
<1>1. \E r \in T : \A q \in T : <<q, r>> \notin OpToRel(<, Nat)
  BY NatLessThanWellFounded, WFMin
<1> DEFINE smaller == OpToRel(<, Nat)
<1>2. PICK r \in T : \A q \in T : <<q, r>> \notin smaller
  BY <1>1
<1>3. smaller = {ss \in Nat \X Nat : ss[1] < ss[2]}
  BY DEF OpToRel
<1> HIDE DEF smaller
<1>4. ASSUME NEW q \in T PROVE r <= q
  <2> DEFINE pair == <<q, r>>
  <2>1. pair \in Nat \X Nat /\ pair[1] = q /\ pair[2] = r /\ pair \notin smaller
    BY <1>2
  <2> HIDE DEF pair
  <2> QED  BY <2>1, <1>3
<1> QED  BY <1>4

\* A set of finite sets has one that loses its membership with any of its members.
LEMMA SmallestExists ==
    ASSUME NEW S, IsFiniteSet(S), NEW Bad \in SUBSET SUBSET S, Bad # {}
    PROVE  \E s \in Bad : IsFiniteSet(s) /\ \A x \in s : s \ {x} \notin Bad
<1> DEFINE T == {Cardinality(s) : s \in Bad}
<1>1. \A s \in Bad : IsFiniteSet(s) /\ Cardinality(s) \in Nat
  BY FS_Subset, FS_CardinalityType
<1>2. PICK s \in Bad : \A t \in Bad : Cardinality(s) <= Cardinality(t)
  <2>1. T \in SUBSET Nat /\ T # {}
    BY <1>1
  <2>2. PICK n \in T : \A m \in T : n <= m
    <3> HIDE DEF T
    <3> QED  BY <2>1, LeastExists
  <2> QED  BY <2>2
<1>3. ASSUME NEW x \in s PROVE s \ {x} \notin Bad
  <2>1. Cardinality(s \ {x}) = Cardinality(s) - 1
    BY <1>1, <1>2, FS_RemoveElement
  <2> QED  BY <1>1, <1>2, <2>1
<1> QED  BY <1>1, <1>2, <1>3

-----------------------------------------------------------------------------
(* The recursion behind a sum.                                             *)

Chosen(s) == CHOOSE x \in s : TRUE
Adds(g, f, S) ==
    g = [s \in SUBSET S |-> IF s = {} THEN 0 ELSE f[Chosen(s)] + g[s \ {Chosen(s)}]]
Partial(f, S) == CHOOSE g : Adds(g, f, S)

LEMMA SumIsChosen == ASSUME NEW f, NEW S PROVE Sum(f, S) = Partial(f, S)[S]
BY DEF Sum, MapThenSumSet, MapThenFoldSet, Partial, Adds, Chosen

LEMMA ChosenMember == ASSUME NEW s, s # {} PROVE Chosen(s) \in s
BY DEF Chosen

LEMMA AddsTo ==
    ASSUME NEW f, NEW S, NEW g, Adds(g, f, S), NEW s \in SUBSET S
    PROVE  g[s] = IF s = {} THEN 0 ELSE f[Chosen(s)] + g[s \ {Chosen(s)}]
BY DEF Adds

\* Two such recursions agree where both are defined.
LEMMA AddsAgree ==
    ASSUME NEW f, NEW S, IsFiniteSet(S), NEW T \in SUBSET S,
           NEW g, NEW h, Adds(g, f, S), Adds(h, f, T)
    PROVE  \A s \in SUBSET T : g[s] = h[s]
<1> DEFINE Bad == {s \in SUBSET T : g[s] # h[s]}
<1> SUFFICES ASSUME Bad # {} PROVE FALSE
  OBVIOUS
<1>1. Bad \in SUBSET SUBSET S
  OBVIOUS
<1>2. PICK s \in Bad : \A x \in s : s \ {x} \notin Bad
  <2> HIDE DEF Bad
  <2> QED  BY <1>1, SmallestExists
<1>3. s \in SUBSET T /\ g[s] # h[s]
  BY <1>2
<1>4. CASE s = {}
  BY <1>3, <1>4, AddsTo
<1>5. CASE s # {}
  <2> DEFINE x == Chosen(s)
  <2>1. x \in s /\ s \ {x} \in SUBSET T
    BY <1>3, <1>5, ChosenMember
  <2>2. g[s \ {x}] = h[s \ {x}]
    BY <1>2, <2>1
  <2>3. g[s] = f[x] + g[s \ {x}]
    <3>1. s \in SUBSET S
      BY <1>3
    <3>2. \A t \in SUBSET S :
              g[t] = IF t = {} THEN 0 ELSE f[Chosen(t)] + g[t \ {Chosen(t)}]
      BY AddsTo
    <3> QED  BY <1>5, <3>1, <3>2
  <2>4. h[s] = f[x] + h[s \ {x}]
    BY <1>3, <1>5, AddsTo
  <2> QED  BY <1>3, <2>2, <2>3, <2>4
<1> QED  BY <1>4, <1>5

\* There is one for every finite set.
LEMMA AddsExist ==
    ASSUME NEW f, NEW S, IsFiniteSet(S) PROVE \A s \in SUBSET S : \E g : Adds(g, f, s)
<1> DEFINE Bad == {s \in SUBSET S : ~\E g : Adds(g, f, s)}
<1> SUFFICES ASSUME Bad # {} PROVE FALSE
  OBVIOUS
<1>1. PICK s \in Bad : IsFiniteSet(s) /\ \A x \in s : s \ {x} \notin Bad
  <2>1. Bad \in SUBSET SUBSET S
    OBVIOUS
  <2> HIDE DEF Bad
  <2> QED  BY <2>1, SmallestExists
<1>2. s \in SUBSET S /\ ~\E g : Adds(g, f, s)
  BY <1>1
<1>3. \A t \in SUBSET s : t # s => \E g : Adds(g, f, t)
  <2> SUFFICES ASSUME NEW t \in SUBSET s, t # s PROVE \E g : Adds(g, f, t)
    OBVIOUS
  <2>1. PICK x \in s : x \notin t
    OBVIOUS
  <2>2. s \ {x} \notin Bad /\ s \ {x} \in SUBSET S /\ t \in SUBSET (s \ {x})
    BY <1>1, <1>2, <2>1
  <2>3. PICK g : Adds(g, f, s \ {x})
    BY <2>2
  <2> DEFINE h == [u \in SUBSET t |-> g[u]]
  <2>4. h = [u \in SUBSET t |-> IF u = {} THEN 0 ELSE f[Chosen(u)] + h[u \ {Chosen(u)}]]
    <3>1. ASSUME NEW u \in SUBSET t
          PROVE  g[u] = IF u = {} THEN 0 ELSE f[Chosen(u)] + h[u \ {Chosen(u)}]
      <4>1. g[u] = IF u = {} THEN 0 ELSE f[Chosen(u)] + g[u \ {Chosen(u)}]
        BY <2>2, <2>3, AddsTo
      <4> QED  BY <4>1
    <3> QED  BY <3>1
  <2> QED  BY <2>4 DEF Adds
<1> DEFINE Value(t) == Partial(f, t)[t]
           k == [t \in SUBSET s |-> IF t = {} THEN 0 ELSE f[Chosen(t)] + Value(t \ {Chosen(t)})]
<1>4. \A t \in SUBSET s : t # s => Adds(Partial(f, t), f, t)
  BY <1>3 DEF Partial
<1>5. ASSUME NEW t \in SUBSET s, t # s PROVE k[t] = Value(t)
  <2>1. Adds(Partial(f, t), f, t)
    BY <1>4, <1>5
  <2>2. CASE t = {}
    BY <2>1, <2>2, AddsTo
  <2>3. CASE t # {}
    <3> DEFINE x == Chosen(t)
               u == t \ {x}
    <3>1. x \in t /\ u \in SUBSET t /\ u \in SUBSET s /\ u # s
      BY <2>3, <1>5, ChosenMember
    <3>2. Value(t) = f[x] + Partial(f, t)[u]
      BY <2>1, <2>3, AddsTo
    <3>3. Partial(f, t)[u] = Partial(f, u)[u]
      <4>1. Adds(Partial(f, u), f, u)
        BY <1>4, <3>1
      <4>2. IsFiniteSet(t)
        BY <1>1, FS_Subset
      <4> HIDE DEF u
      <4> QED  BY <2>1, <3>1, <4>1, <4>2, AddsAgree
    <3> QED  BY <2>3, <3>1, <3>2, <3>3
  <2> QED  BY <2>2, <2>3
<1>6. Adds(k, f, s)
  <2>1. ASSUME NEW t \in SUBSET s, t # {} PROVE k[t \ {Chosen(t)}] = Value(t \ {Chosen(t)})
    <3> DEFINE u == t \ {Chosen(t)}
    <3>1. u \in SUBSET s /\ u # s
      BY <2>1, ChosenMember
    <3> HIDE DEF u, k, Value
    <3>2. k[u] = Value(u)
      BY <3>1, <1>5
    <3> QED  BY <3>2 DEF u
  <2>2. k = [t \in SUBSET s |-> IF t = {} THEN 0 ELSE f[Chosen(t)] + k[t \ {Chosen(t)}]]
    <3> HIDE DEF Value
    <3> QED  BY <2>1
  <2> HIDE DEF k
  <2> QED  BY <2>2 DEF Adds
<1> QED  BY <1>2, <1>6

-----------------------------------------------------------------------------
(* What a sum is.                                                          *)

\* All the sums of subsets belong to one recursion.
LEMMA SumIs ==
    ASSUME NEW f, NEW S, IsFiniteSet(S)
    PROVE  \E g : Adds(g, f, S) /\ \A s \in SUBSET S : Sum(f, s) = g[s]
<1> DEFINE g == Partial(f, S)
<1>1. \A s \in SUBSET S : Adds(Partial(f, s), f, s)
  BY AddsExist DEF Partial
<1>2. Adds(g, f, S)
  BY <1>1
<1>3. ASSUME NEW s \in SUBSET S PROVE Sum(f, s) = g[s]
  <2>1. g[s] = Partial(f, s)[s]
    BY <1>1, AddsAgree
  <2> QED  BY <2>1, SumIsChosen
<1> HIDE DEF g
<1> QED  BY <1>2, <1>3

\* The sum of nothing is 0; that of more is a member's number and the rest.
THEOREM SumEmpty == ASSUME NEW f PROVE Sum(f, {}) = 0
<1>1. IsFiniteSet({})
  BY FS_EmptySet
<1>2. PICK g : Adds(g, f, {}) /\ Sum(f, {}) = g[{}]
  BY <1>1, SumIs
<1> QED  BY <1>2, AddsTo

LEMMA SumChosen ==
    ASSUME NEW f, NEW S, IsFiniteSet(S), S # {}
    PROVE  Sum(f, S) = f[Chosen(S)] + Sum(f, S \ {Chosen(S)})
<1> DEFINE x == Chosen(S)
<1>1. PICK g : Adds(g, f, S) /\ \A s \in SUBSET S : Sum(f, s) = g[s]
  BY SumIs
<1>2. g[S] = f[x] + g[S \ {x}]
  BY <1>1, AddsTo
<1>3. Sum(f, S) = g[S] /\ Sum(f, S \ {x}) = g[S \ {x}]
  <2>1. S \in SUBSET S /\ S \ {x} \in SUBSET S
    OBVIOUS
  <2> HIDE DEF x
  <2> QED  BY <1>1, <2>1
<1> QED  BY <1>2, <1>3

\* Natural numbers have a natural sum.
THEOREM SumNat ==
    ASSUME NEW S, IsFiniteSet(S), NEW f, \A x \in S : f[x] \in Nat
    PROVE  Sum(f, S) \in Nat
<1> DEFINE Bad == {s \in SUBSET S : Sum(f, s) \notin Nat}
<1> SUFFICES ASSUME Bad # {} PROVE FALSE
  OBVIOUS
<1>1. PICK s \in Bad : IsFiniteSet(s) /\ \A x \in s : s \ {x} \notin Bad
  <2>1. Bad \in SUBSET SUBSET S
    OBVIOUS
  <2> HIDE DEF Bad
  <2> QED  BY <2>1, SmallestExists
<1>2. s # {}
  BY <1>1, SumEmpty
<1> DEFINE x == Chosen(s)
<1>3. x \in s
  BY <1>2, ChosenMember
<1>4. Sum(f, s) = f[x] + Sum(f, s \ {x})
  BY <1>1, <1>2, SumChosen
<1>5. Sum(f, s \ {x}) \in Nat /\ f[x] \in Nat
  <2> HIDE DEF x
  <2> QED  BY <1>1, <1>3
<1> QED  BY <1>1, <1>4, <1>5

\* The order does not matter: any member's number may come first.
THEOREM SumTake ==
    ASSUME NEW S, IsFiniteSet(S), NEW f, \A x \in S : f[x] \in Nat, NEW y \in S
    PROVE  Sum(f, S) = f[y] + Sum(f, S \ {y})
<1> DEFINE Bad == {s \in SUBSET S : \E x \in s : Sum(f, s) # f[x] + Sum(f, s \ {x})}
<1> SUFFICES ASSUME Bad # {} PROVE FALSE
  OBVIOUS
<1>1. PICK s \in Bad : IsFiniteSet(s) /\ \A x \in s : s \ {x} \notin Bad
  <2>1. Bad \in SUBSET SUBSET S
    OBVIOUS
  <2> HIDE DEF Bad
  <2> QED  BY <2>1, SmallestExists
<1>2. PICK x \in s : Sum(f, s) # f[x] + Sum(f, s \ {x})
  BY <1>1
<1>3. PICK c : c = Chosen(s) /\ c \in s
  BY <1>2, ChosenMember
<1>4. Sum(f, s) = f[c] + Sum(f, s \ {c})
  BY <1>1, <1>2, <1>3, SumChosen
<1>5. x # c
  BY <1>2, <1>4
<1>6. Sum(f, s \ {c}) = f[x] + Sum(f, (s \ {c}) \ {x})
  <2>1. s \ {c} \notin Bad /\ s \ {c} \in SUBSET S /\ x \in s \ {c}
    BY <1>1, <1>3, <1>5
  <2> QED  BY <2>1
<1>7. Sum(f, s \ {x}) = f[c] + Sum(f, (s \ {x}) \ {c})
  <2>1. s \ {x} \notin Bad /\ s \ {x} \in SUBSET S /\ c \in s \ {x}
    BY <1>1, <1>3, <1>5
  <2> QED  BY <2>1
<1>8. (s \ {x}) \ {c} = (s \ {c}) \ {x}
  OBVIOUS
<1>9. Sum(f, (s \ {x}) \ {c}) \in Nat /\ f[c] \in Nat /\ f[x] \in Nat
  <2>1. IsFiniteSet((s \ {x}) \ {c})
    BY <1>1, FS_RemoveElement
  <2> QED  BY <1>1, <1>3, <2>1, SumNat
<1> QED  BY <1>2, <1>4, <1>6, <1>7, <1>8, <1>9

\* Functions that agree on a set have the same sum over it.
THEOREM SumSame ==
    ASSUME NEW S, IsFiniteSet(S), NEW f, NEW h, \A x \in S : f[x] = h[x]
    PROVE  Sum(f, S) = Sum(h, S)
<1> DEFINE Bad == {s \in SUBSET S : Sum(f, s) # Sum(h, s)}
<1> SUFFICES ASSUME Bad # {} PROVE FALSE
  OBVIOUS
<1>1. PICK s \in Bad : IsFiniteSet(s) /\ \A x \in s : s \ {x} \notin Bad
  <2>1. Bad \in SUBSET SUBSET S
    OBVIOUS
  <2> HIDE DEF Bad
  <2> QED  BY <2>1, SmallestExists
<1>2. s # {}
  BY <1>1, SumEmpty
<1>3. PICK c : c = Chosen(s) /\ c \in s
  BY <1>2, ChosenMember
<1>4. Sum(f, s) = f[c] + Sum(f, s \ {c}) /\ Sum(h, s) = h[c] + Sum(h, s \ {c})
  BY <1>1, <1>2, <1>3, SumChosen
<1>5. Sum(f, s \ {c}) = Sum(h, s \ {c}) /\ f[c] = h[c]
  BY <1>1, <1>3
<1> QED  BY <1>1, <1>4, <1>5

\* Disjoint sets: the sums add up.
THEOREM SumUnion ==
    ASSUME NEW S, IsFiniteSet(S), NEW T, IsFiniteSet(T), S \cap T = {},
           NEW f, \A x \in S \cup T : f[x] \in Nat
    PROVE  Sum(f, S \cup T) = Sum(f, S) + Sum(f, T)
<1> DEFINE Bad == {s \in SUBSET S : Sum(f, s \cup T) # Sum(f, s) + Sum(f, T)}
<1> SUFFICES ASSUME Bad # {} PROVE FALSE
  OBVIOUS
<1>1. PICK s \in Bad : IsFiniteSet(s) /\ \A x \in s : s \ {x} \notin Bad
  <2>1. Bad \in SUBSET SUBSET S
    OBVIOUS
  <2> HIDE DEF Bad
  <2> QED  BY <2>1, SmallestExists
<1>2. s \in SUBSET S /\ Sum(f, s \cup T) # Sum(f, s) + Sum(f, T)
  BY <1>1
<1>3. Sum(f, T) \in Nat
  BY SumNat
<1>4. s # {}
  <2> SUFFICES ASSUME s = {} PROVE FALSE
    OBVIOUS
  <2>1. s \cup T = T
    OBVIOUS
  <2>2. Sum(f, s \cup T) = Sum(f, T)
    BY <2>1, Zenon
  <2>3. Sum(f, s) = 0
    BY SumEmpty
  <2> QED  BY <1>2, <1>3, <2>2, <2>3
<1>5. PICK c : c \in s
  BY <1>4
<1>6. Sum(f, s) = f[c] + Sum(f, s \ {c})
  BY <1>1, <1>2, <1>5, SumTake
<1>7. Sum(f, s \cup T) = f[c] + Sum(f, (s \cup T) \ {c})
  <2>1. IsFiniteSet(s \cup T)
    BY <1>1, FS_Union
  <2>2. c \in s \cup T /\ \A x \in s \cup T : f[x] \in Nat
    BY <1>2, <1>5
  <2> QED  BY <2>1, <2>2, SumTake
<1>8. (s \cup T) \ {c} = (s \ {c}) \cup T
  BY <1>2, <1>5
<1>9. Sum(f, (s \ {c}) \cup T) = Sum(f, s \ {c}) + Sum(f, T)
  BY <1>1, <1>2, <1>5
<1>10. Sum(f, s \ {c}) \in Nat /\ f[c] \in Nat
  <2>1. IsFiniteSet(s \ {c}) /\ \A x \in s \ {c} : f[x] \in Nat
    BY <1>1, <1>2, FS_RemoveElement
  <2> QED  BY <1>2, <1>5, <2>1, SumNat
<1>11. Sum(f, (s \cup T) \ {c}) = Sum(f, s \ {c}) + Sum(f, T)
  BY <1>8, <1>9, Zenon
<1> QED  BY <1>2, <1>3, <1>6, <1>7, <1>10, <1>11

\* Where all is 0, so is the sum; a part never has a greater one; no member's
\* number is greater than the sum.
THEOREM SumZero ==
    ASSUME NEW S, IsFiniteSet(S), NEW f, \A x \in S : f[x] = 0
    PROVE  Sum(f, S) = 0
<1> DEFINE Bad == {s \in SUBSET S : Sum(f, s) # 0}
<1> SUFFICES ASSUME Bad # {} PROVE FALSE
  OBVIOUS
<1>1. PICK s \in Bad : IsFiniteSet(s) /\ \A x \in s : s \ {x} \notin Bad
  <2>1. Bad \in SUBSET SUBSET S
    OBVIOUS
  <2> HIDE DEF Bad
  <2> QED  BY <2>1, SmallestExists
<1>2. s # {}
  BY <1>1, SumEmpty
<1>3. PICK c : c = Chosen(s) /\ c \in s
  BY <1>2, ChosenMember
<1>4. Sum(f, s) = f[c] + Sum(f, s \ {c})
  BY <1>1, <1>2, <1>3, SumChosen
<1>5. Sum(f, s \ {c}) = 0 /\ f[c] = 0
  BY <1>1, <1>3
<1> QED  BY <1>1, <1>4, <1>5

THEOREM SumPart ==
    ASSUME NEW S, IsFiniteSet(S), NEW T \in SUBSET S, NEW f, \A x \in S : f[x] \in Nat
    PROVE  /\ Sum(f, T) \in Nat /\ Sum(f, S \ T) \in Nat
           /\ Sum(f, S) = Sum(f, T) + Sum(f, S \ T) /\ Sum(f, T) <= Sum(f, S)
<1>1. IsFiniteSet(T) /\ IsFiniteSet(S \ T)
  BY FS_Subset
<1>2. T \cup (S \ T) = S /\ T \cap (S \ T) = {}
  OBVIOUS
<1>3. Sum(f, S) = Sum(f, T) + Sum(f, S \ T)
  <2> DEFINE U == S \ T
  <2>1. Sum(f, T \cup U) = Sum(f, T) + Sum(f, U)
    BY <1>1, <1>2, SumUnion
  <2> QED  BY <1>2, <2>1
<1>4. Sum(f, T) \in Nat /\ Sum(f, S \ T) \in Nat
  BY <1>1, SumNat
<1> QED  BY <1>3, <1>4

THEOREM SumAtLeast ==
    ASSUME NEW S, IsFiniteSet(S), NEW f, \A x \in S : f[x] \in Nat, NEW y \in S
    PROVE  f[y] <= Sum(f, S)
<1>1. Sum(f, S \ {y}) \in Nat
  <2>1. IsFiniteSet(S \ {y})
    BY FS_RemoveElement
  <2> QED  BY <2>1, SumNat
<1> QED  BY <1>1, SumTake

\* Smaller numbers have no greater sum.
THEOREM SumGrows ==
    ASSUME NEW S, IsFiniteSet(S), NEW f, NEW h,
           \A x \in S : f[x] \in Nat /\ h[x] \in Nat /\ f[x] <= h[x]
    PROVE  Sum(f, S) <= Sum(h, S)
<1> DEFINE Bad == {s \in SUBSET S : ~(Sum(f, s) <= Sum(h, s))}
<1> SUFFICES ASSUME Bad # {} PROVE FALSE
  OBVIOUS
<1>1. PICK s \in Bad : IsFiniteSet(s) /\ \A x \in s : s \ {x} \notin Bad
  <2>1. Bad \in SUBSET SUBSET S
    OBVIOUS
  <2> HIDE DEF Bad
  <2> QED  BY <2>1, SmallestExists
<1>2. s # {}
  BY <1>1, SumEmpty
<1>3. PICK c : c = Chosen(s) /\ c \in s
  BY <1>2, ChosenMember
<1>4. Sum(f, s) = f[c] + Sum(f, s \ {c}) /\ Sum(h, s) = h[c] + Sum(h, s \ {c})
  BY <1>1, <1>2, <1>3, SumChosen
<1>5. Sum(f, s \ {c}) <= Sum(h, s \ {c}) /\ f[c] <= h[c] /\ f[c] \in Nat /\ h[c] \in Nat
  BY <1>1, <1>3
<1>6. Sum(f, s \ {c}) \in Nat /\ Sum(h, s \ {c}) \in Nat
  <2>1. IsFiniteSet(s \ {c}) /\ \A x \in s \ {c} : f[x] \in Nat /\ h[x] \in Nat
    BY <1>1, FS_RemoveElement
  <2> QED  BY <2>1, SumNat
<1> QED  BY <1>1, <1>4, <1>5, <1>6
\* Where one number changes, the sum changes by as much.
THEOREM SumChange ==
    ASSUME NEW S, IsFiniteSet(S), NEW f, NEW h, NEW y \in S,
           \A x \in S : f[x] \in Nat /\ h[x] \in Nat,
           \A x \in S \ {y} : h[x] = f[x]
    PROVE  Sum(h, S) + f[y] = Sum(f, S) + h[y]
<1>1. IsFiniteSet(S \ {y})
  BY FS_RemoveElement
<1>2. Sum(f, S) = f[y] + Sum(f, S \ {y})
  BY SumTake
<1>3. Sum(h, S) = h[y] + Sum(h, S \ {y})
  BY SumTake
<1>4. Sum(h, S \ {y}) = Sum(f, S \ {y})
  BY <1>1, SumSame
<1>5. Sum(f, S \ {y}) \in Nat
  BY <1>1, SumNat
<1> QED  BY <1>2, <1>3, <1>4, <1>5

\* Where only one number is not 0, the sum is that number.
THEOREM SumOne ==
    ASSUME NEW S, IsFiniteSet(S), NEW f, NEW y \in S, f[y] \in Nat,
           \A x \in S \ {y} : f[x] = 0
    PROVE  Sum(f, S) = f[y]
<1>1. Sum(f, S) = f[y] + Sum(f, S \ {y})
  BY SumTake
<1>2. Sum(f, S \ {y}) = 0
  <2>1. IsFiniteSet(S \ {y})
    BY FS_RemoveElement
  <2> QED  BY <2>1, SumZero
<1> QED  BY <1>1, <1>2

\* The sum of sums.
THEOREM SumPlus ==
    ASSUME NEW S, IsFiniteSet(S), NEW f, NEW g, NEW h,
           \A x \in S : f[x] \in Nat /\ g[x] \in Nat /\ h[x] = f[x] + g[x]
    PROVE  Sum(h, S) = Sum(f, S) + Sum(g, S)
<1> DEFINE Bad == {s \in SUBSET S : Sum(h, s) # Sum(f, s) + Sum(g, s)}
<1> SUFFICES ASSUME Bad # {} PROVE FALSE
  OBVIOUS
<1>1. PICK s \in Bad : IsFiniteSet(s) /\ \A x \in s : s \ {x} \notin Bad
  <2>1. Bad \in SUBSET SUBSET S
    OBVIOUS
  <2> HIDE DEF Bad
  <2> QED  BY <2>1, SmallestExists
<1>2. s # {}
  BY <1>1, SumEmpty
<1>3. PICK c : c = Chosen(s) /\ c \in s
  BY <1>2, ChosenMember
<1>4. /\ Sum(f, s) = f[c] + Sum(f, s \ {c}) /\ Sum(g, s) = g[c] + Sum(g, s \ {c})
      /\ Sum(h, s) = h[c] + Sum(h, s \ {c})
  BY <1>1, <1>2, <1>3, SumChosen
<1>5. Sum(h, s \ {c}) = Sum(f, s \ {c}) + Sum(g, s \ {c})
      /\ f[c] \in Nat /\ g[c] \in Nat /\ h[c] = f[c] + g[c]
  BY <1>1, <1>3
<1>6. Sum(f, s \ {c}) \in Nat /\ Sum(g, s \ {c}) \in Nat
  <2>1. IsFiniteSet(s \ {c}) /\ \A x \in s \ {c} : f[x] \in Nat /\ g[x] \in Nat
    BY <1>1, FS_RemoveElement
  <2> QED  BY <2>1, SumNat
<1> QED  BY <1>1, <1>4, <1>5, <1>6

\* f counts under its name what g counts.
Renames(name, f, g, S) ==
    /\ \A x, y \in S : name[x] = name[y] => x = y
    /\ \A x \in S : g[x] \in Nat /\ f[name[x]] = g[x]

\* Renaming the members does not change the sum.
THEOREM SumRenamed ==
    ASSUME NEW S, IsFiniteSet(S), NEW name, NEW f, NEW g, Renames(name, f, g, S)
    PROVE  Sum(f, {name[x] : x \in S}) = Sum(g, S)
<1> DEFINE Names(s) == {name[x] : x \in s}
           Bad == {s \in SUBSET S : Sum(f, Names(s)) # Sum(g, s)}
<1> SUFFICES ASSUME Bad # {} PROVE FALSE
  OBVIOUS
<1> USE DEF Renames
<1>1. PICK s \in Bad : IsFiniteSet(s) /\ \A x \in s : s \ {x} \notin Bad
  <2>1. Bad \in SUBSET SUBSET S
    OBVIOUS
  <2> HIDE DEF Bad
  <2> QED  BY <2>1, SmallestExists
<1>2. s \in SUBSET S /\ Sum(f, Names(s)) # Sum(g, s)
  BY <1>1
<1>3. s # {}
  <2> SUFFICES ASSUME s = {} PROVE FALSE
    OBVIOUS
  <2>1. Names(s) = {}
    OBVIOUS
  <2>2. Sum(f, Names(s)) = 0
    BY <2>1, SumEmpty, Zenon
  <2>3. Sum(g, s) = 0
    BY SumEmpty
  <2> QED  BY <1>2, <2>2, <2>3
<1>4. PICK c : c \in s
  BY <1>3
<1>5. Sum(g, s) = g[c] + Sum(g, s \ {c})
  BY <1>1, <1>2, <1>4, SumTake
<1>6. Names(s) \ {name[c]} = Names(s \ {c}) /\ name[c] \in Names(s)
  BY <1>2, <1>4
<1>7. IsFiniteSet(Names(s))
  <2>1. [x \in s |-> name[x]] \in Surjection(s, Names(s))
    BY DEF Surjection
  <2> HIDE DEF Names
  <2> QED  BY <1>1, <2>1, FS_Surjection
<1>8. \A n \in Names(s) : f[n] \in Nat
  BY <1>2
<1>9. Sum(f, Names(s)) = f[name[c]] + Sum(f, Names(s) \ {name[c]})
  <2> HIDE DEF Names
  <2> QED  BY <1>6, <1>7, <1>8, SumTake
<1>10. Sum(f, Names(s) \ {name[c]}) = Sum(f, Names(s \ {c}))
  <2> HIDE DEF Names
  <2> QED  BY <1>6, Zenon
<1>11. Sum(f, Names(s \ {c})) = Sum(g, s \ {c}) /\ f[name[c]] = g[c]
  BY <1>1, <1>2, <1>4
<1> QED  BY <1>2, <1>5, <1>9, <1>10, <1>11
=============================================================================
