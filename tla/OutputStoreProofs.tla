------------------------- MODULE OutputStoreProofs -------------------------
(***************************************************************************)
(* Proofs about OutputStore for any references and streams, every limit,   *)
(* and any number of failures and crashes.                                 *)
(*                                                                         *)
(* The quota is a sum, and sums over finite sets come first: the folds of  *)
(* the community modules are unfolded by the least subset at which a claim *)
(* fails, so that no induction over an operator is needed.  The invariant  *)
(* then says, reference by reference, what the directory holds for the     *)
(* phase of its sink (DirInv, SinkInv) and that the quota covers it, the   *)
(* write in progress included (QuotaInv); and, of the store, that a        *)
(* cleanup dooms nothing in use (ScanInv) and that what a start keeps is   *)
(* all there is on the disk, and complete (StartInv).                      *)
(***************************************************************************)
EXTENDS OutputStore, FiniteSetTheorems, WellFoundedInduction, TLAPS

----------------------------------------------------------------------------
(* Sums over a finite set.                                                 *)

Rest(f, S, h) == [s \in SUBSET S |-> IF s = {} THEN 0 ELSE LET x == CHOOSE x \in s : TRUE IN f[x] + h[s \ {x}]]

\* Of finite sets, one has none of the others in it.
LEMMA SmallestSet ==
    ASSUME NEW S, IsFiniteSet(S), NEW T \in SUBSET SUBSET S, T # {}
    PROVE  \E t \in T : \A u \in T : u \subseteq t => u = t
<1>1. \A u \in T : IsFiniteSet(u)
  BY FS_Subset
<1>2. T \subseteq FiniteSubsetsOf(S)
  BY <1>1 DEF FiniteSubsetsOf
<1>3. PICK t \in T : \A u \in T : ~(<<u, t>> \in StrictSubsetOrdering(S))
  BY <1>2, FS_StrictSubsetOrderingWellFounded, WFMin
<1>4. \A u \in T : u \subseteq t => u = t
  BY <1>3 DEF StrictSubsetOrdering
<1> QED BY <1>4

\* Two tables of the partial sums agree where both are defined.
LEMMA TablesAgree ==
    ASSUME NEW f, NEW S, NEW R, NEW g, NEW h, g = Rest(f, S, g), h = Rest(f, R, h),
           NEW s \in SUBSET S, s \in SUBSET R, IsFiniteSet(s)
    PROVE  g[s] = h[s]
<1> DEFINE T == {t \in SUBSET s : g[t] # h[t]}
<1> SUFFICES ASSUME T # {}
             PROVE  FALSE
  OBVIOUS
<1>1. PICK t \in T : \A u \in T : u \subseteq t => u = t
  <2>1. T \in SUBSET SUBSET s
    OBVIOUS
  <2> HIDE DEF T
  <2> QED BY <2>1, SmallestSet
<1> DEFINE x == CHOOSE x \in t : TRUE
<1>2. t \in SUBSET S /\ t \in SUBSET R /\ t \subseteq s
  OBVIOUS
<1>3. g[t] = IF t = {} THEN 0 ELSE f[x] + g[t \ {x}]
  BY <1>2, Zenon DEF Rest
<1>4. h[t] = IF t = {} THEN 0 ELSE f[x] + h[t \ {x}]
  BY <1>2, Zenon DEF Rest
<1>5. t # {}
  BY <1>3, <1>4
<1>6. x \in t
  BY <1>5
<1> HIDE DEF x
<1>7. t \ {x} \notin T
  BY <1>1, <1>6
<1>8. g[t \ {x}] = h[t \ {x}]
  BY <1>7, <1>2
<1> QED BY <1>3, <1>4, <1>5, <1>8

\* There is a table of the partial sums, so that the CHOOSE of the fold has one to find.
LEMMA TableExists ==
    ASSUME NEW f, NEW S, IsFiniteSet(S)
    PROVE  \E g : g = Rest(f, S, g)
<1> DEFINE Has(s) == \E g : g = Rest(f, s, g)
           T == {s \in SUBSET S : ~Has(s)}
<1> SUFFICES ASSUME T # {}
             PROVE  FALSE
  BY Zenon
<1>1. PICK t \in T : \A u \in T : u \subseteq t => u = t
  <2>1. T \in SUBSET SUBSET S
    OBVIOUS
  <2> HIDE DEF T
  <2> QED BY <2>1, SmallestSet
<1>2. t \in SUBSET S /\ ~Has(t) /\ IsFiniteSet(t)
  BY FS_Subset
<1>3. \A u \in SUBSET t : u # t => Has(u)
  BY <1>1, <1>2
<1> HIDE DEF T
\* The table of t is made of those of its subsets.
<1> DEFINE table(u) == CHOOSE g : g = Rest(f, u, g)
           x(s) == CHOOSE e \in s : TRUE
           h == [s \in SUBSET t |-> IF s = {} THEN 0 ELSE f[x(s)] + table(s \ {x(s)})[s \ {x(s)}]]
<1>4. ASSUME NEW u \in SUBSET t, u # t
      PROVE  table(u) = Rest(f, u, table(u))
  <2>1. Has(u)
    BY <1>3, <1>4
  <2> QED BY <2>1, Zenon
<1>5. ASSUME NEW u \in SUBSET t, u # t
      PROVE  h[u] = table(u)[u]
  <2>1. table(u) = Rest(f, u, table(u))
    BY <1>4, <1>5
  <2>2. table(u)[u] = IF u = {} THEN 0 ELSE f[x(u)] + table(u)[u \ {x(u)}]
    <3> HIDE DEF table
    <3>1. u \in SUBSET u
      OBVIOUS
    <3>2. Rest(f, u, table(u))[u] = IF u = {} THEN 0 ELSE f[x(u)] + table(u)[u \ {x(u)}]
      BY <3>1, Zenon DEF Rest
    <3> QED BY <2>1, <3>2
  <2>3. CASE u = {}
    BY <2>2, <2>3
  <2>4. CASE u # {}
    <3>1. x(u) \in u /\ u \ {x(u)} \in SUBSET t /\ u \ {x(u)} # t
      BY <2>4
    <3> DEFINE v == u \ {x(u)}
    <3>2. table(v) = Rest(f, v, table(v))
      BY <1>4, <3>1
    <3>3. IsFiniteSet(v) /\ v \in SUBSET u /\ v \in SUBSET v
      BY <1>2, <3>1, FS_Subset
    <3>4. table(u)[v] = table(v)[v]
      <4> HIDE DEF table, v
      <4> QED BY <2>1, <3>2, <3>3, TablesAgree
    <3>5. h[u] = f[x(u)] + table(v)[v]
      BY <2>4
    <3> QED BY <2>2, <2>4, <3>4, <3>5
  <2> QED BY <2>3, <2>4
<1>6. h = Rest(f, t, h)
  <2>1. ASSUME NEW s \in SUBSET t, s # {}
        PROVE  table(s \ {x(s)})[s \ {x(s)}] = h[s \ {x(s)}]
    <3>1. x(s) \in s
      BY <2>1
    <3>2. s \ {x(s)} \in SUBSET t /\ s \ {x(s)} # t
      BY <3>1
    <3> QED BY <1>5, <3>2
  <2>2. \A s \in SUBSET t : h[s] = IF s = {} THEN 0 ELSE f[x(s)] + h[s \ {x(s)}]
    <3> SUFFICES ASSUME NEW s \in SUBSET t
                 PROVE  h[s] = IF s = {} THEN 0 ELSE f[x(s)] + h[s \ {x(s)}]
      OBVIOUS
    <3>1. CASE s = {}
      BY <3>1
    <3>2. CASE s # {}
      <4>1. table(s \ {x(s)})[s \ {x(s)}] = h[s \ {x(s)}]
        BY <2>1, <3>2
      <4>2. h[s] = f[x(s)] + table(s \ {x(s)})[s \ {x(s)}]
        BY <3>2
      <4> HIDE DEF h
      <4> QED BY <3>2, <4>1, <4>2
    <3> QED BY <3>1, <3>2
  <2>3. h = [s \in SUBSET t |-> h[s]]
    OBVIOUS
  <2> HIDE DEF h
  <2>4. Rest(f, t, h) = [s \in SUBSET t |-> h[s]]
    BY <2>2 DEF Rest
  <2> QED BY <2>3, <2>4
<1> QED BY <1>2, <1>6
\* The sum takes out the element CHOOSE names.
LEMMA SumUnfolds ==
    ASSUME NEW f, NEW S, IsFiniteSet(S)
    PROVE  \E h : h = Rest(f, S, h) /\ SumFunctionOnSet(f, S) = h[S]
<1> DEFINE h == CHOOSE h : h = Rest(f, S, h)
<1>1. h = Rest(f, S, h)
  BY TableExists
<1>2. SumFunctionOnSet(f, S) = h[S]
  BY DEF SumFunctionOnSet, FoldFunctionOnSet, MapThenFoldSet, Rest
<1> QED BY <1>1, <1>2

\* A sum is the value of any element and the sum of the others, if they are numbers.
LEMMA SumOfChosen ==
    ASSUME NEW f, NEW S, IsFiniteSet(S)
    PROVE  /\ SumFunctionOnSet(f, {}) = 0
           /\ S # {} => \E x \in S : SumFunctionOnSet(f, S) = f[x] + SumFunctionOnSet(f, S \ {x})
<1>1. SumFunctionOnSet(f, {}) = 0
  <2>1. PICK h : h = Rest(f, {}, h) /\ SumFunctionOnSet(f, {}) = h[{}]
    BY FS_EmptySet, SumUnfolds
  <2>2. Rest(f, {}, h)[{}] = 0
    BY DEF Rest
  <2> QED BY <2>1, <2>2
<1>2. ASSUME S # {}
      PROVE  \E x \in S : SumFunctionOnSet(f, S) = f[x] + SumFunctionOnSet(f, S \ {x})
  <2> DEFINE x == CHOOSE x \in S : TRUE
             R == S \ {x}
  <2>1. x \in S
    BY <1>2
  <2>2. PICK g : g = Rest(f, S, g) /\ SumFunctionOnSet(f, S) = g[S]
    BY SumUnfolds
  <2>3. IsFiniteSet(R) /\ R \in SUBSET S /\ R \in SUBSET R
    BY FS_Subset
  <2> HIDE DEF R
  <2>4. PICK h : h = Rest(f, R, h) /\ SumFunctionOnSet(f, R) = h[R]
    BY <2>3, SumUnfolds
  <2>5. g[R] = h[R]
    BY <2>2, <2>3, <2>4, TablesAgree
  <2>6. Rest(f, S, g)[S] = f[x] + g[R]
    BY <1>2, Zenon DEF Rest, R
  <2> QED BY <2>1, <2>2, <2>4, <2>5, <2>6 DEF R
<1> QED BY <1>1, <1>2

\* The empty sum.
LEMMA SumOfNothing ==
    ASSUME NEW f
    PROVE  SumFunctionOnSet(f, {}) = 0
BY FS_EmptySet, SumOfChosen

\* A sum of numbers is a number.
LEMMA SumIsNumber ==
    ASSUME NEW f, NEW S, IsFiniteSet(S), \A x \in S : f[x] \in Nat
    PROVE  SumFunctionOnSet(f, S) \in Nat
<1> DEFINE T == {t \in SUBSET S : SumFunctionOnSet(f, t) \notin Nat}
<1> SUFFICES ASSUME T # {}
             PROVE  FALSE
  OBVIOUS
<1>1. PICK t \in T : \A u \in T : u \subseteq t => u = t
  <2>1. T \in SUBSET SUBSET S
    OBVIOUS
  <2> HIDE DEF T
  <2> QED BY <2>1, SmallestSet
<1>2. IsFiniteSet(t) /\ t \subseteq S /\ SumFunctionOnSet(f, t) \notin Nat
  BY FS_Subset
<1>3. t # {}
  BY <1>2, SumOfNothing
<1>4. PICK x \in t : SumFunctionOnSet(f, t) = f[x] + SumFunctionOnSet(f, t \ {x})
  BY <1>2, <1>3, SumOfChosen
<1>5. SumFunctionOnSet(f, t \ {x}) \in Nat
  BY <1>1, <1>2
<1> QED BY <1>2, <1>4, <1>5

\* The sum takes out any element: the order does not matter.
LEMMA SumTakesOut ==
    ASSUME NEW f, NEW S, IsFiniteSet(S), \A x \in S : f[x] \in Nat, NEW y \in S
    PROVE  SumFunctionOnSet(f, S) = f[y] + SumFunctionOnSet(f, S \ {y})
<1> DEFINE T == {t \in SUBSET S : \E z \in t : SumFunctionOnSet(f, t) # f[z] + SumFunctionOnSet(f, t \ {z})}
<1> SUFFICES ASSUME T # {}
             PROVE  FALSE
  OBVIOUS
<1>1. PICK t \in T : \A u \in T : u \subseteq t => u = t
  <2>1. T \in SUBSET SUBSET S
    OBVIOUS
  <2> HIDE DEF T
  <2> QED BY <2>1, SmallestSet
<1>2. PICK z \in t : SumFunctionOnSet(f, t) # f[z] + SumFunctionOnSet(f, t \ {z})
  OBVIOUS
<1>3. IsFiniteSet(t) /\ t \subseteq S
  BY FS_Subset
<1>4. \A u \in SUBSET t : \A e \in u : u # t => SumFunctionOnSet(f, u) = f[e] + SumFunctionOnSet(f, u \ {e})
  BY <1>1, <1>3
<1> HIDE DEF T
<1>5. PICK x \in t : SumFunctionOnSet(f, t) = f[x] + SumFunctionOnSet(f, t \ {x})
  BY <1>3, SumOfChosen
<1>6. x # z
  BY <1>2, <1>5
<1> DEFINE r == (t \ {x}) \ {z}
<1>7. SumFunctionOnSet(f, t \ {x}) = f[z] + SumFunctionOnSet(f, r)
  <2>1. t \ {x} \in SUBSET t /\ t \ {x} # t /\ z \in t \ {x}
    BY <1>6
  <2> QED BY <1>4, <2>1
<1>8. SumFunctionOnSet(f, t \ {z}) = f[x] + SumFunctionOnSet(f, r)
  <2>1. t \ {z} \in SUBSET t /\ t \ {z} # t /\ x \in t \ {z} /\ (t \ {z}) \ {x} = r
    BY <1>6
  <2> QED BY <1>4, <2>1
<1>9. f[x] \in Nat /\ f[z] \in Nat /\ SumFunctionOnSet(f, r) \in Nat
  <2>1. IsFiniteSet(r) /\ \A e \in r : f[e] \in Nat
    BY <1>3, FS_Subset
  <2> HIDE DEF r
  <2> QED BY <1>3, <2>1, SumIsNumber
<1> HIDE DEF r
<1> QED BY <1>2, <1>5, <1>7, <1>8, <1>9

\* The sum of what is less is less, of what is the same is the same.
LEMMA SumGrows ==
    ASSUME NEW f, NEW g, NEW S, IsFiniteSet(S),
           \A x \in S : f[x] \in Nat /\ g[x] \in Nat /\ f[x] <= g[x]
    PROVE  SumFunctionOnSet(f, S) <= SumFunctionOnSet(g, S)
<1> DEFINE T == {t \in SUBSET S : ~(SumFunctionOnSet(f, t) <= SumFunctionOnSet(g, t))}
<1> SUFFICES ASSUME T # {}
             PROVE  FALSE
  OBVIOUS
<1>1. PICK t \in T : \A u \in T : u \subseteq t => u = t
  <2>1. T \in SUBSET SUBSET S
    OBVIOUS
  <2> HIDE DEF T
  <2> QED BY <2>1, SmallestSet
<1>2. IsFiniteSet(t) /\ t \subseteq S /\ ~(SumFunctionOnSet(f, t) <= SumFunctionOnSet(g, t))
  BY FS_Subset
<1>3. t # {}
  <2>1. SumFunctionOnSet(f, {}) = 0 /\ SumFunctionOnSet(g, {}) = 0
    BY SumOfNothing
  <2> QED BY <1>2, <2>1
<1>4. PICK x \in t : TRUE
  BY <1>3
<1> DEFINE r == t \ {x}
<1>5. SumFunctionOnSet(f, r) <= SumFunctionOnSet(g, r)
  BY <1>1, <1>2, <1>4
<1>6. SumFunctionOnSet(f, t) = f[x] + SumFunctionOnSet(f, r) /\ SumFunctionOnSet(g, t) = g[x] + SumFunctionOnSet(g, r)
  BY <1>2, SumTakesOut
<1>7. SumFunctionOnSet(f, r) \in Nat /\ SumFunctionOnSet(g, r) \in Nat
  <2>1. IsFiniteSet(r) /\ \A e \in r : f[e] \in Nat /\ g[e] \in Nat
    BY <1>2, FS_Subset
  <2> HIDE DEF r
  <2> QED BY <2>1, SumIsNumber
<1> HIDE DEF r
<1>8. f[x] \in Nat /\ g[x] \in Nat /\ f[x] <= g[x]
  BY <1>2
<1> QED BY <1>2, <1>5, <1>6, <1>7, <1>8

\* A sum depends on the values it adds only.
LEMMA SumIsOfValues ==
    ASSUME NEW f, NEW g, NEW S, IsFiniteSet(S), \A x \in S : f[x] \in Nat /\ f[x] = g[x]
    PROVE  SumFunctionOnSet(f, S) = SumFunctionOnSet(g, S)
<1>1. SumFunctionOnSet(f, S) <= SumFunctionOnSet(g, S) /\ SumFunctionOnSet(g, S) <= SumFunctionOnSet(f, S)
  <2>1. \A x \in S : f[x] \in Nat /\ g[x] \in Nat /\ f[x] <= g[x] /\ g[x] <= f[x]
    OBVIOUS
  <2> QED BY <2>1, SumGrows
<1>2. SumFunctionOnSet(f, S) \in Nat /\ SumFunctionOnSet(g, S) \in Nat
  BY SumIsNumber
<1> QED BY <1>1, <1>2

\* One value changes.
LEMMA SumChanges ==
    ASSUME NEW f, NEW g, NEW S, IsFiniteSet(S), NEW y \in S,
           \A x \in S : f[x] \in Nat /\ g[x] \in Nat /\ (x # y => g[x] = f[x])
    PROVE  SumFunctionOnSet(g, S) + f[y] = SumFunctionOnSet(f, S) + g[y]
<1> DEFINE r == S \ {y}
<1>1. SumFunctionOnSet(f, S) = f[y] + SumFunctionOnSet(f, r) /\ SumFunctionOnSet(g, S) = g[y] + SumFunctionOnSet(g, r)
  BY SumTakesOut
<1>2. IsFiniteSet(r) /\ \A x \in r : f[x] \in Nat /\ f[x] = g[x]
  BY FS_Subset
<1>3. f[y] \in Nat /\ g[y] \in Nat
  OBVIOUS
<1> HIDE DEF r
<1>4. SumFunctionOnSet(f, r) = SumFunctionOnSet(g, r) /\ SumFunctionOnSet(f, r) \in Nat
  BY <1>2, SumIsOfValues, SumIsNumber
<1> QED BY <1>1, <1>3, <1>4

\* Zeros add nothing.
LEMMA SumOfZeros ==
    ASSUME NEW f, NEW S, IsFiniteSet(S), \A x \in S : f[x] = 0
    PROVE  SumFunctionOnSet(f, S) = 0
<1> DEFINE T == {t \in SUBSET S : SumFunctionOnSet(f, t) # 0}
<1> SUFFICES ASSUME T # {}
             PROVE  FALSE
  OBVIOUS
<1>1. PICK t \in T : \A u \in T : u \subseteq t => u = t
  <2>1. T \in SUBSET SUBSET S
    OBVIOUS
  <2> HIDE DEF T
  <2> QED BY <2>1, SmallestSet
<1>2. IsFiniteSet(t) /\ t \subseteq S /\ SumFunctionOnSet(f, t) # 0
  BY FS_Subset
<1>3. t # {}
  BY <1>2, SumOfNothing
<1>4. PICK x \in t : SumFunctionOnSet(f, t) = f[x] + SumFunctionOnSet(f, t \ {x})
  BY <1>2, <1>3, SumOfChosen
<1>5. SumFunctionOnSet(f, t \ {x}) = 0
  BY <1>1, <1>2
<1> QED BY <1>2, <1>4, <1>5

\* What adds nothing may be left out.
LEMMA SumOfSubset ==
    ASSUME NEW f, NEW S, IsFiniteSet(S), \A x \in S : f[x] \in Nat, NEW R \in SUBSET S, \A x \in S \ R : f[x] = 0
    PROVE  SumFunctionOnSet(f, S) = SumFunctionOnSet(f, R)
<1> DEFINE T == {t \in SUBSET S : R \subseteq t /\ SumFunctionOnSet(f, t) # SumFunctionOnSet(f, R)}
<1> SUFFICES ASSUME T # {}
             PROVE  FALSE
  OBVIOUS
<1>1. PICK t \in T : \A u \in T : u \subseteq t => u = t
  <2>1. T \in SUBSET SUBSET S
    OBVIOUS
  <2> HIDE DEF T
  <2> QED BY <2>1, SmallestSet
<1>2. IsFiniteSet(t) /\ t \subseteq S /\ R \subseteq t /\ SumFunctionOnSet(f, t) # SumFunctionOnSet(f, R)
  BY FS_Subset
<1>3. PICK x \in t : x \notin R
  BY <1>2
<1>4. SumFunctionOnSet(f, t) = f[x] + SumFunctionOnSet(f, t \ {x})
  BY <1>2, SumTakesOut
<1>5. SumFunctionOnSet(f, t \ {x}) = SumFunctionOnSet(f, R)
  BY <1>1, <1>2, <1>3
<1>6. f[x] = 0 /\ SumFunctionOnSet(f, R) \in Nat
  <2>1. IsFiniteSet(R)
    BY FS_Subset
  <2> QED BY <1>2, <1>3, <2>1, SumIsNumber
<1> QED BY <1>2, <1>4, <1>5, <1>6

\* A value is no more than the sum it is in.
LEMMA SumOfMore ==
    ASSUME NEW f, NEW S, IsFiniteSet(S), \A x \in S : f[x] \in Nat, NEW y \in S
    PROVE  f[y] <= SumFunctionOnSet(f, S)
<1>1. IsFiniteSet(S \ {y}) /\ \A x \in S \ {y} : f[x] \in Nat
  BY FS_Subset
<1>2. SumFunctionOnSet(f, S \ {y}) \in Nat
  BY <1>1, SumIsNumber
<1> QED BY <1>2, SumTakesOut

----------------------------------------------------------------------------
(* The invariant.                                                          *)

Waiting == [stream : Streams, bytes : Nat \ {0}]
Ops == {NoOp} \cup [stream : Streams, granted : Nat \ {0}, short : BOOLEAN]
Scans == [on : BOOLEAN, listed : SUBSET Refs, todo : SUBSET Refs, doomed : SUBSET Refs, kept : SUBSET Refs,
          tracked : SUBSET Refs, old : SUBSET Refs]

OutTypes ==
    /\ dir \subseteq Refs /\ expired \subseteq Refs /\ active \subseteq Refs
    /\ broken \subseteq Refs /\ limited \subseteq Refs
    /\ file \in [Refs -> [Streams -> Nat]] /\ total \in [Refs -> [Streams -> Nat]]
    /\ meta \in [Refs -> {"none", "staged", "named"}]
    /\ phase \in [Refs -> Phases]
    /\ op \in [Refs -> Ops] /\ queue \in [Refs -> Seq(Waiting)]
    /\ quota \in [Refs -> Nat] /\ order \in Seq(Refs)
    /\ store \in {"down", "scanning", "adopting", "up"} /\ limit \in ByteLimits
    /\ reading \in [Refs -> {"no", "payload", "missing", "expired"}]
    /\ scan \in Scans
    /\ failures \in 0..MaxFailures /\ crashes \in 0..MaxCrashes

\* A sink exists between these.
Before == {"free", "making"}
Writing == {"open", "finalizing"}
After == {"named", "published", "closed"}
Over == {"published", "closed"}

\* What a directory holds, by what has become of its sink.
DirInv(r) ==
    /\ phase[r] \notin Over \cup {"free"} => r \in active
    /\ phase[r] \in Before => r \notin dir /\ total[r] = NoBytes /\ r \notin broken
    /\ r \notin dir => file[r] = NoBytes /\ meta[r] = "none"
    /\ phase[r] \notin After => meta[r] # "named"
    /\ r \in expired => phase[r] \in After
    /\ reading[r] = "expired" => r \in expired

SinkInv(r) ==
    /\ phase[r] \notin Writing \cup {"aborting"} => op[r] = NoOp /\ queue[r] = <<>>
    /\ phase[r] \in Writing \cup {"staging", "aborting"} => r \in dir /\ \A s \in Streams : total[r][s] <= file[r][s]
    /\ (phase[r] \in Writing /\ r \notin broken) \/ phase[r] = "staging" =>
         file[r] = total[r] /\ quota[r] = Bytes(total[r]) + op[r].granted
    /\ phase[r] \in {"named", "published"} /\ r \notin expired =>
         r \in dir /\ meta[r] = "named" /\ file[r] = total[r] /\ (store = "up" => quota[r] = Bytes(total[r]))
    /\ store = "up" /\ phase[r] = "closed" /\ meta[r] = "named" /\ r \notin expired /\ quota[r] > 0 => file[r] = total[r]

QuotaInv(r) ==
    /\ phase[r] \in Before => quota[r] = 0
    /\ store = "up" => Bytes(file[r]) + op[r].granted <= quota[r]
    /\ Bytes(total[r]) + op[r].granted <= MaxStored /\ quota[r] <= MaxStored

OrderInv == \A i \in 1..Len(order) : phase[order[i]] \in After

\* Nothing runs while the store is not up.
QuietInv ==
    store # "up" =>
        /\ active = {}
        /\ \A r \in Refs : phase[r] \in Over \cup {"free"} /\ quota[r] = 0 /\ reading[r] = "no"

LimitInv == store = "up" => Held(Refs) <= limit /\ Cardinality(Tracked) <= MaxEntries

ScanInv ==
    /\ \A r \in scan.listed \cup scan.tracked : phase[r] \notin Before
    /\ scan.todo \cup scan.doomed \subseteq scan.listed
    /\ \A q, r \in scan.doomed : q = r
    /\ scan.tracked \cap dir \subseteq scan.listed
    /\ scan.old \subseteq expired
    /\ \A r \in scan.doomed : r \notin active /\ (meta[r] # "named" \/ r \in expired \/ file[r] # total[r])

StartInv ==
    /\ store = "down" => scan = NoScan
    /\ store = "scanning" =>
         /\ scan.on
         /\ dir \subseteq scan.todo \cup scan.doomed \cup scan.kept
         /\ scan.kept \cap (scan.todo \cup scan.doomed) = {}
    /\ store = "adopting" => ~scan.on /\ scan.doomed = {} /\ dir \subseteq scan.kept
    /\ store \in {"scanning", "adopting"} =>
         \A r \in scan.kept : r \in dir \ scan.old /\ meta[r] = "named" /\ file[r] = total[r]

OutInv == /\ OutTypes /\ OrderInv /\ QuietInv /\ LimitInv /\ ScanInv /\ StartInv
          /\ \A r \in Refs : DirInv(r) /\ SinkInv(r) /\ QuotaInv(r)
----------------------------------------------------------------------------
(* Bytes and quotas.                                                       *)

LEMMA NoBytesNone == NoBytes \in [Streams -> Nat] /\ Bytes(NoBytes) = 0
<1>1. NoBytes \in [Streams -> Nat] /\ \A s \in Streams : NoBytes[s] = 0
  BY DEF NoBytes
<1>2. Bytes(NoBytes) = 0
  BY <1>1, OutputStoreAssumption, SumOfZeros DEF Bytes
<1> QED BY <1>1, <1>2

LEMMA BytesNumber ==
    ASSUME NEW b \in [Streams -> Nat]
    PROVE  Bytes(b) \in Nat /\ \A s \in Streams : b[s] <= Bytes(b)
<1>1. \A s \in Streams : b[s] \in Nat
  OBVIOUS
<1> QED BY <1>1, OutputStoreAssumption, SumIsNumber, SumOfMore DEF Bytes

\* An append adds its bytes to the sum.
LEMMA BytesAdded ==
    ASSUME NEW b \in [Streams -> Nat], NEW s \in Streams, NEW n \in Nat
    PROVE  /\ [b EXCEPT ![s] = @ + n] \in [Streams -> Nat]
           /\ Bytes([b EXCEPT ![s] = @ + n]) = Bytes(b) + n
<1> DEFINE c == [b EXCEPT ![s] = @ + n]
<1>1. c \in [Streams -> Nat] /\ c[s] = b[s] + n /\ b[s] \in Nat
  OBVIOUS
<1>2. \A x \in Streams : b[x] \in Nat /\ c[x] \in Nat /\ (x # s => c[x] = b[x])
  OBVIOUS
<1> HIDE DEF c
<1>3. Bytes(c) + b[s] = Bytes(b) + c[s]
  BY <1>2, OutputStoreAssumption, SumChanges DEF Bytes
<1>4. Bytes(b) \in Nat /\ Bytes(c) \in Nat
  BY <1>1, BytesNumber
<1>5. Bytes(c) = Bytes(b) + n
  BY <1>1, <1>3, <1>4
<1> QED BY <1>1, <1>5 DEF c

LEMMA HeldNumber ==
    ASSUME quota \in [Refs -> Nat]
    PROVE  Held(Refs) \in Nat
<1>1. \A x \in Refs : quota[x] \in Nat
  OBVIOUS
<1> QED BY <1>1, OutputStoreAssumption, SumIsNumber DEF Held

\* Giving quota back stays within the limits.
LEMMA HeldFalls ==
    ASSUME quota \in [Refs -> Nat], quota' \in [Refs -> Nat], \A r \in Refs : quota'[r] <= quota[r],
           limit' = limit, store' = "up" => store = "up", LimitInv, limit \in Nat
    PROVE  LimitInv'
<1>1. \A x \in Refs : quota'[x] \in Nat /\ quota[x] \in Nat /\ quota'[x] <= quota[x]
  OBVIOUS
<1>2. SumFunctionOnSet(quota', Refs) <= SumFunctionOnSet(quota, Refs)
  BY <1>1, OutputStoreAssumption, SumGrows
<1>3. SumFunctionOnSet(quota', Refs) \in Nat /\ SumFunctionOnSet(quota, Refs) \in Nat
  BY <1>1, OutputStoreAssumption, SumIsNumber
<1>4. store = "up" => SumFunctionOnSet(quota', Refs) <= limit
  BY <1>2, <1>3 DEF LimitInv, Held
<1>5. Tracked' \in SUBSET Tracked /\ Tracked \in SUBSET Refs
  BY <1>1 DEF Tracked
<1>6. IsFiniteSet(Tracked)
  BY <1>5, OutputStoreAssumption, FS_Subset
<1>7. Cardinality(Tracked') <= Cardinality(Tracked) /\ Cardinality(Tracked') \in Nat /\ Cardinality(Tracked) \in Nat
  BY <1>5, <1>6, FS_Subset, FS_CardinalityType
<1>8. store = "up" => Cardinality(Tracked') <= MaxEntries
  BY <1>7, OutputStoreAssumption DEF LimitInv
<1> QED BY <1>4, <1>8 DEF LimitInv, Held

\* What is reserved stays within them.
LEMMA HeldReserved ==
    ASSUME quota \in [Refs -> Nat], LimitInv, store = "up", limit \in Nat, limit' = limit, NEW r \in Refs, NEW n \in Nat
    PROVE  /\ Room(r, n) \in 0..n
           /\ LET q == [quota EXCEPT ![r] = @ + Room(r, n)]
              IN  quota' = q => (Held(Refs) <= limit /\ Cardinality(Tracked) <= MaxEntries)'
<1> DEFINE g == Room(r, n)
           q == [quota EXCEPT ![r] = @ + g]
<1>1. Held(Refs) \in Nat /\ Held(Refs) <= limit /\ Cardinality(Tracked) <= MaxEntries
  BY HeldNumber DEF LimitInv
<1>2. g \in 0..n /\ Held(Refs) + g <= limit /\ (r \notin Tracked /\ Cardinality(Tracked) >= MaxEntries => g = 0)
  BY <1>1 DEF Room
<1> HIDE DEF g
<1> SUFFICES ASSUME quota' = q
             PROVE  (Held(Refs) <= limit /\ Cardinality(Tracked) <= MaxEntries)'
  BY <1>2 DEF g
<1>3. q \in [Refs -> Nat] /\ q[r] = quota[r] + g /\ quota[r] \in Nat /\ \A x \in Refs \ {r} : q[x] = quota[x]
  BY <1>2
<1>4. \A x \in Refs : quota[x] \in Nat /\ q[x] \in Nat /\ (x # r => q[x] = quota[x])
  BY <1>3
<1> HIDE DEF q
<1>5. SumFunctionOnSet(q, Refs) + quota[r] = SumFunctionOnSet(quota, Refs) + q[r]
  BY <1>4, OutputStoreAssumption, SumChanges
<1>6. SumFunctionOnSet(q, Refs) \in Nat
  BY <1>4, OutputStoreAssumption, SumIsNumber
<1>7. Held(Refs)' = SumFunctionOnSet(q, Refs)
  BY DEF Held
<1>8. Held(Refs)' <= limit
  BY <1>1, <1>2, <1>3, <1>5, <1>6, <1>7 DEF Held
<1>9. IsFiniteSet(Tracked) /\ Cardinality(Tracked) \in Nat
  <2>1. Tracked \in SUBSET Refs
    BY DEF Tracked
  <2> QED BY <2>1, OutputStoreAssumption, FS_Subset, FS_CardinalityType
<1>10. CASE r \in Tracked \/ g = 0
  <2>1. Tracked' = Tracked
    BY <1>2, <1>3, <1>10 DEF Tracked
  <2> QED BY <1>1, <1>8, <2>1
<1>11. CASE r \notin Tracked /\ g # 0
  <2>1. Tracked' = Tracked \cup {r}
    BY <1>2, <1>3, <1>11 DEF Tracked
  <2>2. Cardinality(Tracked') = Cardinality(Tracked) + 1
    BY <1>9, <1>11, <2>1, FS_AddElement
  <2>3. Cardinality(Tracked) + 1 <= MaxEntries
    BY <1>2, <1>9, <1>11, OutputStoreAssumption
  <2> QED BY <1>8, <2>2, <2>3
<1> QED BY <1>10, <1>11
----------------------------------------------------------------------------
(* A step of one reference.                                                *)

\* What is kept of q is as it was.
Apart(q) ==
    /\ (q \in dir' <=> q \in dir) /\ (q \in expired' <=> q \in expired)
    /\ (q \in active' <=> q \in active) /\ (q \in broken' <=> q \in broken)
    /\ file'[q] = file[q] /\ meta'[q] = meta[q] /\ phase'[q] = phase[q] /\ total'[q] = total[q]
    /\ queue'[q] = queue[q] /\ op'[q] = op[q] /\ quota'[q] = quota[q] /\ reading'[q] = reading[q]

RefInv(q) == DirInv(q) /\ SinkInv(q) /\ QuotaInv(q)

\* A reference a step leaves alone keeps what is said of it.
LEMMA ApartKeeps ==
    ASSUME NEW q \in Refs, RefInv(q), Apart(q), store' = "up" => store = "up"
    PROVE  RefInv(q)'
<1>1. DirInv(q)'
  BY DEF RefInv, DirInv, Apart, NoBytes
<1>2. Bytes(file[q])' = Bytes(file[q]) /\ Bytes(total[q])' = Bytes(total[q])
  BY DEF Bytes, Apart
<1>3. SinkInv(q)'
  BY <1>2 DEF RefInv, SinkInv, Apart
<1>4. QuotaInv(q)'
  BY <1>2 DEF RefInv, QuotaInv, Apart
<1> QED BY <1>1, <1>3, <1>4 DEF RefInv

LEMMA LimitNumber ==
    ASSUME OutTypes
    PROVE  limit \in Nat \ {0}
BY OutputStoreAssumption DEF OutTypes

\* While the store is up, one reference may go on without the others.
LEMMA OneGoesOn ==
    ASSUME OutInv, OutTypes', NEW r \in Refs, \A q \in Refs \ {r} : Apart(q),
           store = "up", UNCHANGED <<store, limit, scan>>, expired \subseteq expired',
           RefInv(r)', OrderInv', LimitInv',
           phase'[r] \in Before => phase[r] \in Before,
           r \in dir' => r \in dir \/ phase[r] \in Before,
           r \in scan.doomed => r \notin active' /\ (meta'[r] # "named" \/ r \in expired' \/ file'[r] # total'[r])
    PROVE  OutInv'
<1>1. \A q \in Refs : RefInv(q)'
  BY ApartKeeps DEF OutInv, RefInv
<1>2. QuietInv' /\ StartInv'
  BY DEF QuietInv, StartInv
<1>3. ScanInv'
  <2>1. scan \in Scans
    BY DEF OutInv, OutTypes
  <2>2. \A q \in (scan.listed \cup scan.tracked)' : phase'[q] \notin Before
    BY <2>1 DEF OutInv, ScanInv, Scans, Apart
  <2>3. /\ (scan.todo \cup scan.doomed \subseteq scan.listed)' /\ (scan.old \subseteq expired)'
        /\ (\A p, q \in scan.doomed : p = q)'
    BY <2>1 DEF OutInv, ScanInv
  <2>4. (scan.tracked \cap dir \subseteq scan.listed)'
    BY <2>1 DEF OutInv, ScanInv, Scans, Apart
  <2>5. (\A q \in scan.doomed : q \notin active /\ (meta[q] # "named" \/ q \in expired \/ file[q] # total[q]))'
    BY <2>1 DEF OutInv, ScanInv, Scans, Apart
  <2> QED BY <2>2, <2>3, <2>4, <2>5 DEF ScanInv
<1> QED BY <1>1, <1>2, <1>3 DEF OutInv, RefInv

\* What is in use is not to be removed, and the store is up.
LEMMA InUse ==
    ASSUME OutInv, NEW r \in Refs, phase[r] \notin Over
    PROVE  /\ r \notin scan.doomed
           /\ phase[r] # "free" => store = "up" /\ r \in active
<1>1. scan \in Scans
  BY DEF OutInv, OutTypes
<1>2. phase[r] # "free" => r \in active
  BY DEF OutInv, DirInv
<1>3. phase[r] # "free" => store = "up"
  BY DEF OutInv, QuietInv
<1>4. r \notin scan.doomed
  BY <1>1, <1>2 DEF OutInv, ScanInv, Scans, Before
<1> QED BY <1>2, <1>3, <1>4

Others(r) == \A q \in Refs \ {r} : Apart(q)

\* A step of a sink that reserves nothing.
LEMMA SinkGoesOn ==
    ASSUME OutInv, OutTypes', NEW r \in Refs, Others(r), SinkOnly, store = "up", phase[r] \notin Over,
           RefInv(r)', quota'[r] <= quota[r],
           phase'[r] \in Before => phase[r] \in Before,
           phase[r] \in After => phase'[r] \in After,
           r \in dir' => r \in dir \/ phase[r] \in Before
    PROVE  OutInv'
<1>1. UNCHANGED <<order, expired, store, limit, reading, scan>>
  BY DEF SinkOnly
<1>2. quota \in [Refs -> Nat] /\ quota' \in [Refs -> Nat] /\ order \in Seq(Refs)
  BY DEF OutInv, OutTypes
<1>3. ASSUME NEW q \in Refs
      PROVE  quota'[q] <= quota[q]
  <2>1. CASE q = r
    BY <2>1
  <2>2. CASE q # r
    <3>1. quota'[q] = quota[q] /\ quota[q] \in Nat
      BY <1>2, <2>2 DEF Others, Apart
    <3> QED BY <3>1
  <2> QED BY <2>1, <2>2
<1>4. LimitInv'
  <2>1. limit \in Nat /\ LimitInv /\ limit' = limit /\ store' = store
    BY <1>1, LimitNumber DEF OutInv
  <2> QED BY <1>2, <1>3, <2>1, HeldFalls
<1>5. OrderInv'
  <2> SUFFICES ASSUME NEW i \in 1..Len(order)
               PROVE  phase'[order[i]] \in After
    BY <1>1 DEF OrderInv
  <2>1. order[i] \in Refs /\ phase[order[i]] \in After
    BY <1>2 DEF OutInv, OrderInv
  <2> QED BY <2>1 DEF Others, Apart
<1>6. r \notin scan.doomed
  BY InUse
<1> QED BY <1>1, <1>4, <1>5, <1>6, OneGoesOn DEF Others

LEMMA ReserveKeeps ==
    ASSUME OutInv, NEW r \in Refs, Reserve(r)
    PROVE  OutInv'
<1>1. /\ store = "up" /\ phase[r] = "free" /\ phase' = [phase EXCEPT ![r] = "making"] /\ active' = active \cup {r}
      /\ UNCHANGED <<quota, failures, dir, file, meta, queue, op, total, broken, limited, appended>> /\ SinkOnly
  BY DEF Reserve, Goes, Registered, FilesKept, QueueKept
<1>2. OutTypes
  BY DEF OutInv
<1>3. OutTypes'
  BY <1>1, <1>2 DEF OutTypes, SinkOnly, Phases
<1>4. Others(r)
  BY <1>1, <1>2 DEF Others, Apart, OutTypes, SinkOnly
<1>5. phase'[r] = "making" /\ r \in active'
  BY <1>1, <1>2 DEF OutTypes
<1>6. RefInv(r)
  BY DEF OutInv, RefInv
<1>7. DirInv(r)'
  BY <1>1, <1>5, <1>6 DEF RefInv, DirInv, SinkOnly, Before, After, Over, NoBytes
<1>8. SinkInv(r)'
  BY <1>1, <1>5, <1>6 DEF RefInv, SinkInv, SinkOnly, Before, After, Over, Writing
<1>9. QuotaInv(r)'
  BY <1>1, <1>5, <1>6 DEF RefInv, QuotaInv, SinkOnly, Before, Bytes
<1>10. quota'[r] <= quota[r]
  BY <1>1, <1>2 DEF OutTypes
<1> QED BY <1>1, <1>3, <1>4, <1>5, <1>7, <1>8, <1>9, <1>10, SinkGoesOn DEF RefInv, Before, After, Over

LEMMA MakeKeeps ==
    ASSUME OutInv, NEW r \in Refs, Make(r)
    PROVE  OutInv'
<1>1. /\ phase[r] = "making" /\ dir' = dir \cup {r} /\ phase' = [phase EXCEPT ![r] = "open"]
      /\ UNCHANGED <<file, meta, quota, active, failures, queue, op, total, broken, limited, appended>> /\ SinkOnly
  BY DEF Make, Goes, QueueKept
<1>2. OutTypes /\ RefInv(r)
  BY DEF OutInv, RefInv
<1>0. store = "up" /\ r \in active
  BY <1>1, InUse DEF Over
<1>3. OutTypes'
  BY <1>1, <1>2 DEF OutTypes, SinkOnly, Phases, NoBytes
<1>4. Others(r)
  BY <1>1, <1>2 DEF Others, Apart, OutTypes, SinkOnly
<1>5. phase'[r] = "open" /\ r \in dir' 
  BY <1>1, <1>2 DEF OutTypes
<1>6. DirInv(r)'
  BY <1>0, <1>1, <1>2, <1>5 DEF RefInv, DirInv, SinkOnly, Before, After, Over, NoBytes
<1>c. file[r] = NoBytes /\ total[r] = NoBytes /\ op[r] = NoOp /\ queue[r] = <<>> /\ quota[r] = 0
  BY <1>1, <1>2 DEF RefInv, DirInv, SinkInv, QuotaInv, Before, Writing
<1>b. /\ Bytes(file'[r]) = 0 /\ Bytes(total'[r]) = 0 /\ Bytes(total[r]) = 0 /\ Bytes(file[r]) = 0
      /\ file'[r] = NoBytes /\ total'[r] = NoBytes /\ op'[r] = NoOp /\ queue'[r] = <<>> /\ quota'[r] = 0
      /\ \A s \in Streams : NoBytes[s] <= NoBytes[s]
  BY <1>1, <1>c, NoBytesNone
<1>7. SinkInv(r)'
  BY <1>0, <1>1, <1>2, <1>5, <1>b DEF RefInv, SinkInv, DirInv, SinkOnly, Before, After, Over, Writing, NoOp
<1>8. QuotaInv(r)'
  BY <1>0, <1>1, <1>2, <1>5, <1>b DEF RefInv, QuotaInv, SinkInv, SinkOnly, Before, Over, Writing, NoOp
<1>9. quota'[r] <= quota[r]
  BY <1>1, <1>2 DEF OutTypes
<1> QED BY <1>0, <1>1, <1>3, <1>4, <1>5, <1>6, <1>7, <1>8, <1>9, SinkGoesOn DEF RefInv, Before, After, Over

LEMMA MakeFailsKeeps ==
    ASSUME OutInv, NEW r \in Refs, MakeFails(r)
    PROVE  OutInv'
<1>1. /\ phase[r] = "making" /\ phase' = [phase EXCEPT ![r] = "closed"] /\ active' = active \ {r}
      /\ failures < MaxFailures /\ failures' = failures + 1
      /\ UNCHANGED <<quota, dir, file, meta, queue, op, total, broken, limited, appended>> /\ SinkOnly
  BY DEF MakeFails, Leaves, Goes, Fault, FilesKept, QueueKept
<1>2. OutTypes /\ RefInv(r)
  BY DEF OutInv, RefInv
<1>0. store = "up" /\ r \in active
  BY <1>1, InUse DEF Over
<1>f. failures' \in 0..MaxFailures
  BY <1>1, <1>2, OutputStoreAssumption DEF OutTypes
<1>3. OutTypes'
  BY <1>1, <1>2, <1>f DEF OutTypes, SinkOnly, Phases, NoBytes
<1>4. Others(r)
  BY <1>1, <1>2 DEF Others, Apart, OutTypes, SinkOnly
<1>5. phase'[r] = "closed"
  BY <1>1, <1>2 DEF OutTypes
<1>6. DirInv(r)'
  BY <1>0, <1>1, <1>2, <1>5 DEF RefInv, DirInv, SinkOnly, Before, After, Over, NoBytes
<1>b. Bytes(file'[r]) = Bytes(file[r]) /\ Bytes(total'[r]) = Bytes(total[r])
  BY <1>1
<1>7. SinkInv(r)'
  BY <1>0, <1>1, <1>2, <1>5, <1>b DEF RefInv, SinkInv, DirInv, SinkOnly, Before, After, Over, Writing, NoOp
<1>8. QuotaInv(r)'
  BY <1>0, <1>1, <1>2, <1>5, <1>b DEF RefInv, QuotaInv, SinkInv, SinkOnly, Before, Over, Writing, NoOp
<1>9. quota'[r] <= quota[r]
  BY <1>1, <1>2 DEF OutTypes
<1> QED BY <1>0, <1>1, <1>3, <1>4, <1>5, <1>6, <1>7, <1>8, <1>9, SinkGoesOn DEF RefInv, Before, After, Over

LEMMA FinalizeKeeps ==
    ASSUME OutInv, NEW r \in Refs, Finalize(r)
    PROVE  OutInv'
<1>1. /\ phase[r] = "open" /\ phase' = [phase EXCEPT ![r] = "finalizing"]
      /\ UNCHANGED <<quota, active, failures, dir, file, meta, queue, op, total, broken, limited, appended>> /\ SinkOnly
  BY DEF Finalize, Goes, FilesKept, QueueKept
<1>2. OutTypes /\ RefInv(r)
  BY DEF OutInv, RefInv
<1>0. store = "up" /\ r \in active
  BY <1>1, InUse DEF Over
<1>3. OutTypes'
  BY <1>1, <1>2 DEF OutTypes, SinkOnly, Phases, NoBytes
<1>4. Others(r)
  BY <1>1, <1>2 DEF Others, Apart, OutTypes, SinkOnly
<1>5. phase'[r] = "finalizing"
  BY <1>1, <1>2 DEF OutTypes
<1>6. DirInv(r)'
  BY <1>0, <1>1, <1>2, <1>5 DEF RefInv, DirInv, SinkOnly, Before, After, Over, NoBytes
<1>b. Bytes(file'[r]) = Bytes(file[r]) /\ Bytes(total'[r]) = Bytes(total[r])
  BY <1>1
<1>7. SinkInv(r)'
  BY <1>0, <1>1, <1>2, <1>5, <1>b DEF RefInv, SinkInv, DirInv, SinkOnly, Before, After, Over, Writing, NoOp
<1>8. QuotaInv(r)'
  BY <1>0, <1>1, <1>2, <1>5, <1>b DEF RefInv, QuotaInv, SinkInv, SinkOnly, Before, Over, Writing, NoOp
<1>9. quota'[r] <= quota[r]
  BY <1>1, <1>2 DEF OutTypes
<1> QED BY <1>0, <1>1, <1>3, <1>4, <1>5, <1>6, <1>7, <1>8, <1>9, SinkGoesOn DEF RefInv, Before, After, Over

LEMMA QuarantineKeeps ==
    ASSUME OutInv, NEW r \in Refs, Quarantine(r)
    PROVE  OutInv'
<1>1. /\ phase[r] = "open" /\ phase' = [phase EXCEPT ![r] = "aborting"]
      /\ UNCHANGED <<quota, active, failures, dir, file, meta, queue, op, total, broken, limited, appended>> /\ SinkOnly
  BY DEF Quarantine, Goes, FilesKept, QueueKept
<1>2. OutTypes /\ RefInv(r)
  BY DEF OutInv, RefInv
<1>0. store = "up" /\ r \in active
  BY <1>1, InUse DEF Over
<1>3. OutTypes'
  BY <1>1, <1>2 DEF OutTypes, SinkOnly, Phases, NoBytes
<1>4. Others(r)
  BY <1>1, <1>2 DEF Others, Apart, OutTypes, SinkOnly
<1>5. phase'[r] = "aborting"
  BY <1>1, <1>2 DEF OutTypes
<1>6. DirInv(r)'
  BY <1>0, <1>1, <1>2, <1>5 DEF RefInv, DirInv, SinkOnly, Before, After, Over, NoBytes
<1>b. Bytes(file'[r]) = Bytes(file[r]) /\ Bytes(total'[r]) = Bytes(total[r])
  BY <1>1
<1>7. SinkInv(r)'
  BY <1>0, <1>1, <1>2, <1>5, <1>b DEF RefInv, SinkInv, DirInv, SinkOnly, Before, After, Over, Writing, NoOp
<1>8. QuotaInv(r)'
  BY <1>0, <1>1, <1>2, <1>5, <1>b DEF RefInv, QuotaInv, SinkInv, SinkOnly, Before, Over, Writing, NoOp
<1>9. quota'[r] <= quota[r]
  BY <1>1, <1>2 DEF OutTypes
<1> QED BY <1>0, <1>1, <1>3, <1>4, <1>5, <1>6, <1>7, <1>8, <1>9, SinkGoesOn DEF RefInv, Before, After, Over

LEMMA AnswerKeeps ==
    ASSUME OutInv, NEW r \in Refs, Answer(r)
    PROVE  OutInv'
<1>1. /\ phase[r] = "named" /\ phase' = [phase EXCEPT ![r] = "published"] /\ active' = active \ {r}
      /\ UNCHANGED <<quota, failures, dir, file, meta, queue, op, total, broken, limited, appended>> /\ SinkOnly
  BY DEF Answer, Leaves, Goes, FilesKept, QueueKept
<1>2. OutTypes /\ RefInv(r)
  BY DEF OutInv, RefInv
<1>0. store = "up" /\ r \in active
  BY <1>1, InUse DEF Over
<1>3. OutTypes'
  BY <1>1, <1>2 DEF OutTypes, SinkOnly, Phases, NoBytes
<1>4. Others(r)
  BY <1>1, <1>2 DEF Others, Apart, OutTypes, SinkOnly
<1>5. phase'[r] = "published"
  BY <1>1, <1>2 DEF OutTypes
<1>6. DirInv(r)'
  BY <1>0, <1>1, <1>2, <1>5 DEF RefInv, DirInv, SinkOnly, Before, After, Over, NoBytes
<1>b. Bytes(file'[r]) = Bytes(file[r]) /\ Bytes(total'[r]) = Bytes(total[r])
  BY <1>1
<1>7. SinkInv(r)'
  BY <1>0, <1>1, <1>2, <1>5, <1>b DEF RefInv, SinkInv, DirInv, SinkOnly, Before, After, Over, Writing, NoOp
<1>8. QuotaInv(r)'
  BY <1>0, <1>1, <1>2, <1>5, <1>b DEF RefInv, QuotaInv, SinkInv, SinkOnly, Before, Over, Writing, NoOp
<1>9. quota'[r] <= quota[r]
  BY <1>1, <1>2 DEF OutTypes
<1> QED BY <1>0, <1>1, <1>3, <1>4, <1>5, <1>6, <1>7, <1>8, <1>9, SinkGoesOn DEF RefInv, Before, After, Over

LEMMA RenameFailsKeeps ==
    ASSUME OutInv, NEW r \in Refs, RenameFails(r)
    PROVE  OutInv'
<1>1. /\ phase[r] = "staging" /\ phase' = [phase EXCEPT ![r] = "failing"]
      /\ failures < MaxFailures /\ failures' = failures + 1
      /\ UNCHANGED <<quota, active, dir, file, meta, queue, op, total, broken, limited, appended>> /\ SinkOnly
  BY DEF RenameFails, Goes, Fault, FilesKept, QueueKept
<1>2. OutTypes /\ RefInv(r)
  BY DEF OutInv, RefInv
<1>0. store = "up" /\ r \in active
  BY <1>1, InUse DEF Over
<1>f. failures' \in 0..MaxFailures
  BY <1>1, <1>2, OutputStoreAssumption DEF OutTypes
<1>3. OutTypes'
  BY <1>1, <1>2, <1>f DEF OutTypes, SinkOnly, Phases, NoBytes
<1>4. Others(r)
  BY <1>1, <1>2 DEF Others, Apart, OutTypes, SinkOnly
<1>5. phase'[r] = "failing"
  BY <1>1, <1>2 DEF OutTypes
<1>6. DirInv(r)'
  BY <1>0, <1>1, <1>2, <1>5 DEF RefInv, DirInv, SinkOnly, Before, After, Over, NoBytes
<1>b. Bytes(file'[r]) = Bytes(file[r]) /\ Bytes(total'[r]) = Bytes(total[r])
  BY <1>1
<1>7. SinkInv(r)'
  BY <1>0, <1>1, <1>2, <1>5, <1>b DEF RefInv, SinkInv, DirInv, SinkOnly, Before, After, Over, Writing, NoOp
<1>8. QuotaInv(r)'
  BY <1>0, <1>1, <1>2, <1>5, <1>b DEF RefInv, QuotaInv, SinkInv, SinkOnly, Before, Over, Writing, NoOp
<1>9. quota'[r] <= quota[r]
  BY <1>1, <1>2 DEF OutTypes
<1> QED BY <1>0, <1>1, <1>3, <1>4, <1>5, <1>6, <1>7, <1>8, <1>9, SinkGoesOn DEF RefInv, Before, After, Over

LEMMA DiscardKeeps ==
    ASSUME OutInv, NEW r \in Refs, Discard(r)
    PROVE  OutInv'
<1>1. /\ phase[r] = "discarding" /\ phase' = [phase EXCEPT ![r] = "closed"] /\ active' = active \ {r}
      /\ dir' = dir \ {r} /\ file' = [file EXCEPT ![r] = NoBytes] /\ meta' = [meta EXCEPT ![r] = "none"]
      /\ quota' = [quota EXCEPT ![r] = 0]
      /\ UNCHANGED <<failures, queue, op, total, broken, limited, appended>> /\ SinkOnly
  BY DEF Discard, Leaves, Goes, Removed, Released, Settled, QueueKept
<1>2. OutTypes /\ RefInv(r)
  BY DEF OutInv, RefInv
<1>0. store = "up" /\ r \in active
  BY <1>1, InUse DEF Over
<1>3. OutTypes'
  BY <1>1, <1>2 DEF OutTypes, SinkOnly, Phases, NoBytes
<1>4. Others(r)
  BY <1>1, <1>2 DEF Others, Apart, OutTypes, SinkOnly
<1>5. phase'[r] = "closed" /\ r \notin dir' /\ file'[r] = NoBytes /\ meta'[r] = "none" /\ quota'[r] = 0
  BY <1>1, <1>2 DEF OutTypes
<1>6. DirInv(r)'
  BY <1>0, <1>1, <1>2, <1>5 DEF RefInv, DirInv, SinkOnly, Before, After, Over, NoBytes
<1>b. /\ Bytes(file'[r]) = 0 /\ Bytes(total'[r]) = Bytes(total[r]) /\ Bytes(total[r]) \in Nat
      /\ 0 \in Nat /\ MaxStored \in Nat
  BY <1>1, <1>2, <1>5, NoBytesNone, BytesNumber, OutputStoreAssumption DEF OutTypes
<1>7. SinkInv(r)'
  BY <1>0, <1>1, <1>2, <1>5, <1>b DEF RefInv, SinkInv, DirInv, SinkOnly, Before, After, Over, Writing, NoOp
<1>8. QuotaInv(r)'
  BY <1>0, <1>1, <1>2, <1>5, <1>b DEF RefInv, QuotaInv, SinkInv, SinkOnly, Before, Over, Writing, NoOp
<1>9. quota'[r] <= quota[r]
  BY <1>1, <1>2 DEF OutTypes
<1> QED BY <1>0, <1>1, <1>3, <1>4, <1>5, <1>6, <1>7, <1>8, <1>9, SinkGoesOn DEF RefInv, Before, After, Over

LEMMA FailRemovedKeeps ==
    ASSUME OutInv, NEW r \in Refs, FailRemoved(r)
    PROVE  OutInv'
<1>1. /\ phase[r] = "failing" /\ phase' = [phase EXCEPT ![r] = "closed"] /\ active' = active \ {r}
      /\ dir' = dir \ {r} /\ file' = [file EXCEPT ![r] = NoBytes] /\ meta' = [meta EXCEPT ![r] = "none"]
      /\ quota' = [quota EXCEPT ![r] = 0]
      /\ UNCHANGED <<failures, queue, op, total, broken, limited, appended>> /\ SinkOnly
  BY DEF FailRemoved, Leaves, Goes, Removed, Released, Settled, QueueKept
<1>2. OutTypes /\ RefInv(r)
  BY DEF OutInv, RefInv
<1>0. store = "up" /\ r \in active
  BY <1>1, InUse DEF Over
<1>3. OutTypes'
  BY <1>1, <1>2 DEF OutTypes, SinkOnly, Phases, NoBytes
<1>4. Others(r)
  BY <1>1, <1>2 DEF Others, Apart, OutTypes, SinkOnly
<1>5. phase'[r] = "closed" /\ r \notin dir' /\ file'[r] = NoBytes /\ meta'[r] = "none" /\ quota'[r] = 0
  BY <1>1, <1>2 DEF OutTypes
<1>6. DirInv(r)'
  BY <1>0, <1>1, <1>2, <1>5 DEF RefInv, DirInv, SinkOnly, Before, After, Over, NoBytes
<1>b. /\ Bytes(file'[r]) = 0 /\ Bytes(total'[r]) = Bytes(total[r]) /\ Bytes(total[r]) \in Nat
      /\ 0 \in Nat /\ MaxStored \in Nat
  BY <1>1, <1>2, <1>5, NoBytesNone, BytesNumber, OutputStoreAssumption DEF OutTypes
<1>7. SinkInv(r)'
  BY <1>0, <1>1, <1>2, <1>5, <1>b DEF RefInv, SinkInv, DirInv, SinkOnly, Before, After, Over, Writing, NoOp
<1>8. QuotaInv(r)'
  BY <1>0, <1>1, <1>2, <1>5, <1>b DEF RefInv, QuotaInv, SinkInv, SinkOnly, Before, Over, Writing, NoOp
<1>9. quota'[r] <= quota[r]
  BY <1>1, <1>2 DEF OutTypes
<1> QED BY <1>0, <1>1, <1>3, <1>4, <1>5, <1>6, <1>7, <1>8, <1>9, SinkGoesOn DEF RefInv, Before, After, Over

LEMMA AbortNowKeeps ==
    ASSUME OutInv, NEW r \in Refs, AbortNow(r)
    PROVE  OutInv'
<1>1. /\ phase[r] = "aborting" /\ queue[r] = <<>> /\ op[r] = NoOp
      /\ phase' = [phase EXCEPT ![r] = "closed"] /\ active' = active \ {r}
      /\ dir' = dir \ {r} /\ file' = [file EXCEPT ![r] = NoBytes] /\ meta' = [meta EXCEPT ![r] = "none"]
      /\ quota' = [quota EXCEPT ![r] = 0]
      /\ UNCHANGED <<failures, queue, op, total, broken, limited, appended>> /\ SinkOnly
  BY DEF AbortNow, Leaves, Goes, Removed, Released, Settled, QueueKept
<1>2. OutTypes /\ RefInv(r)
  BY DEF OutInv, RefInv
<1>0. store = "up" /\ r \in active
  BY <1>1, InUse DEF Over
<1>3. OutTypes'
  BY <1>1, <1>2 DEF OutTypes, SinkOnly, Phases, NoBytes
<1>4. Others(r)
  BY <1>1, <1>2 DEF Others, Apart, OutTypes, SinkOnly
<1>5. phase'[r] = "closed" /\ r \notin dir' /\ file'[r] = NoBytes /\ meta'[r] = "none" /\ quota'[r] = 0
  BY <1>1, <1>2 DEF OutTypes
<1>6. DirInv(r)'
  BY <1>0, <1>1, <1>2, <1>5 DEF RefInv, DirInv, SinkOnly, Before, After, Over, NoBytes
<1>b. /\ Bytes(file'[r]) = 0 /\ Bytes(total'[r]) = Bytes(total[r]) /\ Bytes(total[r]) \in Nat
      /\ 0 \in Nat /\ MaxStored \in Nat
  BY <1>1, <1>2, <1>5, NoBytesNone, BytesNumber, OutputStoreAssumption DEF OutTypes
<1>7. SinkInv(r)'
  BY <1>0, <1>1, <1>2, <1>5, <1>b DEF RefInv, SinkInv, DirInv, SinkOnly, Before, After, Over, Writing, NoOp
<1>8. QuotaInv(r)'
  BY <1>0, <1>1, <1>2, <1>5, <1>b DEF RefInv, QuotaInv, SinkInv, SinkOnly, Before, Over, Writing, NoOp
<1>9. quota'[r] <= quota[r]
  BY <1>1, <1>2 DEF OutTypes
<1> QED BY <1>0, <1>1, <1>3, <1>4, <1>5, <1>6, <1>7, <1>8, <1>9, SinkGoesOn DEF RefInv, Before, After, Over

\* The first and the rest of a queue, and a queue with one more.
LEMMA QueueTypes ==
    ASSUME NEW X, NEW q \in Seq(X)
    PROVE  /\ \A x \in X : Append(q, x) \in Seq(X)
           /\ q # <<>> => Head(q) \in X /\ Tail(q) \in Seq(X)
OBVIOUS

LEMMA AppendChunkKeeps ==
    ASSUME OutInv, NEW r \in Refs, NEW s \in Streams, NEW n \in Chunks, AppendChunk(r, s, n)
    PROVE  OutInv'
<1>1. /\ phase[r] = "open" /\ queue' = [queue EXCEPT ![r] = Append(@, [stream |-> s, bytes |-> n])]
      /\ UNCHANGED <<phase, op, total, broken, limited, quota, active, failures, dir, file, meta>> /\ SinkOnly
  BY DEF AppendChunk, FilesKept
<1>2. OutTypes /\ RefInv(r)
  BY DEF OutInv, RefInv
<1>0. store = "up" /\ r \in active
  BY <1>1, InUse DEF Over
<1>q. queue' \in [Refs -> Seq(Waiting)]
  <2>1. n \in Nat \ {0}
    BY OutputStoreAssumption
  <2>2. queue \in [Refs -> Seq(Waiting)]
    BY <1>2 DEF OutTypes
  <2>3. Append(queue[r], [stream |-> s, bytes |-> n]) \in Seq(Waiting)
    <3>1. [stream |-> s, bytes |-> n] \in Waiting
      BY <2>1 DEF Waiting
    <3> QED BY <2>2, <3>1, QueueTypes
  <2> QED BY <1>1, <2>2, <2>3
<1>3. OutTypes'
  BY <1>1, <1>2, <1>q DEF OutTypes, SinkOnly
<1>4. Others(r)
  BY <1>1, <1>2 DEF Others, Apart, OutTypes, SinkOnly
<1>6. DirInv(r)'
  BY <1>0, <1>1, <1>2 DEF RefInv, DirInv, SinkOnly, Before, After, Over, NoBytes
<1>b. Bytes(file'[r]) = Bytes(file[r]) /\ Bytes(total'[r]) = Bytes(total[r])
  BY <1>1
<1>7. SinkInv(r)'
  BY <1>0, <1>1, <1>2, <1>b DEF RefInv, SinkInv, SinkOnly, Before, After, Over, Writing, NoOp
<1>8. QuotaInv(r)'
  BY <1>0, <1>1, <1>2, <1>b DEF RefInv, QuotaInv, SinkInv, SinkOnly, Before, Over, Writing, NoOp
<1>9. quota'[r] <= quota[r]
  BY <1>1, <1>2 DEF OutTypes
<1> QED BY <1>0, <1>1, <1>3, <1>4, <1>6, <1>7, <1>8, <1>9, SinkGoesOn DEF RefInv, Before, After, Over

\* What is asked of the quota, and what of it is granted.
LEMMA AppendNowKeeps ==
    ASSUME OutInv, NEW r \in Refs, AppendNow(r)
    PROVE  OutInv'
<1> DEFINE chunk == Head(queue[r])
           asked == IF chunk.bytes > Left(r) THEN Left(r) ELSE chunk.bytes
           granted == Room(r, asked)
           short == granted # chunk.bytes
<1>1. /\ queue[r] # <<>> /\ op[r] = NoOp /\ phase[r] \in {"open", "finalizing", "aborting"}
      /\ queue' = [queue EXCEPT ![r] = Tail(@)]
      /\ UNCHANGED <<phase, total, broken, appended, active, failures, dir, file, meta>> /\ SinkOnly
      /\ IF phase[r] = "aborting" \/ r \in broken \cup limited
           THEN UNCHANGED <<op, limited, quota>>
           ELSE /\ quota' = [quota EXCEPT ![r] = @ + granted]
                /\ op' = [op EXCEPT ![r] = IF granted = 0 THEN NoOp
                     ELSE [stream |-> chunk.stream, granted |-> granted, short |-> short]]
                /\ limited' = IF short /\ granted = 0 THEN limited \cup {r} ELSE limited
  BY DEF AppendNow, FilesKept
<1>2. OutTypes /\ RefInv(r)
  BY DEF OutInv, RefInv
<1>0. store = "up" /\ r \in active /\ r \notin scan.doomed /\ limit \in Nat /\ limit' = limit /\ LimitInv
  BY <1>1, <1>2, InUse, LimitNumber DEF Over, OutInv, SinkOnly
<1>3. /\ chunk.stream \in Streams /\ chunk.bytes \in Nat /\ Tail(queue[r]) \in Seq(Waiting)
  <2>1. queue[r] \in Seq(Waiting)
    BY <1>2 DEF OutTypes
  <2>2. Head(queue[r]) \in Waiting /\ Tail(queue[r]) \in Seq(Waiting)
    BY <1>1, <2>1, QueueTypes
  <2> QED BY <2>2 DEF Waiting
<1>4. queue' \in [Refs -> Seq(Waiting)]
  BY <1>1, <1>2, <1>3 DEF OutTypes
<1>5. /\ Bytes(total[r]) \in Nat /\ Bytes(file[r]) \in Nat /\ quota[r] \in Nat /\ quota \in [Refs -> Nat]
      /\ Bytes(total[r]) <= MaxStored /\ MaxStored \in Nat /\ Bytes(file[r]) <= quota[r] /\ quota[r] <= MaxStored
      /\ Bytes(file'[r]) = Bytes(file[r]) /\ Bytes(total'[r]) = Bytes(total[r])
  <2>1. Bytes(total[r]) \in Nat /\ Bytes(file[r]) \in Nat /\ quota[r] \in Nat /\ quota \in [Refs -> Nat]
    BY <1>2, BytesNumber DEF OutTypes
  <2>2. op[r].granted = 0
    BY <1>1 DEF NoOp
  <2>3. Bytes(total[r]) + op[r].granted <= MaxStored /\ Bytes(file[r]) + op[r].granted <= quota[r] /\ quota[r] <= MaxStored
    BY <1>0, <1>2 DEF RefInv, QuotaInv
  <2>4. Bytes(file'[r]) = Bytes(file[r]) /\ Bytes(total'[r]) = Bytes(total[r])
    BY <1>1
  <2> QED BY <2>1, <2>2, <2>3, <2>4, OutputStoreAssumption
<1>6. asked \in Nat /\ Bytes(total[r]) + asked <= MaxStored
  BY <1>3, <1>5 DEF Left
<1> HIDE DEF asked
<1>7. granted \in 0..asked
  BY <1>0, <1>5, <1>6, HeldReserved
<1>8. CASE phase[r] = "aborting" \/ r \in broken \cup limited
  <2>1. UNCHANGED <<op, limited, quota>>
    BY <1>1, <1>8
  <2>2. OutTypes'
    BY <1>1, <1>2, <1>4, <2>1 DEF OutTypes, SinkOnly
  <2>3. Others(r)
    BY <1>1, <1>2, <2>1 DEF Others, Apart, OutTypes, SinkOnly
  <2>4. DirInv(r)'
    BY <1>0, <1>1, <1>2, <2>1 DEF RefInv, DirInv, SinkOnly, Before, After, Over, NoBytes
  <2>5. SinkInv(r)'
    BY <1>0, <1>1, <1>2, <1>5, <2>1 DEF RefInv, SinkInv, SinkOnly, Before, After, Over, Writing, NoOp
  <2>6. QuotaInv(r)'
    BY <1>0, <1>1, <1>2, <1>5, <2>1 DEF RefInv, QuotaInv, SinkInv, SinkOnly, Before, Over, Writing, NoOp
  <2>7. quota'[r] <= quota[r]
    BY <1>5, <2>1
  <2> QED BY <1>0, <1>1, <2>2, <2>3, <2>4, <2>5, <2>6, <2>7, SinkGoesOn DEF RefInv, Before, After, Over
<1>9. CASE ~(phase[r] = "aborting" \/ r \in broken \cup limited)
  <2> DEFINE o == IF granted = 0 THEN NoOp ELSE [stream |-> chunk.stream, granted |-> granted, short |-> short]
  <2>1. /\ quota' = [quota EXCEPT ![r] = @ + granted] /\ op' = [op EXCEPT ![r] = o]
        /\ limited' = IF short /\ granted = 0 THEN limited \cup {r} ELSE limited
    BY <1>1, <1>9
  <2>2. (Held(Refs) <= limit /\ Cardinality(Tracked) <= MaxEntries)'
    BY <1>0, <1>5, <1>6, <2>1, HeldReserved
  <2>3. LimitInv'
    BY <2>2 DEF LimitInv
  <2> HIDE DEF granted, chunk
  <2>4. o \in Ops /\ o.granted = granted /\ granted \in Nat
    <3>1. granted \in Nat /\ short \in BOOLEAN /\ chunk.stream \in Streams
      BY <1>3, <1>6, <1>7 DEF short
    <3> HIDE DEF short
    <3>2. CASE granted = 0
      BY <3>2 DEF Ops, NoOp
    <3>3. CASE granted # 0
      BY <3>1, <3>3 DEF Ops
    <3> QED BY <3>1, <3>2, <3>3
  <2> HIDE DEF o, short
  <2>5. quota'[r] = quota[r] + granted /\ op'[r] = o /\ quota' \in [Refs -> Nat] /\ op' \in [Refs -> Ops]
    BY <1>2, <1>5, <2>1, <2>4 DEF OutTypes
  <2>6. OutTypes'
    <3>1. limited' \subseteq Refs
      BY <1>2, <2>1 DEF OutTypes
    <3> QED BY <1>1, <1>2, <1>4, <2>5, <3>1 DEF OutTypes, SinkOnly
  <2>7. Others(r)
    BY <1>1, <1>2, <2>1 DEF Others, Apart, OutTypes, SinkOnly
  <2>8. phase[r] \in Writing /\ r \notin broken /\ quota[r] = Bytes(total[r]) /\ file[r] = total[r]
    <3>1. phase[r] \in Writing /\ r \notin broken
      BY <1>1, <1>9 DEF Writing
    <3>2. quota[r] = Bytes(total[r]) + op[r].granted /\ file[r] = total[r]
      BY <1>2, <3>1 DEF RefInv, SinkInv
    <3>3. op[r].granted = 0
      BY <1>1 DEF NoOp
    <3> QED BY <1>5, <3>1, <3>2, <3>3
  <2>9. DirInv(r)'
    BY <1>0, <1>1, <1>2 DEF RefInv, DirInv, SinkOnly, Before, After, Over, NoBytes
  <2>10. SinkInv(r)'
    <3>1. quota'[r] = Bytes(total'[r]) + op'[r].granted
      BY <1>5, <2>4, <2>5, <2>8
    <3> QED BY <1>0, <1>1, <1>2, <2>8, <3>1 DEF RefInv, SinkInv, SinkOnly, Before, After, Over, Writing
  <2>11. QuotaInv(r)'
    <3>1. Bytes(file'[r]) + op'[r].granted <= quota'[r]
      BY <1>5, <2>4, <2>5, <2>8
    <3>2. Bytes(total'[r]) + op'[r].granted <= MaxStored /\ quota'[r] <= MaxStored
      BY <1>5, <1>6, <1>7, <2>4, <2>5, <2>8
    <3> QED BY <1>1, <2>8, <3>1, <3>2 DEF QuotaInv, Before, Writing
  <2>12. OrderInv'
    BY <1>1 DEF OutInv, OrderInv, SinkOnly
  <2> QED BY <1>0, <1>1, <2>3, <2>6, <2>7, <2>9, <2>10, <2>11, <2>12, OneGoesOn DEF RefInv, Others, SinkOnly
<1> QED BY <1>8, <1>9

\* The write in progress names a stream and some bytes.
LEMMA OpIs ==
    ASSUME OutTypes, NEW r \in Refs, op[r] # NoOp
    PROVE  op[r].stream \in Streams /\ op[r].granted \in Nat \ {0}
<1>1. op[r] \in Ops
  BY DEF OutTypes
<1> QED BY <1>1 DEF Ops

\* The bytes written were granted before, so the quota covers them now as it did then.
LEMMA AppendWrittenKeeps ==
    ASSUME OutInv, NEW r \in Refs, AppendWritten(r)
    PROVE  OutInv'
<1> DEFINE st == op[r].stream
           g == op[r].granted
           longer == [file[r] EXCEPT ![st] = @ + g]
           counted == [total[r] EXCEPT ![st] = @ + g]
<1>1. /\ op[r] # NoOp /\ r \in dir
      /\ file' = [file EXCEPT ![r][st] = @ + g]
      /\ IF phase[r] = "aborting" THEN UNCHANGED <<total, limited>>
           ELSE /\ total' = [total EXCEPT ![r][st] = @ + g]
                /\ limited' = IF op[r].short THEN limited \cup {r} ELSE limited
      /\ op' = [op EXCEPT ![r] = NoOp]
      /\ UNCHANGED <<dir, meta, phase, queue, broken, appended, quota, active, failures>> /\ SinkOnly
  BY DEF AppendWritten
<1>2. OutTypes /\ RefInv(r)
  BY DEF OutInv, RefInv
<1>3. st \in Streams /\ g \in Nat \ {0} /\ NoOp.granted = 0
  BY <1>1, <1>2, OpIs DEF NoOp
<1>4. phase[r] \in Writing \cup {"aborting"}
  BY <1>1, <1>2 DEF RefInv, SinkInv
<1>0. store = "up" /\ r \in active
  BY <1>4, InUse DEF Over, Writing
<1>5. /\ file[r] \in [Streams -> Nat] /\ total[r] \in [Streams -> Nat] /\ file \in [Refs -> [Streams -> Nat]]
      /\ total \in [Refs -> [Streams -> Nat]]
  BY <1>2 DEF OutTypes
<1>6. /\ longer \in [Streams -> Nat] /\ Bytes(longer) = Bytes(file[r]) + g
      /\ counted \in [Streams -> Nat] /\ Bytes(counted) = Bytes(total[r]) + g
  BY <1>3, <1>5, BytesAdded
<1>7. Bytes(file[r]) \in Nat /\ Bytes(total[r]) \in Nat /\ quota[r] \in Nat /\ MaxStored \in Nat
  BY <1>2, <1>5, BytesNumber, OutputStoreAssumption DEF OutTypes
<1>8. \A s \in Streams : total[r][s] <= longer[s] /\ (counted[s] <= longer[s])
  <2>1. \A s \in Streams : total[r][s] <= file[r][s] /\ total[r][s] \in Nat /\ file[r][s] \in Nat
    BY <1>2, <1>4, <1>5 DEF RefInv, SinkInv
  <2> QED BY <1>3, <1>5, <2>1
<1>9. file[r] = total[r] => longer = counted
  OBVIOUS
<1>10. file' = [file EXCEPT ![r] = longer]
  BY <1>1
<1>11. total' = IF phase[r] = "aborting" THEN total ELSE [total EXCEPT ![r] = counted]
  BY <1>1
<1>12. limited' \subseteq Refs
  BY <1>1, <1>2 DEF OutTypes
<1> HIDE DEF st, g, longer, counted
<1>13. /\ file'[r] = longer /\ total'[r] = (IF phase[r] = "aborting" THEN total[r] ELSE counted)
       /\ file' \in [Refs -> [Streams -> Nat]] /\ total' \in [Refs -> [Streams -> Nat]]
       /\ op'[r] = NoOp /\ op' \in [Refs -> Ops]
  <2>1. file'[r] = longer /\ file' \in [Refs -> [Streams -> Nat]]
    BY <1>5, <1>6, <1>10
  <2>2. total'[r] = (IF phase[r] = "aborting" THEN total[r] ELSE counted) /\ total' \in [Refs -> [Streams -> Nat]]
    BY <1>5, <1>6, <1>11
  <2>3. op'[r] = NoOp /\ op' \in [Refs -> Ops]
    BY <1>1, <1>2 DEF OutTypes, Ops
  <2> QED BY <2>1, <2>2, <2>3
<1>14. OutTypes'
  BY <1>1, <1>2, <1>12, <1>13 DEF OutTypes, SinkOnly
<1>15. Others(r)
  <2> SUFFICES ASSUME NEW q \in Refs \ {r}
               PROVE  Apart(q)
    BY DEF Others
  <2>1. file'[q] = file[q] /\ total'[q] = total[q] /\ op'[q] = op[q]
    BY <1>1, <1>2, <1>5, <1>10, <1>11 DEF OutTypes
  <2> QED BY <1>1, <2>1 DEF Apart, SinkOnly
<1>16. DirInv(r)'
  BY <1>1, <1>2, <1>4 DEF RefInv, DirInv, SinkOnly, Before, After, Over, Writing
<1>17. SinkInv(r)'
  <2>1. \A s \in Streams : total'[r][s] <= file'[r][s]
    BY <1>8, <1>13
  <2>2. phase[r] \in Writing /\ r \notin broken => file'[r] = total'[r] /\ quota[r] = Bytes(total'[r]) + NoOp.granted
    <3> SUFFICES ASSUME phase[r] \in Writing, r \notin broken
                 PROVE  file'[r] = total'[r] /\ quota[r] = Bytes(total'[r]) + NoOp.granted
      OBVIOUS
    <3>1. file[r] = total[r] /\ quota[r] = Bytes(total[r]) + op[r].granted
      BY <1>2 DEF RefInv, SinkInv
    <3>2. total'[r] = counted
      BY <1>13 DEF Writing
    <3> QED BY <1>3, <1>6, <1>7, <1>9, <1>13, <3>1, <3>2 DEF g
  <2> QED BY <1>1, <1>2, <1>4, <1>13, <2>1, <2>2 DEF SinkInv, SinkOnly, Writing
<1>18. QuotaInv(r)'
  <2>1. Bytes(file[r]) + g <= quota[r] /\ Bytes(total[r]) + g <= MaxStored /\ quota[r] <= MaxStored
    BY <1>0, <1>2 DEF RefInv, QuotaInv, g
  <2>2. Bytes(file'[r]) + NoOp.granted <= quota[r] /\ Bytes(total'[r]) + NoOp.granted <= MaxStored
    BY <1>3, <1>6, <1>7, <1>13, <2>1
  <2> QED BY <1>1, <1>4, <1>13, <2>1, <2>2 DEF QuotaInv, Before, Writing
<1>19. quota'[r] <= quota[r]
  BY <1>1, <1>7
<1> QED BY <1>0, <1>1, <1>4, <1>14, <1>15, <1>16, <1>17, <1>18, <1>19, SinkGoesOn DEF RefInv, Before, After, Over, Writing

\* Whatever part of the write reached the file, it is no more than was granted.
LEMMA AppendFailsKeeps ==
    ASSUME OutInv, NEW r \in Refs, AppendFails(r)
    PROVE  OutInv'
<1>1. PICK n \in 0..op[r].granted :
         /\ op[r] # NoOp /\ failures < MaxFailures /\ failures' = failures + 1
         /\ n > 0 => r \in dir
         /\ file' = [file EXCEPT ![r][op[r].stream] = @ + n]
         /\ broken' = IF phase[r] = "aborting" THEN broken ELSE broken \cup {r}
         /\ op' = [op EXCEPT ![r] = NoOp]
         /\ UNCHANGED <<dir, meta, phase, queue, total, limited, appended, quota, active>> /\ SinkOnly
  BY DEF AppendFails, Fault
<1> DEFINE st == op[r].stream
           g == op[r].granted
           longer == [file[r] EXCEPT ![st] = @ + n]
<1>2. OutTypes /\ RefInv(r)
  BY DEF OutInv, RefInv
<1>3. st \in Streams /\ g \in Nat \ {0} /\ NoOp.granted = 0
  BY <1>1, <1>2, OpIs DEF NoOp
<1>4. phase[r] \in Writing \cup {"aborting"}
  BY <1>1, <1>2 DEF RefInv, SinkInv
<1>0. store = "up" /\ r \in active
  BY <1>4, InUse DEF Over, Writing
<1>5. file[r] \in [Streams -> Nat] /\ total[r] \in [Streams -> Nat] /\ file \in [Refs -> [Streams -> Nat]]
  BY <1>2 DEF OutTypes
<1>6. n \in Nat /\ n <= g /\ longer \in [Streams -> Nat] /\ Bytes(longer) = Bytes(file[r]) + n
  <2>1. n \in Nat /\ n <= g
    BY <1>3
  <2> QED BY <1>3, <1>5, <2>1, BytesAdded
<1>7. Bytes(file[r]) \in Nat /\ Bytes(total[r]) \in Nat /\ quota[r] \in Nat /\ MaxStored \in Nat
  BY <1>2, <1>5, BytesNumber, OutputStoreAssumption DEF OutTypes
<1>8. \A s \in Streams : total[r][s] <= longer[s]
  <2>1. \A s \in Streams : total[r][s] <= file[r][s] /\ total[r][s] \in Nat /\ file[r][s] \in Nat
    BY <1>2, <1>4, <1>5 DEF RefInv, SinkInv
  <2> QED BY <1>3, <1>5, <1>6, <2>1
<1>10. file' = [file EXCEPT ![r] = longer]
  BY <1>1
<1>11. failures' \in 0..MaxFailures /\ broken' \subseteq Refs
  BY <1>1, <1>2, OutputStoreAssumption DEF OutTypes
<1> HIDE DEF st, g, longer
<1>13. /\ file'[r] = longer /\ file' \in [Refs -> [Streams -> Nat]]
       /\ op'[r] = NoOp /\ op' \in [Refs -> Ops]
  <2>1. file'[r] = longer /\ file' \in [Refs -> [Streams -> Nat]]
    BY <1>5, <1>6, <1>10
  <2>3. op'[r] = NoOp /\ op' \in [Refs -> Ops]
    BY <1>1, <1>2 DEF OutTypes, Ops
  <2> QED BY <2>1, <2>3
<1>14. OutTypes'
  BY <1>1, <1>2, <1>11, <1>13 DEF OutTypes, SinkOnly
<1>15. Others(r)
  <2> SUFFICES ASSUME NEW q \in Refs \ {r}
               PROVE  Apart(q)
    BY DEF Others
  <2>1. file'[q] = file[q] /\ op'[q] = op[q] /\ (q \in broken' <=> q \in broken)
    BY <1>1, <1>2, <1>5, <1>10 DEF OutTypes
  <2> QED BY <1>1, <2>1 DEF Apart, SinkOnly
<1>16. DirInv(r)'
  <2>1. r \in dir
    BY <1>2, <1>4 DEF RefInv, SinkInv
  <2> QED BY <1>1, <1>2, <1>4, <2>1 DEF RefInv, DirInv, SinkOnly, Before, After, Over, Writing
<1>17. SinkInv(r)'
  <2>1. \A s \in Streams : total'[r][s] <= file'[r][s]
    BY <1>1, <1>8, <1>13
  <2>2. phase[r] \in Writing => r \in broken'
    BY <1>1 DEF Writing
  <2> QED BY <1>1, <1>2, <1>4, <1>13, <2>1, <2>2 DEF RefInv, SinkInv, SinkOnly, Writing
<1>18. QuotaInv(r)'
  <2>1. Bytes(file[r]) + g <= quota[r] /\ Bytes(total[r]) + g <= MaxStored /\ quota[r] <= MaxStored
    BY <1>0, <1>2 DEF RefInv, QuotaInv, g
  <2>2. Bytes(file'[r]) + NoOp.granted <= quota[r] /\ Bytes(total[r]) + NoOp.granted <= MaxStored
    BY <1>3, <1>6, <1>7, <1>13, <2>1
  <2>3. Bytes(total'[r]) = Bytes(total[r])
    BY <1>1
  <2> QED BY <1>1, <1>4, <1>13, <2>1, <2>2, <2>3 DEF QuotaInv, Before, Writing
<1>19. quota'[r] <= quota[r]
  BY <1>1, <1>7
<1> QED BY <1>0, <1>1, <1>4, <1>14, <1>15, <1>16, <1>17, <1>18, <1>19, SinkGoesOn DEF RefInv, Before, After, Over, Writing

LEMMA FinalizeNowKeeps ==
    ASSUME OutInv, NEW r \in Refs, FinalizeNow(r)
    PROVE  OutInv'
<1>1. /\ phase[r] = "finalizing" /\ queue[r] = <<>> /\ op[r] = NoOp
      /\ UNCHANGED <<dir, file, quota, active, queue, op, total, broken, limited, appended>> /\ SinkOnly
  BY DEF FinalizeNow, Settled, QueueKept
<1>2. PICK p \in {"failing", "discarding", "staging"}, m \in {"staged", meta[r]} :
        /\ phase' = [phase EXCEPT ![r] = p] /\ meta' = [meta EXCEPT ![r] = m]
        /\ p = "staging" => m = "staged" /\ r \notin broken
        /\ failures' = failures \/ (failures < MaxFailures /\ failures' = failures + 1)
  <2>1. CASE r \in broken /\ Goes(r, "failing") /\ UNCHANGED <<meta, failures>>
    <3>1. meta' = [meta EXCEPT ![r] = meta[r]]
      BY <2>1 DEF OutInv, OutTypes
    <3> QED BY <2>1, <3>1 DEF Goes
  <2>2. CASE r \notin broken /\ Goes(r, "discarding") /\ UNCHANGED <<meta, failures>>
    <3>1. meta' = [meta EXCEPT ![r] = meta[r]]
      BY <2>2 DEF OutInv, OutTypes
    <3> QED BY <2>2, <3>1 DEF Goes
  <2>3. CASE r \notin broken /\ Goes(r, "staging") /\ meta' = [meta EXCEPT ![r] = "staged"] /\ UNCHANGED failures
    BY <2>3 DEF Goes
  <2>4. CASE Fault /\ Goes(r, "failing") /\ UNCHANGED meta
    <3>1. meta' = [meta EXCEPT ![r] = meta[r]]
      BY <2>4 DEF OutInv, OutTypes
    <3> QED BY <2>4, <3>1 DEF Goes, Fault
  <2> QED BY <2>1, <2>2, <2>3, <2>4 DEF FinalizeNow
<1>3. OutTypes /\ RefInv(r)
  BY DEF OutInv, RefInv
<1>0. store = "up" /\ r \in active
  BY <1>1, InUse DEF Over
<1>4. phase'[r] = p /\ meta'[r] = m /\ m \in {"none", "staged"} /\ m # "named" /\ r \in dir
  <2>1. phase'[r] = p /\ meta'[r] = m /\ meta[r] \in {"none", "staged", "named"}
    BY <1>2, <1>3 DEF OutTypes
  <2>2. meta[r] # "named" /\ r \in dir
    BY <1>1, <1>3 DEF RefInv, DirInv, SinkInv, After, Writing
  <2> QED BY <1>2, <2>1, <2>2
<1>5. failures' \in 0..MaxFailures
  BY <1>2, <1>3, OutputStoreAssumption DEF OutTypes
<1>6. OutTypes'
  BY <1>1, <1>2, <1>3, <1>4, <1>5 DEF OutTypes, SinkOnly, Phases
<1>7. Others(r)
  BY <1>1, <1>2, <1>3 DEF Others, Apart, OutTypes, SinkOnly
<1>8. DirInv(r)'
  BY <1>0, <1>1, <1>3, <1>4 DEF RefInv, DirInv, SinkOnly, Before, After, Over
<1>9. Bytes(file'[r]) = Bytes(file[r]) /\ Bytes(total'[r]) = Bytes(total[r])
  BY <1>1
<1>10. SinkInv(r)'
  <2>1. r \notin broken => file[r] = total[r] /\ quota[r] = Bytes(total[r]) + op[r].granted
    BY <1>1, <1>3 DEF RefInv, SinkInv, Writing
  <2>2. \A s \in Streams : total[r][s] <= file[r][s]
    BY <1>1, <1>3 DEF RefInv, SinkInv, Writing
  <2> QED BY <1>1, <1>2, <1>4, <1>9, <2>1, <2>2 DEF SinkInv, SinkOnly, Writing
<1>11. QuotaInv(r)'
  BY <1>1, <1>3, <1>4, <1>9 DEF RefInv, QuotaInv, SinkOnly, Before
<1>12. quota'[r] <= quota[r]
  BY <1>1, <1>3 DEF OutTypes
<1> QED BY <1>0, <1>1, <1>4, <1>6, <1>7, <1>8, <1>10, <1>11, <1>12, SinkGoesOn DEF RefInv, Before, After, Over

\* What a failed removal leaves of the files of r.
LEMMA HalfRemovedIs ==
    ASSUME OutTypes, NEW r \in Refs, HalfRemoved(r)
    PROVE  \E f \in {NoBytes, file[r]}, m \in {"none", meta[r]} :
             /\ file' = [file EXCEPT ![r] = f] /\ meta' = [meta EXCEPT ![r] = m] /\ UNCHANGED dir
             /\ file'[r] = f /\ file' \in [Refs -> [Streams -> Nat]]
             /\ meta'[r] = m /\ meta' \in [Refs -> {"none", "staged", "named"}]
             /\ Bytes(f) \in Nat /\ Bytes(f) <= Bytes(file[r])
<1>1. PICK lost \in SUBSET {"payload", "metadata"} :
        /\ file' = [file EXCEPT ![r] = IF "payload" \in lost THEN NoBytes ELSE @]
        /\ meta' = [meta EXCEPT ![r] = IF "metadata" \in lost THEN "none" ELSE @]
        /\ UNCHANGED dir
  BY DEF HalfRemoved
<1> DEFINE f == IF "payload" \in lost THEN NoBytes ELSE file[r]
           m == IF "metadata" \in lost THEN "none" ELSE meta[r]
<1>2. file \in [Refs -> [Streams -> Nat]] /\ meta \in [Refs -> {"none", "staged", "named"}]
  BY DEF OutTypes
<1>3. f \in {NoBytes, file[r]} /\ m \in {"none", meta[r]} /\ m \in {"none", "staged", "named"}
  BY <1>2
<1>4. f \in [Streams -> Nat] /\ Bytes(f) \in Nat /\ Bytes(f) <= Bytes(file[r])
  <2>1. file[r] \in [Streams -> Nat]
    BY <1>2
  <2>2. Bytes(file[r]) \in Nat /\ 0 <= Bytes(file[r])
    BY <2>1, BytesNumber
  <2>3. CASE f = NoBytes
    BY <2>2, <2>3, NoBytesNone
  <2>4. CASE f = file[r]
    BY <2>1, <2>2, <2>4
  <2> QED BY <1>3, <2>3, <2>4
<1>5. file' = [file EXCEPT ![r] = f] /\ meta' = [meta EXCEPT ![r] = m]
  BY <1>1
<1> HIDE DEF f, m
<1>6. /\ file'[r] = f /\ file' \in [Refs -> [Streams -> Nat]]
      /\ meta'[r] = m /\ meta' \in [Refs -> {"none", "staged", "named"}]
  BY <1>2, <1>3, <1>4, <1>5
<1> QED BY <1>1, <1>3, <1>4, <1>5, <1>6

LEMMA DiscardFailsKeeps ==
    ASSUME OutInv, NEW r \in Refs, DiscardFails(r)
    PROVE  OutInv'
<1>1. /\ phase[r] = "discarding" /\ HalfRemoved(r) /\ phase' = [phase EXCEPT ![r] = "failing"]
      /\ failures < MaxFailures /\ failures' = failures + 1
      /\ UNCHANGED <<quota, active, queue, op, total, broken, limited, appended>> /\ SinkOnly
  BY DEF DiscardFails, Goes, QueueKept, Fault
<1>2. OutTypes /\ RefInv(r)
  BY DEF OutInv, RefInv
<1>0. store = "up" /\ r \in active
  BY <1>1, InUse DEF Over
<1>3. PICK f \in {NoBytes, file[r]}, m \in {"none", meta[r]} :
        /\ file' = [file EXCEPT ![r] = f] /\ meta' = [meta EXCEPT ![r] = m] /\ UNCHANGED dir
        /\ file'[r] = f /\ file' \in [Refs -> [Streams -> Nat]]
        /\ meta'[r] = m /\ meta' \in [Refs -> {"none", "staged", "named"}]
        /\ Bytes(f) \in Nat /\ Bytes(f) <= Bytes(file[r])
  BY <1>1, <1>2, HalfRemovedIs
<1>4. phase'[r] = "failing" /\ failures' \in 0..MaxFailures
  BY <1>1, <1>2, OutputStoreAssumption DEF OutTypes
<1>5. OutTypes'
  BY <1>1, <1>2, <1>3, <1>4 DEF OutTypes, SinkOnly, Phases
<1>6. Others(r)
  BY <1>1, <1>2, <1>3 DEF Others, Apart, OutTypes, SinkOnly
<1>7. DirInv(r)'
  BY <1>0, <1>1, <1>2, <1>3, <1>4 DEF RefInv, DirInv, SinkOnly, Before, After, Over
<1>8. SinkInv(r)'
  BY <1>1, <1>2, <1>4 DEF RefInv, SinkInv, SinkOnly, Writing
<1>9. QuotaInv(r)'
  <2>1. Bytes(total'[r]) = Bytes(total[r]) /\ Bytes(file[r]) \in Nat /\ quota[r] \in Nat /\ op[r].granted = 0
    BY <1>1, <1>2, BytesNumber DEF OutTypes, RefInv, SinkInv, Writing, NoOp
  <2>2. Bytes(file[r]) + op[r].granted <= quota[r]
    BY <1>0, <1>2 DEF RefInv, QuotaInv
  <2>3. Bytes(file'[r]) + op[r].granted <= quota[r]
    BY <1>3, <2>1, <2>2
  <2> QED BY <1>1, <1>2, <1>4, <2>1, <2>3 DEF RefInv, QuotaInv, SinkOnly, Before
<1>10. quota'[r] <= quota[r]
  BY <1>1, <1>2 DEF OutTypes
<1> QED BY <1>0, <1>1, <1>3, <1>4, <1>5, <1>6, <1>7, <1>8, <1>9, <1>10, SinkGoesOn DEF RefInv, Before, After, Over

LEMMA FailKeptKeeps ==
    ASSUME OutInv, NEW r \in Refs, FailKept(r)
    PROVE  OutInv'
<1>1. /\ phase[r] \in {"failing", "aborting"} /\ queue[r] = <<>> /\ op[r] = NoOp /\ HalfRemoved(r)
      /\ phase' = [phase EXCEPT ![r] = "closed"] /\ active' = active \ {r} /\ quota' = quota
      /\ failures < MaxFailures /\ failures' = failures + 1
      /\ UNCHANGED <<queue, op, total, broken, limited, appended>> /\ SinkOnly
  BY DEF FailKept, Leaves, Goes, QueueKept, Fault, Settled, QuotaUnremoved
<1>2. OutTypes /\ RefInv(r)
  BY DEF OutInv, RefInv
<1>0. store = "up" /\ r \in active
  BY <1>1, InUse DEF Over
<1>3. PICK f \in {NoBytes, file[r]}, m \in {"none", meta[r]} :
        /\ file' = [file EXCEPT ![r] = f] /\ meta' = [meta EXCEPT ![r] = m] /\ UNCHANGED dir
        /\ file'[r] = f /\ file' \in [Refs -> [Streams -> Nat]]
        /\ meta'[r] = m /\ meta' \in [Refs -> {"none", "staged", "named"}]
        /\ Bytes(f) \in Nat /\ Bytes(f) <= Bytes(file[r])
  BY <1>1, <1>2, HalfRemovedIs
<1>4. phase'[r] = "closed" /\ failures' \in 0..MaxFailures
  BY <1>1, <1>2, OutputStoreAssumption DEF OutTypes
<1>5. OutTypes'
  BY <1>1, <1>2, <1>3, <1>4 DEF OutTypes, SinkOnly, Phases
<1>6. Others(r)
  BY <1>1, <1>2, <1>3 DEF Others, Apart, OutTypes, SinkOnly
<1>b. meta'[r] # "named"
  BY <1>1, <1>2, <1>3 DEF RefInv, DirInv, After
<1>7. DirInv(r)'
  BY <1>0, <1>1, <1>2, <1>3, <1>4 DEF RefInv, DirInv, SinkOnly, Before, After, Over
<1>8. SinkInv(r)'
  BY <1>1, <1>4, <1>b DEF SinkInv, Writing
<1>9. QuotaInv(r)'
  <2>1. Bytes(total'[r]) = Bytes(total[r]) /\ Bytes(file[r]) \in Nat /\ quota[r] \in Nat /\ op[r].granted = 0
    BY <1>1, <1>2, BytesNumber DEF OutTypes, NoOp
  <2>2. Bytes(file[r]) + op[r].granted <= quota[r]
    BY <1>0, <1>2 DEF RefInv, QuotaInv
  <2>3. Bytes(file'[r]) + op[r].granted <= quota[r]
    BY <1>3, <2>1, <2>2
  <2> QED BY <1>1, <1>2, <1>4, <2>1, <2>3 DEF RefInv, QuotaInv, SinkOnly, Before
<1>10. quota'[r] <= quota[r]
  BY <1>1, <1>2 DEF OutTypes
<1> QED BY <1>0, <1>1, <1>3, <1>4, <1>5, <1>6, <1>7, <1>8, <1>9, <1>10, SinkGoesOn DEF RefInv, Before, After, Over

LEMMA RenameKeeps ==
    ASSUME OutInv, NEW r \in Refs, Rename(r)
    PROVE  OutInv'
<1>1. /\ phase[r] = "staging" /\ meta' = [meta EXCEPT ![r] = "named"] /\ order' = Append(order, r)
      /\ phase' = [phase EXCEPT ![r] = "named"]
      /\ UNCHANGED <<dir, file, expired, quota, active, store, limit, reading, scan, failures, crashes>>
      /\ UNCHANGED <<queue, op, total, broken, limited, appended>>
  BY DEF Rename, Goes, QueueKept
<1>2. OutTypes /\ RefInv(r) /\ LimitInv /\ order \in Seq(Refs)
  BY DEF OutInv, RefInv, OutTypes
<1>0. store = "up" /\ r \in active /\ r \notin scan.doomed
  BY <1>1, InUse DEF Over
<1>3. phase'[r] = "named" /\ meta'[r] = "named" /\ order' \in Seq(Refs)
  BY <1>1, <1>2, QueueTypes DEF OutTypes
<1>4. OutTypes'
  BY <1>1, <1>2, <1>3 DEF OutTypes, Phases
<1>5. Others(r)
  BY <1>1, <1>2 DEF Others, Apart, OutTypes
<1>6. DirInv(r)'
  <2>1. r \in dir
    BY <1>1, <1>2 DEF RefInv, SinkInv
  <2> QED BY <1>0, <1>1, <1>2, <1>3, <2>1 DEF RefInv, DirInv, Before, After, Over
<1>b. Bytes(file'[r]) = Bytes(file[r]) /\ Bytes(total'[r]) = Bytes(total[r]) /\ Bytes(total[r]) \in Nat
  BY <1>1, <1>2, BytesNumber DEF OutTypes
<1>7. SinkInv(r)'
  <2>1. r \in dir /\ file[r] = total[r] /\ quota[r] = Bytes(total[r]) + op[r].granted /\ op[r] = NoOp /\ queue[r] = <<>>
    BY <1>1, <1>2 DEF RefInv, SinkInv, Writing
  <2>2. quota[r] = Bytes(total[r])
    BY <1>b, <2>1 DEF NoOp
  <2> QED BY <1>1, <1>3, <1>b, <2>1, <2>2 DEF SinkInv, Writing
<1>8. QuotaInv(r)'
  BY <1>1, <1>2, <1>3, <1>b DEF RefInv, QuotaInv, Before
<1>9. OrderInv'
  <2> SUFFICES ASSUME NEW i \in 1..Len(order')
               PROVE  phase'[order'[i]] \in After
    BY DEF OrderInv
  <2>1. Len(order') = Len(order) + 1 /\ Len(order) \in Nat /\ order'[Len(order) + 1] = r
    BY <1>1, <1>2
  <2>2. CASE i = Len(order) + 1
    BY <1>3, <2>1, <2>2 DEF After
  <2>3. CASE i # Len(order) + 1
    <3>1. i \in 1..Len(order) /\ order'[i] = order[i] /\ order[i] \in Refs
      BY <1>1, <1>2, <2>1, <2>3
    <3>2. phase[order[i]] \in After
      BY <3>1 DEF OutInv, OrderInv
    <3>3. phase'[order[i]] \in After
      BY <1>3, <1>5, <3>1, <3>2 DEF Others, Apart, After
    <3> QED BY <3>1, <3>3
  <2> QED BY <2>2, <2>3
<1>10. LimitInv'
  BY <1>1, <1>2 DEF LimitInv, Held, Tracked
<1> QED BY <1>0, <1>1, <1>3, <1>4, <1>5, <1>6, <1>7, <1>8, <1>9, <1>10, OneGoesOn DEF RefInv, Others, Before

----------------------------------------------------------------------------
(* Reads.                                                                  *)

\* A step of a read.
LEMMA ReadGoesOn ==
    ASSUME OutInv, OutTypes', NEW r \in Refs, ReadOnly, Others(r), store = "up",
           RefInv(r)', quota'[r] <= quota[r], dir' \subseteq dir,
           r \in scan.doomed => meta'[r] # "named" \/ r \in expired \/ file'[r] # total[r]
    PROVE  OutInv'
<1>1. /\ UNCHANGED <<phase, queue, op, total, broken, limited, appended>>
      /\ UNCHANGED <<order, expired, store, limit, active, scan, crashes>>
  BY DEF ReadOnly, sinkVars
<1>2. quota \in [Refs -> Nat] /\ quota' \in [Refs -> Nat] /\ scan \in Scans
  BY DEF OutInv, OutTypes
<1>3. ASSUME NEW q \in Refs
      PROVE  quota'[q] <= quota[q]
  <2>1. CASE q = r
    BY <2>1
  <2>2. CASE q # r
    <3>1. quota'[q] = quota[q] /\ quota[q] \in Nat
      BY <1>2, <2>2 DEF Others, Apart
    <3> QED BY <3>1
  <2> QED BY <2>1, <2>2
<1>4. LimitInv'
  <2>1. limit \in Nat /\ LimitInv /\ limit' = limit /\ store' = store
    BY <1>1, LimitNumber DEF OutInv
  <2> QED BY <1>2, <1>3, <2>1, HeldFalls
<1>5. OrderInv'
  BY <1>1 DEF OutInv, OrderInv
<1>6. r \in scan.doomed => r \notin active'
  BY <1>1, <1>2 DEF OutInv, ScanInv, Scans
<1> QED BY <1>1, <1>4, <1>5, <1>6, OneGoesOn DEF Others

\* Only what has been named is read, and only while the store is up.
LEMMA ReadIsUp ==
    ASSUME OutInv, NEW r \in Refs, reading[r] # "no"
    PROVE  store = "up"
BY DEF OutInv, QuietInv

\* What a cleanup has doomed.
LEMMA DoomedIs ==
    ASSUME OutInv, NEW r \in Refs, r \in scan.doomed
    PROVE  /\ r \notin active /\ phase[r] \in Over /\ r \in scan.listed
           /\ meta[r] # "named" \/ r \in expired \/ file[r] # total[r]
<1>1. scan \in Scans /\ phase[r] \in Phases
  BY DEF OutInv, OutTypes
<1>2. r \notin active /\ (meta[r] # "named" \/ r \in expired \/ file[r] # total[r])
  BY DEF OutInv, ScanInv
<1>3. r \in scan.listed /\ phase[r] \notin Before
  BY <1>1 DEF OutInv, ScanInv, Scans
<1>4. phase[r] \in Over
  BY <1>2, <1>3 DEF OutInv, DirInv, Before, Over
<1> QED BY <1>2, <1>3, <1>4

\* A step that only looks.
LEMMA LookKeeps ==
    ASSUME OutInv, NEW r \in Refs, NEW what \in {"no", "payload", "missing", "expired"}, Reads(r, what), ReadOnly,
           FilesKept, UNCHANGED <<quota, failures>>, store = "up", what = "expired" => r \in expired
    PROVE  OutInv'
<1>1. /\ UNCHANGED <<phase, queue, op, total, broken, limited, appended, dir, file, meta, quota, failures>>
      /\ UNCHANGED <<order, expired, store, limit, active, scan, crashes>>
      /\ reading' = [reading EXCEPT ![r] = what]
  BY DEF ReadOnly, sinkVars, FilesKept, Reads
<1>2. OutTypes /\ RefInv(r)
  BY DEF OutInv, RefInv
<1>3. OutTypes'
  BY <1>1, <1>2 DEF OutTypes
<1>4. Others(r)
  BY <1>1, <1>2 DEF Others, Apart, OutTypes
<1>5. reading'[r] = what
  BY <1>1, <1>2 DEF OutTypes
<1>6. Bytes(file'[r]) = Bytes(file[r]) /\ Bytes(total'[r]) = Bytes(total[r])
  BY <1>1
<1>7. DirInv(r)' /\ SinkInv(r)' /\ QuotaInv(r)'
  <2>1. DirInv(r)'
    BY <1>1, <1>2, <1>5 DEF RefInv, DirInv, NoBytes
  <2>2. SinkInv(r)'
    BY <1>1, <1>2, <1>6 DEF RefInv, SinkInv
  <2>3. QuotaInv(r)'
    BY <1>1, <1>2, <1>6 DEF RefInv, QuotaInv
  <2> QED BY <2>1, <2>2, <2>3
<1>8. quota'[r] <= quota[r]
  BY <1>1, <1>2 DEF OutTypes
<1>9. r \in scan.doomed => meta'[r] # "named" \/ r \in expired \/ file'[r] # total[r]
  BY <1>1, DoomedIs
<1>10. dir' \subseteq dir
  BY <1>1
<1> QED BY <1>3, <1>4, <1>7, <1>8, <1>9, <1>10, ReadGoesOn DEF RefInv

LEMMA BeginReadKeeps ==
    ASSUME OutInv, NEW r \in Refs, BeginRead(r)
    PROVE  OutInv'
<1> DEFINE what == IF meta[r] # "named" THEN "missing" ELSE IF r \in expired THEN "expired" ELSE "payload"
<1>1. what \in {"no", "payload", "missing", "expired"} /\ (what = "expired" => r \in expired)
  OBVIOUS
<1>2. Reads(r, what) /\ store = "up" /\ UNCHANGED <<quota, failures>> /\ FilesKept /\ ReadOnly
  BY DEF BeginRead
<1> HIDE DEF what
<1> QED BY <1>1, <1>2, LookKeeps

LEMMA ReadPayloadKeeps ==
    ASSUME OutInv, NEW r \in Refs, ReadPayload(r)
    PROVE  OutInv'
<1> DEFINE what == IF r \in dir THEN "no" ELSE "missing"
<1>1. what \in {"no", "payload", "missing", "expired"} /\ (what = "expired" => r \in expired)
  OBVIOUS
<1>2. Reads(r, what) /\ store = "up" /\ UNCHANGED <<quota, failures>> /\ FilesKept /\ ReadOnly
  BY ReadIsUp DEF ReadPayload
<1> HIDE DEF what
<1> QED BY <1>1, <1>2, LookKeeps

\* What has no directory and no sink has no files, so that giving back its quota takes none from a file.
LEMMA ReadMissingKeeps ==
    ASSUME OutInv, NEW r \in Refs, ReadMissing(r)
    PROVE  OutInv'
<1>1. CASE ~(r \notin dir \cup active)
  <2>1. Reads(r, "no") /\ UNCHANGED <<quota, failures>> /\ FilesKept /\ ReadOnly /\ store = "up"
    BY <1>1, ReadIsUp DEF ReadMissing
  <2> QED BY <2>1, LookKeeps
<1>2. CASE r \notin dir \cup active
  <2>1. /\ UNCHANGED <<phase, queue, op, total, broken, limited, appended, dir, file, meta, failures>>
        /\ UNCHANGED <<order, expired, store, limit, active, scan, crashes>>
        /\ reading' = [reading EXCEPT ![r] = "no"] /\ quota' = [quota EXCEPT ![r] = 0] /\ store = "up" /\ ReadOnly
    BY <1>2, ReadIsUp DEF ReadMissing, ReadOnly, sinkVars, FilesKept, Reads, Released
  <2>2. OutTypes /\ RefInv(r)
    BY DEF OutInv, RefInv
  <2>3. OutTypes'
    BY <2>1, <2>2 DEF OutTypes
  <2>4. Others(r)
    BY <2>1, <2>2 DEF Others, Apart, OutTypes
  <2>5. reading'[r] = "no" /\ quota'[r] = 0 /\ quota[r] \in Nat
    BY <2>1, <2>2 DEF OutTypes
  <2>6. phase[r] \in Over \cup {"free"} /\ file[r] = NoBytes /\ op[r] = NoOp /\ meta[r] = "none"
    BY <1>2, <2>2 DEF RefInv, DirInv, SinkInv, Writing, Over
  <2>7. Bytes(file'[r]) = 0 /\ Bytes(total'[r]) = Bytes(total[r]) /\ NoOp.granted = 0 /\ MaxStored \in Nat
    BY <2>1, <2>6, NoBytesNone, OutputStoreAssumption DEF NoOp
  <2>8. DirInv(r)'
    BY <2>1, <2>2, <2>5 DEF RefInv, DirInv, NoBytes
  <2>9. SinkInv(r)'
    BY <1>2, <2>1, <2>2, <2>5, <2>6 DEF RefInv, SinkInv, Writing, Over
  <2>10. QuotaInv(r)'
    BY <2>1, <2>2, <2>5, <2>6, <2>7 DEF RefInv, QuotaInv
  <2>11. r \in scan.doomed => meta'[r] # "named" \/ r \in expired \/ file'[r] # total[r]
    BY <2>1, <2>6
  <2>12. quota'[r] <= quota[r] /\ dir' \subseteq dir
    BY <2>1, <2>5
  <2> QED BY <2>1, <2>3, <2>4, <2>8, <2>9, <2>10, <2>11, <2>12, ReadGoesOn DEF RefInv
<1> QED BY <1>1, <1>2

\* Only what has expired is removed by a read, and what is being written has not.
LEMMA ReadExpiredKeeps ==
    ASSUME OutInv, NEW r \in Refs, ReadExpired(r)
    PROVE  OutInv'
<1>1. /\ UNCHANGED <<phase, queue, op, total, broken, limited, appended>>
      /\ UNCHANGED <<order, expired, store, limit, active, scan, crashes>>
      /\ reading' = [reading EXCEPT ![r] = "no"] /\ reading[r] = "expired" /\ store = "up" /\ ReadOnly
  BY ReadIsUp DEF ReadExpired, ReadOnly, sinkVars, Reads
<1>2. OutTypes /\ RefInv(r)
  BY DEF OutInv, RefInv
<1>3. r \in expired /\ phase[r] \in After /\ op[r] = NoOp /\ queue[r] = <<>> /\ NoOp.granted = 0
  BY <1>1, <1>2 DEF RefInv, DirInv, SinkInv, Writing, After, NoOp
<1>4. reading'[r] = "no"
  BY <1>1, <1>2 DEF OutTypes
<1>5. Bytes(file[r]) \in Nat /\ quota[r] \in Nat /\ Bytes(total'[r]) = Bytes(total[r]) /\ MaxStored \in Nat
  BY <1>1, <1>2, BytesNumber, OutputStoreAssumption DEF OutTypes
<1>6. CASE Removed(r) /\ quota' = Released(r) /\ UNCHANGED failures
  <2>1. /\ dir' = dir \ {r} /\ file' = [file EXCEPT ![r] = NoBytes] /\ meta' = [meta EXCEPT ![r] = "none"]
        /\ quota' = [quota EXCEPT ![r] = 0] /\ UNCHANGED failures
    BY <1>6 DEF Removed, Released
  <2>2. OutTypes'
    BY <1>1, <1>2, <2>1 DEF OutTypes, NoBytes
  <2>3. Others(r)
    BY <1>1, <1>2, <2>1 DEF Others, Apart, OutTypes
  <2>4. r \notin dir' /\ file'[r] = NoBytes /\ meta'[r] = "none" /\ quota'[r] = 0 /\ Bytes(file'[r]) = 0
    BY <1>2, <2>1, NoBytesNone DEF OutTypes
  <2>5. DirInv(r)'
    BY <1>1, <1>2, <1>3, <1>4, <2>4 DEF RefInv, DirInv, Before, After, NoBytes
  <2>6. SinkInv(r)'
    BY <1>1, <1>3, <2>4 DEF SinkInv, Writing, After
  <2>7. QuotaInv(r)'
    BY <1>1, <1>2, <1>3, <1>5, <2>4 DEF RefInv, QuotaInv
  <2>8. quota'[r] <= quota[r] /\ dir' \subseteq dir
    BY <1>5, <2>1, <2>4
  <2> QED BY <1>1, <1>3, <2>2, <2>3, <2>5, <2>6, <2>7, <2>8, ReadGoesOn DEF RefInv
<1>7. CASE HalfRemoved(r) /\ Fault /\ UNCHANGED quota
  <2>1. PICK f \in {NoBytes, file[r]}, m \in {"none", meta[r]} :
          /\ file' = [file EXCEPT ![r] = f] /\ meta' = [meta EXCEPT ![r] = m] /\ UNCHANGED dir
          /\ file'[r] = f /\ file' \in [Refs -> [Streams -> Nat]]
          /\ meta'[r] = m /\ meta' \in [Refs -> {"none", "staged", "named"}]
          /\ Bytes(f) \in Nat /\ Bytes(f) <= Bytes(file[r])
    BY <1>2, <1>7, HalfRemovedIs
  <2>2. failures' \in 0..MaxFailures
    BY <1>2, <1>7, OutputStoreAssumption DEF OutTypes, Fault
  <2>3. OutTypes'
    BY <1>1, <1>2, <1>7, <2>1, <2>2 DEF OutTypes
  <2>4. Others(r)
    BY <1>1, <1>2, <1>7, <2>1 DEF Others, Apart, OutTypes
  <2>5. DirInv(r)'
    BY <1>1, <1>2, <1>3, <1>4, <2>1 DEF RefInv, DirInv, Before, After
  <2>6. SinkInv(r)'
    BY <1>1, <1>3 DEF SinkInv, Writing, After
  <2>7. QuotaInv(r)'
    <3>1. Bytes(file[r]) + op[r].granted <= quota[r]
      BY <1>1, <1>2 DEF RefInv, QuotaInv
    <3>2. Bytes(file'[r]) + op[r].granted <= quota[r]
      BY <1>3, <1>5, <2>1, <3>1
    <3> QED BY <1>1, <1>2, <1>5, <1>7, <3>2 DEF RefInv, QuotaInv
  <2>8. quota'[r] <= quota[r] /\ dir' \subseteq dir
    BY <1>5, <1>7, <2>1
  <2> QED BY <1>1, <1>3, <2>3, <2>4, <2>5, <2>6, <2>7, <2>8, ReadGoesOn DEF RefInv
<1> QED BY <1>6, <1>7 DEF ReadExpired

----------------------------------------------------------------------------
(* The cleanup.                                                            *)

\* A step of the cleanup leaves all references but one alone.
LEMMA ScanGoesOn ==
    ASSUME OutInv, OutTypes', NEW r \in Refs, \A q \in Refs \ {r} : Apart(q), RefInv(r)',
           store' = "up" => store = "up", OrderInv', QuietInv', LimitInv', ScanInv', StartInv'
    PROVE  OutInv'
<1>1. \A q \in Refs : RefInv(q)'
  BY ApartKeeps DEF OutInv, RefInv
<1> QED BY <1>1 DEF OutInv, RefInv

\* A step of the cleanup that only looks.
LEMMA ScanLooks ==
    ASSUME OutInv, OutTypes', \A q \in Refs : Apart(q), store' = "up" => store = "up",
           OrderInv', QuietInv', LimitInv', ScanInv', StartInv'
    PROVE  OutInv'
<1>1. \A q \in Refs : RefInv(q)'
  BY ApartKeeps DEF OutInv, RefInv
<1> QED BY <1>1 DEF OutInv, RefInv

\* What a scan sets out from.
LEMMA ListingIs ==
    ASSUME OutInv
    PROVE  /\ Listing \in Scans /\ Listing.on /\ Listing.todo = dir /\ Listing.listed = dir /\ Listing.doomed = {}
           /\ Listing.kept = {} /\ Listing.tracked = Tracked /\ Listing.old = expired
           /\ \A r \in dir \cup Tracked : r \in Refs /\ phase[r] \notin Before
<1>1. OutTypes
  BY DEF OutInv
<1>2. Tracked \subseteq Refs
  BY DEF Tracked
<1>3. Listing \in Scans
  BY <1>1, <1>2 DEF OutTypes, Scans, Listing
<1>4. ASSUME NEW r \in dir \cup Tracked
      PROVE  r \in Refs /\ phase[r] \notin Before
  BY <1>1, <1>2 DEF OutTypes, OutInv, DirInv, QuotaInv, Tracked
<1> QED BY <1>3, <1>4 DEF Listing

\* A scan that sets out is in order.
LEMMA ListingScans ==
    ASSUME OutInv, scan' = Listing, UNCHANGED <<dir, expired, phase, active, meta, file, total>>
    PROVE  ScanInv'
<1>1. /\ scan' \in Scans /\ scan'.on /\ scan'.todo = dir /\ scan'.listed = dir /\ scan'.doomed = {}
      /\ scan'.kept = {} /\ scan'.tracked = Tracked /\ scan'.old = expired
      /\ \A r \in dir \cup Tracked : r \in Refs /\ phase[r] \notin Before
  BY ListingIs
<1> QED BY <1>1 DEF ScanInv

LEMMA BeginScanKeeps ==
    ASSUME OutInv, BeginScan
    PROVE  OutInv'
<1>1. /\ UNCHANGED <<dir, file, meta, phase, queue, op, total, broken, limited, appended, order, expired>>
      /\ UNCHANGED <<store, limit, quota, active, reading, failures, crashes>> /\ scan' = Listing /\ store = "up"
  BY DEF BeginScan, FilesKept, ScanOnly, sinkVars
<1>2. OutTypes'
  BY <1>1, ListingIs DEF OutInv, OutTypes
<1>3. \A q \in Refs : Apart(q)
  BY <1>1 DEF Apart
<1>4. OrderInv' /\ QuietInv' /\ StartInv'
  BY <1>1 DEF OutInv, OrderInv, QuietInv, StartInv
<1>5. LimitInv'
  BY <1>1 DEF OutInv, LimitInv, Held, Tracked
<1>6. ScanInv'
  BY <1>1, ListingScans
<1>7. store' = "up" => store = "up"
  BY <1>1
<1> QED BY <1>2, <1>3, <1>4, <1>5, <1>6, <1>7, ScanLooks

LEMMA OpenKeeps ==
    ASSUME OutInv, Open
    PROVE  OutInv'
<1>1. /\ UNCHANGED <<dir, file, meta, phase, queue, op, total, broken, limited, appended, order, expired>>
      /\ UNCHANGED <<quota, active, reading, failures, crashes>> /\ scan' = Listing
      /\ store = "down" /\ store' = "scanning" /\ limit' \in ByteLimits
  BY DEF Open, diskVars, sinkVars
<1>2. OutTypes'
  BY <1>1, ListingIs DEF OutInv, OutTypes
<1>3. \A q \in Refs : Apart(q)
  BY <1>1 DEF Apart
<1>4. OrderInv' /\ QuietInv' /\ LimitInv'
  BY <1>1 DEF OutInv, OrderInv, QuietInv, LimitInv
<1>5. StartInv'
  <2>1. scan'.on /\ scan'.todo = dir /\ scan'.doomed = {} /\ scan'.kept = {}
    BY <1>1, ListingIs
  <2> QED BY <1>1, <2>1 DEF StartInv
<1>6. ScanInv'
  BY <1>1, ListingScans
<1>7. store' = "up" => store = "up"
  BY <1>1
<1> QED BY <1>2, <1>3, <1>4, <1>5, <1>6, <1>7, ScanLooks

\* Only what is not in use is doomed, and while the store starts only what is complete is kept.
LEMMA VisitKeeps ==
    ASSUME OutInv, NEW r \in Refs, Visit(r)
    PROVE  OutInv'
<1> DEFINE away == ~Spared(r) /\ ShouldRemove(r)
           stays == ~Spared(r) /\ ~ShouldRemove(r)
<1>1. /\ UNCHANGED <<dir, file, meta, phase, queue, op, total, broken, limited, appended, order, expired>>
      /\ UNCHANGED <<store, limit, quota, active, reading, failures, crashes>>
      /\ scan.on /\ r \in scan.todo /\ scan.doomed = {}
  BY DEF Visit, FilesKept, ScanOnly, sinkVars
<1>2. OutTypes /\ scan \in Scans
  BY DEF OutInv, OutTypes
<1>3. /\ scan' \in Scans /\ scan'.on /\ scan'.todo = scan.todo \ {r} /\ scan'.doomed = (IF away THEN {r} ELSE {})
      /\ scan'.kept = (IF stays THEN scan.kept \cup {r} ELSE scan.kept)
      /\ scan'.listed = scan.listed /\ scan'.tracked = scan.tracked /\ scan'.old = scan.old
  BY <1>1, <1>2 DEF Visit, Scans
<1>4. /\ away => r \notin active /\ (meta[r] # "named" \/ r \in scan.old \/ file[r] # total[r])
      /\ stays => r \notin active /\ meta[r] = "named" /\ r \notin scan.old /\ file[r] = total[r]
      /\ ~away /\ ~stays => r \in active
  BY DEF Spared, ShouldRemove, Old, Canonical
<1> HIDE DEF away, stays
<1>5. OutTypes'
  BY <1>1, <1>2, <1>3 DEF OutTypes
<1>6. \A q \in Refs : Apart(q)
  BY <1>1 DEF Apart
<1>7. OrderInv' /\ QuietInv'
  BY <1>1 DEF OutInv, OrderInv, QuietInv
<1>8. LimitInv'
  BY <1>1 DEF OutInv, LimitInv, Held, Tracked
<1>9. ScanInv'
  <2>1. ScanInv
    BY DEF OutInv
  <2> QED BY <1>1, <1>3, <1>4, <2>1 DEF ScanInv
<1>10. StartInv'
  <2>1. StartInv /\ (store # "up" => active = {}) /\ (r \notin dir => meta[r] = "none")
    BY DEF OutInv, QuietInv, DirInv
  <2>2. store # "down"
    BY <1>1, <2>1 DEF StartInv, NoScan
  <2>3. store = "scanning" => /\ dir \subseteq scan'.todo \cup scan'.doomed \cup scan'.kept
                              /\ scan'.kept \cap (scan'.todo \cup scan'.doomed) = {}
    BY <1>1, <1>3, <1>4, <2>1 DEF StartInv
  <2>4. store = "scanning" => \A q \in scan'.kept : q \in dir \ scan.old /\ meta[q] = "named" /\ file[q] = total[q]
    BY <1>1, <1>3, <1>4, <2>1 DEF StartInv
  <2>5. store # "adopting"
    BY <1>1, <2>1 DEF StartInv
  <2> QED BY <1>1, <1>3, <2>2, <2>3, <2>4, <2>5 DEF StartInv
<1>11. store' = "up" => store = "up"
  BY <1>1
<1> QED BY <1>5, <1>6, <1>7, <1>8, <1>9, <1>10, <1>11, ScanLooks

\* Only what is of no use is removed, whether all of it goes or a part.
LEMMA DoomedGoes ==
    ASSUME OutInv, NEW r \in Refs, r \in scan.doomed
    PROVE  /\ phase[r] \in Over /\ op[r] = NoOp /\ queue[r] = <<>> /\ op[r].granted = 0
           /\ phase[r] = "published" => r \in expired
           /\ store = "up" /\ phase[r] = "closed" /\ meta[r] = "named" /\ r \notin expired => quota[r] = 0
<1>1. phase[r] \in Over /\ (meta[r] # "named" \/ r \in expired \/ file[r] # total[r])
  BY DoomedIs
<1>2. SinkInv(r) /\ quota[r] \in Nat
  BY DEF OutInv, OutTypes
<1>3. op[r] = NoOp /\ queue[r] = <<>> /\ op[r].granted = 0
  BY <1>1, <1>2 DEF SinkInv, Writing, Over, NoOp
<1>4. phase[r] = "published" => r \in expired
  BY <1>1, <1>2 DEF SinkInv
<1>5. store = "up" /\ phase[r] = "closed" /\ meta[r] = "named" /\ r \notin expired => quota[r] = 0
  BY <1>1, <1>2 DEF SinkInv
<1> QED BY <1>1, <1>3, <1>4, <1>5

LEMMA RemoveDoomedKeeps ==
    ASSUME OutInv, NEW r \in Refs, RemoveDoomed(r)
    PROVE  OutInv'
<1>1. /\ UNCHANGED <<phase, queue, op, total, broken, limited, appended, order, expired>>
      /\ UNCHANGED <<store, limit, active, reading, failures, crashes>>
      /\ dir' = dir \ {r} /\ file' = [file EXCEPT ![r] = NoBytes] /\ meta' = [meta EXCEPT ![r] = "none"]
      /\ quota' = [quota EXCEPT ![r] = 0] /\ scan' = [scan EXCEPT !.doomed = {}] /\ r \in scan.doomed
  BY DEF RemoveDoomed, ScanOnly, sinkVars, Removed, Released
<1>2. OutTypes /\ scan \in Scans /\ RefInv(r) /\ quota \in [Refs -> Nat]
  BY DEF OutInv, OutTypes, RefInv
<1>3. /\ scan' \in Scans /\ scan'.on = scan.on /\ scan'.todo = scan.todo /\ scan'.doomed = {}
      /\ scan'.kept = scan.kept /\ scan'.listed = scan.listed /\ scan'.tracked = scan.tracked /\ scan'.old = scan.old
  BY <1>1, <1>2 DEF Scans
<1>4. OutTypes'
  BY <1>1, <1>2, <1>3 DEF OutTypes, NoBytes
<1>5. \A q \in Refs \ {r} : Apart(q)
  BY <1>1, <1>2 DEF Apart, OutTypes
<1>6. r \notin dir' /\ file'[r] = NoBytes /\ meta'[r] = "none" /\ quota'[r] = 0 /\ Bytes(file'[r]) = 0
  BY <1>1, <1>2, NoBytesNone DEF OutTypes
<1>7. phase[r] \in Over /\ op[r] = NoOp /\ queue[r] = <<>> /\ op[r].granted = 0 /\ (phase[r] = "published" => r \in expired)
  BY <1>1, DoomedGoes
<1>8. RefInv(r)'
  <2>1. Bytes(total'[r]) = Bytes(total[r]) /\ MaxStored \in Nat
    BY <1>1, OutputStoreAssumption
  <2>2. DirInv(r)'
    BY <1>1, <1>2, <1>6, <1>7 DEF RefInv, DirInv, Before, After, Over, NoBytes
  <2>3. SinkInv(r)'
    BY <1>1, <1>6, <1>7 DEF SinkInv, Writing, Over
  <2>4. QuotaInv(r)'
    BY <1>1, <1>2, <1>6, <1>7, <2>1 DEF RefInv, QuotaInv
  <2> QED BY <2>2, <2>3, <2>4 DEF RefInv
<1>9. OrderInv'
  BY <1>1 DEF OutInv, OrderInv
<1>10. QuietInv'
  BY <1>1, <1>5, <1>6 DEF OutInv, QuietInv, Apart
<1>11. LimitInv'
  <2>1. quota' \in [Refs -> Nat] /\ \A q \in Refs : quota'[q] <= quota[q]
    BY <1>1, <1>2
  <2>2. limit \in Nat /\ LimitInv
    BY <1>2, LimitNumber DEF OutInv
  <2> QED BY <1>1, <1>2, <2>1, <2>2, HeldFalls
<1>12. ScanInv'
  BY <1>1, <1>3 DEF OutInv, ScanInv
<1>13. StartInv'
  <2>1. StartInv /\ scan.doomed = {r}
    BY <1>1 DEF OutInv, ScanInv
  <2>2. store # "down" /\ store # "adopting"
    BY <2>1 DEF StartInv, NoScan
  <2>3. store = "scanning" => /\ scan.on /\ dir \subseteq scan.todo \cup scan.doomed \cup scan.kept
                              /\ scan.kept \cap (scan.todo \cup scan.doomed) = {}
    BY <2>1 DEF StartInv
  <2>4. store = "scanning" => \A q \in scan.kept : q \in dir \ scan.old /\ meta[q] = "named" /\ file[q] = total[q] /\ q \in Refs
    BY <1>2, <2>1 DEF StartInv, Scans
  <2>5. store = "scanning" => \A q \in scan.kept : q \in dir' \ scan.old /\ meta'[q] = "named" /\ file'[q] = total'[q]
    BY <1>1, <1>5, <2>1, <2>3, <2>4 DEF Apart
  <2>6. store = "scanning" => dir' \subseteq scan.todo \cup scan.kept /\ scan.kept \cap scan.todo = {}
    BY <1>1, <2>1, <2>3
  <2> QED BY <1>1, <1>3, <2>2, <2>3, <2>5, <2>6 DEF StartInv
<1>14. store' = "up" => store = "up"
  BY <1>1
<1> QED BY <1>4, <1>5, <1>8, <1>9, <1>10, <1>11, <1>12, <1>13, <1>14, ScanGoesOn

\* A removal that fails in a cleanup takes something from what is of no use only.
LEMMA RemoveFailsKeeps ==
    ASSUME OutInv, NEW r \in Refs, RemoveFails(r)
    PROVE  OutInv'
<1>1. /\ UNCHANGED <<phase, queue, op, total, broken, limited, appended, order, expired>>
      /\ UNCHANGED <<limit, active, reading, crashes, quota>> /\ failures < MaxFailures /\ failures' = failures + 1
      /\ HalfRemoved(r) /\ scan' = NoScan /\ store' = (IF store = "scanning" THEN "down" ELSE store) /\ r \in scan.doomed
  BY DEF RemoveFails, ScanOnly, sinkVars, Fault
<1>2. OutTypes /\ scan \in Scans /\ RefInv(r) /\ quota \in [Refs -> Nat]
  BY DEF OutInv, OutTypes, RefInv
<1>3. PICK f \in {NoBytes, file[r]}, m \in {"none", meta[r]} :
        /\ file' = [file EXCEPT ![r] = f] /\ meta' = [meta EXCEPT ![r] = m] /\ UNCHANGED dir
        /\ file'[r] = f /\ file' \in [Refs -> [Streams -> Nat]]
        /\ meta'[r] = m /\ meta' \in [Refs -> {"none", "staged", "named"}]
        /\ Bytes(f) \in Nat /\ Bytes(f) <= Bytes(file[r])
  BY <1>1, <1>2, HalfRemovedIs
<1>4. failures' \in 0..MaxFailures
  BY <1>1, <1>2, OutputStoreAssumption DEF OutTypes
<1>5. /\ scan' \in Scans /\ ~scan'.on /\ scan'.listed = {} /\ scan'.todo = {} /\ scan'.doomed = {} /\ scan'.kept = {}
      /\ scan'.tracked = {} /\ scan'.old = {}
  BY <1>1 DEF NoScan, Scans
<1>6. store' \in {"down", "scanning", "adopting", "up"}
  BY <1>1, <1>2 DEF OutTypes
<1>7. OutTypes'
  BY <1>1, <1>2, <1>3, <1>4, <1>5, <1>6 DEF OutTypes
<1>8. \A q \in Refs \ {r} : Apart(q)
  BY <1>1, <1>2, <1>3 DEF Apart, OutTypes
<1>9. /\ phase[r] \in Over /\ op[r] = NoOp /\ queue[r] = <<>> /\ op[r].granted = 0
      /\ phase[r] = "published" => r \in expired
      /\ store = "up" /\ phase[r] = "closed" /\ meta[r] = "named" /\ r \notin expired => quota[r] = 0
  BY <1>1, DoomedGoes
<1>10. store' = "up" => store = "up"
  BY <1>1
<1>11. RefInv(r)'
  <2>1. /\ Bytes(total'[r]) = Bytes(total[r]) /\ MaxStored \in Nat /\ Bytes(file[r]) \in Nat /\ quota[r] \in Nat
        /\ quota'[r] = quota[r]
    BY <1>1, <1>2, BytesNumber, OutputStoreAssumption DEF OutTypes
  <2>2. DirInv(r)'
    BY <1>1, <1>2, <1>3, <1>9 DEF RefInv, DirInv, Before, After, Over
  <2>3. SinkInv(r)'
    BY <1>1, <1>3, <1>9, <1>10, <2>1 DEF SinkInv, Writing, Over
  <2>4. store = "up" => Bytes(file'[r]) + op[r].granted <= quota[r]
    <3>1. store = "up" => Bytes(file[r]) + op[r].granted <= quota[r]
      BY <1>2 DEF RefInv, QuotaInv
    <3> QED BY <1>3, <1>9, <2>1, <3>1
  <2>5. QuotaInv(r)'
    BY <1>1, <1>2, <1>9, <1>10, <2>1, <2>4 DEF RefInv, QuotaInv, Before, Over
  <2> QED BY <2>2, <2>3, <2>5 DEF RefInv
<1>12. OrderInv'
  BY <1>1 DEF OutInv, OrderInv
<1>13. QuietInv' /\ StartInv'
  <2>1. store # "down" /\ store # "adopting"
    BY <1>1 DEF OutInv, StartInv, NoScan
  <2>2. store' = "up" \/ (store' = "down" /\ store = "scanning")
    BY <1>1, <1>2, <2>1 DEF OutTypes
  <2>3. QuietInv'
    BY <1>1, <2>2 DEF OutInv, QuietInv
  <2>4. StartInv'
    BY <1>1, <2>2 DEF StartInv
  <2> QED BY <2>3, <2>4
<1>14. LimitInv'
  BY <1>1, <1>10 DEF OutInv, LimitInv, Held, Tracked
<1>15. ScanInv'
  BY <1>5 DEF ScanInv
<1> QED BY <1>7, <1>8, <1>10, <1>11, <1>12, <1>13, <1>14, <1>15, ScanGoesOn

\* What was tracked before the listing and is not in it has no directory.
LEMMA EndScanKeeps ==
    ASSUME OutInv, EndScan
    PROVE  OutInv'
<1> DEFINE gone == scan.tracked \ (scan.listed \cup active)
<1>1. /\ UNCHANGED <<dir, file, meta, phase, queue, op, total, broken, limited, appended, order, expired>>
      /\ UNCHANGED <<limit, active, reading, failures, crashes>>
      /\ scan.on /\ scan.todo = {} /\ scan.doomed = {}
      /\ quota' = [q \in Refs |-> IF q \in gone THEN 0 ELSE quota[q]]
      /\ IF store = "scanning" THEN store' = "adopting" /\ scan' = [scan EXCEPT !.on = FALSE]
                               ELSE store' = store /\ scan' = NoScan
  BY DEF EndScan, FilesKept, ScanOnly, sinkVars
<1>2. OutTypes /\ scan \in Scans /\ quota \in [Refs -> Nat] /\ StartInv
  BY DEF OutInv, OutTypes
<1>3. \A q \in gone : q \in Refs /\ q \notin dir /\ q \notin active
  BY <1>2 DEF OutInv, ScanInv, Scans
<1> HIDE DEF gone
<1>4. quota' \in [Refs -> Nat] /\ \A q \in Refs : quota'[q] <= quota[q] /\ quota'[q] = IF q \in gone THEN 0 ELSE quota[q]
  BY <1>1, <1>2
<1>5. /\ scan' \in Scans /\ ~scan'.on /\ scan'.doomed = {} /\ scan'.todo = {}
      /\ store = "scanning" => /\ scan'.kept = scan.kept /\ scan'.listed = scan.listed
                               /\ scan'.tracked = scan.tracked /\ scan'.old = scan.old
      /\ store # "scanning" => scan'.kept = {} /\ scan'.listed = {} /\ scan'.tracked = {} /\ scan'.old = {}
  <2>1. CASE store = "scanning"
    <3>1. scan' = [scan EXCEPT !.on = FALSE]
      BY <1>1, <2>1
    <3>2. /\ ~scan'.on /\ scan'.doomed = scan.doomed /\ scan'.todo = scan.todo /\ scan'.kept = scan.kept
          /\ scan'.listed = scan.listed /\ scan'.tracked = scan.tracked /\ scan'.old = scan.old /\ scan' \in Scans
      BY <1>2, <3>1 DEF Scans
    <3> QED BY <1>1, <2>1, <3>2
  <2>2. CASE store # "scanning"
    <3>1. scan' = NoScan
      BY <1>1, <2>2
    <3>2. /\ NoScan \in Scans /\ ~NoScan.on /\ NoScan.doomed = {} /\ NoScan.todo = {} /\ NoScan.kept = {}
          /\ NoScan.listed = {} /\ NoScan.tracked = {} /\ NoScan.old = {}
      BY DEF Scans, NoScan
    <3> QED BY <2>2, <3>1, <3>2
  <2> QED BY <2>1, <2>2
<1>6. store' \in {"adopting", "up"} /\ (store' = "up" <=> store = "up") /\ (store = "up" \/ store = "scanning")
  BY <1>1, <1>2 DEF OutTypes, StartInv, NoScan
<1>7. OutTypes'
  BY <1>1, <1>2, <1>4, <1>5, <1>6 DEF OutTypes
<1>8. ASSUME NEW q \in Refs
      PROVE  RefInv(q)'
  <2>0. RefInv(q)
    BY DEF OutInv, RefInv
  <2>1. CASE q \notin gone
    <3>1. Apart(q)
      BY <1>1, <1>4, <2>1 DEF Apart
    <3> QED BY <1>6, <2>0, <3>1, ApartKeeps
  <2>2. CASE q \in gone
    <3>1. q \notin dir /\ q \notin active /\ quota'[q] = 0
      BY <1>3, <1>4, <2>2
    <3>2. phase[q] \in Over \cup {"free"} /\ file[q] = NoBytes /\ op[q] = NoOp /\ queue[q] = <<>>
      BY <2>0, <3>1 DEF RefInv, DirInv, SinkInv, Writing, Over
    <3>3. Bytes(file'[q]) = 0 /\ op'[q].granted = 0 /\ Bytes(total'[q]) = Bytes(total[q]) /\ MaxStored \in Nat
      BY <1>1, <3>2, NoBytesNone, OutputStoreAssumption DEF NoOp
    <3>4. DirInv(q)'
      BY <1>1, <2>0 DEF RefInv, DirInv, NoBytes
    <3>5. SinkInv(q)'
      BY <1>1, <2>0, <3>1, <3>2 DEF RefInv, SinkInv, Writing, Over
    <3>6. QuotaInv(q)'
      BY <1>1, <2>0, <3>1, <3>2, <3>3 DEF RefInv, QuotaInv
    <3> QED BY <3>4, <3>5, <3>6 DEF RefInv
  <2> QED BY <2>1, <2>2
<1>9. OrderInv'
  BY <1>1 DEF OutInv, OrderInv
<1>10. QuietInv'
  <2>1. store' # "up" => active = {} /\ \A q \in Refs : phase[q] \in Over \cup {"free"} /\ quota[q] = 0 /\ reading[q] = "no"
    BY <1>6 DEF OutInv, QuietInv
  <2>2. store' # "up" => \A q \in Refs : quota'[q] = 0
    BY <1>4, <2>1
  <2> QED BY <1>1, <2>1, <2>2 DEF QuietInv
<1>11. LimitInv'
  <2>1. limit \in Nat /\ LimitInv
    BY <1>2, LimitNumber DEF OutInv
  <2> QED BY <1>1, <1>2, <1>4, <1>6, <2>1, HeldFalls
<1>12. ScanInv'
  <2>1. ScanInv
    BY DEF OutInv
  <2>2. CASE store = "scanning"
    BY <1>1, <1>5, <2>1, <2>2 DEF ScanInv
  <2>3. CASE store # "scanning"
    BY <1>5, <2>3 DEF ScanInv
  <2> QED BY <2>2, <2>3
<1>13. StartInv'
  <2>1. store' = "adopting" => store = "scanning"
    BY <1>6
  <2>2. store = "scanning" => dir \subseteq scan.kept
    BY <1>1, <1>2 DEF StartInv
  <2>3. store = "scanning" => \A q \in scan.kept : q \in dir \ scan.old /\ meta[q] = "named" /\ file[q] = total[q]
    BY <1>2 DEF StartInv
  <2> QED BY <1>1, <1>5, <1>6, <2>1, <2>2, <2>3 DEF StartInv
<1> QED BY <1>7, <1>8, <1>9, <1>10, <1>11, <1>12, <1>13 DEF OutInv, RefInv

\* What is evicted is gone, and no longer counts as kept.
LEMMA EvictKeeps ==
    ASSUME OutInv, NEW r \in Refs, Evict(r)
    PROVE  OutInv'
<1>1. /\ UNCHANGED <<queue, op, total, broken, limited, appended, order, expired, limit, quota, active, reading, crashes>>
      /\ store = "adopting" /\ r \in scan.kept /\ phase' = [phase EXCEPT ![r] = "closed"]
  BY DEF Evict, Goes
<1>2. OutTypes /\ scan \in Scans /\ RefInv(r) /\ StartInv /\ ScanInv
  BY DEF OutInv, OutTypes, RefInv
<1>3. active = {} /\ \A q \in Refs : phase[q] \in Over \cup {"free"} /\ quota[q] = 0 /\ reading[q] = "no"
  BY <1>1 DEF OutInv, QuietInv
<1>4. op[r] = NoOp /\ queue[r] = <<>> /\ op[r].granted = 0 /\ phase'[r] = "closed" /\ r \in dir /\ phase[r] \in Over
  <2>1. r \in dir /\ phase[r] \notin Before
    BY <1>1, <1>2 DEF StartInv, RefInv, DirInv
  <2>2. phase[r] \in Over
    BY <1>3, <2>1 DEF Before, Over
  <2> QED BY <1>1, <1>2, <2>1, <2>2 DEF RefInv, SinkInv, Writing, Over, NoOp, OutTypes
<1>5. OrderInv'
  <2> SUFFICES ASSUME NEW i \in 1..Len(order)
               PROVE  phase'[order[i]] \in After
    BY <1>1 DEF OrderInv
  <2>1. order[i] \in Refs /\ phase[order[i]] \in After
    BY <1>2 DEF OutInv, OrderInv, OutTypes
  <2> QED BY <1>1, <1>2, <2>1 DEF After, OutTypes
<1>6. Bytes(total'[r]) = Bytes(total[r]) /\ MaxStored \in Nat /\ quota'[r] = quota[r] /\ quota[r] = 0
  BY <1>1, <1>3, OutputStoreAssumption
<1>7. CASE Removed(r) /\ scan' = [scan EXCEPT !.kept = @ \ {r}] /\ UNCHANGED <<store, failures>>
  <2>1. /\ dir' = dir \ {r} /\ file' = [file EXCEPT ![r] = NoBytes] /\ meta' = [meta EXCEPT ![r] = "none"]
        /\ UNCHANGED <<store, failures>>
    BY <1>7 DEF Removed
  <2>2. /\ scan' \in Scans /\ scan'.on = scan.on /\ scan'.todo = scan.todo /\ scan'.doomed = scan.doomed
        /\ scan'.kept = scan.kept \ {r} /\ scan'.listed = scan.listed /\ scan'.tracked = scan.tracked /\ scan'.old = scan.old
    BY <1>2, <1>7 DEF Scans
  <2>3. OutTypes'
    BY <1>1, <1>2, <2>1, <2>2 DEF OutTypes, NoBytes, Phases
  <2>4. \A q \in Refs \ {r} : Apart(q)
    BY <1>1, <1>2, <2>1 DEF Apart, OutTypes
  <2>5. r \notin dir' /\ file'[r] = NoBytes /\ meta'[r] = "none"
    BY <1>2, <2>1 DEF OutTypes
  <2>6. RefInv(r)'
    <3>1. DirInv(r)'
      BY <1>1, <1>2, <1>3, <1>4, <2>5 DEF RefInv, DirInv, Before, After, Over, NoBytes
    <3>2. SinkInv(r)'
      BY <1>1, <1>4, <2>5 DEF SinkInv, Writing
    <3>3. QuotaInv(r)'
      BY <1>1, <1>2, <1>4, <1>6, <2>1 DEF RefInv, QuotaInv, Before
    <3> QED BY <3>1, <3>2, <3>3 DEF RefInv
  <2>7. QuietInv' /\ LimitInv'
    <3>1. \A q \in Refs : phase'[q] \in Over \cup {"free"}
      BY <1>1, <1>2, <1>3 DEF Over, OutTypes
    <3> QED BY <1>1, <1>3, <2>1, <3>1 DEF QuietInv, LimitInv
  <2>8. ScanInv'
    <3>1. scan.doomed = {}
      BY <1>1, <1>2 DEF StartInv
    <3>2. \A q \in (scan.listed \cup scan.tracked)' : phase'[q] \notin Before
      BY <1>1, <1>2, <1>4, <2>2, <2>4 DEF ScanInv, Scans, Apart, Before
    <3> QED BY <1>1, <1>2, <2>1, <2>2, <3>1, <3>2 DEF ScanInv
  <2>9. StartInv'
    <3>1. ~scan.on /\ scan.doomed = {} /\ dir \subseteq scan.kept
      BY <1>1, <1>2 DEF StartInv
    <3>2. \A q \in scan.kept : q \in dir \ scan.old /\ meta[q] = "named" /\ file[q] = total[q] /\ q \in Refs
      BY <1>1, <1>2 DEF StartInv, Scans
    <3>3. \A q \in scan.kept \ {r} : q \in dir' \ scan.old /\ meta'[q] = "named" /\ file'[q] = total'[q]
      BY <2>4, <3>2 DEF Apart
    <3> QED BY <1>1, <2>1, <2>2, <3>1, <3>3 DEF StartInv
  <2>10. store' = "up" => store = "up"
    BY <2>1
  <2> QED BY <1>5, <2>3, <2>4, <2>6, <2>7, <2>8, <2>9, <2>10, ScanGoesOn
<1>8. CASE HalfRemoved(r) /\ Fault /\ scan' = NoScan /\ store' = "down"
  <2>1. PICK f \in {NoBytes, file[r]}, m \in {"none", meta[r]} :
          /\ file' = [file EXCEPT ![r] = f] /\ meta' = [meta EXCEPT ![r] = m] /\ UNCHANGED dir
          /\ file'[r] = f /\ file' \in [Refs -> [Streams -> Nat]]
          /\ meta'[r] = m /\ meta' \in [Refs -> {"none", "staged", "named"}]
          /\ Bytes(f) \in Nat /\ Bytes(f) <= Bytes(file[r])
    BY <1>2, <1>8, HalfRemovedIs
  <2>2. /\ scan' \in Scans /\ ~scan'.on /\ scan'.listed = {} /\ scan'.todo = {} /\ scan'.doomed = {} /\ scan'.kept = {}
        /\ scan'.tracked = {} /\ scan'.old = {}
    BY <1>8 DEF NoScan, Scans
  <2>3. failures' \in 0..MaxFailures
    BY <1>2, <1>8, OutputStoreAssumption DEF OutTypes, Fault
  <2>4. OutTypes'
    BY <1>1, <1>2, <1>8, <2>1, <2>2, <2>3 DEF OutTypes, Phases
  <2>5. \A q \in Refs \ {r} : Apart(q)
    BY <1>1, <1>2, <2>1 DEF Apart, OutTypes
  <2>6. RefInv(r)'
    <3>1. DirInv(r)'
      BY <1>1, <1>2, <1>3, <1>4, <2>1 DEF RefInv, DirInv, Before, After, Over
    <3>2. SinkInv(r)'
      BY <1>1, <1>4, <1>8 DEF SinkInv, Writing
    <3>3. QuotaInv(r)'
      BY <1>1, <1>2, <1>4, <1>6, <1>8 DEF RefInv, QuotaInv, Before
    <3> QED BY <3>1, <3>2, <3>3 DEF RefInv
  <2>7. QuietInv' /\ LimitInv'
    <3>1. \A q \in Refs : phase'[q] \in Over \cup {"free"}
      BY <1>1, <1>2, <1>3 DEF Over, OutTypes
    <3> QED BY <1>1, <1>3, <1>8, <3>1 DEF QuietInv, LimitInv
  <2>8. ScanInv'
    BY <2>2 DEF ScanInv
  <2>9. StartInv'
    BY <1>8 DEF StartInv
  <2>10. store' = "up" => store = "up"
    BY <1>8
  <2> QED BY <1>5, <2>4, <2>5, <2>6, <2>7, <2>8, <2>9, <2>10, ScanGoesOn
<1> QED BY <1>7, <1>8 DEF Evict

\* What a start registers is what the directories hold, and it fits.
LEMMA AdoptKeeps ==
    ASSUME OutInv, Adopt
    PROVE  OutInv'
<1> DEFINE kept == scan.kept
<1>1. /\ UNCHANGED <<dir, file, meta, phase, queue, op, total, broken, limited, appended, order, expired>>
      /\ UNCHANGED <<limit, active, reading, failures, crashes>>
      /\ store = "adopting" /\ ~OverLimit /\ scan' = NoScan /\ store' = "up"
      /\ quota' = [r \in Refs |-> IF r \in kept THEN Bytes(total[r]) ELSE 0]
  BY DEF Adopt, FilesKept, ScanOnly, sinkVars
<1>2. OutTypes /\ kept \subseteq Refs
  BY DEF OutInv, OutTypes, Scans
<1>3. dir \subseteq kept /\ \A r \in kept : r \in dir /\ meta[r] = "named" /\ file[r] = total[r]
  BY <1>1 DEF OutInv, StartInv
<1>o. ~(Payload(kept) > limit) /\ ~(Cardinality(kept) > MaxEntries)
  BY <1>1 DEF OverLimit
<1> HIDE DEF kept
<1>4. active = {} /\ \A q \in Refs : phase[q] \in Over \cup {"free"} /\ reading[q] = "no"
  BY <1>1 DEF OutInv, QuietInv
<1>5. \A r \in Refs : Bytes(total[r]) \in Nat
  BY <1>2, BytesNumber DEF OutTypes
<1>6. quota' \in [Refs -> Nat] /\ \A r \in Refs : quota'[r] = IF r \in kept THEN Bytes(total[r]) ELSE 0
  BY <1>1, <1>5
<1>7. /\ scan' \in Scans /\ scan'.listed = {} /\ scan'.todo = {} /\ scan'.doomed = {} /\ scan'.kept = {}
      /\ scan'.tracked = {} /\ scan'.old = {}
  BY <1>1 DEF NoScan, Scans
<1>8. OutTypes'
  BY <1>1, <1>2, <1>6, <1>7 DEF OutTypes
<1>9. ASSUME NEW r \in Refs
      PROVE  RefInv(r)'
  <2>1. RefInv(r)
    BY DEF OutInv, RefInv
  <2>2. phase[r] \in Over \cup {"free"} /\ op[r] = NoOp /\ queue[r] = <<>> /\ op[r].granted = 0
    BY <1>4, <2>1 DEF RefInv, SinkInv, Writing, Over, NoOp
  <2>3. DirInv(r)'
    BY <1>1, <2>1 DEF RefInv, DirInv, NoBytes
  <2>4. Bytes(total'[r]) = Bytes(total[r]) /\ Bytes(file'[r]) = Bytes(file[r]) /\ MaxStored \in Nat
    BY <1>1, OutputStoreAssumption
  <2>5. Bytes(total[r]) + 0 <= MaxStored /\ Bytes(total[r]) \in Nat
    BY <1>5, <2>1, <2>2 DEF RefInv, QuotaInv
  <2>6. CASE r \in kept
    <3>1. quota'[r] = Bytes(total[r]) /\ file[r] = total[r] /\ r \in dir
      BY <1>3, <1>6, <2>6
    <3>2. SinkInv(r)'
      BY <1>1, <2>1, <2>2, <2>4, <3>1 DEF RefInv, SinkInv, Writing, Over
    <3>3. phase[r] \notin Before
      BY <2>1, <3>1 DEF RefInv, DirInv
    <3>4. QuotaInv(r)'
      BY <1>1, <2>2, <2>4, <2>5, <3>1, <3>3 DEF QuotaInv
    <3> QED BY <2>3, <3>2, <3>4 DEF RefInv
  <2>7. CASE r \notin kept
    <3>1. quota'[r] = 0 /\ r \notin dir
      BY <1>3, <1>6, <2>7
    <3>2. Bytes(file[r]) = 0
      BY <2>1, <3>1, NoBytesNone DEF RefInv, DirInv
    <3>3. SinkInv(r)'
      BY <1>1, <2>1, <2>2, <2>4, <3>1 DEF RefInv, SinkInv, Writing, Over
    <3>4. QuotaInv(r)'
      BY <1>1, <2>2, <2>4, <2>5, <3>1, <3>2 DEF QuotaInv
    <3> QED BY <2>3, <3>3, <3>4 DEF RefInv
  <2> QED BY <2>6, <2>7
<1>10. LimitInv'
  <2>1. IsFiniteSet(kept) /\ kept \in SUBSET Refs
    BY <1>2, OutputStoreAssumption, FS_Subset
  <2>2. /\ \A x \in Refs : quota'[x] \in Nat
        /\ \A x \in Refs \ kept : quota'[x] = 0
    BY <1>6
  <2>3. SumFunctionOnSet(quota', Refs) = SumFunctionOnSet(quota', kept)
    BY <2>1, <2>2, OutputStoreAssumption, SumOfSubset
  <2>4. SumFunctionOnSet(quota', kept) = Payload(kept)
    <3> DEFINE b == [r \in kept |-> Bytes(total[r])]
    <3>1. \A x \in kept : quota'[x] \in Nat /\ quota'[x] = b[x]
      BY <1>2, <1>5, <1>6
    <3> HIDE DEF b
    <3>2. SumFunctionOnSet(quota', kept) = SumFunctionOnSet(b, kept)
      BY <2>1, <3>1, SumIsOfValues
    <3> QED BY <3>2 DEF b, Payload
  <2>5. SumFunctionOnSet(quota', kept) \in Nat /\ limit \in Nat
    BY <1>2, <2>1, <2>2, SumIsNumber, LimitNumber
  <2>6. Held(Refs)' <= limit'
    BY <1>1, <1>o, <2>3, <2>4, <2>5 DEF Held
  <2>7. Tracked' \in SUBSET kept
    BY <1>6 DEF Tracked
  <2>8. Cardinality(Tracked') <= Cardinality(kept) /\ Cardinality(Tracked') \in Nat /\ Cardinality(kept) \in Nat
    BY <2>1, <2>7, FS_Subset, FS_CardinalityType
  <2>9. Cardinality(Tracked') <= MaxEntries
    BY <1>o, <2>8, OutputStoreAssumption
  <2> QED BY <2>6, <2>9 DEF LimitInv
<1>11. OrderInv' /\ QuietInv' /\ StartInv'
  BY <1>1 DEF OutInv, OrderInv, QuietInv, StartInv
<1>12. ScanInv'
  BY <1>7 DEF ScanInv
<1> QED BY <1>8, <1>9, <1>10, <1>11, <1>12 DEF OutInv, RefInv

\* A crash ends the sinks and forgets the quota; a directory that was published is still complete.
LEMMA CrashKeeps ==
    ASSUME OutInv, Crash
    PROVE  OutInv'
<1>1. /\ crashes < MaxCrashes /\ crashes' = crashes + 1 /\ store' = "down"
      /\ phase' = [r \in Refs |-> IF phase[r] \in {"free", "published"} THEN phase[r] ELSE "closed"]
      /\ queue' = [r \in Refs |-> <<>>] /\ op' = [r \in Refs |-> NoOp] /\ quota' = [r \in Refs |-> 0]
      /\ active' = {} /\ reading' = [r \in Refs |-> "no"] /\ scan' = NoScan
      /\ UNCHANGED <<dir, file, meta, order, expired, total, broken, limited, appended, limit, failures>>
  BY DEF Crash, diskVars
<1>2. OutTypes
  BY DEF OutInv
<1>3. /\ scan' \in Scans /\ scan'.listed = {} /\ scan'.todo = {} /\ scan'.doomed = {} /\ scan'.kept = {}
      /\ scan'.tracked = {} /\ scan'.old = {}
  BY <1>1 DEF NoScan, Scans
<1>4. crashes' \in 0..MaxCrashes
  BY <1>1, <1>2, OutputStoreAssumption DEF OutTypes
<1>5. phase' \in [Refs -> Phases] /\ op' \in [Refs -> Ops] /\ queue' \in [Refs -> Seq(Waiting)]
  <2>1. phase' \in [Refs -> Phases]
    BY <1>1, <1>2 DEF OutTypes, Phases
  <2>2. op' \in [Refs -> Ops]
    BY <1>1 DEF Ops
  <2>3. queue' \in [Refs -> Seq(Waiting)]
    BY <1>1
  <2> QED BY <2>1, <2>2, <2>3
<1>6. quota' \in [Refs -> Nat] /\ reading' \in [Refs -> {"no", "payload", "missing", "expired"}]
  BY <1>1
<1>7. OutTypes'
  BY <1>1, <1>2, <1>3, <1>4, <1>5, <1>6 DEF OutTypes
<1>8. ASSUME NEW r \in Refs
      PROVE  RefInv(r)' /\ phase'[r] \in Over \cup {"free"} /\ quota'[r] = 0 /\ reading'[r] = "no"
  <2>1. RefInv(r)
    BY DEF OutInv, RefInv
  <2>2. /\ phase'[r] = (IF phase[r] \in {"free", "published"} THEN phase[r] ELSE "closed")
        /\ queue'[r] = <<>> /\ op'[r] = NoOp /\ quota'[r] = 0 /\ reading'[r] = "no" /\ op'[r].granted = 0
    BY <1>1 DEF NoOp
  <2>3. DirInv(r)'
    BY <1>1, <2>1, <2>2 DEF RefInv, DirInv, Before, After, Over, NoBytes
  <2>4. SinkInv(r)'
    BY <1>1, <2>1, <2>2 DEF RefInv, SinkInv, Writing
  <2>5. Bytes(total'[r]) + 0 <= MaxStored /\ 0 <= MaxStored
    <3>1. Bytes(total[r]) \in Nat /\ op[r].granted \in Nat /\ MaxStored \in Nat
      <4>1. op[r] \in Ops /\ total[r] \in [Streams -> Nat]
        BY <1>2 DEF OutTypes
      <4> QED BY <4>1, BytesNumber, OutputStoreAssumption DEF Ops, NoOp
    <3>2. Bytes(total[r]) + op[r].granted <= MaxStored
      BY <2>1 DEF RefInv, QuotaInv
    <3>3. total'[r] = total[r]
      BY <1>1
    <3> QED BY <3>1, <3>2, <3>3
  <2>6. QuotaInv(r)'
    BY <1>1, <2>2, <2>5 DEF QuotaInv
  <2>7. phase'[r] \in Over \cup {"free"}
    BY <2>2 DEF Over
  <2> QED BY <2>2, <2>3, <2>4, <2>6, <2>7 DEF RefInv
<1>9. OrderInv'
  <2> SUFFICES ASSUME NEW i \in 1..Len(order)
               PROVE  phase'[order[i]] \in After
    BY <1>1 DEF OrderInv
  <2>1. order[i] \in Refs /\ phase[order[i]] \in After
    BY <1>2 DEF OutInv, OrderInv, OutTypes
  <2> QED BY <1>1, <2>1 DEF After
<1>10. QuietInv' /\ LimitInv' /\ StartInv'
  BY <1>1, <1>8 DEF QuietInv, LimitInv, StartInv
<1>11. ScanInv'
  BY <1>3 DEF ScanInv
<1> QED BY <1>7, <1>8, <1>9, <1>10, <1>11 DEF OutInv, RefInv

\* What expires has been named.
LEMMA ExpireKeeps ==
    ASSUME OutInv, NEW r \in Refs, Expire(r)
    PROVE  OutInv'
<1>1. /\ UNCHANGED <<dir, file, meta, order, phase, queue, op, total, broken, limited, appended>>
      /\ UNCHANGED <<store, limit, quota, active, reading, scan, failures, crashes>>
      /\ expired' = expired \cup {r} /\ Contains(order, r)
  BY DEF Expire, sinkVars, storeVars
<1>2. OutTypes /\ RefInv(r)
  BY DEF OutInv, RefInv
<1>3. phase[r] \in After
  BY <1>1 DEF Contains, OutInv, OrderInv
<1>4. OutTypes'
  BY <1>1, <1>2 DEF OutTypes
<1>5. \A q \in Refs \ {r} : Apart(q)
  BY <1>1 DEF Apart
<1>6. RefInv(r)'
  <2>1. Bytes(total'[r]) = Bytes(total[r]) /\ Bytes(file'[r]) = Bytes(file[r])
    BY <1>1
  <2>2. DirInv(r)'
    BY <1>1, <1>2, <1>3 DEF RefInv, DirInv, NoBytes
  <2>3. SinkInv(r)'
    BY <1>1, <1>2, <2>1 DEF RefInv, SinkInv
  <2>4. QuotaInv(r)'
    BY <1>1, <1>2, <2>1 DEF RefInv, QuotaInv
  <2> QED BY <2>2, <2>3, <2>4 DEF RefInv
<1>7. OrderInv' /\ QuietInv' /\ LimitInv' /\ StartInv'
  BY <1>1 DEF OutInv, OrderInv, QuietInv, LimitInv, Held, Tracked, StartInv
<1>8. ScanInv'
  BY <1>1 DEF OutInv, ScanInv
<1>9. store' = "up" => store = "up"
  BY <1>1
<1> QED BY <1>4, <1>5, <1>6, <1>7, <1>8, <1>9, ScanGoesOn

----------------------------------------------------------------------------
(* The specification.                                                      *)

LEMMA InitHolds ==
    ASSUME Init
    PROVE  OutInv
<1>1. /\ dir = {} /\ order = <<>> /\ expired = {} /\ broken = {} /\ limited = {} /\ active = {} /\ scan = NoScan
      /\ store = "down" /\ limit \in ByteLimits /\ failures = 0 /\ crashes = 0
      /\ file = [r \in Refs |-> NoBytes] /\ meta = [r \in Refs |-> "none"] /\ phase = [r \in Refs |-> "free"]
      /\ queue = [r \in Refs |-> <<>>] /\ op = [r \in Refs |-> NoOp] /\ total = [r \in Refs |-> NoBytes]
      /\ quota = [r \in Refs |-> 0] /\ reading = [r \in Refs |-> "no"]
  BY DEF Init
<1>2. /\ scan \in Scans /\ scan.listed = {} /\ scan.todo = {} /\ scan.doomed = {} /\ scan.kept = {}
      /\ scan.tracked = {} /\ scan.old = {}
  BY <1>1 DEF NoScan, Scans
<1>3. OutTypes
  <2>1. file \in [Refs -> [Streams -> Nat]] /\ total \in [Refs -> [Streams -> Nat]]
    BY <1>1, NoBytesNone
  <2>2. op \in [Refs -> Ops]
    BY <1>1 DEF Ops
  <2>3. queue \in [Refs -> Seq(Waiting)]
    BY <1>1
  <2>4. order \in Seq(Refs)
    BY <1>1
  <2>5. meta \in [Refs -> {"none", "staged", "named"}] /\ phase \in [Refs -> Phases]
    BY <1>1 DEF Phases
  <2>6. quota \in [Refs -> Nat] /\ reading \in [Refs -> {"no", "payload", "missing", "expired"}]
    BY <1>1
  <2>7. failures \in 0..MaxFailures /\ crashes \in 0..MaxCrashes
    BY <1>1, OutputStoreAssumption
  <2> QED BY <1>1, <1>2, <2>1, <2>2, <2>3, <2>4, <2>5, <2>6, <2>7 DEF OutTypes
<1>4. OrderInv /\ QuietInv /\ LimitInv /\ StartInv
  BY <1>1 DEF OrderInv, QuietInv, LimitInv, StartInv
<1>5. ScanInv
  BY <1>2 DEF ScanInv
<1>6. ASSUME NEW r \in Refs
      PROVE  DirInv(r) /\ SinkInv(r) /\ QuotaInv(r)
  <2>1. /\ file[r] = NoBytes /\ total[r] = NoBytes /\ meta[r] = "none" /\ phase[r] = "free" /\ queue[r] = <<>>
        /\ op[r] = NoOp /\ quota[r] = 0 /\ reading[r] = "no" /\ op[r].granted = 0 /\ Bytes(NoBytes) = 0 /\ MaxStored \in Nat
    BY <1>1, NoBytesNone, OutputStoreAssumption DEF NoOp
  <2>2. DirInv(r)
    BY <1>1, <2>1 DEF DirInv
  <2>3. SinkInv(r)
    BY <2>1 DEF SinkInv, Writing
  <2>4. QuotaInv(r)
    BY <1>1, <2>1 DEF QuotaInv
  <2> QED BY <2>2, <2>3, <2>4
<1> QED BY <1>3, <1>4, <1>5, <1>6 DEF OutInv

LEMMA NextKeeps ==
    ASSUME OutInv, [Next]_vars
    PROVE  OutInv'
<1>1. ASSUME NEW r \in Refs,
             Reserve(r) \/ MakeFails(r) \/ AppendFails(r) \/ DiscardFails(r) \/ RenameFails(r)
             \/ FailKept(r) \/ Finalize(r) \/ Quarantine(r) \/ \E s \in Streams, n \in Chunks : AppendChunk(r, s, n)
      PROVE  OutInv'
  BY <1>1, ReserveKeeps, MakeFailsKeeps, AppendFailsKeeps, DiscardFailsKeeps, RenameFailsKeeps, FailKeptKeeps,
     FinalizeKeeps, QuarantineKeeps, AppendChunkKeeps
<1>2. ASSUME NEW r \in Refs, SinkStep(r)
      PROVE  OutInv'
  BY <1>2, MakeKeeps, AppendNowKeeps, AppendWrittenKeeps, FinalizeNowKeeps, DiscardKeeps, RenameKeeps, AnswerKeeps,
     FailRemovedKeeps, AbortNowKeeps DEF SinkStep
<1>3. ASSUME NEW r \in Refs, BeginRead(r) \/ ReadPayload(r) \/ ReadMissing(r) \/ ReadExpired(r) \/ RemoveFails(r) \/ Expire(r)
      PROVE  OutInv'
  BY <1>3, BeginReadKeeps, ReadPayloadKeeps, ReadMissingKeeps, ReadExpiredKeeps, RemoveFailsKeeps, ExpireKeeps
<1>4. CASE CleanupStep
  BY <1>4, BeginScanKeeps, EndScanKeeps, OpenKeeps, AdoptKeeps, VisitKeeps, RemoveDoomedKeeps, EvictKeeps DEF CleanupStep
<1>5. CASE Crash
  BY <1>5, CrashKeeps
<1>6. CASE UNCHANGED vars
  <2>1. /\ UNCHANGED <<dir, file, meta, phase, queue, op, total, broken, limited, appended, order, expired>>
        /\ UNCHANGED <<store, limit, quota, active, reading, scan, failures, crashes>>
    BY <1>6 DEF vars, diskVars, sinkVars, storeVars
  <2>2. OutTypes'
    BY <2>1 DEF OutInv, OutTypes
  <2>3. \A q \in Refs : Apart(q)
    BY <2>1 DEF Apart
  <2>4. OrderInv' /\ QuietInv' /\ LimitInv' /\ ScanInv' /\ StartInv'
    BY <2>1 DEF OutInv, OrderInv, QuietInv, LimitInv, Held, Tracked, ScanInv, StartInv
  <2>5. store' = "up" => store = "up"
    BY <2>1
  <2> QED BY <2>2, <2>3, <2>4, <2>5, ScanLooks
<1> QED BY <1>1, <1>2, <1>3, <1>4, <1>5, <1>6 DEF Next

LEMMA AlwaysOutInv == Spec => []OutInv
<1> QED BY InitHolds, NextKeeps, PTL DEF Spec

LEMMA OutInvTypes ==
    ASSUME OutInv
    PROVE  TypeOK
<1>1. OutTypes
  BY DEF OutInv
<1>2. ASSUME NEW r \in Refs
      PROVE  /\ total[r] \in [Streams -> 0..MaxStored] /\ quota[r] \in 0..MaxStored
             /\ op[r] = NoOp \/ (op[r].stream \in Streams /\ op[r].granted \in 1..MaxStored)
  <2>1. /\ total[r] \in [Streams -> Nat] /\ op[r] \in Ops /\ quota[r] \in Nat
        /\ Bytes(total[r]) + op[r].granted <= MaxStored /\ quota[r] <= MaxStored
    BY <1>1 DEF OutTypes, OutInv, QuotaInv
  <2>2. MaxStored \in Nat /\ op[r].granted \in Nat /\ (op[r] # NoOp => op[r].granted > 0 /\ op[r].stream \in Streams)
    <3>1. MaxStored \in Nat
      BY OutputStoreAssumption
    <3>2. CASE op[r] = NoOp
      BY <3>1, <3>2 DEF NoOp
    <3>3. CASE op[r] # NoOp
      <4>1. op[r] \in [stream : Streams, granted : Nat \ {0}, short : BOOLEAN]
        BY <2>1, <3>3 DEF Ops
      <4>2. op[r].granted \in Nat \ {0} /\ op[r].stream \in Streams
        BY <4>1
      <4> QED BY <3>1, <4>2
    <3> QED BY <3>2, <3>3
  <2>3. Bytes(total[r]) \in Nat /\ \A s \in Streams : total[r][s] <= Bytes(total[r])
    BY <2>1, BytesNumber
  <2>4. \A s \in Streams : total[r][s] \in 0..MaxStored
    BY <2>1, <2>2, <2>3
  <2> QED BY <2>1, <2>2, <2>3, <2>4
<1>3. total \in [Refs -> [Streams -> 0..MaxStored]]
  <2>1. total = [r \in Refs |-> total[r]]
    BY <1>1 DEF OutTypes
  <2> QED BY <1>2, <2>1
<1>4. quota \in [Refs -> 0..MaxStored]
  <2>1. quota = [r \in Refs |-> quota[r]]
    BY <1>1 DEF OutTypes
  <2> QED BY <1>2, <2>1
<1> QED BY <1>1, <1>2, <1>3, <1>4 DEF OutTypes, TypeOK

\* What is on the disk of a store that is up is held in its quota, and the quota is within both limits: a removal
\* that failed, an append that was cancelled or what an earlier process left behind holds its bytes until they are
\* gone (RetainedByteQuota, #adoptRetainedEntries, quarantineOutputSink).
THEOREM RetentionIsBounded == Spec => []RetentionBounded
<1>1. ASSUME OutInv
      PROVE  RetentionBounded
  <2>1. TypeOK /\ LimitInv
    BY <1>1, OutInvTypes DEF OutInv
  <2>2. ASSUME store = "up", NEW r \in Refs
        PROVE  Bytes(file[r]) <= quota[r]
    <3>1. op[r] \in Ops /\ file[r] \in [Streams -> Nat] /\ quota[r] \in Nat
      BY <1>1 DEF OutInv, OutTypes
    <3>2. op[r].granted \in Nat /\ Bytes(file[r]) \in Nat
      BY <3>1, BytesNumber DEF Ops, NoOp
    <3>3. Bytes(file[r]) + op[r].granted <= quota[r]
      BY <1>1, <2>2 DEF OutInv, QuotaInv
    <3> QED BY <3>1, <3>2, <3>3
  <2> QED BY <2>1, <2>2 DEF RetentionBounded, LimitInv
<1> QED BY <1>1, AlwaysOutInv, PTL

\* An output that was given out is there in full until it expires, and nothing takes the directory of a sink in use
\* away: not the cleanup, not a read, not the start after a crash (#cleanupEntries, finalize, #adoptRetainedEntries).
THEOREM OutputIsKept == Spec => []OutputKept
<1>1. ASSUME OutInv
      PROVE  OutputKept
  <2>1. ASSUME NEW r \in Refs, store = "up", phase[r] = "published", r \notin expired
        PROVE  r \in dir /\ meta[r] = "named" /\ file[r] = total[r] /\ quota[r] = Bytes(total[r])
    BY <1>1, <2>1 DEF OutInv, SinkInv
  <2>2. ASSUME NEW r \in Refs \ active, store = "up", meta[r] = "named", r \notin expired, quota[r] > 0
        PROVE  file[r] = total[r]
    <3>1. phase[r] \in Over \cup {"free"}
      BY <1>1, <2>2 DEF OutInv, DirInv
    <3>2. phase[r] \in After
      BY <1>1, <2>2 DEF OutInv, DirInv
    <3>3. phase[r] \in Over
      BY <3>1, <3>2 DEF Over, After
    <3> QED BY <1>1, <2>2, <3>3 DEF OutInv, SinkInv, Over
  <2>3. PublishedKept
    BY <2>1, <2>2 DEF PublishedKept
  <2>4. SinkInUseIntact
    BY <1>1 DEF OutInv, SinkInv, Writing, SinkInUseIntact
  <2> QED BY <2>3, <2>4 DEF OutputKept
<1> QED BY <1>1, AlwaysOutInv, PTL

----------------------------------------------------------------------------
(* Evictions.                                                              *)

\* A published output is closed by an eviction only.
LEMMA ClosedByEviction ==
    ASSUME OutInv, [Next]_vars, NEW r \in Refs, phase[r] = "published", phase'[r] = "closed"
    PROVE  Evict(r)
<1>1. phase \in [Refs -> Phases]
  BY DEF OutInv, OutTypes
<1>2. ASSUME NEW q \in Refs, NEW p, phase[q] # "published", Goes(q, p)
      PROVE  FALSE
  BY <1>1, <1>2 DEF Goes
<1>3. ASSUME NEW q \in Refs,
             Reserve(q) \/ MakeFails(q) \/ AppendFails(q) \/ DiscardFails(q) \/ RenameFails(q)
             \/ FailKept(q) \/ Finalize(q) \/ Quarantine(q) \/ \E s \in Streams, n \in Chunks : AppendChunk(q, s, n)
      PROVE  FALSE
  BY <1>2, <1>3, Zenon DEF Reserve, MakeFails, AppendFails, DiscardFails, RenameFails, FailKept, Finalize, Quarantine,
     AppendChunk, Leaves
<1>4. ASSUME NEW q \in Refs, SinkStep(q)
      PROVE  FALSE
  BY <1>2, <1>4 DEF SinkStep, Make, AppendNow, AppendWritten, FinalizeNow, Discard, Rename, Answer, FailRemoved, AbortNow, Leaves
<1>5. phase' # phase
  BY DEF OutInv
<1>6. ASSUME NEW q \in Refs, BeginRead(q) \/ ReadPayload(q) \/ ReadMissing(q) \/ ReadExpired(q) \/ RemoveFails(q) \/ Expire(q)
      PROVE  FALSE
  BY <1>5, <1>6 DEF BeginRead, ReadPayload, ReadMissing, ReadExpired, RemoveFails, Expire, ReadOnly, ScanOnly, sinkVars
<1>7. ~Crash
  BY <1>1 DEF Crash
<1>8. ~(BeginScan \/ EndScan \/ Open \/ Adopt) /\ \A q \in Refs : ~(Visit(q) \/ RemoveDoomed(q))
  BY <1>5 DEF BeginScan, EndScan, Open, Adopt, Visit, RemoveDoomed, ScanOnly, sinkVars
<1>9. \A q \in Refs : Evict(q) => q = r
  BY <1>1 DEF Evict, Goes
<1>10. ~UNCHANGED vars
  BY <1>5 DEF vars, sinkVars
<1> QED BY <1>3, <1>4, <1>6, <1>7, <1>8, <1>9, <1>10 DEF Next, CleanupStep

\* What a start gives up had to go: what was complete and had not expired exceeded the limits, and of it the first
\* to expire goes (#adoptRetainedEntries).
THEOREM OnlyWhatMustGoIsEvicted == Spec => EvictsOnlyWhatMustGo
<1>1. ASSUME OutInv, [Next]_vars
      PROVE  [\A r \in Refs : phase[r] = "published" /\ phase'[r] = "closed" /\ r \notin expired =>
               LET live == {q \in dir \ scan.old : meta[q] = "named" /\ file[q] = total[q]}
               IN  /\ \/ Payload(live) > limit
                      \/ Cardinality(live) > MaxEntries
                   /\ \A q \in live : Rank(r) <= Rank(q)]_vars
  <2> DEFINE live == {q \in dir \ scan.old : meta[q] = "named" /\ file[q] = total[q]}
  <2> SUFFICES ASSUME NEW r \in Refs, phase[r] = "published", phase'[r] = "closed"
               PROVE  (Payload(live) > limit \/ Cardinality(live) > MaxEntries) /\ \A q \in live : Rank(r) <= Rank(q)
    OBVIOUS
  <2>1. Evict(r)
    BY <1>1, ClosedByEviction
  <2>2. store = "adopting" /\ OverLimit /\ EvictedFirst(r)
    BY <2>1 DEF Evict
  <2>3. live = scan.kept
    BY <1>1, <2>2 DEF OutInv, StartInv
  <2> HIDE DEF live
  <2> QED BY <2>2, <2>3 DEF OverLimit, EvictedFirst
<1> QED BY <1>1, AlwaysOutInv, PTL DEF Spec, EvictsOnlyWhatMustGo
============================================================================
