-------------------------- MODULE MCManagedProofs --------------------------
(***************************************************************************)
(* Proofs about what the management page keeps on disk, ManagedKeys and    *)
(* ManagedConfig as MCManaged puts them side by side: for any number of    *)
(* keys, labels, machines, revisions, failures and crashes.                *)
(***************************************************************************)
EXTENDS MCManaged, FunctionTheorems, FiniteSetTheorems, TLAPS

----------------------------------------------------------------------------
(* There is a label for everybody.                                         *)

\* A set is mapped into a set that is not smaller without a collision.
LEMMA InjectionExists ==
    ASSUME NEW S, IsFiniteSet(S), NEW T, IsFiniteSet(T), Cardinality(S) <= Cardinality(T)
    PROVE  \E f \in [S -> T] : \A a, b \in S : a # b => f[a] # f[b]
<1> DEFINE n == Cardinality(S)
           m == Cardinality(T)
<1>1. n \in Nat /\ m \in Nat /\ ExistsBijection(1..n, S) /\ ExistsBijection(1..m, T)
  BY FS_CardinalityType
<1>2. PICK g \in Bijection(1..n, S) : TRUE
  BY <1>1 DEF ExistsBijection
<1>3. PICK h \in Bijection(1..m, T) : TRUE
  BY <1>1 DEF ExistsBijection
<1> HIDE DEF n, m
<1>4. g \in [1..n -> S] /\ \A s \in S : \E i \in 1..n : g[i] = s
  BY <1>2 DEF Bijection, Surjection
<1>5. h \in [1..m -> T] /\ \A i, j \in 1..m : i # j => h[i] # h[j]
  BY <1>3 DEF Bijection, Injection, IsInjective
<1> DEFINE at(s) == CHOOSE i \in 1..n : g[i] = s
<1>6. \A s \in S : at(s) \in 1..n /\ g[at(s)] = s
  BY <1>4
<1> HIDE DEF at
<1>7. n <= m
  BY DEF n, m
<1>8. \A s \in S : at(s) \in 1..m
  BY <1>1, <1>6, <1>7
<1> DEFINE f == [s \in S |-> h[at(s)]]
<1>9. f \in [S -> T]
  BY <1>5, <1>8
<1>10. ASSUME NEW a \in S, NEW b \in S, a # b
       PROVE  f[a] # f[b]
  BY <1>5, <1>6, <1>8, <1>10
<1> QED BY <1>9, <1>10

\* The keys that have no label yet get one that is free.
LEMMA LabelsLeft ==
    ASSUME NEW U \in SUBSET Vault!Keys, NEW f \in [U -> Labels], NEW L \in SUBSET (Vault!Keys \ U)
    PROVE  \E g \in [L -> Labels] : /\ \A a, b \in L : a # b => g[a] # g[b]
                                   /\ \A a \in L, k \in U : g[a] # f[k]
<1>1. PICK S \in SUBSET Labels : IsFiniteSet(S) /\ Cardinality(S) = MaxKeys
  BY LabelsAssumption
<1> DEFINE F == {f[k] : k \in U}
<1>2. IsFiniteSet(Vault!Keys) /\ Cardinality(Vault!Keys) = MaxKeys /\ MaxKeys \in Nat
  BY LabelsAssumption, FS_Interval DEF Vault!Keys
<1>3. IsFiniteSet(U) /\ IsFiniteSet(L) /\ Cardinality(U) \in Nat /\ Cardinality(L) \in Nat
  BY <1>2, FS_Subset, FS_CardinalityType
<1>4. Cardinality(L) + Cardinality(U) <= MaxKeys
  <2>1. IsFiniteSet(L \cup U) /\ Cardinality(L \cup U) = Cardinality(L) + Cardinality(U) - Cardinality(L \cap U)
    BY <1>3, FS_Union
  <2>2. L \cap U = {}
    OBVIOUS
  <2>3. Cardinality(L \cap U) = 0
    BY <2>2, FS_EmptySet
  <2>4. Cardinality(L \cup U) <= Cardinality(Vault!Keys)
    BY <1>2, FS_Subset
  <2> QED BY <1>2, <1>3, <2>1, <2>3, <2>4
<1>5. IsFiniteSet(F) /\ Cardinality(F) <= Cardinality(U) /\ Cardinality(F) \in Nat
  <2>1. f \in Surjection(U, F)
    BY DEF Surjection
  <2> QED BY <1>3, <2>1, FS_Surjection, FS_CardinalityType
<1>6. IsFiniteSet(S \ F) /\ Cardinality(S \ F) >= MaxKeys - Cardinality(U)
  <2>1. IsFiniteSet(S \ F) /\ Cardinality(S \ F) = Cardinality(S) - Cardinality(S \cap F)
    BY <1>1, FS_Difference
  <2>2. Cardinality(S \cap F) <= Cardinality(F) /\ IsFiniteSet(S \cap F)
    BY <1>5, FS_Subset
  <2>3. Cardinality(S \cap F) \in Nat
    BY <2>2, FS_CardinalityType
  <2> QED BY <1>1, <1>2, <1>3, <1>5, <2>1, <2>2, <2>3
<1>7. Cardinality(L) <= Cardinality(S \ F)
  <2>1. Cardinality(S \ F) \in Nat
    BY <1>6, FS_CardinalityType
  <2> QED BY <1>2, <1>3, <1>4, <1>6, <2>1
<1>8. PICK g \in [L -> S \ F] : \A a, b \in L : a # b => g[a] # g[b]
  BY <1>3, <1>6, <1>7, InjectionExists
<1>9. g \in [L -> Labels] /\ \A a \in L, k \in U : g[a] # f[k]
  BY <1>1, <1>8
<1> QED BY <1>8, <1>9

\* r names the keys of P as m names those of M; another keeps its own label or finds it taken.
Labelled(r, P, M, m, own) ==
    /\ \A k \in M : r[k] = m[k]
    /\ \A k \in P \ M : r[k] = own[k] \/ own[k] \in {r[j] : j \in P \ {k}}
    /\ \A j, k \in P : j # k => r[j] # r[k]

\* mergeManifestWithPublishedRecords finds labels: of the orphans with one label, one keeps it.
LEMMA LabelsFound ==
    ASSUME NEW P \in SUBSET Vault!Keys, NEW M \in SUBSET P,
           NEW m \in [M -> Labels], \A j, k \in M : j # k => m[j] # m[k],
           NEW own, \A k \in P \ M : own[k] \in Labels
    PROVE  \E r \in [P -> Labels] : Labelled(r, P, M, m, own)
<1> DEFINE first(k) == CHOOSE j \in P \ M : own[j] = own[k]
           W == {k \in P \ M : own[k] \notin {m[j] : j \in M} /\ k = first(k)}
           U == M \cup W
           f == [k \in U |-> IF k \in M THEN m[k] ELSE own[k]]
           L == P \ U
<1>1. \A k \in P \ M : first(k) \in P \ M /\ own[first(k)] = own[k]
  OBVIOUS
<1>2. \A j, k \in P \ M : own[j] = own[k] => first(j) = first(k)
  OBVIOUS
<1> HIDE DEF first
<1>3. W \subseteq P \ M /\ U \in SUBSET Vault!Keys /\ L \in SUBSET (Vault!Keys \ U)
  OBVIOUS
<1>4. f \in [U -> Labels]
  BY <1>3
<1>5. \A j, k \in U : j # k => f[j] # f[k]
  <2> SUFFICES ASSUME NEW j \in U, NEW k \in U, j # k
               PROVE  f[j] # f[k]
    OBVIOUS
  <2>1. CASE j \in M /\ k \in M
    BY <2>1
  <2>2. CASE j \in W /\ k \in W
    BY <1>2, <1>3, <2>2
  <2>3. CASE (j \in M /\ k \in W) \/ (j \in W /\ k \in M)
    BY <1>3, <2>3
  <2> QED BY <2>1, <2>2, <2>3
<1>6. \A k \in P \ M : k \in L => \E j \in U : f[j] = own[k]
  <2> SUFFICES ASSUME NEW k \in P \ M, k \in L
               PROVE  \E j \in U : f[j] = own[k]
    OBVIOUS
  <2>1. CASE own[k] \in {m[j] : j \in M}
    BY <2>1
  <2>2. CASE own[k] \notin {m[j] : j \in M}
    <3>1. first(k) \in W
      BY <1>1, <1>2, <2>2
    <3> QED BY <1>1, <1>3, <3>1
  <2> QED BY <2>1, <2>2
<1>8. \A k \in M : f[k] = m[k]
  OBVIOUS
<1>9. \A k \in W : f[k] = own[k]
  BY <1>3
<1>10. L = P \ U /\ U = M \cup W /\ U \subseteq P
  BY <1>3
<1> HIDE DEF f, L, U, W
<1>7. PICK g \in [L -> Labels] : /\ \A a, b \in L : a # b => g[a] # g[b]
                                /\ \A a \in L, k \in U : g[a] # f[k]
  <2>1. U \in SUBSET Vault!Keys
    BY <1>3
  <2>2. L \in SUBSET (Vault!Keys \ U)
    BY <1>3
  <2> QED BY <1>4, <2>1, <2>2, LabelsLeft, Zenon
<1> DEFINE r == [k \in P |-> IF k \in U THEN f[k] ELSE g[k]]
<1>11. r \in [P -> Labels]
  BY <1>4, <1>7, <1>10
<1>12. \A k \in P \ M : r[k] = own[k] \/ own[k] \in {r[j] : j \in P \ {k}}
  <2> SUFFICES ASSUME NEW k \in P \ M
               PROVE  r[k] = own[k] \/ \E j \in P \ {k} : r[j] = own[k]
    OBVIOUS
  <2>1. CASE k \in W
    BY <1>9, <1>10, <2>1
  <2>2. CASE k \in L
    <3>1. PICK j \in U : f[j] = own[k]
      BY <1>6, <2>2
    <3> QED BY <1>10, <2>2, <3>1
  <2> QED BY <1>10, <2>1, <2>2
<1>13. \A j, k \in P : j # k => r[j] # r[k]
  <2> SUFFICES ASSUME NEW j \in P, NEW k \in P, j # k
               PROVE  r[j] # r[k]
    OBVIOUS
  <2>1. CASE j \in U /\ k \in U
    BY <1>5, <2>1
  <2>2. CASE j \in L /\ k \in L
    BY <1>7, <1>10, <2>2
  <2>3. CASE (j \in U /\ k \in L) \/ (j \in L /\ k \in U)
    BY <1>7, <1>10, <2>3
  <2> QED BY <1>10, <2>1, <2>2, <2>3
<1>14. \A k \in M : r[k] = m[k]
  BY <1>8, <1>10
<1> HIDE DEF r
<1> QED BY <1>11, <1>12, <1>13, <1>14 DEF Labelled
----------------------------------------------------------------------------
(* The vault: what ties the directories, the manifest and the mutation in  *)
(* progress together.                                                      *)

VaultTypes ==
    /\ entry \in [Vault!Keys -> {"none", "staging", "published", "partial", "deleting"}]
    /\ meta \in [Vault!Keys -> [material : Materials \cup {"none"}, label : Labels \cup {0}]]
    /\ DOMAIN manifest \subseteq Vault!Keys /\ \A k \in DOMAIN manifest : manifest[k] \in Labels
    /\ phase \in {"down", "open", "unavailable"}
    /\ dropped \subseteq Vault!Keys
    /\ job \in [pc : {"idle", "staged", "published", "undo", "removing", "deleting"},
                key : Vault!Keys \cup {0}, label : Labels \cup {0}]

\* Identifiers that were not drawn yet name nothing, and what has a directory has a label.
FreshKeys ==
    /\ nextKey \in Nat \ {0}
    /\ \A k \in Vault!Keys : k >= nextKey => entry[k] = "none" /\ k \notin DOMAIN manifest /\ k \notin dropped
    /\ \A k \in Vault!Keys : entry[k] # "none" => meta[k].label \in Labels

\* The callers and the memory know what the manifest says.
AsRecorded ==
    /\ held = manifest
    /\ phase = "open" => records = manifest
    /\ phase # "open" => job = Vault!NoJob /\ DOMAIN records = {}

\* What the manifest lists is on disk and told apart; what was dropped is on its way out.
ListedInv ==
    /\ \A k \in DOMAIN manifest : entry[k] \in {"published", "deleting"} /\ k \notin dropped
    /\ \A k \in dropped : entry[k] \in {"none", "deleting"}
    /\ \A j, k \in DOMAIN manifest : j # k => manifest[j] # manifest[k] /\ meta[j].material # meta[k].material

\* How far the mutation in progress is.
JobInv ==
    job # Vault!NoJob =>
        /\ job.key \in Vault!Keys /\ job.key < nextKey /\ job.pc # "idle"
        /\ job.pc \in {"staged", "published", "undo"} => job.key \notin DOMAIN manifest /\ job.key \notin dropped
        /\ job.pc \in {"staged", "published"} =>
              job.label \in Labels /\ \A k \in DOMAIN manifest : manifest[k] # job.label
        /\ job.pc = "staged" => entry[job.key] = "staging"
        /\ job.pc = "undo" => entry[job.key] \in {"staging", "published"}
        /\ job.pc = "published" =>
              entry[job.key] = "published" /\ \A k \in DOMAIN manifest : meta[k].material # meta[job.key].material
        /\ job.pc = "removing" => job.key \in DOMAIN manifest /\ entry[job.key] = "deleting"
        /\ job.pc = "deleting" => job.key \notin DOMAIN manifest /\ entry[job.key] = "deleting"

VaultInv == VaultTypes /\ FreshKeys /\ AsRecorded /\ ListedInv /\ JobInv

LEMMA VaultInit ==
    ASSUME Vault!Init
    PROVE  VaultInv
<1> USE DEF Vault!Init
<1>1. job = Vault!NoJob /\ DOMAIN manifest = {} /\ DOMAIN records = {}
  BY DEF Vault!Empty
<1>2. VaultTypes
  BY <1>1 DEF VaultTypes, Vault!NoJob, Vault!NoMeta
<1>3. FreshKeys /\ AsRecorded /\ ListedInv /\ JobInv
  BY <1>1 DEF FreshKeys, AsRecorded, ListedInv, JobInv
<1> QED BY <1>2, <1>3 DEF VaultInv

\* initialize: what is published and listed then is one and the same.
LEMMA OpenKeeps ==
    ASSUME VaultInv, Vault!Open \/ Vault!OpenFails
    PROVE  VaultInv'
<1> DEFINE C == Vault!Cleaned
           P == Vault!CleanPublished
<1>0. /\ entry \in [Vault!Keys -> {"none", "staging", "published", "partial", "deleting"}]
      /\ job = Vault!NoJob /\ phase = "down"
  BY DEF VaultInv, VaultTypes, AsRecorded, Vault!Open, Vault!OpenFails
<1>1. /\ C \in [Vault!Keys -> {"none", "published", "partial"}]
      /\ \A k \in Vault!Keys : C[k] # "none" => entry[k] # "none"
      /\ \A k \in Vault!Keys : C[k] = "partial" => entry[k] = "partial"
      /\ \A k \in Vault!Keys : C[k] = "published" <=> entry[k] = "published" \/ (entry[k] = "deleting" /\ k \in DOMAIN manifest)
  BY <1>0 DEF Vault!Cleaned, Vault!Listed
<1>2. P \in SUBSET Vault!Keys /\ \A k \in Vault!Keys : k \in P <=> C[k] = "published"
  BY DEF Vault!CleanPublished
<1>3. entry' = C /\ UNCHANGED <<meta, dropped, nextKey, job>> /\ job' = Vault!NoJob
  BY <1>0 DEF Vault!Open, Vault!OpenFails
<1> HIDE DEF C, P
<1>4. JobInv'
  BY <1>3 DEF JobInv
<1>5. \A k \in Vault!Keys : k \in dropped => C[k] = "none"
  BY <1>0, <1>1 DEF VaultInv, ListedInv
<1>6. DOMAIN manifest \subseteq P
  BY <1>1, <1>2 DEF VaultInv, VaultTypes, ListedInv
<1>7. CASE Vault!Open
  <2>1. PICK r \in [P -> Labels] : Vault!UniqueRecords(r) /\ manifest' = r /\ records' = r
    BY <1>7 DEF Vault!Open, P
  <2>2. DOMAIN manifest' = P /\ (\A k \in P : manifest'[k] \in Labels)
        /\ (\A j, k \in P : j # k => manifest'[j] # manifest'[k] /\ meta[j].material # meta[k].material)
    BY <2>1 DEF Vault!UniqueRecords, Vault!Listed
  <2>3. VaultTypes'
    BY <1>1, <1>2, <1>3, <1>7, <2>2 DEF VaultInv, VaultTypes, Vault!Open
  <2>4. FreshKeys'
    BY <1>1, <1>2, <1>3, <2>2 DEF VaultInv, FreshKeys
  <2>5. AsRecorded'
    BY <1>7, <2>1 DEF AsRecorded, Vault!Open
  <2>6. ListedInv'
    BY <1>1, <1>2, <1>3, <1>5, <2>2 DEF VaultInv, VaultTypes, ListedInv
  <2> QED BY <1>4, <2>3, <2>4, <2>5, <2>6 DEF VaultInv
<1>8. CASE Vault!OpenFails
  <2>1. UNCHANGED <<manifest, held>> /\ phase' = "unavailable"
    BY <1>8 DEF Vault!OpenFails
  <2>2. VaultTypes'
    BY <1>1, <1>3, <2>1 DEF VaultInv, VaultTypes
  <2>3. FreshKeys'
    BY <1>1, <1>3, <2>1 DEF VaultInv, FreshKeys
  <2>4. AsRecorded'
    BY <1>3, <1>8, <2>1 DEF VaultInv, AsRecorded, Vault!OpenFails
  <2>5. ListedInv'
    BY <1>1, <1>2, <1>3, <1>5, <1>6, <2>1 DEF VaultInv, VaultTypes, ListedInv
  <2> QED BY <1>4, <2>2, <2>3, <2>4, <2>5 DEF VaultInv
<1> QED BY <1>7, <1>8

\* What an operation does that leaves the manifest alone.
LEMMA DirectoryKeeps ==
    ASSUME VaultInv, UNCHANGED <<manifest, held, dropped, meta>>,
           IF phase' = "open" THEN UNCHANGED records ELSE DOMAIN records' = {},
           phase' \in {"down", "open", "unavailable"}, phase' = "open" => phase = "open",
           FreshKeys', JobInv', phase' # "open" => job' = Vault!NoJob,
           job' \in [pc : {"idle", "staged", "published", "undo", "removing", "deleting"},
                     key : Vault!Keys \cup {0}, label : Labels \cup {0}],
           entry' \in [Vault!Keys -> {"none", "staging", "published", "partial", "deleting"}],
           \A k \in DOMAIN manifest : entry'[k] \in {"published", "deleting"},
           \A k \in dropped : entry'[k] \in {"none", "deleting"}
    PROVE  VaultInv'
<1>1. VaultTypes'
  BY DEF VaultInv, VaultTypes
<1>2. AsRecorded'
  BY DEF VaultInv, AsRecorded
<1>3. ListedInv'
  BY DEF VaultInv, ListedInv
<1> QED BY <1>1, <1>2, <1>3 DEF VaultInv

LEMMA StageKeeps ==
    ASSUME VaultInv, NEW m \in Materials, NEW l \in Labels, Vault!Stage(m, l)
    PROVE  VaultInv'
<1> USE DEF Vault!Stage
<1>0. /\ job = Vault!NoJob /\ phase = "open" /\ records = manifest
      /\ nextKey \in Vault!Keys /\ entry[nextKey] = "none" /\ nextKey \notin DOMAIN manifest /\ nextKey \notin dropped
      /\ \A k \in DOMAIN manifest : manifest[k] # l
  BY DEF VaultInv, AsRecorded, FreshKeys, Vault!Ready, Vault!TakenLabels, Vault!Listed
<1>1. /\ entry' = [entry EXCEPT ![nextKey] = "staging"]
      /\ meta' = [meta EXCEPT ![nextKey] = [material |-> m, label |-> l]]
      /\ job' = [pc |-> "staged", key |-> nextKey, label |-> l] /\ nextKey' = nextKey + 1
      /\ UNCHANGED <<manifest, records, phase, held, dropped>>
  OBVIOUS
<1>2. /\ entry \in [Vault!Keys -> {"none", "staging", "published", "partial", "deleting"}]
      /\ meta \in [Vault!Keys -> [material : Materials \cup {"none"}, label : Labels \cup {0}]]
      /\ DOMAIN manifest \subseteq Vault!Keys /\ dropped \subseteq Vault!Keys
      /\ nextKey \in Nat \ {0}
  BY DEF VaultInv, VaultTypes, FreshKeys
<1>3. VaultTypes'
  <2>1. entry' \in [Vault!Keys -> {"none", "staging", "published", "partial", "deleting"}]
    BY <1>0, <1>1, <1>2
  <2>2. meta' \in [Vault!Keys -> [material : Materials \cup {"none"}, label : Labels \cup {0}]]
    BY <1>0, <1>1, <1>2
  <2>3. job' \in [pc : {"idle", "staged", "published", "undo", "removing", "deleting"},
                  key : Vault!Keys \cup {0}, label : Labels \cup {0}]
    BY <1>0, <1>1
  <2> QED BY <1>1, <2>1, <2>2, <2>3 DEF VaultInv, VaultTypes
<1>4. FreshKeys'
  <2>1. \A k \in Vault!Keys : k >= nextKey + 1 => k >= nextKey /\ k # nextKey
    BY <1>2 DEF Vault!Keys
  <2> QED BY <1>0, <1>1, <1>2, <2>1 DEF VaultInv, FreshKeys
<1>5. AsRecorded'
  BY <1>0, <1>1 DEF VaultInv, AsRecorded
<1>6. ListedInv'
  BY <1>0, <1>1, <1>2 DEF VaultInv, ListedInv
<1>7. JobInv'
  <2>1. nextKey < nextKey + 1
    BY <1>2
  <2> QED BY <1>0, <1>1, <1>2, <2>1 DEF JobInv
<1> QED BY <1>3, <1>4, <1>5, <1>6, <1>7 DEF VaultInv
LEMMA VaultStep ==
    ASSUME VaultInv, Vault!Next
    PROVE  VaultInv'
<1>0. /\ entry \in [Vault!Keys -> {"none", "staging", "published", "partial", "deleting"}]
      /\ job \in [pc : {"idle", "staged", "published", "undo", "removing", "deleting"},
                  key : Vault!Keys \cup {0}, label : Labels \cup {0}]
      /\ DOMAIN manifest \subseteq Vault!Keys /\ dropped \subseteq Vault!Keys
      /\ phase \in {"down", "open", "unavailable"}
  BY DEF VaultInv, VaultTypes
<1>1. /\ held = manifest /\ (phase = "open" => records = manifest)
      /\ phase # "open" => job = Vault!NoJob
      /\ job # Vault!NoJob => phase = "open" /\ records = manifest
  BY DEF VaultInv, AsRecorded
<1>2. /\ Vault!NoJob.pc = "idle"
      /\ Vault!NoJob \in [pc : {"idle", "staged", "published", "undo", "removing", "deleting"},
                          key : Vault!Keys \cup {0}, label : Labels \cup {0}]
  BY DEF Vault!NoJob
\* A step of the mutation in progress that only moves its directory.
<1>3. ASSUME job # Vault!NoJob, NEW step \in {"published", "undo", "idle"},
             job' = [job EXCEPT !.pc = step] \/ job' = Vault!NoJob, step = "idle" => job' = Vault!NoJob,
             UNCHANGED <<meta, manifest, records, phase, nextKey, held, dropped>>,
             NEW e \in {"none", "staging", "published", "partial", "deleting"},
             entry' = [entry EXCEPT ![job.key] = e],
             job.key \notin DOMAIN manifest \/ e \in {"published", "deleting"},
             job.key \notin dropped \/ e \in {"none", "deleting"},
             JobInv'
      PROVE  VaultInv'
  <2>1. job.key \in Vault!Keys /\ entry[job.key] # "none" /\ job.key < nextKey
    BY <1>0, <1>3 DEF VaultInv, JobInv
  <2>2. FreshKeys'
    BY <1>0, <1>3, <2>1 DEF VaultInv, FreshKeys, Vault!Keys
  <2>3. job' \in [pc : {"idle", "staged", "published", "undo", "removing", "deleting"},
                  key : Vault!Keys \cup {0}, label : Labels \cup {0}]
    BY <1>0, <1>2, <1>3
  <2>4. entry' \in [Vault!Keys -> {"none", "staging", "published", "partial", "deleting"}]
    BY <1>0, <1>3
  <2>5. /\ \A k \in DOMAIN manifest : entry'[k] \in {"published", "deleting"}
        /\ \A k \in dropped : entry'[k] \in {"none", "deleting"}
    BY <1>0, <1>3, <2>1 DEF VaultInv, ListedInv
  <2>6. phase = "open" /\ phase' = "open"
    BY <1>1, <1>3
  <2> QED BY <1>0, <1>3, <2>2, <2>3, <2>4, <2>5, <2>6, DirectoryKeeps
<1>4. CASE Vault!Open \/ Vault!OpenFails
  BY <1>4, OpenKeeps
<1>5. CASE \E m \in Materials, l \in Labels : Vault!Stage(m, l)
  BY <1>5, StageKeeps
<1>6. ASSUME job.pc \in {"staged", "published", "undo", "removing", "deleting"}
      PROVE  job # Vault!NoJob
  BY <1>2, <1>6
<1>7. CASE Vault!PublishKey
  <2>1. /\ job # Vault!NoJob /\ job.pc = "staged" /\ job' = [job EXCEPT !.pc = "published"]
        /\ entry' = [entry EXCEPT ![job.key] = "published"]
        /\ UNCHANGED <<meta, manifest, records, phase, nextKey, held, dropped>>
    BY <1>6, <1>7 DEF Vault!PublishKey
  <2>2. job.key \in Vault!Keys /\ job.key < nextKey /\ job.key \notin DOMAIN manifest /\ job.key \notin dropped
        /\ job.label \in Labels /\ (\A k \in DOMAIN manifest : manifest[k] # job.label)
    BY <2>1 DEF VaultInv, JobInv
  <2>3. \A k \in DOMAIN manifest : meta[k].material # meta[job.key].material
    BY <1>1, <1>7, <2>1 DEF Vault!PublishKey, Vault!IsDuplicate, Vault!Listed
  <2>4. job'.pc = "published" /\ job'.key = job.key /\ job'.label = job.label /\ entry'[job.key] = "published"
    BY <1>0, <2>1, <2>2
  <2>5. JobInv'
    BY <2>1, <2>2, <2>3, <2>4 DEF JobInv
  <2> QED BY <1>3, <2>1, <2>2, <2>5
<1>8. CASE Vault!PublishFails
  <2>1. /\ job # Vault!NoJob /\ job.pc \in {"staged", "published"} /\ job' = [job EXCEPT !.pc = "undo"]
        /\ UNCHANGED <<entry, meta, manifest, records, phase, nextKey, held, dropped>>
    BY <1>6, <1>8 DEF Vault!PublishFails
  <2>2. job.key \in Vault!Keys /\ job.key < nextKey /\ job.key \notin DOMAIN manifest /\ job.key \notin dropped
        /\ entry[job.key] \in {"staging", "published"}
    BY <2>1 DEF VaultInv, JobInv
  <2>3. job'.pc = "undo" /\ job'.key = job.key
    BY <1>0, <2>1
  <2>4. JobInv'
    BY <2>1, <2>2, <2>3 DEF JobInv
  <2>5. entry' = [entry EXCEPT ![job.key] = entry[job.key]]
    BY <1>0, <2>1
  <2> QED BY <1>0, <1>3, <2>1, <2>2, <2>4, <2>5
<1>9. CASE Vault!Undo \/ Vault!UndoFails
  <2>1. /\ job # Vault!NoJob /\ job.pc = "undo" /\ job' = Vault!NoJob
        /\ UNCHANGED <<meta, manifest, records, phase, nextKey, held, dropped>>
    BY <1>6, <1>9 DEF Vault!Undo, Vault!UndoFails
  <2>2. job.key \in Vault!Keys /\ job.key \notin DOMAIN manifest /\ job.key \notin dropped
        /\ entry[job.key] \in {"staging", "published"}
    BY <2>1 DEF VaultInv, JobInv
  <2>3. JobInv'
    BY <2>1 DEF JobInv
  <2>4. \E e \in {"none", "partial", "staging", "published"} : entry' = [entry EXCEPT ![job.key] = e]
    <3>1. CASE UNCHANGED entry
      BY <1>0, <2>2, <3>1
    <3>2. CASE ~UNCHANGED entry
      BY <1>9, <2>2, <3>2 DEF Vault!Undo, Vault!UndoFails
    <3> QED BY <3>1, <3>2
  <2> QED BY <1>3, <2>1, <2>2, <2>3, <2>4
<1>10. CASE Vault!RemoveUndone \/ Vault!RemoveEnd
  <2>1. /\ job # Vault!NoJob /\ job.pc \in {"removing", "deleting"} /\ job' = Vault!NoJob
        /\ UNCHANGED <<meta, manifest, records, phase, nextKey, held, dropped>>
    BY <1>6, <1>10 DEF Vault!RemoveUndone, Vault!RemoveEnd
  <2>2. job.key \in Vault!Keys /\ entry[job.key] = "deleting"
        /\ (job.pc = "removing" => job.key \in DOMAIN manifest) /\ (job.pc = "deleting" => job.key \notin DOMAIN manifest)
    BY <2>1 DEF VaultInv, JobInv
  <2>3. JobInv'
    BY <2>1 DEF JobInv
  <2>4. job.key \in DOMAIN manifest => job.key \notin dropped
    BY DEF VaultInv, ListedInv
  <2>5. CASE UNCHANGED entry
    <3>1. entry' = [entry EXCEPT ![job.key] = "deleting"]
      BY <1>0, <2>2, <2>5
    <3> QED BY <1>3, <2>1, <2>3, <3>1
  <2>6. CASE job.pc = "removing" /\ entry' = [entry EXCEPT ![job.key] = "published"]
    BY <1>3, <2>1, <2>2, <2>3, <2>4, <2>6
  <2>7. CASE job.pc = "deleting" /\ entry' = [entry EXCEPT ![job.key] = "none"]
    BY <1>3, <2>1, <2>2, <2>3, <2>7
  <2> QED BY <1>10, <2>5, <2>6, <2>7 DEF Vault!RemoveUndone, Vault!RemoveEnd
<1>11. CASE Vault!RecordKey
  <2>1. /\ job # Vault!NoJob /\ job.pc = "published" /\ job' = Vault!NoJob /\ phase = "open" /\ records = manifest
        /\ manifest' = Vault!With(manifest, job.key, job.label) /\ records' = manifest' /\ held' = manifest'
        /\ UNCHANGED <<entry, meta, phase, nextKey, dropped>>
    BY <1>1, <1>6, <1>11 DEF Vault!RecordKey
  <2>2. /\ job.key \in Vault!Keys /\ job.key < nextKey /\ job.key \notin DOMAIN manifest /\ job.key \notin dropped
        /\ job.label \in Labels /\ (\A k \in DOMAIN manifest : manifest[k] # job.label)
        /\ entry[job.key] = "published" /\ (\A k \in DOMAIN manifest : meta[k].material # meta[job.key].material)
    BY <2>1 DEF VaultInv, JobInv
  <2>3. /\ DOMAIN manifest' = DOMAIN manifest \cup {job.key} /\ manifest'[job.key] = job.label
        /\ \A k \in DOMAIN manifest : manifest'[k] = manifest[k]
    BY <2>1, <2>2 DEF Vault!With, Vault!Listed
  <2>4. VaultTypes'
    BY <1>0, <1>2, <2>1, <2>2, <2>3 DEF VaultInv, VaultTypes
  <2>5. FreshKeys'
    <3>1. \A k \in Vault!Keys : k >= nextKey => k # job.key
      BY <2>2 DEF VaultInv, FreshKeys, Vault!Keys
    <3> QED BY <2>1, <2>3, <3>1 DEF VaultInv, FreshKeys
  <2>6. ListedInv'
    BY <2>1, <2>2, <2>3 DEF VaultInv, ListedInv
  <2>7. AsRecorded' /\ JobInv'
    BY <2>1 DEF AsRecorded, JobInv
  <2> QED BY <2>4, <2>5, <2>6, <2>7 DEF VaultInv
<1>12. ASSUME NEW k \in Vault!Keys, NEW l \in Labels, Vault!RenameKey(k, l)
       PROVE  VaultInv'
  <2>1. /\ job = Vault!NoJob /\ phase = "open" /\ k \in DOMAIN manifest /\ (\A j \in DOMAIN manifest : manifest[j] # l)
        /\ manifest' = [manifest EXCEPT ![k] = l] /\ records' = manifest' /\ held' = manifest'
        /\ UNCHANGED <<entry, meta, phase, job, nextKey, dropped>>
    BY <1>1, <1>12 DEF Vault!RenameKey, Vault!Ready, Vault!TakenLabels, Vault!Listed
  <2>2. /\ DOMAIN manifest' = DOMAIN manifest /\ manifest'[k] = l
        /\ \A j \in DOMAIN manifest \ {k} : manifest'[j] = manifest[j]
    BY <2>1
  <2>3. VaultTypes'
    BY <2>1, <2>2 DEF VaultInv, VaultTypes
  <2>4. FreshKeys'
    BY <2>1, <2>2 DEF VaultInv, FreshKeys
  <2>5. ListedInv'
    BY <2>1, <2>2 DEF VaultInv, ListedInv
  <2>6. AsRecorded' /\ JobInv'
    BY <2>1 DEF AsRecorded, JobInv
  <2> QED BY <2>3, <2>4, <2>5, <2>6 DEF VaultInv
<1>13. ASSUME NEW k \in Vault!Keys, Vault!RemoveBegin(k)
       PROVE  VaultInv'
  <2>1. /\ job = Vault!NoJob /\ phase = "open" /\ k \in DOMAIN manifest /\ entry[k] = "published"
        /\ entry' = [entry EXCEPT ![k] = "deleting"]
        /\ job' = [pc |-> "removing", key |-> k, label |-> 0]
        /\ UNCHANGED <<meta, manifest, records, phase, nextKey, held, dropped>>
    BY <1>1, <1>13 DEF Vault!RemoveBegin, Vault!Ready, Vault!Listed
  <2>2. entry' \in [Vault!Keys -> {"none", "staging", "published", "partial", "deleting"}] /\ entry'[k] = "deleting"
        /\ (\A j \in Vault!Keys \ {k} : entry'[j] = entry[j])
    BY <1>0, <2>1
  <2>3. k < nextKey /\ k \notin dropped
    BY <2>1 DEF VaultInv, FreshKeys, ListedInv, Vault!Keys
  <2>4. FreshKeys'
    BY <2>1, <2>2, <2>3 DEF VaultInv, FreshKeys, Vault!Keys
  <2>5. JobInv'
    BY <2>1, <2>2, <2>3 DEF JobInv
  <2>6. job' \in [pc : {"idle", "staged", "published", "undo", "removing", "deleting"},
                  key : Vault!Keys \cup {0}, label : Labels \cup {0}]
    BY <2>1
  <2>7. /\ \A j \in DOMAIN manifest : entry'[j] \in {"published", "deleting"}
        /\ \A j \in dropped : entry'[j] \in {"none", "deleting"}
    BY <1>0, <2>2, <2>3 DEF VaultInv, ListedInv
  <2> QED BY <2>1, <2>2, <2>4, <2>5, <2>6, <2>7, DirectoryKeeps
<1>14. CASE Vault!RemoveCommit
  <2>1. /\ job # Vault!NoJob /\ job.pc = "removing" /\ job' = [job EXCEPT !.pc = "deleting"]
        /\ phase = "open" /\ records = manifest
        /\ manifest' = Vault!Without(manifest, job.key) /\ records' = manifest' /\ held' = manifest'
        /\ dropped' = dropped \cup {job.key}
        /\ UNCHANGED <<entry, meta, phase, nextKey>>
    BY <1>1, <1>6, <1>14 DEF Vault!RemoveCommit
  <2>2. /\ job.key \in Vault!Keys /\ job.key < nextKey /\ job.key \in DOMAIN manifest /\ entry[job.key] = "deleting"
    BY <2>1 DEF VaultInv, JobInv
  <2>3. /\ DOMAIN manifest' = DOMAIN manifest \ {job.key}
        /\ \A k \in DOMAIN manifest' : manifest'[k] = manifest[k]
    BY <2>1 DEF Vault!Without, Vault!Restrict, Vault!Listed
  <2>4. job'.pc = "deleting" /\ job'.key = job.key
        /\ job' \in [pc : {"idle", "staged", "published", "undo", "removing", "deleting"},
                     key : Vault!Keys \cup {0}, label : Labels \cup {0}]
    BY <1>0, <2>1
  <2>5. VaultTypes'
    BY <1>0, <2>1, <2>2, <2>3, <2>4 DEF VaultInv, VaultTypes
  <2>6. FreshKeys'
    BY <2>1, <2>2, <2>3 DEF VaultInv, FreshKeys, Vault!Keys
  <2>7. ListedInv'
    BY <2>1, <2>2, <2>3 DEF VaultInv, ListedInv
  <2>8. AsRecorded'
    BY <2>1 DEF AsRecorded
  <2>9. JobInv'
    BY <2>1, <2>2, <2>3, <2>4 DEF JobInv
  <2> QED BY <2>5, <2>6, <2>7, <2>8, <2>9 DEF VaultInv
<1>15. CASE Vault!Stop \/ Vault!CrashVault
  <2>1. /\ phase' = "down" /\ job' = Vault!NoJob /\ DOMAIN records' = {}
        /\ UNCHANGED <<meta, manifest, nextKey, held, dropped>>
    BY <1>15 DEF Vault!Stop, Vault!CrashVault, Vault!Empty
  <2>2. UNCHANGED entry \/ (job # Vault!NoJob /\ job.pc = "undo" /\ entry' = [entry EXCEPT ![job.key] = "partial"])
    BY <1>15 DEF Vault!Stop, Vault!CrashVault
  <2>3. job # Vault!NoJob /\ job.pc = "undo" =>
           job.key \in Vault!Keys /\ job.key < nextKey /\ job.key \notin DOMAIN manifest /\ job.key \notin dropped
           /\ entry[job.key] # "none"
    BY DEF VaultInv, JobInv
  <2>4. FreshKeys'
    BY <1>0, <2>1, <2>2, <2>3 DEF VaultInv, FreshKeys, Vault!Keys
  <2>5. JobInv'
    BY <2>1 DEF JobInv
  <2>6. entry' \in [Vault!Keys -> {"none", "staging", "published", "partial", "deleting"}]
    BY <1>0, <2>2
  <2>7. /\ \A j \in DOMAIN manifest : entry'[j] \in {"published", "deleting"}
        /\ \A j \in dropped : entry'[j] \in {"none", "deleting"}
    BY <1>0, <2>2, <2>3 DEF VaultInv, ListedInv
  <2> QED BY <1>2, <2>1, <2>4, <2>5, <2>6, <2>7, DirectoryKeeps
<1> QED BY <1>4, <1>5, <1>7, <1>8, <1>9, <1>10, <1>11, <1>12, <1>13, <1>14, <1>15 DEF Vault!Next

\* Whenever the vault is closed it can be opened again.
LEMMA VaultCanOpen ==
    ASSUME VaultInv
    PROVE  Vault!VaultOpens
<1> DEFINE P == Vault!CleanPublished
           M == DOMAIN manifest
           C == Vault!Cleaned
           Duplicate == \E k \in Vault!Litter : \E j \in Vault!Keys \ {k} : entry[j] # "none" /\ meta[j].material = meta[k].material
<1> SUFFICES ASSUME phase = "down", Vault!OnDisk("partial") = {}, ~Duplicate
             PROVE  Vault!Readable /\ \E r \in [P -> Labels] : Vault!Merges(r) /\ Vault!UniqueRecords(r)
  BY DEF Vault!VaultOpens
<1>0. /\ entry \in [Vault!Keys -> {"none", "staging", "published", "partial", "deleting"}]
      /\ job = Vault!NoJob /\ M \subseteq Vault!Keys
      /\ \A k \in M : entry[k] \in {"published", "deleting"}
  BY DEF VaultInv, VaultTypes, AsRecorded, ListedInv
<1>1. \A k \in Vault!Keys : C[k] = "published" <=> entry[k] = "published" \/ (entry[k] = "deleting" /\ k \in M)
  BY <1>0 DEF Vault!Cleaned, Vault!Listed
<1>2. P \in SUBSET Vault!Keys /\ \A k \in Vault!Keys : k \in P <=> C[k] = "published"
  BY DEF Vault!CleanPublished
<1>3. \A k \in Vault!Keys : C[k] # "partial"
  BY <1>0 DEF Vault!Cleaned, Vault!OnDisk
<1> HIDE DEF C
<1>4. M \in SUBSET P
  BY <1>0, <1>1, <1>2
<1> HIDE DEF P
<1>5. Vault!Readable
  BY <1>3, <1>4 DEF Vault!Readable, Vault!Listed, C, P
\* Nobody has the key of an orphan: it would be a second one of it.
<1>6. \A k \in P \ M : k \in Vault!Litter
  <2>1. job.key \notin Vault!Keys
    BY <1>0 DEF Vault!NoJob, Vault!Keys
  <2> QED BY <1>1, <1>2, <2>1 DEF Vault!Litter, Vault!Listed
<1>7. \A j, k \in P : j # k => meta[j].material # meta[k].material
  <2>1. \A k \in P : k \in Vault!Keys /\ entry[k] # "none"
    BY <1>1, <1>2
  <2>2. \A k \in P \ M, j \in P : j # k => meta[j].material # meta[k].material
    BY <1>6, <2>1
  <2>3. \A j, k \in M : j # k => meta[j].material # meta[k].material
    BY DEF VaultInv, ListedInv
  <2> QED BY <1>4, <2>2, <2>3
<1> DEFINE m == [k \in M |-> manifest[k]]
           own == [k \in P |-> meta[k].label]
<1>8. PICK r \in [P -> Labels] : Labelled(r, P, M, m, own)
  <2>1. m \in [M -> Labels]
    BY DEF VaultInv, VaultTypes
  <2>2. \A j, k \in M : j # k => m[j] # m[k]
    BY DEF VaultInv, ListedInv
  <2>3. \A k \in P \ M : own[k] \in Labels
    BY <1>1, <1>2 DEF VaultInv, FreshKeys
  <2>4. P \in SUBSET Vault!Keys
    BY <1>2
  <2> HIDE DEF m, own, M
  <2> QED BY <1>4, <2>1, <2>2, <2>3, <2>4, LabelsFound, Zenon
<1>9. Vault!Merges(r)
  BY <1>8 DEF Labelled, Vault!Merges, Vault!Orphans, Vault!Listed, P
<1>10. Vault!UniqueRecords(r)
  BY <1>7, <1>8 DEF Labelled, Vault!UniqueRecords, Vault!Listed
<1> QED BY <1>5, <1>8, <1>9, <1>10

LEMMA VaultAnswered ==
    ASSUME VaultInv
    PROVE  Vault!VaultAsAnswered
<1>1. Vault!HeldKeysKept
  BY DEF VaultInv, AsRecorded, ListedInv, Vault!HeldKeysKept, Vault!Listed
<1>2. DOMAIN records \cup DOMAIN manifest = DOMAIN manifest
  BY DEF VaultInv, VaultTypes, AsRecorded
<1>3. Vault!DroppedKeysGone
  BY <1>2 DEF VaultInv, ListedInv, Vault!DroppedKeysGone, Vault!Listed
<1> QED BY <1>1, <1>3 DEF Vault!VaultAsAnswered
\* Whatever step a failure or a crash interrupts, every key a caller was told of is on disk in full under its
\* latest label until its removal reaches the manifest, a removed key never comes back, and initialize opens the
\* vault again (ManagedSshKeyVault), unless a failed publication left its directory behind.
THEOREM VaultIsKept == AllSpec => []VaultKept
<1>1. AllInit => VaultInv
  BY VaultInit DEF AllInit
<1>2. VaultInv /\ [AllNext]_allVars => VaultInv'
  <2> SUFFICES ASSUME VaultInv, [AllNext]_allVars
               PROVE  VaultInv'
    OBVIOUS
  <2>1. CASE Vault!Next
    BY <2>1, VaultStep
  <2>2. CASE UNCHANGED vaultVars
    BY <2>2 DEF vaultVars, VaultInv, VaultTypes, FreshKeys, AsRecorded, ListedInv, JobInv
  <2> QED BY <2>1, <2>2 DEF AllNext, allVars
<1>3. VaultInv => VaultKept
  BY VaultCanOpen, VaultAnswered DEF VaultKept
<1> QED BY <1>1, <1>2, <1>3, PTL DEF AllSpec
----------------------------------------------------------------------------
(* The newest revision of a set is one of the set.                         *)

LEMMA NewestIsOneOf ==
    ASSUME NEW S \in SUBSET Ids, S # {}
    PROVE  Newest(S) \in S
<1> DEFINE T == {MaxId - r : r \in S}
           R == OpToRel(<, Nat)
<1>0. \A s \in S : s \in Nat /\ MaxId - s \in Nat /\ MaxId - s \in T
  BY MaxIdAssumption DEF Ids
<1>1. T \subseteq Nat /\ T # {}
  BY <1>0
<1>2. \E x \in T : \A y \in T : ~(<<y, x>> \in R)
  <2> HIDE DEF T
  <2> QED BY <1>1, WFMin, NatLessThanWellFounded, Zenon
<1>3. PICK x \in T : \A y \in T : ~(<<y, x>> \in R)
  BY <1>2
<1>4. \A y \in T : ~(y < x)
  BY <1>1, <1>3 DEF OpToRel
<1>5. PICK r \in S : x = MaxId - r
  BY <1>3
<1>6. \A s \in S : r >= s
  <2> TAKE s \in S
  <2>1. ~(MaxId - s < MaxId - r)
    BY <1>0, <1>4, <1>5
  <2> HIDE DEF T
  <2> QED BY <1>0, <2>1, MaxIdAssumption
<1> QED BY <1>5, <1>6 DEF Newest, Max
----------------------------------------------------------------------------
(* The configuration: what holds between the files, the service, the       *)
(* gateway and the promises made to the callers.                           *)

AnyProfile == Profiles \cup {NoProfile}
SomeId == Ids \cup {None}
Dirs == {"none", "staging", "published", "broken", "damaged"}
Pointers == [revision : SomeId, previous : SomeId, quarantined : SUBSET Ids]
Overlays == [id : SomeId, removed : SUBSET Targets, meta : Metas \cup {None}]
States == {"unconfigured", "starting", "ready", "error"}
Services == [up : BOOLEAN, closed : BOOLEAN, state : States, active : SomeId, pointer : Pointers,
             overlay : Overlays, fleet : AnyProfile, trusted : BOOLEAN]
Daemons == [profile : AnyProfile, open : BOOLEAN]
Views == [token : SomeId, profile : AnyProfile]

\* The steps of a save: until its pointer is written, and until it is answered.
Undecided == {"publish", "pruneStaged", "commit"}
Saving == Undecided \cup {"reload", "discard"}
Steps == Saving \cup {"idle", "recover", "activate", "pruneInit", "pruneApplied", "overlay"}
Operations == [pc : Steps, profile : AnyProfile, staged : SomeId, prior : States, before : SUBSET AnyProfile]

ConfigTypes ==
    /\ dir \in [Ids -> Dirs] /\ content \in [Ids -> AnyProfile] /\ overlay \in [Ids -> Overlays]
    /\ pointer \in Pointers /\ vault \subseteq Targets /\ nextId \in 1..(MaxId + 1)
    /\ svc \in Services /\ daemon \in Daemons /\ op \in Operations /\ view \in Views
    /\ promised \subseteq AnyProfile

Whole(p) == \A r \in Tracked(p) : r \in Ids /\ dir[r] \in {"published", "damaged"}

\* What a restart serves from the revision r.
Served(r) == ApplyMetadataOverlay(content[r], overlay[r])

\* The pointer names whole revisions, and their keys and those of the gateway are there.
DiskInv ==
    /\ Whole(pointer)
    /\ pointer # NoPointer => pointer.revision \in Ids
    /\ pointer = NoPointer => \A r \in Ids : overlay[r] = NoOverlay
    /\ \A r \in Ids : r >= nextId => dir[r] = "none" /\ overlay[r] = NoOverlay
    /\ \A r \in Ids : dir[r] \in {"published", "broken", "damaged"} => content[r].targets \subseteq vault
    /\ daemon.profile.targets \subseteq vault

\* An identifier names one revision or one overlay, once and for all.
IdInv ==
    /\ \A r \in Ids : overlay[r] # NoOverlay =>
          overlay[r].id \in Ids /\ overlay[r].id < nextId /\ dir[overlay[r].id] = "none" /\ overlay[r].meta \in Metas
    /\ \A r, s \in Ids : overlay[r] # NoOverlay /\ overlay[r].id = overlay[s].id => r = s
    /\ svc.overlay # NoOverlay =>
          /\ svc.overlay.id \in Ids /\ svc.overlay.id < nextId /\ dir[svc.overlay.id] = "none" /\ svc.overlay.meta \in Metas
          /\ \A r \in Ids : overlay[r].id = svc.overlay.id => r = svc.active /\ overlay[r] = svc.overlay

\* What the service believes is on disk, except while a save moves the pointer.
ServiceInv ==
    /\ ~svc.up => svc = Down /\ daemon = NoDaemon /\ op = Idle
    /\ op.pc = "idle" => op = Idle
    /\ svc.active = None => svc.pointer = NoPointer /\ svc.overlay = NoOverlay /\ svc.fleet = NoProfile
    /\ svc.active # None =>
          /\ svc.pointer.revision = svc.active /\ Whole(svc.pointer) /\ dir[svc.active] = "published"
          /\ op.pc # "reload" => pointer = svc.pointer
          /\ svc.fleet = ApplyMetadataOverlay(content[svc.active], svc.overlay)
    /\ op.pc \in {"recover", "activate"} => svc.active = None /\ svc.state = "starting"

\* An open gateway serves the fleet of the service; who is ready has an open gateway.
DaemonInv ==
    /\ daemon.open => /\ svc.active # None /\ daemon.profile = svc.fleet
                      /\ op.pc # "overlay" => overlay[svc.active] = svc.overlay
                      /\ svc.state = "ready" \/ (op.pc \in {"commit", "reload"} /\ op.prior = "ready")
    /\ ~daemon.open => daemon = NoDaemon \/ op.pc \in {"activate", "reload"}
    /\ svc.state = "ready" => daemon.open
    /\ svc.state = "unconfigured" /\ svc.up => pointer = NoPointer
    /\ svc.state = "starting" => op.pc \in {"recover", "activate", "commit", "reload"}
    /\ op.pc \in {"pruneInit", "pruneApplied", "overlay"} => svc.state = "ready"
    /\ op.pc \in {"publish", "pruneStaged"} => op.prior = svc.state
    /\ op.pc \in {"commit", "reload"} => svc.state = "starting" /\ op.prior # "starting"
    /\ op.pc = "commit" /\ op.prior = "ready" => daemon.open
    /\ op.pc = "commit" /\ op.prior = "unconfigured" => pointer = NoPointer

\* The revision a save has staged is its own until it is committed.
StagedInv ==
    /\ op.pc \in Saving =>
          /\ op.staged \in Ids /\ op.staged < nextId /\ dir[op.staged] \in {"staging", "published"}
          /\ overlay[op.staged] = NoOverlay /\ content[op.staged] = op.profile
          /\ op.profile.targets \subseteq vault
          /\ op.staged # svc.active /\ op.staged \notin Tracked(svc.pointer)
    /\ op.pc = "publish" => dir[op.staged] = "staging"
    /\ op.pc \in {"pruneStaged", "commit", "reload"} => dir[op.staged] = "published"
    /\ op.pc \in Undecided => op.staged \notin Tracked(pointer)
    /\ op.pc = "reload" => pointer.revision = op.staged
    /\ op.pc = "activate" => pointer.revision \in Ids /\ dir[pointer.revision] = "published"
    /\ op.pc = "pruneApplied" => op.profile = svc.fleet
    /\ op.pc = "overlay" => /\ op.profile.targets \subseteq svc.fleet.targets
                            /\ overlay[svc.active] # NoOverlay /\ Served(svc.active) = op.profile

\* Whatever a restart finds in force is in P; a revision that stopped validating voids that.
Recovers(P, staged) ==
    /\ pointer = NoPointer =>
          NoProfile \in P /\ \A r \in Ids : dir[r] = "published" /\ r # staged => content[r] \in P
    /\ pointer # NoPointer /\ dir[pointer.revision] = "published" => Served(pointer.revision) \in P
    /\ pointer # NoPointer /\ dir[pointer.revision] # "published" => AnyProfile \subseteq P

\* The promises cover what a restart finds; those of before, unless the save is in force.
PromiseInv ==
    /\ Recovers(promised, None)
    /\ op.pc \in Undecided \cup {"discard"} => Recovers(op.before, op.staged)
    /\ op.pc \in Saving \cup {"overlay"} => op.profile \in promised /\ op.before \subseteq promised
    /\ daemon.open => svc.fleet \in promised
    /\ daemon.open /\ op.pc \in Saving \cup {"overlay"} => svc.fleet \in op.before

\* The configuration a page holds is the one its token names, wherever that is found again.
ViewInv ==
    /\ view.token < nextId
    /\ view.token = None => view.profile = NoProfile
    /\ view.token = ReportedRevision => view.profile = svc.fleet
    /\ \A r \in Ids : dir[r] # "none" /\ view.token = r => view.profile = content[r]
    /\ \A r \in Ids : dir[r] # "none" /\ overlay[r] # NoOverlay /\ view.token = overlay[r].id
                         => view.profile = Served(r)

ConfigInv ==
    /\ ConfigTypes /\ DiskInv /\ IdInv /\ ServiceInv /\ DaemonInv
    /\ StagedInv /\ PromiseInv /\ ViewInv

LEMMA NothingTyped ==
    /\ NoProfile \in AnyProfile /\ NoPointer \in Pointers /\ NoOverlay \in Overlays /\ NoDaemon \in Daemons
    /\ Down \in Services /\ Idle \in Operations
    /\ NoProfile.targets = {} /\ NoDaemon.profile = NoProfile /\ NoDaemon.open = FALSE
    /\ Tracked(NoPointer) = {} /\ NoOverlay.id = None /\ NoOverlay.removed = {}
<1>1. NoProfile \in AnyProfile /\ NoProfile.targets = {}
  BY DEF AnyProfile, NoProfile
<1>2. NoPointer \in Pointers /\ Tracked(NoPointer) = {}
  BY DEF NoPointer, Pointers, SomeId, Tracked
<1>3. NoOverlay \in Overlays /\ NoOverlay.id = None /\ NoOverlay.removed = {}
  BY DEF NoOverlay, Overlays, SomeId
<1>4. NoDaemon \in Daemons /\ NoDaemon.profile = NoProfile /\ NoDaemon.open = FALSE
  BY <1>1 DEF NoDaemon, Daemons
<1>5. Down \in Services
  BY <1>1, <1>2, <1>3 DEF Down, Services, States, SomeId
<1>6. Idle \in Operations
  BY <1>1 DEF Idle, Operations, Steps, SomeId, States
<1> QED BY <1>1, <1>2, <1>3, <1>4, <1>5, <1>6

\* An overlay takes machines away and replaces the metadata.
LEMMA AppliedTyped ==
    ASSUME NEW p \in AnyProfile, NEW o \in Overlays, o # NoOverlay => o.meta \in Metas
    PROVE  /\ ApplyMetadataOverlay(p, o) \in AnyProfile
           /\ ApplyMetadataOverlay(p, o).targets = p.targets \ o.removed
<1>1. p.targets \subseteq Targets
  BY DEF AnyProfile, Profiles, NoProfile
<1>2. CASE o = NoOverlay
  BY <1>2, NothingTyped DEF ApplyMetadataOverlay
<1>3. CASE o # NoOverlay
  BY <1>1, <1>3 DEF ApplyMetadataOverlay, AnyProfile, Profiles
<1> QED BY <1>2, <1>3

LEMMA ConfigInit ==
    ASSUME Init
    PROVE  ConfigInv
<1> USE NothingTyped DEF Init
<1>0. /\ ~svc.up /\ svc.active = None /\ svc.overlay = NoOverlay /\ svc.fleet = NoProfile /\ svc.pointer = NoPointer
      /\ svc.state = "unconfigured" /\ op.pc = "idle" /\ MaxId \in Nat
  BY MaxIdAssumption DEF Down, Idle
<1>1. ConfigTypes
  BY <1>0 DEF ConfigTypes, Dirs, SomeId, Views
<1>2. DiskInv
  BY <1>0 DEF DiskInv, Whole, Ids
<1>3. IdInv /\ ServiceInv /\ DaemonInv
  BY <1>0 DEF IdInv, ServiceInv, DaemonInv
<1>4. StagedInv
  BY <1>0 DEF StagedInv, Saving, Undecided
<1>5. PromiseInv
  <2>1. Recovers(promised, None)
    BY DEF Recovers
  <2> QED BY <1>0, <2>1 DEF PromiseInv, Saving, Undecided
<1>6. ViewInv
  BY <1>0 DEF ViewInv, ReportedRevision, None
<1> QED BY <1>1, <1>2, <1>3, <1>4, <1>5, <1>6 DEF ConfigInv
----------------------------------------------------------------------------
(* initialize.                                                             *)

\* What a step of the service leaves alone that changes its state at most.
SameService == UNCHANGED <<svc.up, svc.active, svc.pointer, svc.overlay, svc.fleet>>

\* A step that moves no file, and neither the service nor the gateway.
LEMMA QuietFiles ==
    ASSUME ConfigInv, UNCHANGED <<durable, daemon, view>>, SameService
    PROVE  DiskInv' /\ IdInv' /\ ViewInv'
<1>1. UNCHANGED <<dir, content, pointer, overlay, vault, nextId>>
  BY DEF durable
<1>2. DiskInv'
  BY <1>1 DEF ConfigInv, DiskInv, Whole, Tracked
<1>3. IdInv'
  BY <1>1 DEF ConfigInv, IdInv, SameService
<1>4. ViewInv'
  BY <1>1 DEF ConfigInv, ViewInv, ReportedRevision, Served, SameService
<1> QED BY <1>2, <1>3, <1>4

\* The process starts, and finds that nothing was ever published or nothing can be served.
LEMMA StartKeeps ==
    ASSUME ConfigInv, StartProcess \/ InitEmpty \/ InitUnrecoverable \/ InitFails
    PROVE  ConfigInv'
<1> USE NothingTyped
<1>0. svc \in Services /\ op \in Operations /\ Down \in Services
  BY DEF ConfigInv, ConfigTypes
<1>1. UNCHANGED <<durable, daemon, view, promised>>
  BY DEF StartProcess, InitEmpty, InitUnrecoverable, InitFails
<1>2. UNCHANGED <<dir, content, pointer, overlay, vault, nextId, daemon, view, promised>>
  BY <1>1 DEF durable
<1>3. svc.active = None /\ svc.pointer = NoPointer /\ svc.overlay = NoOverlay /\ svc.fleet = NoProfile
  BY DEF ConfigInv, ServiceInv, StartProcess, InitEmpty, InitUnrecoverable, InitFails, Down
<1>4. /\ svc'.active = None /\ svc'.pointer = NoPointer /\ svc'.overlay = NoOverlay /\ svc'.fleet = NoProfile
      /\ svc' \in Services /\ svc'.up
  <2>1. CASE StartProcess
    <3>1. svc' = [Down EXCEPT !.up = TRUE, !.state = "starting"]
      BY <2>1 DEF StartProcess
    <3>2. svc' \in Services
      BY <1>0, <3>1 DEF Services, States
    <3>3. svc'.active = Down.active /\ svc'.pointer = Down.pointer /\ svc'.overlay = Down.overlay /\ svc'.fleet = Down.fleet /\ svc'.up
      BY <1>0, <3>1 DEF Services
    <3> QED BY <3>2, <3>3 DEF Down
  <2>2. CASE ~StartProcess
    <3>1. op.pc = "recover" /\ svc.up
      BY <2>2 DEF ConfigInv, ServiceInv, InitEmpty, InitUnrecoverable, InitFails, Idle
    <3>2. \/ svc' = [svc EXCEPT !.state = "unconfigured", !.trusted = TRUE]
          \/ svc' = [svc EXCEPT !.state = "error"]
      BY <2>2 DEF InitEmpty, InitUnrecoverable, InitFails
    <3>3. svc' \in Services
      BY <1>0, <3>2 DEF Services, States
    <3>4. svc'.active = svc.active /\ svc'.pointer = svc.pointer /\ svc'.overlay = svc.overlay /\ svc'.fleet = svc.fleet /\ svc'.up = svc.up
      BY <1>0, <3>2 DEF Services
    <3> QED BY <1>3, <3>1, <3>3, <3>4
  <2> QED BY <2>1, <2>2
<1>5. \/ op' = [Idle EXCEPT !.pc = "recover"] /\ op'.pc = "recover" /\ svc'.state = "starting" /\ ~svc.up
      \/ op' = Idle /\ op'.pc = "idle" /\ op.pc = "recover"
            /\ (svc'.state = "error" \/ (svc'.state = "unconfigured" /\ pointer = NoPointer))
  <2>1. CASE StartProcess
    BY <1>0, <2>1 DEF StartProcess, Services, Idle
  <2>2. CASE InitEmpty
    BY <1>0, <2>2 DEF InitEmpty, Services, Idle
  <2>3. CASE InitUnrecoverable \/ InitFails
    <3>1. svc' = [svc EXCEPT !.state = "error"] /\ op' = Idle /\ op.pc = "recover"
      BY <2>3 DEF InitUnrecoverable, InitFails
    <3> QED BY <1>0, <3>1 DEF Services, Idle
  <2> QED BY <2>1, <2>2, <2>3
<1>6. op' \in Operations
  <2>1. [Idle EXCEPT !.pc = "recover"] \in Operations
    BY DEF Operations, Steps, Idle
  <2> QED BY <1>5, <2>1
<1>7. ~daemon.open /\ daemon = NoDaemon
  BY <1>3, <1>5 DEF ConfigInv, DaemonInv, ServiceInv
<1>8. ConfigTypes'
  BY <1>2, <1>4, <1>6 DEF ConfigInv, ConfigTypes
<1>9. DiskInv' /\ IdInv' /\ ViewInv'
  <2>1. DiskInv'
    BY <1>2 DEF ConfigInv, DiskInv, Whole, Tracked
  <2>2. IdInv'
    BY <1>2, <1>4 DEF ConfigInv, IdInv
  <2>3. ViewInv'
    BY <1>2, <1>3, <1>4 DEF ConfigInv, ViewInv, ReportedRevision, Served
  <2> QED BY <2>1, <2>2, <2>3
<1>10. ServiceInv'
  BY <1>4, <1>5 DEF ServiceInv
<1>11. DaemonInv'
  BY <1>2, <1>4, <1>5, <1>7 DEF DaemonInv
<1>12. StagedInv'
  BY <1>5 DEF StagedInv, Saving, Undecided
<1>13. PromiseInv'
  BY <1>2, <1>5, <1>7 DEF ConfigInv, PromiseInv, Recovers, Served, Saving, Undecided
<1> QED BY <1>8, <1>9, <1>10, <1>11, <1>12, <1>13 DEF ConfigInv
\* The pointer that initialize selects names whole revisions, and what is served from it was promised.
LEMMA SelectedServes ==
    ASSUME ConfigInv, SelectedPointer.revision # None
    PROVE  /\ SelectedPointer \in Pointers /\ SelectedPointer.revision \in Ids
           /\ dir[SelectedPointer.revision] = "published" /\ Whole(SelectedPointer)
           /\ Served(SelectedPointer.revision) \in promised
<1>0. /\ pointer \in Pointers /\ dir \in [Ids -> Dirs] /\ content \in [Ids -> AnyProfile]
      /\ overlay \in [Ids -> Overlays] /\ promised \subseteq AnyProfile
  BY DEF ConfigInv, ConfigTypes
<1>1. \A r \in Ids : Served(r) \in AnyProfile
  BY <1>0, AppliedTyped DEF ConfigInv, IdInv, Served
<1>2. Recovers(promised, None) /\ Whole(pointer)
  BY DEF ConfigInv, PromiseInv, DiskInv
<1>3. CASE pointer = NoPointer
  <2> DEFINE first == Newest(ValidIds)
             second == Newest(ValidIds \ {first})
  <2>1. SelectedPointer = [revision |-> first, previous |-> second, quarantined |-> Present \ {first, second}]
    BY <1>3 DEF SelectedPointer, RecoveredPointer
  <2>2. first \in ValidIds
    <3>1. first # None
      BY <2>1
    <3>2. ValidIds # {} /\ ValidIds \in SUBSET Ids
      BY <3>1 DEF Newest, ValidIds
    <3> QED BY <3>2, NewestIsOneOf
  <2>3. second \in ValidIds \/ second = None
    <3>1. ValidIds \ {first} \in SUBSET Ids
      BY DEF ValidIds
    <3>2. CASE ValidIds \ {first} = {}
      BY <3>2 DEF Newest
    <3>3. CASE ValidIds \ {first} # {}
      BY <3>1, <3>3, NewestIsOneOf
    <3> QED BY <3>2, <3>3
  <2> HIDE DEF first, second
  <2>4. Present \ {first, second} \in SUBSET Ids
    BY DEF Present
  <2>5. \A r \in ValidIds : r \in Ids /\ r \in SomeId /\ dir[r] = "published"
    BY DEF ValidIds, Valid, SomeId
  <2>6. SelectedPointer \in Pointers
    BY <2>1, <2>2, <2>3, <2>4, <2>5 DEF Pointers, SomeId
  <2>7. Whole(SelectedPointer)
    BY <2>1, <2>2, <2>3, <2>5 DEF Whole, Tracked
  <2>8. content[first] \in promised /\ overlay[first] = NoOverlay
    <3>1. first # None /\ first \in Ids /\ dir[first] = "published"
      BY <2>1, <2>2, <2>5
    <3>2. overlay[first] = NoOverlay
      BY <1>3, <3>1 DEF ConfigInv, DiskInv
    <3> QED BY <1>2, <1>3, <3>1, <3>2 DEF Recovers
  <2>9. Served(first) \in promised
    BY <2>8 DEF Served, ApplyMetadataOverlay
  <2> QED BY <2>1, <2>2, <2>5, <2>6, <2>7, <2>9
<1>4. CASE pointer # NoPointer /\ Valid(pointer.revision)
  <2>1. SelectedPointer = pointer
    BY <1>4 DEF SelectedPointer
  <2>2. pointer.revision \in Ids /\ dir[pointer.revision] = "published"
    BY <1>4 DEF Valid
  <2>3. Served(pointer.revision) \in promised
    BY <1>2, <1>4, <2>2 DEF Recovers
  <2> QED BY <1>0, <1>2, <2>1, <2>2, <2>3
<1>5. CASE pointer # NoPointer /\ ~Valid(pointer.revision)
  <2>1. Valid(pointer.previous) /\ SelectedPointer = [pointer EXCEPT !.revision = pointer.previous, !.previous = pointer.revision]
    BY <1>5 DEF SelectedPointer, NoPointer
  <2>2. pointer.previous \in Ids /\ dir[pointer.previous] = "published" /\ pointer.revision \in SomeId
    BY <1>0, <2>1 DEF Valid, Pointers
  <2>3. SelectedPointer \in Pointers /\ SelectedPointer.revision = pointer.previous /\ SelectedPointer.previous = pointer.revision
    BY <1>0, <2>1, <2>2 DEF Pointers, SomeId
  <2>4. Whole(SelectedPointer)
    BY <1>2, <2>3 DEF Whole, Tracked
  <2>5. pointer.revision \in Ids
    BY <1>5 DEF ConfigInv, DiskInv
  <2>6. AnyProfile \subseteq promised
    BY <1>2, <1>5, <2>5 DEF Recovers, Valid
  <2> QED BY <1>1, <2>2, <2>3, <2>4, <2>6
<1> QED BY <1>3, <1>4, <1>5

LEMMA SelectKeeps ==
    ASSUME ConfigInv, InitSelect
    PROVE  ConfigInv'
<1> USE NothingTyped
<1>0. svc \in Services /\ op \in Operations /\ content \in [Ids -> AnyProfile]
  BY DEF ConfigInv, ConfigTypes
<1>1. /\ UNCHANGED <<dir, content, overlay, vault, nextId, svc, view, promised>>
      /\ pointer' = SelectedPointer /\ op' = [op EXCEPT !.pc = "activate"] /\ op.pc = "recover"
      /\ daemon' = [profile |-> content[SelectedPointer.revision], open |-> FALSE]
  BY DEF InitSelect
<1>2. /\ pointer' \in Pointers /\ pointer'.revision \in Ids
      /\ dir[pointer'.revision] = "published" /\ Served(pointer'.revision) \in promised
  BY <1>1, SelectedServes DEF InitSelect
<1>3. Whole(pointer)'
  <2>1. Whole(SelectedPointer)
    BY SelectedServes DEF InitSelect
  <2> QED BY <1>1, <2>1 DEF Whole, Tracked
<1>4. pointer' # NoPointer
  BY <1>2 DEF NoPointer, Ids, None
<1>5. op' \in Operations /\ op'.pc = "activate"
  BY <1>0, <1>1 DEF Operations, Steps
<1>6. daemon' \in Daemons /\ ~daemon'.open /\ daemon'.profile = content[pointer'.revision]
  BY <1>0, <1>1, <1>2 DEF Daemons
<1>7. svc.up /\ svc.active = None /\ svc.state = "starting"
  BY <1>1 DEF ConfigInv, ServiceInv, Idle
<1>8. ConfigTypes'
  BY <1>1, <1>2, <1>5, <1>6 DEF ConfigInv, ConfigTypes
<1>9. DiskInv'
  <2>1. daemon'.profile.targets \subseteq vault
    BY <1>2, <1>6 DEF ConfigInv, DiskInv
  <2> QED BY <1>1, <1>2, <1>3, <1>4, <2>1 DEF ConfigInv, DiskInv
<1>10. IdInv'
  BY <1>1 DEF ConfigInv, IdInv
<1>11. ServiceInv'
  BY <1>1, <1>5, <1>7 DEF ConfigInv, ServiceInv
<1>12. DaemonInv'
  BY <1>1, <1>5, <1>6, <1>7 DEF DaemonInv
<1>13. StagedInv'
  BY <1>1, <1>2, <1>5 DEF StagedInv, Saving, Undecided
<1>14. PromiseInv'
  <2>1. Recovers(promised, None)'
    BY <1>1, <1>2, <1>4 DEF Recovers, Served
  <2> QED BY <1>5, <1>6, <2>1 DEF PromiseInv, Saving, Undecided
<1>15. ViewInv'
  BY <1>1 DEF ConfigInv, ViewInv, ReportedRevision, Served
<1> QED BY <1>8, <1>9, <1>10, <1>11, <1>12, <1>13, <1>14, <1>15 DEF ConfigInv
\* The gate opens behind the selected revision and its overlay.
LEMMA ActivateKeeps ==
    ASSUME ConfigInv, InitActivate
    PROVE  ConfigInv'
<1> USE NothingTyped
<1> DEFINE o == overlay[pointer.revision]
           p == Served(pointer.revision)
<1>0. /\ svc \in Services /\ op \in Operations /\ pointer \in Pointers
      /\ content \in [Ids -> AnyProfile] /\ overlay \in [Ids -> Overlays]
  BY DEF ConfigInv, ConfigTypes
<1>1. /\ UNCHANGED <<dir, content, pointer, overlay, vault, nextId, view, promised>>
      /\ op.pc = "activate" /\ op' = [op EXCEPT !.pc = "pruneInit"]
      /\ daemon' = [profile |-> p, open |-> TRUE]
      /\ svc' = [svc EXCEPT !.state = "ready", !.active = pointer.revision, !.pointer = pointer,
                            !.overlay = o, !.fleet = p, !.trusted = TRUE]
  BY DEF InitActivate, durable, Served
<1>2. /\ pointer.revision \in Ids /\ dir[pointer.revision] = "published" /\ Whole(pointer) /\ pointer # NoPointer
  <2>1. pointer.revision \in Ids /\ dir[pointer.revision] = "published"
    BY <1>1 DEF ConfigInv, StagedInv
  <2> QED BY <2>1 DEF ConfigInv, DiskInv, NoPointer, None, Ids
<1>3. svc.up
  BY <1>1 DEF ConfigInv, ServiceInv, Idle
<1>4. /\ o \in Overlays
      /\ o # NoOverlay => o.id \in Ids /\ o.id < nextId /\ dir[o.id] = "none" /\ o.meta \in Metas
  BY <1>0, <1>2 DEF ConfigInv, IdInv
<1>5. p \in AnyProfile /\ p.targets \subseteq content[pointer.revision].targets
  BY <1>0, <1>2, <1>4, AppliedTyped DEF Served
<1>6. pointer.revision \in SomeId
  BY <1>2 DEF SomeId
<1> HIDE DEF o, p
<1>7. /\ svc' \in Services /\ svc'.up /\ svc'.state = "ready" /\ svc'.active = pointer.revision /\ svc'.pointer = pointer
      /\ svc'.overlay = o /\ svc'.fleet = p
  BY <1>0, <1>1, <1>3, <1>4, <1>5, <1>6 DEF Services, States
<1>8. op' \in Operations /\ op'.pc = "pruneInit"
  BY <1>0, <1>1 DEF Operations, Steps
<1>9. daemon' \in Daemons /\ daemon'.open /\ daemon'.profile = p
  BY <1>1, <1>5 DEF Daemons
<1>10. pointer.revision # None
  BY <1>2 DEF Ids, None
<1>11. o = overlay[pointer.revision] /\ p = Served(pointer.revision)
  BY DEF o, p
<1>12. ConfigTypes'
  BY <1>1, <1>7, <1>8, <1>9 DEF ConfigInv, ConfigTypes
<1>13. DiskInv'
  <2>1. daemon'.profile.targets \subseteq vault
    BY <1>2, <1>5, <1>9 DEF ConfigInv, DiskInv
  <2> QED BY <1>1, <2>1 DEF ConfigInv, DiskInv, Whole, Tracked
<1>14. IdInv'
  <2>1. o # NoOverlay => \A r \in Ids : overlay[r].id = o.id => r = pointer.revision /\ overlay[r] = o
    BY <1>2, <1>11 DEF ConfigInv, IdInv
  <2> QED BY <1>1, <1>4, <1>7, <2>1 DEF ConfigInv, IdInv
<1>15. ServiceInv'
  <2>1. Whole(svc.pointer)'
    BY <1>1, <1>2, <1>7 DEF Whole, Tracked
  <2>2. p = ApplyMetadataOverlay(content[pointer.revision], o)
    BY <1>11 DEF Served
  <2> QED BY <1>1, <1>2, <1>7, <1>8, <1>10, <2>1, <2>2 DEF ServiceInv
<1>16. DaemonInv'
  BY <1>1, <1>7, <1>8, <1>9, <1>10, <1>11 DEF DaemonInv
<1>17. StagedInv'
  BY <1>8 DEF StagedInv, Saving, Undecided
<1>18. PromiseInv'
  <2>1. Recovers(promised, None)'
    BY <1>1 DEF ConfigInv, PromiseInv, Recovers, Served
  <2>2. p \in promised
    BY <1>2, <1>11 DEF ConfigInv, PromiseInv, Recovers
  <2> QED BY <1>1, <1>7, <1>8, <2>1, <2>2 DEF PromiseInv, Saving, Undecided
<1>19. ViewInv'
  <2>1. view.token = ReportedRevision' => view.profile = p
    <3>1. CASE o = NoOverlay
      <4>1. p = content[pointer.revision] /\ ReportedRevision' = pointer.revision
        BY <1>7, <1>11, <3>1 DEF Served, ApplyMetadataOverlay, ReportedRevision
      <4> QED BY <1>2, <4>1 DEF ConfigInv, ViewInv
    <3>2. CASE o # NoOverlay
      <4>1. ReportedRevision' = o.id
        BY <1>7, <3>2 DEF ReportedRevision
      <4> QED BY <1>2, <1>11, <3>2, <4>1 DEF ConfigInv, ViewInv
    <3> QED BY <3>1, <3>2
  <2> QED BY <1>1, <1>7, <2>1 DEF ConfigInv, ViewInv, Served
<1> QED BY <1>12, <1>13, <1>14, <1>15, <1>16, <1>17, <1>18, <1>19 DEF ConfigInv
----------------------------------------------------------------------------
(* Pruning, and what a failure or a crash leaves of it.                    *)

\* Directories went or broke, but none that the pointer names.
Shrunk ==
    /\ dir' \in [Ids -> Dirs] /\ content' \in [Ids -> AnyProfile] /\ overlay' \in [Ids -> Overlays]
    /\ UNCHANGED <<pointer, vault, nextId>>
    /\ \A r \in Ids : dir'[r] \in {dir[r], "none"} \/ (dir'[r] = "broken" /\ dir[r] \in {"published", "broken", "damaged"})
    /\ \A r \in Ids : dir'[r] # "none" => content'[r] = content[r]
    /\ \A r \in Ids : overlay'[r] \in {overlay[r], NoOverlay}
    /\ \A r \in Tracked(pointer) : dir'[r] = dir[r] /\ content'[r] = content[r] /\ overlay'[r] = overlay[r]

\* The disk, and the overlays' identifiers, after that.
LEMMA ShrunkDisk ==
    ASSUME ConfigInv, Shrunk, daemon'.profile.targets \subseteq vault
    PROVE  DiskInv'
<1>1. UNCHANGED <<pointer, vault, nextId>> /\ DiskInv
  BY DEF Shrunk, ConfigInv
<1>2. Whole(pointer)'
  BY <1>1 DEF DiskInv, Whole, Tracked, Shrunk
<1>3. pointer = NoPointer => \A r \in Ids : overlay'[r] = NoOverlay
  BY <1>1 DEF DiskInv, Shrunk
<1>4. \A r \in Ids : r >= nextId => dir'[r] = "none" /\ overlay'[r] = NoOverlay
  BY <1>1 DEF DiskInv, Shrunk
<1>5. \A r \in Ids : dir'[r] \in {"published", "broken", "damaged"} => content'[r].targets \subseteq vault
  <2> SUFFICES ASSUME NEW r \in Ids, dir'[r] \in {"published", "broken", "damaged"}
               PROVE  content'[r].targets \subseteq vault
    OBVIOUS
  <2>1. content'[r] = content[r]
    BY DEF Shrunk
  <2>2. dir[r] \in {"published", "broken", "damaged"}
    BY DEF Shrunk
  <2> QED BY <1>1, <2>1, <2>2 DEF DiskInv
<1> QED BY <1>1, <1>2, <1>3, <1>4, <1>5 DEF DiskInv

LEMMA ShrunkIds ==
    ASSUME ConfigInv, Shrunk
    PROVE  /\ \A r \in Ids : overlay'[r] # NoOverlay =>
                 overlay'[r].id \in Ids /\ overlay'[r].id < nextId /\ dir'[overlay'[r].id] = "none" /\ overlay'[r].meta \in Metas
           /\ \A r, s \in Ids : overlay'[r] # NoOverlay /\ overlay'[r].id = overlay'[s].id => r = s
           /\ \A r \in Ids : dir[r] = "none" => dir'[r] = "none"
<1>0. NoOverlay.id = None /\ None \notin Ids
  BY NothingTyped DEF None, Ids
<1>1. \A r \in Ids : dir[r] = "none" => dir'[r] = "none"
  BY DEF Shrunk
<1>2. \A r \in Ids : overlay'[r] \in {overlay[r], NoOverlay}
  BY DEF Shrunk
<1>3. IdInv
  BY DEF ConfigInv
<1> QED BY <1>0, <1>1, <1>2, <1>3 DEF IdInv

\* What a page holds is still what its token names, if the service reports the same.
LEMMA ShrunkView ==
    ASSUME ConfigInv, Shrunk, UNCHANGED view, view.token = ReportedRevision' => view.profile = svc'.fleet
    PROVE  ViewInv'
<1>1. ViewInv /\ UNCHANGED nextId
  BY DEF ConfigInv, Shrunk
<1>2. \A r \in Ids : dir'[r] # "none" => dir[r] # "none" /\ content'[r] = content[r]
  BY DEF Shrunk
<1>3. \A r \in Ids : overlay'[r] # NoOverlay => overlay'[r] = overlay[r]
  BY DEF Shrunk
<1>4. \A r \in Ids : dir'[r] # "none" /\ view.token = r => view.profile = content'[r]
  BY <1>1, <1>2 DEF ViewInv
<1>5. \A r \in Ids : dir'[r] # "none" /\ overlay'[r] # NoOverlay /\ view.token = overlay'[r].id
                         => view.profile = ApplyMetadataOverlay(content'[r], overlay'[r])
  BY <1>1, <1>2, <1>3 DEF ViewInv, Served
<1> QED BY <1>1, <1>4, <1>5 DEF ViewInv, Served

\* A restart finds nothing that it would not have found before.
LEMMA ShrunkRecovers ==
    ASSUME ConfigInv, Shrunk
    PROVE  /\ pointer = NoPointer => \A r \in Ids : dir'[r] = "published" => dir[r] = "published" /\ content'[r] = content[r]
           /\ pointer # NoPointer => dir'[pointer.revision] = dir[pointer.revision] /\ Served(pointer.revision)' = Served(pointer.revision)
<1>1. \A r \in Ids : dir'[r] = "published" => dir[r] = "published" /\ content'[r] = content[r]
  BY DEF Shrunk
<1>2. pointer # NoPointer => pointer.revision \in Tracked(pointer)
  BY DEF ConfigInv, DiskInv, Tracked, None, Ids
<1>3. UNCHANGED pointer
  BY DEF Shrunk
<1> QED BY <1>1, <1>2, <1>3 DEF Shrunk, Served
\* What retention may take: never what the pointer names, never the revision being saved.
LEMMA PruningSpares ==
    ASSUME ConfigInv, op.pc \in PruneCalls
    PROVE  /\ \A r \in Tracked(pointer) : r \in Present \ Removable
           /\ op.pc = "pruneStaged" => op.staged \in Present \ Removable
<1>1. ASSUME NEW r \in Tracked(pointer)
      PROVE  r \in Present \ Removable
  <2>1. r \in NamedBy(pointer)
    BY DEF Tracked, NamedBy
  <2>2. r \in Ids /\ dir[r] \in {"published", "damaged"}
    BY DEF ConfigInv, DiskInv, Whole
  <2>3. r \notin Staging /\ r \in Present
    BY <2>2 DEF Staging, Present
  <2> QED BY <2>1, <2>3 DEF Removable
<1>2. ASSUME op.pc = "pruneStaged"
      PROVE  op.staged \in Present \ Removable
  <2>1. op.staged \in Ids /\ dir[op.staged] = "published"
    BY <1>2 DEF ConfigInv, StagedInv, Saving, Undecided
  <2>2. op.staged # None
    BY <2>1 DEF Ids, None
  <2>3. op.staged \in Retained
    BY <1>2, <2>2 DEF Retained
  <2>4. op.staged \notin Staging /\ op.staged \in Present
    BY <2>1 DEF Staging, Present
  <2> QED BY <2>3, <2>4 DEF Removable
<1> QED BY <1>1, <1>2

LEMMA PruningShrinks ==
    ASSUME ConfigInv, op.pc \in PruneCalls,
           \/ /\ dir' = Pruned /\ content' = Kept(dir')
              /\ overlay' \in {overlay, [r \in Ids |-> IF r \in Present \ Removable THEN overlay[r] ELSE NoOverlay]}
           \/ StoppedPruning /\ UNCHANGED overlay,
           UNCHANGED <<pointer, vault, nextId>>
    PROVE  /\ Shrunk
           /\ op.pc = "pruneStaged" =>
                 dir'[op.staged] = dir[op.staged] /\ content'[op.staged] = content[op.staged] /\ overlay'[op.staged] = overlay[op.staged]
<1> USE NothingTyped
<1>0. dir \in [Ids -> Dirs] /\ content \in [Ids -> AnyProfile] /\ overlay \in [Ids -> Overlays]
  BY DEF ConfigInv, ConfigTypes
<1>1. /\ dir' \in [Ids -> Dirs]
      /\ \A r \in Ids : \/ dir'[r] = dir[r]
                        \/ r \in Removable /\ dir'[r] = "none"
                        \/ r \in Removable /\ r \in Present /\ dir'[r] = "broken"
  <2>1. CASE dir' = Pruned
    BY <1>0, <2>1 DEF Pruned, Dirs
  <2>2. CASE StoppedPruning
    <3>1. PICK gone \in SUBSET Removable, partial \in SUBSET (Removable \cap Present) :
             dir' = [r \in Ids |-> IF r \in gone THEN "none" ELSE IF r \in partial THEN "broken" ELSE dir[r]]
      BY <2>2 DEF StoppedPruning
    <3> QED BY <1>0, <3>1 DEF Dirs
  <2> QED BY <2>1, <2>2
<1>2. content' = [r \in Ids |-> IF dir'[r] = "none" THEN NoProfile ELSE content[r]]
  BY DEF StoppedPruning, Kept
<1>3. /\ overlay' \in [Ids -> Overlays]
      /\ \A r \in Ids : overlay'[r] \in {overlay[r], NoOverlay}
      /\ \A r \in Present \ Removable : overlay'[r] = overlay[r]
  <2>1. CASE overlay' = overlay
    BY <1>0, <2>1
  <2>2. CASE overlay' = [r \in Ids |-> IF r \in Present \ Removable THEN overlay[r] ELSE NoOverlay]
    BY <1>0, <2>2 DEF Present
  <2> QED BY <2>1, <2>2
<1>4. \A r \in Present \ Removable : r \in Ids /\ dir[r] # "none" /\ dir'[r] = dir[r] /\ content'[r] = content[r] /\ overlay'[r] = overlay[r]
  BY <1>1, <1>2, <1>3 DEF Present
<1>5. Shrunk
  <2>1. content' \in [Ids -> AnyProfile] /\ \A r \in Ids : dir'[r] # "none" => content'[r] = content[r]
    BY <1>0, <1>2
  <2>2. \A r \in Ids : dir'[r] \in {dir[r], "none"} \/ (dir'[r] = "broken" /\ dir[r] \in {"published", "broken", "damaged"})
    BY <1>1 DEF Present
  <2>3. \A r \in Tracked(pointer) : dir'[r] = dir[r] /\ content'[r] = content[r] /\ overlay'[r] = overlay[r]
    BY <1>4, PruningSpares
  <2> QED BY <1>1, <1>3, <2>1, <2>2, <2>3 DEF Shrunk
<1> QED BY <1>4, <1>5, PruningSpares

\* The service and the gateway, after directories went.
LEMMA ShrunkService ==
    ASSUME ConfigInv, Shrunk, op.pc # "reload", svc.active # None
    PROVE  /\ pointer = svc.pointer /\ pointer.revision = svc.active /\ pointer # NoPointer /\ svc.up
           /\ \A r \in Tracked(svc.pointer) : r \in Ids /\ dir'[r] \in {"published", "damaged"}
           /\ dir'[svc.active] = "published"
           /\ content'[svc.active] = content[svc.active] /\ overlay'[svc.active] = overlay[svc.active]
           /\ svc.fleet = ApplyMetadataOverlay(content'[svc.active], svc.overlay)
<1>1. /\ pointer = svc.pointer /\ svc.pointer.revision = svc.active /\ Whole(svc.pointer)
      /\ dir[svc.active] = "published" /\ svc.fleet = ApplyMetadataOverlay(content[svc.active], svc.overlay)
  BY DEF ConfigInv, ServiceInv
<1>2. svc.active \in Tracked(pointer)
  BY <1>1 DEF Tracked
<1>3. svc.up
  BY DEF ConfigInv, ServiceInv, Down
<1>4. pointer # NoPointer
  BY <1>1 DEF NoPointer
<1> QED BY <1>1, <1>2, <1>3, <1>4 DEF Shrunk, Whole
\* The identifiers, the view and the service's own promises depend on no file that went.
LEMMA ShrunkRest ==
    ASSUME ConfigInv, Shrunk, UNCHANGED <<daemon, view>>, SameService
    PROVE  DiskInv' /\ IdInv' /\ ViewInv'
<1>1. DiskInv'
  <2>1. daemon'.profile.targets \subseteq vault
    BY DEF ConfigInv, DiskInv
  <2> QED BY <2>1, ShrunkDisk
<1>2. IdInv'
  <2>1. svc.overlay # NoOverlay => \A r \in Ids : overlay'[r].id = svc.overlay.id => r = svc.active /\ overlay'[r] = svc.overlay
    <3>1. \A r \in Ids : overlay'[r] \in {overlay[r], NoOverlay}
      BY DEF Shrunk
    <3>2. svc.overlay # NoOverlay => svc.overlay.id # NoOverlay.id
      BY NothingTyped DEF ConfigInv, IdInv, None, Ids
    <3> QED BY <3>1, <3>2 DEF ConfigInv, IdInv
  <2>2. svc.overlay # NoOverlay =>
           svc.overlay.id \in Ids /\ svc.overlay.id < nextId /\ dir'[svc.overlay.id] = "none" /\ svc.overlay.meta \in Metas
    BY ShrunkIds DEF ConfigInv, IdInv
  <2>3. svc'.overlay = svc.overlay /\ svc'.active = svc.active /\ nextId' = nextId
    BY DEF SameService, Shrunk
  <2> QED BY <2>1, <2>2, <2>3, ShrunkIds DEF IdInv
<1>3. ViewInv'
  <2>1. view.token = ReportedRevision' => view.profile = svc'.fleet
    BY DEF SameService, ReportedRevision, ConfigInv, ViewInv
  <2> QED BY <2>1, ShrunkView
<1> QED BY <1>1, <1>2, <1>3

LEMMA PruneKeeps ==
    ASSUME ConfigInv, Prune \/ PruneFails
    PROVE  ConfigInv'
<1> USE NothingTyped
<1>0. svc \in Services /\ op \in Operations /\ promised \subseteq AnyProfile
  BY DEF ConfigInv, ConfigTypes
<1>1. op.pc \in PruneCalls /\ UNCHANGED <<pointer, vault, nextId, daemon, view>>
  BY DEF Prune, PruneFails
<1>2. /\ Shrunk
      /\ op.pc = "pruneStaged" =>
            dir'[op.staged] = dir[op.staged] /\ content'[op.staged] = content[op.staged] /\ overlay'[op.staged] = overlay[op.staged]
  <2>1. \/ /\ dir' = Pruned /\ content' = Kept(dir')
           /\ overlay' \in {overlay, [r \in Ids |-> IF r \in Present \ Removable THEN overlay[r] ELSE NoOverlay]}
        \/ StoppedPruning /\ UNCHANGED overlay
    BY DEF Prune, PruneFails
  <2> QED BY <1>1, <2>1, PruningShrinks
<1>3. AfterPruning(TRUE) \/ AfterPruning(FALSE)
  <2>1. CASE Prune
    <3>1. WithinLimit \in BOOLEAN
      BY DEF WithinLimit
    <3>2. AfterPruning(WithinLimit)
      BY <2>1 DEF Prune
    <3> HIDE DEF WithinLimit
    <3>3. CASE WithinLimit
      <4>1. WithinLimit = TRUE
        BY <3>1, <3>3
      <4> QED BY <3>2, <4>1
    <3>4. CASE ~WithinLimit
      <4>1. WithinLimit = FALSE
        BY <3>1, <3>4
      <4> QED BY <3>2, <4>1
    <3> QED BY <3>3, <3>4
  <2>2. CASE PruneFails
    BY <2>2 DEF PruneFails
  <2> QED BY <2>1, <2>2
<1>4. \/ op.pc \in {"pruneInit", "pruneApplied"} /\ op' = Idle /\ promised' = {svc.fleet} /\ UNCHANGED svc
      \/ /\ op.pc = "pruneStaged" /\ op' = [op EXCEPT !.pc = "commit"] /\ UNCHANGED promised
         /\ svc' = [svc EXCEPT !.state = "starting"]
      \/ op.pc = "pruneStaged" /\ op' = [op EXCEPT !.pc = "discard"] /\ UNCHANGED <<svc, promised>>
  <2>1. CASE op.pc = "pruneInit"
    BY <1>3, <2>1 DEF AfterPruning
  <2>2. CASE op.pc = "pruneStaged"
    BY <1>3, <2>2 DEF AfterPruning
  <2>3. CASE op.pc = "pruneApplied"
    <3>1. op.profile = svc.fleet
      BY <2>3 DEF ConfigInv, StagedInv
    <3> QED BY <1>3, <2>3, <3>1 DEF AfterPruning
  <2> QED BY <1>1, <2>1, <2>2, <2>3 DEF PruneCalls
<1>5. SameService
  <2>1. CASE UNCHANGED svc
    BY <2>1 DEF SameService
  <2>2. CASE svc' = [svc EXCEPT !.state = "starting"]
    BY <1>0, <2>2 DEF SameService, Services
  <2> QED BY <1>4, <2>1, <2>2
<1>6. svc' \in Services /\ op' \in Operations /\ promised' \subseteq AnyProfile
  <2>1. op' \in Operations
    BY <1>0, <1>4 DEF Operations, Steps, Saving, Undecided
  <2>2. svc' \in Services
    BY <1>0, <1>4 DEF Services, States
  <2>3. svc.fleet \in AnyProfile
    BY <1>0 DEF Services
  <2> QED BY <1>0, <1>4, <2>1, <2>2, <2>3
<1>7. ConfigTypes'
  BY <1>1, <1>2, <1>6 DEF ConfigInv, ConfigTypes, Shrunk
<1>8. DiskInv' /\ IdInv' /\ ViewInv'
  BY <1>1, <1>2, <1>5, ShrunkRest
<1>9. \/ op.pc \in {"pruneInit", "pruneApplied"} /\ op' = Idle /\ op'.pc = "idle" /\ promised' = {svc.fleet} /\ svc' = svc
      \/ /\ op.pc = "pruneStaged" /\ op'.pc \in {"commit", "discard"} /\ UNCHANGED promised
         /\ op'.profile = op.profile /\ op'.staged = op.staged /\ op'.prior = op.prior /\ op'.before = op.before
         /\ op'.pc = "commit" => svc'.state = "starting"
         /\ op'.pc = "discard" => svc' = svc
  <2>1. CASE op.pc = "pruneStaged"
    BY <1>0, <1>4, <2>1 DEF Operations, Services
  <2>2. CASE op.pc # "pruneStaged"
    BY <1>4, <2>2 DEF Idle
  <2> QED BY <2>1, <2>2
<1>10. svc.up /\ (op.pc # "pruneStaged" => svc.state = "ready" /\ daemon.open /\ svc.active # None)
  <2>1. svc.up
    BY <1>1 DEF ConfigInv, ServiceInv, Idle, PruneCalls
  <2>2. op.pc # "pruneStaged" => svc.state = "ready" /\ daemon.open /\ svc.active # None
    BY <1>1 DEF ConfigInv, DaemonInv, PruneCalls
  <2> QED BY <2>1, <2>2
<1>11. /\ svc'.up /\ svc'.active = svc.active /\ svc'.pointer = svc.pointer
       /\ svc'.overlay = svc.overlay /\ svc'.fleet = svc.fleet
  BY <1>5, <1>10 DEF SameService
<1>12. svc.active # None =>
          /\ pointer = svc.pointer /\ pointer.revision = svc.active /\ pointer # NoPointer
          /\ \A r \in Tracked(svc.pointer) : r \in Ids /\ dir'[r] \in {"published", "damaged"}
          /\ dir'[svc.active] = "published"
          /\ content'[svc.active] = content[svc.active] /\ overlay'[svc.active] = overlay[svc.active]
          /\ svc.fleet = ApplyMetadataOverlay(content'[svc.active], svc.overlay)
  BY <1>1, <1>2, ShrunkService DEF PruneCalls
<1>13. ServiceInv'
  <2>1. svc.active # None => Whole(svc.pointer)'
    BY <1>11, <1>12 DEF Whole, Tracked
  <2>2. svc.active = None => svc.pointer = NoPointer /\ svc.overlay = NoOverlay /\ svc.fleet = NoProfile
    BY DEF ConfigInv, ServiceInv
  <2> QED BY <1>1, <1>9, <1>11, <1>12, <2>1, <2>2 DEF ServiceInv
<1>14. DaemonInv'
  <2>1. CASE op.pc # "pruneStaged"
    BY <1>1, <1>9, <1>10, <1>12, <2>1 DEF ConfigInv, DaemonInv
  <2>2. CASE op.pc = "pruneStaged" /\ op'.pc = "discard"
    BY <1>1, <1>9, <1>10, <1>12, <2>2 DEF ConfigInv, DaemonInv
  <2>3. CASE op.pc = "pruneStaged" /\ op'.pc = "commit"
    BY <1>1, <1>9, <1>10, <1>11, <1>12, <2>3 DEF ConfigInv, DaemonInv
  <2> QED BY <1>9, <2>1, <2>2, <2>3
<1>15. StagedInv'
  <2>1. CASE op.pc # "pruneStaged"
    BY <1>9, <2>1 DEF StagedInv, Saving, Undecided
  <2>2. CASE op.pc = "pruneStaged"
    <3>1. /\ op.staged \in Ids /\ op.staged < nextId /\ dir[op.staged] = "published"
          /\ overlay[op.staged] = NoOverlay /\ content[op.staged] = op.profile
          /\ op.profile.targets \subseteq vault
          /\ op.staged # svc.active /\ op.staged \notin Tracked(svc.pointer) /\ op.staged \notin Tracked(pointer)
      BY <2>2 DEF ConfigInv, StagedInv, Saving, Undecided
    <3>2. dir'[op.staged] = "published" /\ content'[op.staged] = op.profile /\ overlay'[op.staged] = NoOverlay
      BY <1>2, <2>2, <3>1
    <3>3. Tracked(svc.pointer)' = Tracked(svc.pointer) /\ Tracked(pointer)' = Tracked(pointer)
      BY <1>1, <1>11 DEF Tracked
    <3> QED BY <1>1, <1>9, <1>11, <2>2, <3>1, <3>2, <3>3 DEF StagedInv, Saving, Undecided
  <2> QED BY <2>1, <2>2
<1>16. PromiseInv'
  <2>1. CASE op.pc # "pruneStaged"
    <3>1. pointer # NoPointer /\ dir'[pointer.revision] = "published" /\ Served(pointer.revision)' = svc.fleet
      <4>1. overlay[svc.active] = svc.overlay
        BY <1>9, <1>10, <2>1 DEF ConfigInv, DaemonInv
      <4> QED BY <1>1, <1>10, <1>12, <2>1, <4>1 DEF Served
    <3>2. Recovers(promised, None)'
      BY <1>1, <1>9, <2>1, <3>1 DEF Recovers
    <3> QED BY <1>1, <1>9, <2>1, <3>2 DEF PromiseInv, Saving, Undecided
  <2>2. CASE op.pc = "pruneStaged"
    <3>1. Recovers(promised, None)'
      BY <1>1, <1>2, <1>9, <2>2, ShrunkRecovers DEF ConfigInv, PromiseInv, Recovers, None, Ids
    <3>2. Recovers(op.before, op.staged)'
      <4>1. Recovers(op.before, op.staged)
        BY <2>2 DEF ConfigInv, PromiseInv, Undecided
      <4> QED BY <1>1, <1>2, <1>9, <2>2, <4>1, ShrunkRecovers DEF Recovers
    <3> QED BY <1>1, <1>9, <1>11, <2>2, <3>1, <3>2 DEF ConfigInv, PromiseInv, Saving, Undecided
  <2> QED BY <2>1, <2>2
<1> QED BY <1>7, <1>8, <1>13, <1>14, <1>15, <1>16 DEF ConfigInv
----------------------------------------------------------------------------
(* Reading, and saving metadata or removals as an overlay.                 *)

\* What the service reports is fresher than any identifier still to come, and names one fleet.
LEMMA ReportedOnce ==
    ASSUME ConfigInv, svc.up, op.pc = "idle"
    PROVE  /\ ReportedRevision \in SomeId /\ ReportedRevision < nextId
           /\ ReportedRevision = None => svc.fleet = NoProfile
           /\ \A r \in Ids : dir[r] # "none" /\ ReportedRevision = r => svc.fleet = content[r]
           /\ \A r \in Ids : dir[r] # "none" /\ overlay[r] # NoOverlay /\ ReportedRevision = overlay[r].id
                                => svc.fleet = Served(r)
<1>0. svc \in Services /\ nextId \in 1..(MaxId + 1) /\ MaxId \in Nat
  BY MaxIdAssumption DEF ConfigInv, ConfigTypes
<1>1. CASE svc.overlay # NoOverlay
  <2>1. ReportedRevision = svc.overlay.id /\ svc.overlay.id \in Ids /\ svc.overlay.id < nextId /\ dir[svc.overlay.id] = "none"
    BY <1>1 DEF ReportedRevision, ConfigInv, IdInv
  <2>2. \A r \in Ids : overlay[r].id = svc.overlay.id => r = svc.active /\ overlay[r] = svc.overlay
    BY <1>1 DEF ConfigInv, IdInv
  <2>3. \A r \in Ids : r = svc.active => svc.fleet = ApplyMetadataOverlay(content[r], svc.overlay)
    BY DEF ConfigInv, ServiceInv, None, Ids
  <2>4. \A r \in Ids : ReportedRevision = overlay[r].id => svc.fleet = Served(r)
    BY <2>1, <2>2, <2>3 DEF Served
  <2> QED BY <2>1, <2>4 DEF SomeId, None, Ids
<1>2. CASE svc.overlay = NoOverlay
  <2>1. ReportedRevision = svc.active /\ svc.active \in SomeId
    BY <1>0, <1>2 DEF ReportedRevision, Services
  <2>2. CASE svc.active = None
    <3>1. svc.fleet = NoProfile
      BY <2>2 DEF ConfigInv, ServiceInv
    <3>2. \A r \in Ids : r # None /\ (overlay[r] # NoOverlay => overlay[r].id # None)
      BY DEF ConfigInv, IdInv, None, Ids
    <3> QED BY <1>0, <2>1, <2>2, <3>1, <3>2 DEF None
  <2>3. CASE svc.active # None
    <3>1. svc.active \in Ids /\ dir[svc.active] = "published" /\ svc.fleet = content[svc.active]
      BY <1>2, <2>1, <2>3 DEF ConfigInv, ServiceInv, SomeId, ApplyMetadataOverlay
    <3>2. svc.active < nextId
      BY <1>0, <3>1 DEF ConfigInv, DiskInv, Ids
    <3>3. \A r \in Ids : overlay[r] # NoOverlay => overlay[r].id # svc.active
      BY <3>1 DEF ConfigInv, IdInv
    <3> QED BY <2>1, <2>3, <3>1, <3>2, <3>3
  <2> QED BY <2>2, <2>3
<1> QED BY <1>1, <1>2

LEMMA ReadKeeps ==
    ASSUME ConfigInv, Read
    PROVE  ConfigInv'
<1>0. svc \in Services
  BY DEF ConfigInv, ConfigTypes
<1>1. /\ UNCHANGED <<dir, content, pointer, overlay, vault, nextId, svc, daemon, op, promised>>
      /\ svc.up /\ op.pc = "idle" /\ view' = [token |-> ReportedRevision, profile |-> svc.fleet]
  BY DEF Read, durable
<1>2. ConfigTypes'
  <2>1. view' \in Views
    BY <1>0, <1>1, ReportedOnce DEF Views, Services
  <2> QED BY <1>1, <2>1 DEF ConfigInv, ConfigTypes
<1>3. DiskInv' /\ IdInv' /\ ServiceInv'
  <2>1. DiskInv'
    BY <1>1 DEF ConfigInv, DiskInv, Whole, Tracked
  <2>2. IdInv'
    BY <1>1 DEF ConfigInv, IdInv
  <2>3. ServiceInv'
    BY <1>1 DEF ConfigInv, ServiceInv, Whole, Tracked
  <2> QED BY <2>1, <2>2, <2>3
<1>4. DaemonInv'
  BY <1>1 DEF ConfigInv, DaemonInv
<1>5. StagedInv'
  BY <1>1 DEF StagedInv, Saving, Undecided
<1>6. PromiseInv'
  BY <1>1 DEF ConfigInv, PromiseInv, Recovers, Served
<1>7. ViewInv'
  BY <1>1, ReportedOnce DEF ViewInv, Served, ReportedRevision
<1> QED BY <1>2, <1>3, <1>4, <1>5, <1>6, <1>7 DEF ConfigInv

\* The overlay that a save writes turns the base revision into the profile that was asked for.
LEMMA OverlayYields ==
    ASSUME NEW base \in AnyProfile, NEW o \in Overlays, o # NoOverlay => o.meta \in Metas,
           NEW p \in Profiles, p.targets \subseteq ApplyMetadataOverlay(base, o).targets, NEW i \in Ids
    PROVE  LET new == [id |-> i, meta |-> p.meta, removed |-> o.removed \cup (ApplyMetadataOverlay(base, o).targets \ p.targets)]
           IN  new \in Overlays /\ new # NoOverlay /\ ApplyMetadataOverlay(base, new) = p
<1> DEFINE f == ApplyMetadataOverlay(base, o)
           new == [id |-> i, meta |-> p.meta, removed |-> o.removed \cup (f.targets \ p.targets)]
<1>1. f.targets = base.targets \ o.removed
  BY AppliedTyped
<1>2. base.targets \subseteq Targets /\ o.removed \subseteq Targets
  BY DEF AnyProfile, Profiles, NoProfile, Overlays
<1>3. p = [targets |-> p.targets, meta |-> p.meta] /\ p.meta \in Metas /\ p.targets \subseteq f.targets
  BY DEF Profiles
<1>4. new \in Overlays
  <2>1. new.removed \subseteq Targets
    BY <1>1, <1>2
  <2> QED BY <1>3, <2>1 DEF Overlays, SomeId
<1>5. new # NoOverlay
  BY NothingTyped DEF None, Ids
<1>6. base.targets \ new.removed = p.targets
  BY <1>1, <1>3
<1>7. ApplyMetadataOverlay(base, new) = [targets |-> base.targets \ new.removed, meta |-> new.meta]
  BY <1>5 DEF ApplyMetadataOverlay
<1> QED BY <1>3, <1>4, <1>5, <1>6, <1>7

LEMMA SaveOverlayKeeps ==
    ASSUME ConfigInv, NEW p \in Profiles, SaveOverlay(p)
    PROVE  ConfigInv'
<1> USE NothingTyped
<1> DEFINE o == [id |-> nextId, meta |-> p.meta, removed |-> svc.overlay.removed \cup (svc.fleet.targets \ p.targets)]
           a == svc.active
<1>0. /\ svc \in Services /\ content \in [Ids -> AnyProfile] /\ overlay \in [Ids -> Overlays] /\ dir \in [Ids -> Dirs]
      /\ nextId \in 1..(MaxId + 1) /\ MaxId \in Nat /\ promised \subseteq AnyProfile /\ view \in Views
  BY MaxIdAssumption DEF ConfigInv, ConfigTypes
<1>1. /\ UNCHANGED <<dir, content, pointer, vault, svc, daemon, view>>
      /\ svc.up /\ nextId \in Ids /\ op.pc = "idle" /\ svc.state = "ready"
      /\ overlay' = [overlay EXCEPT ![a] = o] /\ nextId' = nextId + 1
      /\ op' = [pc |-> "overlay", profile |-> p, staged |-> None, prior |-> "ready", before |-> promised]
      /\ promised' = promised \cup {p}
  BY DEF SaveOverlay, Admitted, IsMetadataOnly, IsRemovalOnly, Live, Started
<1>2. p.targets \subseteq svc.fleet.targets
  BY DEF SaveOverlay, IsMetadataOnly, IsRemovalOnly
<1>3. daemon.open /\ a # None /\ a \in Ids
  BY <1>0, <1>1 DEF ConfigInv, DaemonInv, Services, SomeId
<1>4. /\ dir[a] = "published" /\ pointer = svc.pointer /\ pointer.revision = a /\ a < nextId
      /\ svc.fleet = ApplyMetadataOverlay(content[a], svc.overlay)
      /\ overlay[a] = svc.overlay /\ daemon.profile = svc.fleet /\ svc.fleet \in promised
  <2>1. dir[a] = "published" /\ pointer = svc.pointer /\ pointer.revision = a /\ svc.fleet = ApplyMetadataOverlay(content[a], svc.overlay)
    BY <1>1, <1>3 DEF ConfigInv, ServiceInv
  <2>2. a < nextId
    BY <1>0, <1>3, <2>1 DEF ConfigInv, DiskInv, Ids
  <2>3. overlay[a] = svc.overlay /\ daemon.profile = svc.fleet
    BY <1>1, <1>3 DEF ConfigInv, DaemonInv
  <2>4. svc.fleet \in promised
    BY <1>3 DEF ConfigInv, PromiseInv
  <2> QED BY <2>1, <2>2, <2>3, <2>4
<1>5. o \in Overlays /\ o # NoOverlay /\ ApplyMetadataOverlay(content[a], o) = p
  <2>1. content[a] \in AnyProfile /\ svc.overlay \in Overlays
    BY <1>0, <1>3 DEF Services
  <2>2. svc.overlay # NoOverlay => svc.overlay.meta \in Metas
    BY DEF ConfigInv, IdInv
  <2>3. p.targets \subseteq ApplyMetadataOverlay(content[a], svc.overlay).targets
    BY <1>2, <1>4
  <2>4. nextId \in Ids
    BY <1>1
  <2> QED BY <1>4, <2>1, <2>2, <2>3, <2>4, OverlayYields
<1>6. o.id = nextId /\ o.meta \in Metas
  BY DEF Profiles
<1> HIDE DEF o
<1>7. \A r \in Ids : overlay'[r] = IF r = a THEN o ELSE overlay[r]
  BY <1>0, <1>1
<1>8. op'.pc = "overlay" /\ op'.profile = p /\ op'.before = promised /\ op' \in Operations
  BY <1>0, <1>1 DEF Operations, Steps, AnyProfile, SomeId, States
<1>9. ConfigTypes'
  <2>1. overlay' \in [Ids -> Overlays]
    BY <1>0, <1>1, <1>5
  <2>2. nextId' \in 1..(MaxId + 1)
    BY <1>0, <1>1 DEF Ids
  <2>3. promised' \subseteq AnyProfile
    BY <1>0, <1>1 DEF AnyProfile
  <2> QED BY <1>1, <1>8, <2>1, <2>2, <2>3 DEF ConfigInv, ConfigTypes
<1>10. DiskInv'
  <2>1. \A r \in Ids : r >= nextId + 1 => r >= nextId /\ r # a
    BY <1>0, <1>3, <1>4 DEF Ids
  <2>2. \A r \in Ids : r >= nextId' => dir[r] = "none" /\ overlay'[r] = NoOverlay
    BY <1>1, <1>7, <2>1 DEF ConfigInv, DiskInv
  <2>3. pointer # NoPointer
    BY <1>3, <1>4 DEF NoPointer
  <2> QED BY <1>1, <2>2, <2>3 DEF ConfigInv, DiskInv, Whole, Tracked
<1>11. IdInv'
  <2>1. dir[nextId] = "none" /\ nextId < nextId + 1
    BY <1>0, <1>1 DEF ConfigInv, DiskInv, Ids
  <2>2. \A r \in Ids : overlay[r] # NoOverlay => overlay[r].id \in Ids /\ overlay[r].id < nextId /\ overlay[r].id < nextId + 1
    BY <1>0 DEF ConfigInv, IdInv, Ids
  <2>3. \A r \in Ids : overlay[r].id # nextId
    BY <1>0, <1>1, <2>2 DEF None, Ids
  <2>4. \A r \in Ids : overlay'[r] # NoOverlay =>
          overlay'[r].id \in Ids /\ overlay'[r].id < nextId + 1 /\ dir[overlay'[r].id] = "none" /\ overlay'[r].meta \in Metas
    BY <1>1, <1>6, <1>7, <2>1, <2>2 DEF ConfigInv, IdInv
  <2>5. \A r, s \in Ids : overlay'[r] # NoOverlay /\ overlay'[r].id = overlay'[s].id => r = s
    BY <1>6, <1>7, <2>3 DEF ConfigInv, IdInv
  <2>6. svc.overlay # NoOverlay =>
          /\ svc.overlay.id \in Ids /\ svc.overlay.id < nextId + 1 /\ dir[svc.overlay.id] = "none" /\ svc.overlay.meta \in Metas
          /\ \A r \in Ids : overlay'[r].id = svc.overlay.id => r = svc.active /\ overlay'[r] = svc.overlay
    <3>1. ASSUME svc.overlay # NoOverlay
          PROVE  svc.overlay.id \in Ids /\ svc.overlay.id < nextId /\ dir[svc.overlay.id] = "none" /\ svc.overlay.meta \in Metas
      BY <3>1 DEF ConfigInv, IdInv
    <3>2. ASSUME svc.overlay # NoOverlay, NEW r \in Ids, overlay'[r].id = svc.overlay.id
          PROVE  r = svc.active /\ overlay'[r] = svc.overlay
      <4>1. r # a
        BY <1>0, <1>6, <1>7, <3>1, <3>2 DEF Ids
      <4> QED BY <1>7, <3>2, <4>1 DEF ConfigInv, IdInv
    <3>3. svc.overlay # NoOverlay => svc.overlay.id < nextId + 1
      BY <1>0, <3>1 DEF Ids
    <3> QED BY <3>1, <3>2, <3>3
  <2> QED BY <1>1, <2>4, <2>5, <2>6 DEF IdInv
<1>12. ServiceInv'
  BY <1>1, <1>8 DEF ConfigInv, ServiceInv, Whole, Tracked
<1>13. DaemonInv'
  BY <1>1, <1>3, <1>4, <1>8 DEF DaemonInv
<1>14. StagedInv'
  <2>1. Served(svc.active)' = p /\ overlay'[a] # NoOverlay
    BY <1>1, <1>3, <1>5, <1>7 DEF Served
  <2> QED BY <1>1, <1>2, <1>8, <2>1 DEF StagedInv, Saving, Undecided
<1>15. PromiseInv'
  <2>1. Recovers(promised, None)'
    <3>1. Served(pointer.revision)' = p
      BY <1>1, <1>3, <1>4, <1>5, <1>7 DEF Served
    <3>2. pointer # NoPointer
      BY <1>3, <1>4 DEF NoPointer
    <3> QED BY <1>1, <1>4, <3>1, <3>2 DEF Recovers
  <2> QED BY <1>1, <1>4, <1>8, <2>1 DEF PromiseInv, Saving, Undecided
<1>16. ViewInv'
  <2>1. view.token < nextId /\ view.token < nextId + 1
    BY <1>0 DEF ConfigInv, ViewInv, Views, SomeId, None, Ids
  <2>2. \A r \in Ids : dir[r] # "none" /\ overlay'[r] # NoOverlay /\ view.token = overlay'[r].id
                         => view.profile = ApplyMetadataOverlay(content[r], overlay'[r])
    <3> SUFFICES ASSUME NEW r \in Ids, dir[r] # "none", overlay'[r] # NoOverlay, view.token = overlay'[r].id
                 PROVE  view.profile = ApplyMetadataOverlay(content[r], overlay'[r])
      OBVIOUS
    <3>1. r # a
      BY <1>0, <1>6, <1>7, <2>1 DEF Views, SomeId, None, Ids
    <3> QED BY <1>7, <3>1 DEF ConfigInv, ViewInv, Served
  <2>3. ReportedRevision' = ReportedRevision
    BY <1>1 DEF ReportedRevision
  <2> QED BY <1>1, <2>1, <2>2, <2>3 DEF ConfigInv, ViewInv, Served
<1> QED BY <1>9, <1>10, <1>11, <1>12, <1>13, <1>14, <1>15, <1>16 DEF ConfigInv
\* While an overlay is being applied, the gateway still serves the fleet as it was.
LEMMA OverlayPending ==
    ASSUME ConfigInv, op.pc = "overlay"
    PROVE  /\ svc.up /\ svc.state = "ready" /\ daemon.open /\ daemon.profile = svc.fleet
           /\ svc.active \in Ids /\ svc.active # None /\ dir[svc.active] = "published" /\ svc.active < nextId
           /\ pointer = svc.pointer /\ pointer.revision = svc.active /\ pointer # NoPointer
           /\ Served(svc.active) = op.profile /\ overlay[svc.active] # NoOverlay
           /\ svc.fleet = ApplyMetadataOverlay(content[svc.active], svc.overlay)
           /\ svc.fleet \in promised /\ svc.fleet \in op.before /\ op.before \subseteq promised
<1>0. svc \in Services /\ nextId \in 1..(MaxId + 1) /\ MaxId \in Nat
  BY MaxIdAssumption DEF ConfigInv, ConfigTypes
<1>1. svc.state = "ready" /\ daemon.open /\ svc.active # None /\ daemon.profile = svc.fleet
  BY DEF ConfigInv, DaemonInv
<1>2. svc.up
  BY DEF ConfigInv, ServiceInv, Idle
<1>3. svc.active \in Ids
  BY <1>0, <1>1 DEF Services, SomeId
<1>4. /\ dir[svc.active] = "published" /\ pointer = svc.pointer /\ pointer.revision = svc.active
      /\ svc.fleet = ApplyMetadataOverlay(content[svc.active], svc.overlay)
  BY <1>1 DEF ConfigInv, ServiceInv
<1>5. svc.active < nextId
  BY <1>0, <1>3, <1>4 DEF ConfigInv, DiskInv, Ids
<1>6. pointer # NoPointer
  BY <1>1, <1>4 DEF NoPointer
<1>7. Served(svc.active) = op.profile /\ overlay[svc.active] # NoOverlay
  BY DEF ConfigInv, StagedInv
<1>8. svc.fleet \in promised /\ svc.fleet \in op.before /\ op.before \subseteq promised
  BY <1>1 DEF ConfigInv, PromiseInv
<1> QED BY <1>1, <1>2, <1>3, <1>4, <1>5, <1>6, <1>7, <1>8

LEMMA OverlayAppliedKeeps ==
    ASSUME ConfigInv, OverlayApplied
    PROVE  ConfigInv'
<1> USE NothingTyped
<1> DEFINE a == svc.active
<1>0. /\ svc \in Services /\ daemon \in Daemons /\ op \in Operations /\ overlay \in [Ids -> Overlays]
      /\ content \in [Ids -> AnyProfile]
  BY DEF ConfigInv, ConfigTypes
<1>1. /\ UNCHANGED <<dir, content, pointer, overlay, vault, nextId, view>>
      /\ op.pc = "overlay" /\ op' = Idle /\ promised' = {op.profile}
      /\ daemon' = [daemon EXCEPT !.profile = op.profile]
      /\ svc' = [svc EXCEPT !.overlay = overlay[svc.active], !.fleet = op.profile]
  BY DEF OverlayApplied, durable
<1>2. /\ svc.up /\ svc.state = "ready" /\ daemon.open /\ daemon.profile = svc.fleet
      /\ a \in Ids /\ a # None /\ dir[a] = "published" /\ a < nextId
      /\ pointer = svc.pointer /\ pointer.revision = a /\ pointer # NoPointer
      /\ Served(a) = op.profile /\ overlay[a] # NoOverlay
  BY <1>1, OverlayPending
<1>3. op.profile \in AnyProfile /\ overlay[a] \in Overlays
  BY <1>0, <1>2 DEF Operations
<1>4. /\ svc' \in Services /\ svc'.up /\ svc'.state = "ready" /\ svc'.active = a /\ svc'.pointer = svc.pointer
      /\ svc'.overlay = overlay[a] /\ svc'.fleet = op.profile
  BY <1>0, <1>1, <1>2, <1>3 DEF Services
<1>5. daemon' \in Daemons /\ daemon'.open /\ daemon'.profile = op.profile
  BY <1>0, <1>1, <1>2, <1>3 DEF Daemons
<1>6. op' \in Operations /\ op' = Idle /\ op'.pc = "idle"
  BY <1>1 DEF Idle
<1>7. ConfigTypes'
  BY <1>1, <1>3, <1>4, <1>5, <1>6 DEF ConfigInv, ConfigTypes
<1>8. DiskInv'
  <2>1. daemon'.profile.targets \subseteq vault
    <3>1. op.profile.targets \subseteq svc.fleet.targets
      BY <1>1 DEF ConfigInv, StagedInv
    <3> QED BY <1>2, <1>5, <3>1 DEF ConfigInv, DiskInv
  <2> QED BY <1>1, <2>1 DEF ConfigInv, DiskInv, Whole, Tracked
<1>9. IdInv'
  <2>1. \A r \in Ids : overlay[r].id = overlay[a].id => r = a /\ overlay[r] = overlay[a]
    BY <1>2 DEF ConfigInv, IdInv
  <2>2. overlay[a].id \in Ids /\ overlay[a].id < nextId /\ dir[overlay[a].id] = "none" /\ overlay[a].meta \in Metas
    BY <1>2 DEF ConfigInv, IdInv
  <2> QED BY <1>1, <1>4, <2>1, <2>2 DEF ConfigInv, IdInv
<1>10. ServiceInv'
  <2>1. Whole(svc.pointer)'
    BY <1>1, <1>2, <1>4 DEF ConfigInv, DiskInv, Whole, Tracked
  <2>2. op.profile = ApplyMetadataOverlay(content[a], overlay[a])
    BY <1>2 DEF Served
  <2> QED BY <1>1, <1>2, <1>4, <1>6, <2>1, <2>2 DEF ServiceInv
<1>11. DaemonInv'
  BY <1>1, <1>2, <1>4, <1>5, <1>6 DEF DaemonInv
<1>12. StagedInv'
  BY <1>6 DEF StagedInv, Saving, Undecided
<1>13. PromiseInv'
  <2>1. Recovers(promised, None)'
    BY <1>1, <1>2 DEF Recovers, Served
  <2> QED BY <1>1, <1>4, <1>6, <2>1 DEF PromiseInv, Saving, Undecided
<1>14. ViewInv'
  <2>1. view.token = ReportedRevision' => view.profile = op.profile
    <3>1. ReportedRevision' = overlay[a].id
      BY <1>2, <1>4 DEF ReportedRevision
    <3> QED BY <1>2, <3>1 DEF ConfigInv, ViewInv
  <2> QED BY <1>1, <1>4, <2>1 DEF ConfigInv, ViewInv, Served
<1> QED BY <1>7, <1>8, <1>9, <1>10, <1>11, <1>12, <1>13, <1>14 DEF ConfigInv

LEMMA OverlayRefusedKeeps ==
    ASSUME ConfigInv, OverlayRefused
    PROVE  ConfigInv'
<1> USE NothingTyped
<1> DEFINE a == svc.active
<1>0. /\ svc \in Services /\ op \in Operations /\ overlay \in [Ids -> Overlays] /\ promised \subseteq AnyProfile
  BY DEF ConfigInv, ConfigTypes
<1>1. /\ UNCHANGED <<dir, content, pointer, vault, nextId, svc, daemon, view>>
      /\ op.pc = "overlay" /\ op' = Idle /\ promised' = op.before
      /\ overlay' = [overlay EXCEPT ![a] = svc.overlay]
  BY DEF OverlayRefused
<1>2. /\ svc.up /\ svc.state = "ready" /\ daemon.open /\ daemon.profile = svc.fleet
      /\ a \in Ids /\ a # None /\ dir[a] = "published" /\ a < nextId
      /\ pointer = svc.pointer /\ pointer.revision = a /\ pointer # NoPointer
      /\ svc.fleet = ApplyMetadataOverlay(content[a], svc.overlay)
      /\ svc.fleet \in op.before /\ op.before \subseteq promised
  BY <1>1, OverlayPending
<1>3. op'.pc = "idle"
  BY <1>1 DEF Idle
<1>4. svc.overlay \in Overlays
  BY <1>0 DEF Services
<1>5. \A r \in Ids : overlay'[r] = IF r = a THEN svc.overlay ELSE overlay[r]
  BY <1>0, <1>1
<1>6. ConfigTypes'
  <2>1. overlay' \in [Ids -> Overlays]
    BY <1>0, <1>1, <1>4
  <2> QED BY <1>0, <1>1, <1>2, <2>1 DEF ConfigInv, ConfigTypes
<1>7. DiskInv'
  <2>1. \A r \in Ids : r >= nextId => r # a
    BY <1>2 DEF ConfigInv, DiskInv
  <2> QED BY <1>1, <1>2, <1>5, <2>1 DEF ConfigInv, DiskInv, Whole, Tracked
<1>8. IdInv'
  <2>1. svc.overlay # NoOverlay =>
          /\ svc.overlay.id \in Ids /\ svc.overlay.id < nextId /\ dir[svc.overlay.id] = "none" /\ svc.overlay.meta \in Metas
          /\ \A r \in Ids : overlay[r].id = svc.overlay.id => r = a /\ overlay[r] = svc.overlay
    BY DEF ConfigInv, IdInv
  <2>2. \A r \in Ids : overlay'[r] # NoOverlay =>
          overlay'[r].id \in Ids /\ overlay'[r].id < nextId /\ dir[overlay'[r].id] = "none" /\ overlay'[r].meta \in Metas
    BY <1>5, <2>1 DEF ConfigInv, IdInv
  <2>3. \A r, s \in Ids : overlay'[r] # NoOverlay /\ overlay'[r].id = overlay'[s].id => r = s
    <3> SUFFICES ASSUME NEW r \in Ids, NEW s \in Ids, overlay'[r] # NoOverlay, overlay'[r].id = overlay'[s].id
                 PROVE  r = s
      OBVIOUS
    <3>1. CASE r = a
      <4>1. overlay'[s].id = svc.overlay.id /\ svc.overlay # NoOverlay
        BY <1>5, <3>1
      <4> QED BY <1>5, <2>1, <3>1, <4>1
    <3>2. CASE r # a /\ s = a
      <4>1. overlay[r] # NoOverlay /\ overlay[r].id = svc.overlay.id
        BY <1>5, <3>2
      <4>2. overlay[r].id \in Ids
        BY <4>1 DEF ConfigInv, IdInv
      <4>3. svc.overlay # NoOverlay
        BY <4>1, <4>2 DEF None, Ids
      <4> QED BY <2>1, <3>2, <4>1, <4>3
    <3>3. CASE r # a /\ s # a
      BY <1>5, <3>3 DEF ConfigInv, IdInv
    <3> QED BY <3>1, <3>2, <3>3
  <2>4. svc.overlay # NoOverlay => \A r \in Ids : overlay'[r].id = svc.overlay.id => r = a /\ overlay'[r] = svc.overlay
    BY <1>5, <2>1
  <2> QED BY <1>1, <2>1, <2>2, <2>3, <2>4 DEF IdInv
<1>9. ServiceInv'
  BY <1>1, <1>2, <1>3 DEF ConfigInv, ServiceInv, Whole, Tracked
<1>10. DaemonInv'
  BY <1>1, <1>2, <1>3, <1>5 DEF DaemonInv
<1>11. StagedInv'
  BY <1>3 DEF StagedInv, Saving, Undecided
<1>12. PromiseInv'
  <2>1. Served(pointer.revision)' = svc.fleet
    BY <1>1, <1>2, <1>5 DEF Served
  <2>2. Recovers(promised, None)'
    BY <1>1, <1>2, <2>1 DEF Recovers
  <2> QED BY <1>1, <1>2, <1>3, <2>2 DEF PromiseInv, Saving, Undecided
<1>13. ViewInv'
  <2>1. view.token = ReportedRevision => view.profile = svc.fleet
    BY DEF ConfigInv, ViewInv
  <2>2. \A r \in Ids : dir[r] # "none" /\ overlay'[r] # NoOverlay /\ view.token = overlay'[r].id
                         => view.profile = ApplyMetadataOverlay(content[r], overlay'[r])
    <3> SUFFICES ASSUME NEW r \in Ids, dir[r] # "none", overlay'[r] # NoOverlay, view.token = overlay'[r].id
                 PROVE  view.profile = ApplyMetadataOverlay(content[r], overlay'[r])
      OBVIOUS
    <3>1. CASE r = a
      BY <1>2, <1>5, <2>1, <3>1 DEF ReportedRevision
    <3>2. CASE r # a
      BY <1>5, <3>2 DEF ConfigInv, ViewInv, Served
    <3> QED BY <3>1, <3>2
  <2>3. ReportedRevision' = ReportedRevision
    BY <1>1 DEF ReportedRevision
  <2> QED BY <1>1, <2>2, <2>3 DEF ConfigInv, ViewInv, Served
<1> QED BY <1>6, <1>7, <1>8, <1>9, <1>10, <1>11, <1>12, <1>13 DEF ConfigInv

\* Nothing is served any more; the files and the service's fields stay.
LEMMA OverlayStuckKeeps ==
    ASSUME ConfigInv, OverlayStuck
    PROVE  ConfigInv'
<1> USE NothingTyped
<1>0. svc \in Services
  BY DEF ConfigInv, ConfigTypes
<1>1. /\ UNCHANGED <<dir, content, pointer, overlay, vault, nextId, view, promised>>
      /\ op.pc = "overlay" /\ op' = Idle /\ daemon' = NoDaemon
      /\ svc' = [svc EXCEPT !.state = "error", !.trusted = FALSE]
  BY DEF OverlayStuck, durable
<1>2. svc.up /\ svc.active # None
  BY <1>1, OverlayPending
<1>3. /\ svc' \in Services /\ svc'.up /\ svc'.state = "error" /\ svc'.active = svc.active /\ svc'.pointer = svc.pointer
      /\ svc'.overlay = svc.overlay /\ svc'.fleet = svc.fleet
  BY <1>0, <1>1, <1>2 DEF Services, States
<1>4. op'.pc = "idle" /\ ~daemon'.open /\ daemon'.profile.targets = {}
  BY <1>1 DEF Idle
<1>5. ConfigTypes'
  BY <1>1, <1>3 DEF ConfigInv, ConfigTypes
<1>6. DiskInv'
  BY <1>1, <1>4 DEF ConfigInv, DiskInv, Whole, Tracked
<1>7. IdInv'
  BY <1>1, <1>3 DEF ConfigInv, IdInv
<1>8. ServiceInv'
  BY <1>1, <1>2, <1>3, <1>4 DEF ConfigInv, ServiceInv, Whole, Tracked
<1>9. DaemonInv'
  BY <1>1, <1>3, <1>4 DEF DaemonInv
<1>10. StagedInv'
  BY <1>4 DEF StagedInv, Saving, Undecided
<1>11. PromiseInv'
  BY <1>1, <1>4 DEF ConfigInv, PromiseInv, Recovers, Served, Saving, Undecided
<1>12. ViewInv'
  BY <1>1, <1>3 DEF ConfigInv, ViewInv, ReportedRevision, Served
<1> QED BY <1>5, <1>6, <1>7, <1>8, <1>9, <1>10, <1>11, <1>12 DEF ConfigInv
----------------------------------------------------------------------------
(* Staging, publishing and committing a new revision.                      *)

LEMMA SaveFullKeeps ==
    ASSUME ConfigInv, NEW p \in Profiles, SaveFull(p)
    PROVE  ConfigInv'
<1> USE NothingTyped
<1>0. /\ svc \in Services /\ content \in [Ids -> AnyProfile] /\ overlay \in [Ids -> Overlays] /\ dir \in [Ids -> Dirs]
      /\ nextId \in 1..(MaxId + 1) /\ MaxId \in Nat /\ promised \subseteq AnyProfile /\ view \in Views /\ pointer \in Pointers
  BY MaxIdAssumption DEF ConfigInv, ConfigTypes
<1>1. /\ UNCHANGED <<pointer, overlay, vault, svc, daemon, view>>
      /\ svc.up /\ nextId \in Ids /\ op.pc = "idle" /\ p.targets \subseteq vault
      /\ dir' = [dir EXCEPT ![nextId] = "staging"] /\ content' = [content EXCEPT ![nextId] = p]
      /\ nextId' = nextId + 1
      /\ op' = [pc |-> "publish", profile |-> p, staged |-> nextId, prior |-> svc.state, before |-> promised]
      /\ promised' = promised \cup {p}
  BY DEF SaveFull, Admitted, Started
<1>2. dir[nextId] = "none" /\ overlay[nextId] = NoOverlay /\ nextId # None
  BY <1>0, <1>1 DEF ConfigInv, DiskInv, Ids, None
<1>3. \A r \in Ids : dir'[r] = (IF r = nextId THEN "staging" ELSE dir[r]) /\ content'[r] = (IF r = nextId THEN p ELSE content[r])
  BY <1>0, <1>1
<1>4. svc.active # None =>
         /\ svc.active \in Ids /\ dir[svc.active] = "published" /\ pointer = svc.pointer
         /\ svc.pointer.revision = svc.active /\ svc.fleet = ApplyMetadataOverlay(content[svc.active], svc.overlay)
  BY <1>0, <1>1 DEF ConfigInv, ServiceInv, Services, SomeId
<1>5. nextId \notin Tracked(pointer) /\ nextId \notin Tracked(svc.pointer) /\ nextId # svc.active
  <2>1. nextId \notin Tracked(pointer)
    BY <1>2 DEF ConfigInv, DiskInv, Whole
  <2>2. CASE svc.active = None
    BY <1>2, <2>1, <2>2 DEF ConfigInv, ServiceInv
  <2>3. CASE svc.active # None
    BY <1>2, <1>4, <2>1, <2>3
  <2> QED BY <2>1, <2>2, <2>3
<1>6. /\ op'.pc = "publish" /\ op'.profile = p /\ op'.staged = nextId /\ op'.prior = svc.state /\ op'.before = promised
      /\ op' \in Operations
  BY <1>0, <1>1 DEF Operations, Steps, Saving, Undecided, AnyProfile, SomeId, Services
<1>7. ConfigTypes'
  <2>1. dir' \in [Ids -> Dirs] /\ content' \in [Ids -> AnyProfile]
    BY <1>0, <1>1 DEF Dirs, AnyProfile
  <2>2. nextId' \in 1..(MaxId + 1)
    BY <1>0, <1>1 DEF Ids
  <2>3. promised' \subseteq AnyProfile
    BY <1>0, <1>1 DEF AnyProfile
  <2> QED BY <1>1, <1>6, <2>1, <2>2, <2>3 DEF ConfigInv, ConfigTypes
<1>8. DiskInv'
  <2>1. \A r \in Ids : r >= nextId + 1 => r >= nextId /\ r # nextId
    BY <1>0 DEF Ids
  <2>2. \A r \in Ids : r >= nextId' => dir'[r] = "none" /\ overlay[r] = NoOverlay
    BY <1>1, <1>3, <2>1 DEF ConfigInv, DiskInv
  <2>3. Whole(pointer)'
    BY <1>1, <1>3, <1>5 DEF ConfigInv, DiskInv, Whole, Tracked
  <2>4. \A r \in Ids : dir'[r] \in {"published", "broken", "damaged"} => content'[r].targets \subseteq vault
    BY <1>3 DEF ConfigInv, DiskInv
  <2> QED BY <1>1, <2>2, <2>3, <2>4 DEF ConfigInv, DiskInv
<1>9. IdInv'
  <2>1. \A i \in Ids : i < nextId => i < nextId + 1 /\ dir'[i] = dir[i]
    BY <1>0, <1>3 DEF Ids
  <2> QED BY <1>1, <2>1 DEF ConfigInv, IdInv
<1>10. ServiceInv'
  <2>1. svc.active # None => Whole(svc.pointer)'
    BY <1>1, <1>3, <1>5 DEF ConfigInv, ServiceInv, Whole, Tracked
  <2> QED BY <1>1, <1>3, <1>4, <1>5, <1>6, <2>1 DEF ConfigInv, ServiceInv
<1>11. DaemonInv'
  BY <1>1, <1>6 DEF ConfigInv, DaemonInv
<1>12. StagedInv'
  <2>1. nextId < nextId + 1 /\ dir'[nextId] = "staging" /\ content'[nextId] = p
    BY <1>0, <1>1, <1>3
  <2>2. nextId \notin Tracked(pointer)' /\ nextId \notin Tracked(svc.pointer)'
    BY <1>1, <1>5 DEF Tracked
  <2> QED BY <1>1, <1>2, <1>5, <1>6, <2>1, <2>2 DEF StagedInv, Saving, Undecided
<1>13. PromiseInv'
  <2>1. pointer = NoPointer => NoProfile \in promised /\ \A r \in Ids : dir'[r] = "published" => content'[r] \in promised
    BY <1>3 DEF ConfigInv, PromiseInv, Recovers, None, Ids
  <2>2. /\ pointer # NoPointer /\ dir'[pointer.revision] = "published" => Served(pointer.revision)' \in promised
        /\ pointer # NoPointer /\ dir'[pointer.revision] # "published" => AnyProfile \subseteq promised
    <3>1. pointer # NoPointer => pointer.revision \in Ids /\ pointer.revision # nextId
      BY <1>5 DEF ConfigInv, DiskInv, Tracked, None, Ids
    <3> QED BY <1>1, <1>3, <3>1 DEF ConfigInv, PromiseInv, Recovers, Served
  <2>3. Recovers(promised, None)'
    BY <1>1, <2>1, <2>2 DEF Recovers
  <2>4. Recovers(op.before, op.staged)'
    BY <1>1, <1>6, <2>1, <2>2 DEF Recovers
  <2>5. daemon.open => svc.fleet \in promised
    BY DEF ConfigInv, PromiseInv
  <2> QED BY <1>1, <1>6, <2>3, <2>4, <2>5 DEF PromiseInv, Saving, Undecided
<1>14. ViewInv'
  <2>1. view.token < nextId /\ view.token < nextId + 1 /\ view.token # nextId
    BY <1>0 DEF ConfigInv, ViewInv, Views, SomeId, None, Ids
  <2>2. ReportedRevision' = ReportedRevision
    BY <1>1 DEF ReportedRevision
  <2>3. \A r \in Ids : dir'[r] # "none" /\ view.token = r => view.profile = content'[r]
    BY <1>3, <2>1 DEF ConfigInv, ViewInv
  <2>4. \A r \in Ids : dir'[r] # "none" /\ overlay[r] # NoOverlay /\ view.token = overlay[r].id
                         => view.profile = ApplyMetadataOverlay(content'[r], overlay[r])
    BY <1>2, <1>3 DEF ConfigInv, ViewInv, Served
  <2> QED BY <1>1, <2>1, <2>2, <2>3, <2>4 DEF ConfigInv, ViewInv, Served
<1> QED BY <1>7, <1>8, <1>9, <1>10, <1>11, <1>12, <1>13, <1>14 DEF ConfigInv

LEMMA PublishKeeps ==
    ASSUME ConfigInv, Publish
    PROVE  ConfigInv'
<1> USE NothingTyped
<1> DEFINE s == op.staged
<1>0. /\ svc \in Services /\ op \in Operations /\ dir \in [Ids -> Dirs] /\ pointer \in Pointers
  BY DEF ConfigInv, ConfigTypes
<1>1. /\ UNCHANGED <<content, pointer, overlay, vault, nextId, svc, daemon, view, promised>>
      /\ op.pc = "publish" /\ dir' = [dir EXCEPT ![s] = "published"] /\ op' = [op EXCEPT !.pc = "pruneStaged"]
  BY DEF Publish
<1>2. /\ s \in Ids /\ s < nextId /\ dir[s] = "staging" /\ overlay[s] = NoOverlay /\ content[s] = op.profile
      /\ op.profile.targets \subseteq vault /\ s # svc.active
      /\ s \notin Tracked(svc.pointer) /\ s \notin Tracked(pointer)
  BY <1>1 DEF ConfigInv, StagedInv, Saving, Undecided
<1>3. \A r \in Ids : dir'[r] = IF r = s THEN "published" ELSE dir[r]
  BY <1>0, <1>1
<1>4. /\ op' \in Operations /\ op'.pc = "pruneStaged" /\ op'.profile = op.profile /\ op'.staged = s
      /\ op'.prior = op.prior /\ op'.before = op.before
  BY <1>0, <1>1 DEF Operations, Steps, Saving, Undecided
<1>5. svc.up
  BY <1>1 DEF ConfigInv, ServiceInv, Idle
<1> HIDE DEF s
<1>6. ConfigTypes'
  <2>1. dir' \in [Ids -> Dirs]
    BY <1>0, <1>1 DEF Dirs
  <2> QED BY <1>1, <1>4, <2>1 DEF ConfigInv, ConfigTypes
<1>7. DiskInv'
  <2>1. \A r \in Ids : r >= nextId => r # s
    BY <1>2 DEF ConfigInv, DiskInv
  <2>2. Whole(pointer)'
    BY <1>1, <1>2, <1>3 DEF ConfigInv, DiskInv, Whole, Tracked
  <2> QED BY <1>1, <1>2, <1>3, <2>1, <2>2 DEF ConfigInv, DiskInv
<1>8. IdInv'
  <2>1. \A i \in Ids : dir[i] = "none" => dir'[i] = "none"
    BY <1>2, <1>3
  <2> QED BY <1>1, <2>1 DEF ConfigInv, IdInv
<1>9. ServiceInv'
  <2>1. svc.active # None => Whole(svc.pointer)' /\ dir'[svc.active] = "published"
    <3>1. ASSUME svc.active # None
          PROVE  Whole(svc.pointer) /\ dir[svc.active] = "published" /\ svc.active \in Ids
      BY <1>0, <3>1 DEF ConfigInv, ServiceInv, Services, SomeId
    <3> QED BY <1>1, <1>2, <1>3, <3>1 DEF Whole, Tracked
  <2> QED BY <1>1, <1>4, <1>5, <2>1 DEF ConfigInv, ServiceInv
<1>10. DaemonInv'
  BY <1>1, <1>4 DEF ConfigInv, DaemonInv
<1>11. StagedInv'
  <2>1. s \notin Tracked(svc.pointer)' /\ s \notin Tracked(pointer)'
    BY <1>1, <1>2 DEF Tracked
  <2> QED BY <1>1, <1>2, <1>3, <1>4, <2>1 DEF StagedInv, Saving, Undecided
<1>12. PromiseInv'
  <2>1. Recovers(promised, None) /\ Recovers(op.before, s) /\ op.profile \in promised
    BY <1>1 DEF ConfigInv, PromiseInv, Saving, Undecided, s
  <2>2. pointer # NoPointer => dir'[pointer.revision] = dir[pointer.revision]
    BY <1>2, <1>3 DEF ConfigInv, DiskInv, Tracked, None, Ids
  <2>3. Recovers(promised, None)'
    BY <1>1, <1>2, <1>3, <2>1, <2>2 DEF Recovers, Served, None, Ids
  <2>4. Recovers(op.before, op.staged)'
    BY <1>1, <1>3, <1>4, <2>1, <2>2 DEF Recovers, Served
  <2> QED BY <1>1, <1>4, <2>3, <2>4 DEF ConfigInv, PromiseInv, Saving, Undecided
<1>13. ViewInv'
  <2>1. \A r \in Ids : dir'[r] # "none" => dir[r] # "none"
    BY <1>2, <1>3
  <2>2. ReportedRevision' = ReportedRevision
    BY <1>1 DEF ReportedRevision
  <2> QED BY <1>1, <2>1, <2>2 DEF ConfigInv, ViewInv, Served
<1> QED BY <1>6, <1>7, <1>8, <1>9, <1>10, <1>11, <1>12, <1>13 DEF ConfigInv

\* A copy, a check or the write of the pointer failed: the state from before is restored.
LEMMA StageFailsKeeps ==
    ASSUME ConfigInv, StageFails \/ CommitFails
    PROVE  ConfigInv'
<1> USE NothingTyped
<1>0. svc \in Services /\ op \in Operations
  BY DEF ConfigInv, ConfigTypes
<1>1. /\ UNCHANGED <<dir, content, pointer, overlay, vault, nextId, daemon, view, promised>>
      /\ op' = [op EXCEPT !.pc = "discard"] /\ op.pc \in Undecided
      /\ \/ op.pc \in {"publish", "pruneStaged"} /\ UNCHANGED svc
         \/ op.pc = "commit" /\ svc' = [svc EXCEPT !.state = op.prior, !.trusted = TRUE]
  BY DEF StageFails, CommitFails, durable, Undecided
<1>2. /\ op' \in Operations /\ op'.pc = "discard" /\ op'.profile = op.profile /\ op'.staged = op.staged
      /\ op'.prior = op.prior /\ op'.before = op.before /\ op.prior \in States
  BY <1>0, <1>1 DEF Operations, Steps, Saving
<1>3. svc.up
  BY <1>1 DEF ConfigInv, ServiceInv, Idle, Undecided
<1>4. SameService /\ svc' \in Services
  <2>1. CASE UNCHANGED svc
    BY <1>0, <2>1 DEF SameService
  <2>2. CASE svc' = [svc EXCEPT !.state = op.prior, !.trusted = TRUE]
    BY <1>0, <1>2, <2>2 DEF SameService, Services
  <2> QED BY <1>1, <2>1, <2>2
<1>5. /\ svc'.up /\ svc'.active = svc.active /\ svc'.pointer = svc.pointer
      /\ svc'.overlay = svc.overlay /\ svc'.fleet = svc.fleet
  BY <1>3, <1>4 DEF SameService
<1>6. op.pc = "commit" => svc'.state = op.prior
  BY <1>0, <1>1 DEF Services
<1>7. ConfigTypes'
  BY <1>1, <1>2, <1>4 DEF ConfigInv, ConfigTypes
<1>8. DiskInv' /\ IdInv' /\ ViewInv'
  BY <1>1, <1>4, QuietFiles DEF durable
<1>9. ServiceInv'
  BY <1>1, <1>2, <1>5 DEF ConfigInv, ServiceInv, Whole, Tracked, Undecided
<1>10. DaemonInv'
  <2>1. CASE op.pc # "commit"
    BY <1>1, <1>2, <2>1 DEF ConfigInv, DaemonInv, Undecided
  <2>2. CASE op.pc = "commit"
    <3>1. svc.state = "starting" /\ op.prior # "starting"
      BY <2>2 DEF ConfigInv, DaemonInv
    <3>2. daemon.open => svc.active # None /\ daemon.profile = svc.fleet /\ overlay[svc.active] = svc.overlay /\ op.prior = "ready"
      BY <2>2, <3>1 DEF ConfigInv, DaemonInv
    <3>3. ~daemon.open => daemon = NoDaemon
      BY <2>2 DEF ConfigInv, DaemonInv
    <3>4. op.prior = "ready" => daemon.open
      BY <2>2 DEF ConfigInv, DaemonInv
    <3>5. op.prior = "unconfigured" => pointer = NoPointer
      BY <2>2 DEF ConfigInv, DaemonInv
    <3> QED BY <1>1, <1>2, <1>5, <1>6, <2>2, <3>1, <3>2, <3>3, <3>4, <3>5 DEF DaemonInv
  <2> QED BY <2>1, <2>2
<1>11. StagedInv'
  <2>1. Tracked(svc.pointer)' = Tracked(svc.pointer)
    BY <1>5 DEF Tracked
  <2> QED BY <1>1, <1>2, <1>5, <2>1 DEF ConfigInv, StagedInv, Saving, Undecided
<1>12. PromiseInv'
  <2>1. Recovers(promised, None)'
    BY <1>1 DEF ConfigInv, PromiseInv, Recovers, Served
  <2>2. Recovers(op.before, op.staged)'
    BY <1>1, <1>2 DEF ConfigInv, PromiseInv, Recovers, Served
  <2> QED BY <1>1, <1>2, <1>5, <2>1, <2>2 DEF ConfigInv, PromiseInv, Saving, Undecided
<1> QED BY <1>7, <1>8, <1>9, <1>10, <1>11, <1>12 DEF ConfigInv
\* The pointer names the staged revision; the service still has its previous fields.
LEMMA CommitKeeps ==
    ASSUME ConfigInv, Commit
    PROVE  ConfigInv'
<1> USE NothingTyped
<1> DEFINE s == op.staged
           a == svc.active
<1>0. svc \in Services /\ op \in Operations /\ daemon \in Daemons
  BY DEF ConfigInv, ConfigTypes
<1>1. /\ UNCHANGED <<dir, content, overlay, vault, nextId, svc, view, promised>>
      /\ op.pc = "commit" /\ op' = [op EXCEPT !.pc = "reload"]
      /\ pointer' = [revision |-> s, previous |-> a, quarantined |-> {}]
      /\ daemon' = daemon \/ (daemon = NoDaemon /\ daemon' = [profile |-> op.profile, open |-> FALSE])
  BY DEF Commit
<1>2. /\ s \in Ids /\ s < nextId /\ dir[s] = "published" /\ overlay[s] = NoOverlay /\ content[s] = op.profile
      /\ op.profile.targets \subseteq vault /\ s # a /\ s \notin Tracked(svc.pointer)
  BY <1>1 DEF ConfigInv, StagedInv, Saving, Undecided
<1>3. a \in SomeId /\ (a # None => a \in Ids /\ dir[a] = "published")
  BY <1>0 DEF ConfigInv, ServiceInv, Services, SomeId
<1>4. /\ op' \in Operations /\ op'.pc = "reload" /\ op'.profile = op.profile /\ op'.staged = s
      /\ op'.prior = op.prior /\ op'.before = op.before
  BY <1>0, <1>1 DEF Operations, Steps, Saving
<1>5. svc.up /\ op.profile \in AnyProfile
  BY <1>0, <1>1 DEF ConfigInv, ServiceInv, Idle, Operations
<1>6. pointer' \in Pointers /\ pointer'.revision = s /\ Tracked(pointer)' \subseteq {s, a} \ {None} /\ pointer' # NoPointer
  <2>1. pointer' \in Pointers /\ pointer'.revision = s /\ pointer'.previous = a
    BY <1>1, <1>2, <1>3 DEF Pointers, SomeId
  <2>2. pointer' # NoPointer
    BY <1>2, <2>1 DEF NoPointer, None, Ids
  <2> QED BY <2>1, <2>2 DEF Tracked
<1>7. /\ daemon' \in Daemons /\ daemon'.open = daemon.open
      /\ daemon'.profile.targets \subseteq vault /\ (daemon.open => daemon' = daemon)
  <2>1. CASE daemon' = daemon
    BY <1>0, <2>1 DEF ConfigInv, DiskInv
  <2>2. CASE daemon = NoDaemon /\ daemon' = [profile |-> op.profile, open |-> FALSE]
    BY <1>2, <1>5, <2>2 DEF Daemons
  <2> QED BY <1>1, <2>1, <2>2
<1> HIDE DEF s, a
<1>8. ConfigTypes'
  BY <1>1, <1>4, <1>6, <1>7 DEF ConfigInv, ConfigTypes
<1>9. DiskInv'
  <2>1. Whole(pointer)'
    BY <1>1, <1>2, <1>3, <1>6 DEF Whole
  <2> QED BY <1>1, <1>2, <1>6, <1>7, <2>1 DEF ConfigInv, DiskInv
<1>10. IdInv'
  BY <1>1 DEF ConfigInv, IdInv
<1>11. ServiceInv'
  BY <1>1, <1>4, <1>5 DEF ConfigInv, ServiceInv, Whole, Tracked
<1>12. DaemonInv'
  <2>1. svc.state = "starting" /\ op.prior # "starting"
    BY <1>1 DEF ConfigInv, DaemonInv
  <2>2. daemon.open => svc.active # None /\ daemon.profile = svc.fleet /\ overlay[svc.active] = svc.overlay /\ op.prior = "ready"
    BY <1>1, <2>1 DEF ConfigInv, DaemonInv
  <2> QED BY <1>1, <1>4, <1>7, <2>1, <2>2 DEF DaemonInv
<1>13. StagedInv'
  <2>1. Tracked(svc.pointer)' = Tracked(svc.pointer)
    BY <1>1 DEF Tracked
  <2> QED BY <1>1, <1>2, <1>4, <1>6, <2>1 DEF StagedInv, Saving, Undecided, a
<1>14. PromiseInv'
  <2>1. op.profile \in promised
    BY <1>1 DEF ConfigInv, PromiseInv, Saving, Undecided
  <2>2. Served(pointer.revision)' = op.profile
    BY <1>1, <1>2, <1>6 DEF Served, ApplyMetadataOverlay
  <2>3. Recovers(promised, None)'
    BY <1>1, <1>2, <1>6, <2>1, <2>2 DEF Recovers
  <2> QED BY <1>1, <1>4, <1>7, <2>3 DEF ConfigInv, PromiseInv, Saving, Undecided
<1>15. ViewInv'
  BY <1>1 DEF ConfigInv, ViewInv, ReportedRevision, Served
<1> QED BY <1>8, <1>9, <1>10, <1>11, <1>12, <1>13, <1>14, <1>15 DEF ConfigInv

\* What holds while the gateway is being moved to the committed revision.
LEMMA ReloadPending ==
    ASSUME ConfigInv, op.pc = "reload"
    PROVE  /\ svc.up /\ svc.state = "starting" /\ pointer # NoPointer /\ Whole(pointer)
           /\ op.staged \in Ids /\ op.staged # None /\ op.staged < nextId /\ dir[op.staged] = "published"
           /\ overlay[op.staged] = NoOverlay /\ content[op.staged] = op.profile
           /\ op.profile.targets \subseteq vault /\ pointer.revision = op.staged
           /\ op.staged # svc.active /\ op.staged \notin Tracked(svc.pointer)
           /\ op.profile \in promised /\ op.before \subseteq promised
           /\ daemon.open => /\ op.prior = "ready" /\ svc.active # None /\ svc.active \in Ids
                             /\ daemon.profile = svc.fleet /\ overlay[svc.active] = svc.overlay
                             /\ svc.pointer.revision = svc.active /\ svc.pointer # NoPointer /\ Whole(svc.pointer)
                             /\ dir[svc.active] = "published" /\ Served(svc.active) = svc.fleet
                             /\ svc.fleet \in promised /\ svc.fleet \in op.before
<1>0. svc \in Services
  BY DEF ConfigInv, ConfigTypes
<1>1. svc.up
  BY DEF ConfigInv, ServiceInv, Idle
<1>2. svc.state = "starting"
  BY DEF ConfigInv, DaemonInv
<1>3. /\ op.staged \in Ids /\ op.staged < nextId /\ dir[op.staged] = "published"
      /\ overlay[op.staged] = NoOverlay /\ content[op.staged] = op.profile
      /\ op.profile.targets \subseteq vault /\ pointer.revision = op.staged
      /\ op.staged # svc.active /\ op.staged \notin Tracked(svc.pointer)
  BY DEF ConfigInv, StagedInv, Saving
<1>4. op.staged # None /\ pointer # NoPointer
  BY <1>3 DEF NoPointer, None, Ids
<1>5. op.profile \in promised /\ op.before \subseteq promised
  BY DEF ConfigInv, PromiseInv, Saving
<1>6. Whole(pointer)
  BY DEF ConfigInv, DiskInv
<1>7. ASSUME daemon.open
      PROVE  /\ op.prior = "ready" /\ svc.active # None /\ svc.active \in Ids
             /\ daemon.profile = svc.fleet /\ overlay[svc.active] = svc.overlay
             /\ svc.pointer.revision = svc.active /\ svc.pointer # NoPointer /\ Whole(svc.pointer)
             /\ dir[svc.active] = "published" /\ Served(svc.active) = svc.fleet
             /\ svc.fleet \in promised /\ svc.fleet \in op.before
  <2>1. op.prior = "ready" /\ svc.active # None /\ daemon.profile = svc.fleet /\ overlay[svc.active] = svc.overlay
    BY <1>2, <1>7 DEF ConfigInv, DaemonInv
  <2>2. /\ svc.pointer.revision = svc.active /\ Whole(svc.pointer) /\ dir[svc.active] = "published"
        /\ svc.fleet = ApplyMetadataOverlay(content[svc.active], svc.overlay)
    BY <2>1 DEF ConfigInv, ServiceInv
  <2>3. svc.active \in Ids /\ svc.pointer # NoPointer
    BY <1>0, <2>1, <2>2 DEF Services, SomeId, NoPointer
  <2>4. svc.fleet \in promised /\ svc.fleet \in op.before
    BY <1>7 DEF ConfigInv, PromiseInv, Saving
  <2>5. Served(svc.active) = svc.fleet
    BY <2>1, <2>2 DEF Served
  <2> QED BY <2>1, <2>2, <2>3, <2>4, <2>5
<1> QED BY <1>1, <1>2, <1>3, <1>4, <1>5, <1>6, <1>7

LEMMA ReloadedKeeps ==
    ASSUME ConfigInv, Reloaded
    PROVE  ConfigInv'
<1> USE NothingTyped
<1> DEFINE s == op.staged
<1>0. svc \in Services /\ op \in Operations /\ pointer \in Pointers
  BY DEF ConfigInv, ConfigTypes
<1>1. /\ UNCHANGED <<dir, content, pointer, overlay, vault, nextId, view, promised>>
      /\ op.pc = "reload" /\ op' = [op EXCEPT !.pc = "pruneApplied"]
      /\ daemon' = [profile |-> op.profile, open |-> TRUE]
      /\ svc' = [svc EXCEPT !.state = "ready", !.active = s, !.pointer = pointer, !.overlay = NoOverlay, !.fleet = op.profile]
  BY DEF Reloaded, durable
<1>2. /\ svc.up /\ pointer # NoPointer /\ Whole(pointer)
      /\ s \in Ids /\ s # None /\ dir[s] = "published" /\ overlay[s] = NoOverlay /\ content[s] = op.profile
      /\ op.profile.targets \subseteq vault /\ pointer.revision = s /\ op.profile \in promised
  BY <1>1, ReloadPending
<1>3. op.profile \in AnyProfile /\ s \in SomeId
  BY <1>0 DEF Operations
<1>4. /\ svc' \in Services /\ svc'.up /\ svc'.state = "ready" /\ svc'.active = s /\ svc'.pointer = pointer
      /\ svc'.overlay = NoOverlay /\ svc'.fleet = op.profile
  BY <1>0, <1>1, <1>2, <1>3 DEF Services, States
<1>5. daemon' \in Daemons /\ daemon'.open /\ daemon'.profile = op.profile
  BY <1>1, <1>3 DEF Daemons
<1>6. op' \in Operations /\ op'.pc = "pruneApplied" /\ op'.profile = op.profile
  BY <1>0, <1>1 DEF Operations, Steps
<1> HIDE DEF s
<1>7. ConfigTypes'
  BY <1>1, <1>4, <1>5, <1>6 DEF ConfigInv, ConfigTypes
<1>8. DiskInv'
  BY <1>1, <1>2, <1>5 DEF ConfigInv, DiskInv, Whole, Tracked
<1>9. IdInv'
  BY <1>1, <1>4 DEF ConfigInv, IdInv
<1>10. ServiceInv'
  <2>1. Whole(svc.pointer)'
    BY <1>1, <1>2, <1>4 DEF Whole, Tracked
  <2>2. op.profile = ApplyMetadataOverlay(content[s], NoOverlay)
    BY <1>2 DEF ApplyMetadataOverlay
  <2> QED BY <1>1, <1>2, <1>4, <1>6, <2>1, <2>2 DEF ServiceInv
<1>11. DaemonInv'
  BY <1>1, <1>2, <1>4, <1>5, <1>6 DEF DaemonInv
<1>12. StagedInv'
  BY <1>4, <1>6 DEF StagedInv, Saving, Undecided
<1>13. PromiseInv'
  <2>1. Recovers(promised, None)'
    BY <1>1 DEF ConfigInv, PromiseInv, Recovers, Served
  <2> QED BY <1>1, <1>2, <1>4, <1>6, <2>1 DEF PromiseInv, Saving, Undecided
<1>14. ViewInv'
  <2>1. ReportedRevision' = s
    BY <1>4 DEF ReportedRevision
  <2>2. view.token = s => view.profile = op.profile
    BY <1>2 DEF ConfigInv, ViewInv
  <2> QED BY <1>1, <1>4, <2>1, <2>2 DEF ConfigInv, ViewInv, Served
<1> QED BY <1>7, <1>8, <1>9, <1>10, <1>11, <1>12, <1>13, <1>14 DEF ConfigInv

\* The pointer and the service are put back.
LEMMA ReloadUndoneKeeps ==
    ASSUME ConfigInv, ReloadUndone
    PROVE  ConfigInv'
<1> USE NothingTyped
<1> DEFINE s == op.staged
           a == svc.active
<1>0. svc \in Services /\ op \in Operations
  BY DEF ConfigInv, ConfigTypes
<1>1. /\ UNCHANGED <<dir, content, overlay, vault, nextId, daemon, view, promised>>
      /\ op.pc = "reload" /\ daemon.open /\ pointer' = svc.pointer
      /\ op' = [op EXCEPT !.pc = "discard"]
      /\ svc' = [svc EXCEPT !.state = op.prior, !.trusted = TRUE]
  BY DEF ReloadUndone
<1>2. /\ svc.up /\ s \in Ids /\ s < nextId /\ dir[s] = "published" /\ overlay[s] = NoOverlay /\ content[s] = op.profile
      /\ op.profile.targets \subseteq vault /\ s # a /\ s \notin Tracked(svc.pointer)
      /\ op.profile \in promised /\ op.before \subseteq promised
      /\ op.prior = "ready" /\ a # None /\ a \in Ids /\ daemon.profile = svc.fleet /\ overlay[a] = svc.overlay
      /\ svc.pointer.revision = a /\ svc.pointer # NoPointer /\ Whole(svc.pointer)
      /\ dir[a] = "published" /\ Served(a) = svc.fleet /\ svc.fleet \in promised /\ svc.fleet \in op.before
  BY <1>1, ReloadPending
<1>3. /\ svc' \in Services /\ svc'.up /\ svc'.state = "ready" /\ svc'.active = a /\ svc'.pointer = svc.pointer
      /\ svc'.overlay = svc.overlay /\ svc'.fleet = svc.fleet
  BY <1>0, <1>1, <1>2 DEF Services, States
<1>4. /\ op' \in Operations /\ op'.pc = "discard" /\ op'.profile = op.profile /\ op'.staged = s
      /\ op'.before = op.before
  BY <1>0, <1>1 DEF Operations, Steps, Saving
<1>5. pointer' \in Pointers /\ Tracked(pointer)' = Tracked(svc.pointer) /\ Tracked(svc.pointer)' = Tracked(svc.pointer)
  BY <1>0, <1>1, <1>3 DEF Services, Tracked
<1> HIDE DEF s, a
<1>6. ConfigTypes'
  BY <1>1, <1>3, <1>4, <1>5 DEF ConfigInv, ConfigTypes
<1>7. DiskInv'
  <2>1. Whole(pointer)'
    BY <1>1, <1>2, <1>5 DEF Whole
  <2> QED BY <1>1, <1>2, <2>1 DEF ConfigInv, DiskInv
<1>8. IdInv'
  BY <1>1, <1>3 DEF ConfigInv, IdInv, a
<1>9. ServiceInv'
  <2>1. Whole(svc.pointer)'
    BY <1>1, <1>2, <1>5 DEF Whole
  <2>2. svc.fleet = ApplyMetadataOverlay(content[a], svc.overlay)
    BY <1>2 DEF Served
  <2> QED BY <1>1, <1>2, <1>3, <1>4, <2>1, <2>2 DEF ServiceInv
<1>10. DaemonInv'
  BY <1>1, <1>2, <1>3, <1>4 DEF DaemonInv
<1>11. StagedInv'
  BY <1>1, <1>2, <1>3, <1>4, <1>5 DEF StagedInv, Saving, Undecided
<1>12. PromiseInv'
  <2>1. Served(pointer.revision)' = svc.fleet
    BY <1>1, <1>2 DEF Served
  <2>2. Recovers(promised, None)' /\ Recovers(op.before, op.staged)'
    BY <1>1, <1>2, <1>4, <2>1 DEF Recovers
  <2> QED BY <1>1, <1>2, <1>3, <1>4, <2>2 DEF PromiseInv, Saving, Undecided
<1>13. ViewInv'
  <2>1. ReportedRevision' = ReportedRevision
    BY <1>3 DEF ReportedRevision, a
  <2> QED BY <1>1, <1>3, <2>1 DEF ConfigInv, ViewInv, Served
<1> QED BY <1>6, <1>7, <1>8, <1>9, <1>10, <1>11, <1>12, <1>13 DEF ConfigInv
\* Neither is confirmed: the service forgets what it served, and either pointer may be on disk.
LEMMA ReloadStuckKeeps ==
    ASSUME ConfigInv, ReloadStuck
    PROVE  ConfigInv'
<1> USE NothingTyped
<1> DEFINE s == op.staged
           a == svc.active
<1>0. svc \in Services /\ op \in Operations /\ promised \subseteq AnyProfile /\ pointer \in Pointers
  BY DEF ConfigInv, ConfigTypes
<1>1. /\ UNCHANGED <<dir, content, overlay, vault, nextId, view, promised>>
      /\ op.pc = "reload" /\ daemon.open /\ pointer' \in {pointer, svc.pointer} /\ daemon' = NoDaemon
      /\ op' = [op EXCEPT !.pc = "discard", !.before = promised]
      /\ svc' = [Down EXCEPT !.up = TRUE, !.closed = svc.closed, !.state = "error"]
  BY DEF ReloadStuck
<1>2. /\ s \in Ids /\ s # None /\ s < nextId /\ dir[s] = "published" /\ overlay[s] = NoOverlay /\ content[s] = op.profile
      /\ op.profile.targets \subseteq vault /\ op.profile \in promised /\ pointer # NoPointer /\ Whole(pointer)
      /\ svc.pointer.revision = a /\ svc.pointer # NoPointer /\ Whole(svc.pointer)
      /\ dir[a] = "published" /\ Served(a) = svc.fleet /\ svc.fleet \in promised /\ a \in Ids
  BY <1>1, ReloadPending
<1>3. /\ svc' \in Services /\ svc'.up /\ svc'.state = "error" /\ svc'.active = None /\ svc'.pointer = NoPointer
      /\ svc'.overlay = NoOverlay /\ svc'.fleet = NoProfile
  <2>1. svc.closed \in BOOLEAN
    BY <1>0 DEF Services
  <2>2. svc' \in Services
    BY <1>1, <2>1 DEF Services, States
  <2> QED BY <1>1, <2>2 DEF Down
<1>4. /\ op' \in Operations /\ op'.pc = "discard" /\ op'.profile = op.profile /\ op'.staged = s
      /\ op'.before = promised
  BY <1>0, <1>1 DEF Operations, Steps, Saving
<1>5. ~daemon'.open /\ daemon'.profile.targets = {}
  BY <1>1
<1> HIDE DEF s, a
<1>6. pointer' \in Pointers /\ pointer' # NoPointer /\ Whole(pointer)' /\ pointer'.revision \in Ids
  <2>1. CASE pointer' = pointer
    <3>1. Whole(pointer)'
      BY <1>1, <1>2, <2>1 DEF Whole, Tracked
    <3> QED BY <1>0, <1>2, <2>1, <3>1 DEF ConfigInv, DiskInv
  <2>2. CASE pointer' = svc.pointer
    <3>1. Whole(pointer)'
      BY <1>1, <1>2, <2>2 DEF Whole, Tracked
    <3>2. svc.pointer \in Pointers
      BY <1>0 DEF Services
    <3> QED BY <1>2, <2>2, <3>1, <3>2
  <2> QED BY <1>1, <2>1, <2>2
<1>7. ConfigTypes'
  BY <1>1, <1>3, <1>4, <1>6 DEF ConfigInv, ConfigTypes
<1>8. DiskInv'
  BY <1>1, <1>5, <1>6 DEF ConfigInv, DiskInv
<1>9. IdInv'
  BY <1>1, <1>3 DEF ConfigInv, IdInv
<1>10. ServiceInv'
  BY <1>3, <1>4 DEF ServiceInv
<1>11. DaemonInv'
  BY <1>1, <1>3, <1>4, <1>5 DEF DaemonInv
<1>12. StagedInv'
  <2>1. Tracked(svc.pointer)' = {}
    BY <1>3 DEF Tracked
  <2> QED BY <1>1, <1>2, <1>3, <1>4, <2>1 DEF StagedInv, Saving, Undecided
<1>13. PromiseInv'
  <2>1. /\ dir[pointer'.revision] = "published" => Served(pointer'.revision) \in promised
        /\ dir[pointer'.revision] # "published" => AnyProfile \subseteq promised
    <3>1. CASE pointer' = pointer
      BY <1>2, <3>1 DEF ConfigInv, PromiseInv, Recovers
    <3>2. CASE pointer' = svc.pointer
      BY <1>2, <3>2
    <3> QED BY <1>1, <3>1, <3>2
  <2>2. Recovers(promised, None)' /\ Recovers(op.before, op.staged)'
    BY <1>1, <1>4, <1>6, <2>1 DEF Recovers, Served
  <2> QED BY <1>1, <1>2, <1>4, <1>5, <2>2 DEF PromiseInv, Saving, Undecided
<1>14. ViewInv'
  <2>1. ReportedRevision' = None
    BY <1>3 DEF ReportedRevision
  <2> QED BY <1>1, <1>3, <2>1 DEF ConfigInv, ViewInv, Served
<1> QED BY <1>7, <1>8, <1>9, <1>10, <1>11, <1>12, <1>13, <1>14 DEF ConfigInv

\* The staged revision goes, or stays behind where no pointer finds it.
LEMMA DiscardKeeps ==
    ASSUME ConfigInv, Discard
    PROVE  ConfigInv'
<1> USE NothingTyped
<1> DEFINE s == op.staged
<1>0. /\ svc \in Services /\ op \in Operations /\ dir \in [Ids -> Dirs] /\ content \in [Ids -> AnyProfile]
      /\ overlay \in [Ids -> Overlays] /\ promised \subseteq AnyProfile
  BY DEF ConfigInv, ConfigTypes
<1>1. /\ UNCHANGED <<pointer, overlay, vault, nextId, svc, daemon, view>>
      /\ op.pc = "discard" /\ op' = Idle
      /\ promised' = op.before \cup (IF pointer = NoPointer /\ dir'[s] = "published" THEN {op.profile} ELSE {})
      /\ content' = [r \in Ids |-> IF dir'[r] = "none" THEN NoProfile ELSE content[r]]
      /\ \/ dir' = [dir EXCEPT ![s] = IF s \in NamedBy(pointer) THEN @ ELSE "none"]
         \/ \E left \in {dir[s], "broken"} :
               /\ left = "broken" => dir[s] = "published" /\ s \notin NamedBy(pointer)
               /\ dir' = [dir EXCEPT ![s] = left]
  BY DEF Discard, Kept
<1>2. /\ s \in Ids /\ dir[s] \in {"staging", "published"} /\ content[s] = op.profile
      /\ s # svc.active /\ s \notin Tracked(svc.pointer)
  BY <1>1 DEF ConfigInv, StagedInv, Saving
<1>3. op.profile \in promised /\ op.before \subseteq promised /\ Recovers(op.before, s) /\ (daemon.open => svc.fleet \in op.before)
  BY <1>1 DEF ConfigInv, PromiseInv, Saving
<1>4. op'.pc = "idle"
  BY <1>1 DEF Idle
<1> HIDE DEF s
<1>5. /\ dir' \in [Ids -> Dirs]
      /\ \A r \in Ids : r # s => dir'[r] = dir[r]
      /\ dir'[s] = dir[s] \/ (dir'[s] = "none" /\ s \notin NamedBy(pointer))
             \/ (dir'[s] = "broken" /\ dir[s] = "published" /\ s \notin NamedBy(pointer))
  <2>1. CASE dir' = [dir EXCEPT ![s] = IF s \in NamedBy(pointer) THEN @ ELSE "none"]
    <3>1. CASE s \in NamedBy(pointer)
      BY <1>0, <1>2, <2>1, <3>1
    <3>2. CASE s \notin NamedBy(pointer)
      BY <1>0, <1>2, <2>1, <3>2 DEF Dirs
    <3> QED BY <3>1, <3>2
  <2>2. CASE \E left \in {dir[s], "broken"} :
               /\ left = "broken" => dir[s] = "published" /\ s \notin NamedBy(pointer)
               /\ dir' = [dir EXCEPT ![s] = left]
    BY <1>0, <1>2, <2>2 DEF Dirs
  <2> QED BY <1>1, <2>1, <2>2
<1>6. Shrunk
  <2>1. content' \in [Ids -> AnyProfile] /\ \A r \in Ids : dir'[r] # "none" => content'[r] = content[r]
    BY <1>0, <1>1
  <2>2. \A r \in Ids : dir'[r] \in {dir[r], "none"} \/ (dir'[r] = "broken" /\ dir[r] \in {"published", "broken", "damaged"})
    BY <1>5
  <2>3. \A r \in Tracked(pointer) : dir'[r] = dir[r] /\ content'[r] = content[r]
    <3> SUFFICES ASSUME NEW r \in Tracked(pointer)
                 PROVE  dir'[r] = dir[r] /\ content'[r] = content[r]
      OBVIOUS
    <3>1. r \in Ids /\ dir[r] \in {"published", "damaged"} /\ r \in NamedBy(pointer)
      BY DEF ConfigInv, DiskInv, Whole, Tracked, NamedBy
    <3>2. dir'[r] = dir[r]
      BY <1>5, <3>1
    <3> QED BY <2>1, <3>1, <3>2
  <2> QED BY <1>0, <1>1, <1>5, <2>1, <2>2, <2>3 DEF Shrunk
<1>7. ConfigTypes'
  <2>1. promised' \subseteq AnyProfile
    BY <1>0, <1>1, <1>3
  <2> QED BY <1>1, <1>6, <2>1 DEF ConfigInv, ConfigTypes, Shrunk
<1>8. DiskInv' /\ IdInv' /\ ViewInv'
  BY <1>1, <1>6, ShrunkRest DEF SameService
<1>9. svc.up
  BY <1>1 DEF ConfigInv, ServiceInv, Idle
<1>10. svc.active # None =>
          /\ pointer = svc.pointer /\ pointer.revision = svc.active /\ pointer # NoPointer
          /\ \A r \in Tracked(svc.pointer) : r \in Ids /\ dir'[r] \in {"published", "damaged"}
          /\ dir'[svc.active] = "published"
          /\ content'[svc.active] = content[svc.active]
          /\ svc.fleet = ApplyMetadataOverlay(content'[svc.active], svc.overlay)
  BY <1>1, <1>6, ShrunkService
<1>11. ServiceInv'
  <2>1. svc.active # None => Whole(svc.pointer)'
    BY <1>1, <1>10 DEF Whole, Tracked
  <2> QED BY <1>1, <1>4, <1>9, <1>10, <2>1 DEF ConfigInv, ServiceInv
<1>12. DaemonInv'
  BY <1>1, <1>4 DEF ConfigInv, DaemonInv
<1>13. StagedInv'
  BY <1>4 DEF StagedInv, Saving, Undecided
<1>14. PromiseInv'
  <2>1. pointer = NoPointer => NoProfile \in promised' /\ \A r \in Ids : dir'[r] = "published" => content'[r] \in promised'
    <3>1. ASSUME pointer = NoPointer, NEW r \in Ids, dir'[r] = "published"
          PROVE  content'[r] \in promised'
      <4>1. content'[r] = content[r]
        BY <3>1, <1>1
      <4>2. CASE r = s
        BY <1>1, <1>2, <3>1, <4>1, <4>2
      <4>3. CASE r # s
        <5>1. dir[r] = "published"
          BY <1>5, <3>1, <4>3
        <5>2. content[r] \in op.before
          BY <1>3, <3>1, <4>3, <5>1 DEF Recovers
        <5> QED BY <1>1, <4>1, <5>2
      <4> QED BY <4>2, <4>3
    <3> QED BY <1>1, <1>3, <3>1 DEF Recovers
  <2>2. pointer # NoPointer =>
          /\ dir'[pointer.revision] = "published" => Served(pointer.revision)' \in promised'
          /\ dir'[pointer.revision] # "published" => AnyProfile \subseteq promised'
    BY <1>1, <1>3, <1>6, ShrunkRecovers DEF Recovers
  <2>3. Recovers(promised, None)'
    BY <1>1, <2>1, <2>2 DEF Recovers
  <2> QED BY <1>1, <1>3, <1>4, <2>3 DEF PromiseInv, Saving, Undecided
<1> QED BY <1>7, <1>8, <1>11, <1>12, <1>13, <1>14 DEF ConfigInv
----------------------------------------------------------------------------
(* Keys, closing, crashes and damage.                                      *)

\* A key is removed when nothing that can be served needs it.
LEMMA KeysKeep ==
    ASSUME ConfigInv, NEW k \in Targets, RemoveKey(k) \/ AddKey(k)
    PROVE  ConfigInv'
<1> USE NothingTyped
<1>0. vault \subseteq Targets
  BY DEF ConfigInv, ConfigTypes
<1>1. /\ UNCHANGED <<dir, content, pointer, overlay, nextId, svc, daemon, op, view, promised>>
      /\ op.pc = "idle" /\ vault' \in {vault \ {k}, vault \cup {k}}
  BY DEF RemoveKey, AddKey
<1>2. vault' \subseteq Targets
  BY <1>0, <1>1
<1>3. /\ \A r \in Ids : dir[r] \in {"published", "broken", "damaged"} => content[r].targets \subseteq vault'
      /\ daemon.profile.targets \subseteq vault'
  <2>1. /\ \A r \in Ids : dir[r] \in {"published", "broken", "damaged"} => content[r].targets \subseteq vault
        /\ daemon.profile.targets \subseteq vault
    BY DEF ConfigInv, DiskInv
  <2>2. CASE AddKey(k)
    <3>1. vault \subseteq vault'
      BY <2>2 DEF AddKey
    <3> QED BY <2>1, <3>1
  <2>3. CASE RemoveKey(k)
    <3>1. vault' = vault \ {k} /\ k \notin ReferencedKeys
      BY <2>3 DEF RemoveKey
    <3>2. \A r \in Ids : dir[r] \in {"published", "broken", "damaged"} => k \notin content[r].targets
      BY <3>1 DEF ReferencedKeys, Present
    <3>3. k \notin daemon.profile.targets
      <4>1. CASE daemon.open
        <5>1. daemon.profile = svc.fleet
          BY <4>1 DEF ConfigInv, DaemonInv
        <5> QED BY <3>1, <5>1 DEF ReferencedKeys
      <4>2. CASE ~daemon.open
        <5>1. daemon = NoDaemon
          BY <1>1, <4>2 DEF ConfigInv, DaemonInv
        <5> QED BY <5>1
      <4> QED BY <4>1, <4>2
    <3> QED BY <2>1, <3>1, <3>2, <3>3
  <2> QED BY <2>2, <2>3
<1>4. ConfigTypes'
  BY <1>1, <1>2 DEF ConfigInv, ConfigTypes
<1>5. DiskInv'
  BY <1>1, <1>3 DEF ConfigInv, DiskInv, Whole, Tracked
<1>6. IdInv'
  BY <1>1 DEF ConfigInv, IdInv
<1>7. ServiceInv'
  BY <1>1 DEF ConfigInv, ServiceInv, Whole, Tracked
<1>8. DaemonInv'
  BY <1>1 DEF ConfigInv, DaemonInv
<1>9. StagedInv'
  BY <1>1 DEF StagedInv, Saving, Undecided
<1>10. PromiseInv'
  BY <1>1 DEF ConfigInv, PromiseInv, Recovers, Served
<1>11. ViewInv'
  BY <1>1 DEF ConfigInv, ViewInv, ReportedRevision, Served
<1> QED BY <1>4, <1>5, <1>6, <1>7, <1>8, <1>9, <1>10, <1>11 DEF ConfigInv

LEMMA CloseKeeps ==
    ASSUME ConfigInv, Close
    PROVE  ConfigInv'
<1>0. svc \in Services
  BY DEF ConfigInv, ConfigTypes
<1>1. /\ UNCHANGED <<dir, content, pointer, overlay, vault, nextId, daemon, op, view, promised>>
      /\ svc.up /\ svc' = [svc EXCEPT !.closed = TRUE]
  BY DEF Close, durable
<1>2. /\ svc' \in Services /\ svc'.up /\ svc'.state = svc.state /\ svc'.active = svc.active /\ svc'.pointer = svc.pointer
      /\ svc'.overlay = svc.overlay /\ svc'.fleet = svc.fleet
  BY <1>0, <1>1 DEF Services
<1>3. ConfigTypes'
  BY <1>1, <1>2 DEF ConfigInv, ConfigTypes
<1>4. DiskInv'
  BY <1>1 DEF ConfigInv, DiskInv, Whole, Tracked
<1>5. IdInv'
  BY <1>1, <1>2 DEF ConfigInv, IdInv
<1>6. ServiceInv'
  BY <1>1, <1>2 DEF ConfigInv, ServiceInv, Whole, Tracked
<1>7. DaemonInv'
  BY <1>1, <1>2 DEF ConfigInv, DaemonInv
<1>8. StagedInv'
  <2>1. Tracked(svc.pointer)' = Tracked(svc.pointer) /\ Tracked(pointer)' = Tracked(pointer)
    BY <1>1, <1>2 DEF Tracked
  <2> QED BY <1>1, <1>2, <2>1 DEF ConfigInv, StagedInv, Served
<1>9. PromiseInv'
  BY <1>1, <1>2 DEF ConfigInv, PromiseInv, Recovers, Served
<1>10. ViewInv'
  BY <1>1, <1>2 DEF ConfigInv, ViewInv, ReportedRevision, Served
<1> QED BY <1>3, <1>4, <1>5, <1>6, <1>7, <1>8, <1>9, <1>10 DEF ConfigInv

\* The process goes: closed in order, or lost at any step.
LEMMA DownKeeps ==
    ASSUME ConfigInv, Shrunk, svc' = Down, daemon' = NoDaemon, op' = Idle, UNCHANGED <<view, promised>>
    PROVE  ConfigInv'
<1> USE NothingTyped
<1>1. /\ ~svc'.up /\ svc'.active = None /\ svc'.pointer = NoPointer /\ svc'.overlay = NoOverlay
      /\ svc'.fleet = NoProfile /\ svc'.state = "unconfigured" /\ op'.pc = "idle"
  BY DEF Down, Idle
<1>2. pointer' = pointer /\ vault' = vault /\ nextId' = nextId
  BY DEF Shrunk
<1>3. ConfigTypes'
  BY <1>2 DEF ConfigInv, ConfigTypes, Shrunk
<1>4. DiskInv'
  <2>1. daemon'.profile.targets \subseteq vault
    OBVIOUS
  <2> QED BY <2>1, ShrunkDisk
<1>5. IdInv'
  BY <1>1, <1>2, ShrunkIds DEF IdInv
<1>6. ServiceInv'
  BY <1>1 DEF ServiceInv
<1>7. DaemonInv'
  BY <1>1 DEF DaemonInv
<1>8. StagedInv'
  BY <1>1 DEF StagedInv, Saving, Undecided
<1>9. PromiseInv'
  <2>1. Recovers(promised, None)'
    BY <1>2, ShrunkRecovers DEF ConfigInv, PromiseInv, Recovers, None, Ids
  <2> QED BY <1>1, <2>1 DEF PromiseInv, Saving, Undecided
<1>10. ViewInv'
  <2>1. view.token = ReportedRevision' => view.profile = svc'.fleet
    BY <1>1 DEF ConfigInv, ViewInv, ReportedRevision
  <2> QED BY <2>1, ShrunkView
<1> QED BY <1>3, <1>4, <1>5, <1>6, <1>7, <1>8, <1>9, <1>10 DEF ConfigInv

LEMMA StopKeeps ==
    ASSUME ConfigInv, Closed \/ Crash
    PROVE  ConfigInv'
<1>0. dir \in [Ids -> Dirs] /\ content \in [Ids -> AnyProfile] /\ overlay \in [Ids -> Overlays]
  BY DEF ConfigInv, ConfigTypes
<1>1. svc' = Down /\ daemon' = NoDaemon /\ UNCHANGED <<pointer, overlay, vault, nextId, view, promised>>
  BY DEF Closed, Crash, durable
<1>2. op' = Idle
  BY DEF ConfigInv, ServiceInv, Closed, Crash
<1>3. Shrunk
  <2>1. CASE UNCHANGED <<dir, content>>
    BY <1>0, <1>1, <2>1 DEF Shrunk
  <2>2. CASE op.pc \in PruneCalls /\ StoppedPruning
    BY <1>1, <2>2, PruningShrinks
  <2> QED BY <2>1, <2>2 DEF Closed, Crash, durable
<1> QED BY <1>1, <1>2, <1>3, DownKeeps

LEMMA DamageKeeps ==
    ASSUME ConfigInv, NEW d \in Ids, Damage(d)
    PROVE  ConfigInv'
<1> USE NothingTyped
<1>0. /\ dir \in [Ids -> Dirs] /\ content \in [Ids -> AnyProfile] /\ overlay \in [Ids -> Overlays] /\ pointer \in Pointers
  BY DEF ConfigInv, ConfigTypes
<1>1. /\ UNCHANGED <<content, pointer, overlay, vault, nextId, svc, daemon, op, view>>
      /\ ~svc.up /\ dir[d] = "published" /\ dir' = [dir EXCEPT ![d] = "damaged"] /\ promised' = AnyProfile
  BY DEF Damage, AnyProfile
<1>2. \A r \in Ids : dir'[r] = IF r = d THEN "damaged" ELSE dir[r]
  BY <1>0, <1>1
<1>3. svc = Down /\ daemon = NoDaemon /\ op = Idle
  BY <1>1 DEF ConfigInv, ServiceInv
<1>4. /\ svc.active = None /\ svc.pointer = NoPointer /\ svc.overlay = NoOverlay
      /\ svc.fleet = NoProfile /\ svc.state = "unconfigured" /\ op.pc = "idle"
  BY <1>3 DEF Down, Idle
<1>5. ConfigTypes'
  <2>1. dir' \in [Ids -> Dirs]
    BY <1>0, <1>1 DEF Dirs
  <2> QED BY <1>1, <2>1 DEF ConfigInv, ConfigTypes
<1>6. DiskInv'
  <2>1. Whole(pointer)'
    BY <1>1, <1>2 DEF ConfigInv, DiskInv, Whole, Tracked
  <2> QED BY <1>1, <1>2, <2>1 DEF ConfigInv, DiskInv
<1>7. IdInv'
  <2>1. \A i \in Ids : dir[i] = "none" => dir'[i] = "none"
    BY <1>1, <1>2
  <2> QED BY <1>1, <2>1 DEF ConfigInv, IdInv
<1>8. ServiceInv'
  BY <1>1, <1>3, <1>4 DEF ServiceInv
<1>9. DaemonInv'
  BY <1>1, <1>3, <1>4 DEF DaemonInv
<1>10. StagedInv'
  BY <1>1, <1>4 DEF StagedInv, Saving, Undecided
<1>11. PromiseInv'
  <2>1. \A r \in Ids : Served(r)' \in AnyProfile
    <3>1. \A r \in Ids : Served(r) \in AnyProfile
      BY <1>0, AppliedTyped DEF ConfigInv, IdInv, Served
    <3> QED BY <1>1, <3>1 DEF Served
  <2>2. pointer # NoPointer => pointer.revision \in Ids
    BY DEF ConfigInv, DiskInv
  <2>3. Recovers(promised, None)'
    BY <1>0, <1>1, <2>1, <2>2 DEF Recovers
  <2> QED BY <1>1, <1>3, <1>4, <2>3 DEF PromiseInv, Saving, Undecided
<1>12. ViewInv'
  BY <1>1, <1>2 DEF ConfigInv, ViewInv, ReportedRevision, Served
<1> QED BY <1>5, <1>6, <1>7, <1>8, <1>9, <1>10, <1>11, <1>12 DEF ConfigInv
----------------------------------------------------------------------------
(* The theorems about the configuration.                                   *)

LEMMA ConfigStep ==
    ASSUME ConfigInv, Next
    PROVE  ConfigInv'
<1>1. CASE StartProcess \/ InitEmpty \/ InitUnrecoverable \/ InitFails
  BY <1>1, StartKeeps
<1>2. CASE InitSelect
  BY <1>2, SelectKeeps
<1>3. CASE InitActivate
  BY <1>3, ActivateKeeps
<1>4. CASE Prune \/ PruneFails
  BY <1>4, PruneKeeps
<1>5. CASE Read
  BY <1>5, ReadKeeps
<1>6. ASSUME NEW p \in Profiles, SaveOverlay(p) \/ SaveFull(p)
      PROVE  ConfigInv'
  BY <1>6, SaveOverlayKeeps, SaveFullKeeps
<1>7. CASE OverlayApplied
  BY <1>7, OverlayAppliedKeeps
<1>8. CASE OverlayRefused
  BY <1>8, OverlayRefusedKeeps
<1>9. CASE OverlayStuck
  BY <1>9, OverlayStuckKeeps
<1>10. CASE Publish
  BY <1>10, PublishKeeps
<1>11. CASE StageFails \/ CommitFails
  BY <1>11, StageFailsKeeps
<1>12. CASE Commit
  BY <1>12, CommitKeeps
<1>13. CASE Reloaded
  BY <1>13, ReloadedKeeps
<1>14. CASE ReloadUndone
  BY <1>14, ReloadUndoneKeeps
<1>15. CASE ReloadStuck
  BY <1>15, ReloadStuckKeeps
<1>16. CASE Discard
  BY <1>16, DiscardKeeps
<1>17. ASSUME NEW k \in Targets, RemoveKey(k) \/ AddKey(k)
       PROVE  ConfigInv'
  BY <1>17, KeysKeep
<1>18. CASE Close
  BY <1>18, CloseKeeps
<1>19. CASE Closed \/ Crash
  BY <1>19, StopKeeps
<1>20. ASSUME NEW r \in Ids, Damage(r)
       PROVE  ConfigInv'
  BY <1>20, DamageKeeps
<1> QED BY <1>1, <1>2, <1>3, <1>4, <1>5, <1>6, <1>7, <1>8, <1>9, <1>10, <1>11, <1>12, <1>13, <1>14, <1>15,
           <1>16, <1>17, <1>18, <1>19, <1>20 DEF Next

LEMMA ConfigStutters ==
    ASSUME ConfigInv, UNCHANGED vars
    PROVE  ConfigInv'
<1>1. UNCHANGED <<dir, content, pointer, overlay, vault, svc, daemon, op, nextId, view, promised>>
  BY DEF vars
<1>2. ConfigTypes'
  BY <1>1 DEF ConfigInv, ConfigTypes
<1>3. DiskInv' /\ IdInv' /\ ViewInv'
  BY <1>1, QuietFiles DEF durable, SameService
<1>4. ServiceInv'
  BY <1>1 DEF ConfigInv, ServiceInv, Whole, Tracked
<1>5. DaemonInv'
  BY <1>1 DEF ConfigInv, DaemonInv
<1>6. StagedInv'
  BY <1>1 DEF ConfigInv, StagedInv, Served, Tracked
<1>7. PromiseInv'
  BY <1>1 DEF ConfigInv, PromiseInv, Recovers, Served
<1> QED BY <1>2, <1>3, <1>4, <1>5, <1>6, <1>7 DEF ConfigInv

\* The pointer and the gateway need only what is whole and in the vault.
LEMMA ConfigCanRollBack ==
    ASSUME ConfigInv
    PROVE  RollbackPossible
<1>1. TypeOK
  <2>1. pointer \in Pointers /\ svc \in Services
    BY DEF ConfigInv, ConfigTypes
  <2>2. NamedBy(pointer) \subseteq Ids
    BY <2>1 DEF NamedBy, Pointers, SomeId
  <2>3. svc.state \in {"unconfigured", "starting", "ready", "error"}
    BY <2>1 DEF Services, States
  <2> QED BY <2>2, <2>3 DEF TypeOK, ConfigInv, ConfigTypes, Dirs, AnyProfile
<1>2. PointerNamesWhole
  BY DEF PointerNamesWhole, ConfigInv, DiskInv, Whole
<1>3. RetainedKeysKept
  <2>1. \A r \in Tracked(pointer) : content[r].targets \subseteq vault
    BY DEF ConfigInv, DiskInv, Whole
  <2>2. UNION {content[r].targets : r \in Tracked(pointer)} \subseteq vault
    BY <2>1
  <2> QED BY <2>2 DEF RetainedKeysKept, ConfigInv, DiskInv
<1> QED BY <1>1, <1>2, <1>3 DEF RollbackPossible

\* Caller, disk and gateway agree.
LEMMA ConfigAgrees ==
    ASSUME ConfigInv
    PROVE  ServedAsSaved
<1>1. ServesWhatWasSaved
  <2>1. daemon.open => daemon.profile \in promised
    BY DEF ConfigInv, DaemonInv, PromiseInv
  <2>2. svc.up /\ svc.state = "unconfigured" => NoProfile \in promised
    BY DEF ConfigInv, DaemonInv, PromiseInv, Recovers
  <2> QED BY <2>1, <2>2 DEF ServesWhatWasSaved
<1>2. DiskMatchesGateway
  <2> SUFFICES ASSUME svc.state = "ready", op.pc = "idle"
               PROVE  /\ daemon = [profile |-> svc.fleet, open |-> TRUE]
                      /\ pointer = svc.pointer /\ pointer.revision = svc.active
                      /\ overlay[svc.active] = svc.overlay
                      /\ svc.fleet = ApplyMetadataOverlay(content[svc.active], svc.overlay)
    BY DEF DiskMatchesGateway
  <2>1. daemon.open /\ svc.active # None /\ daemon.profile = svc.fleet /\ overlay[svc.active] = svc.overlay
    BY DEF ConfigInv, DaemonInv
  <2>2. daemon = [profile |-> svc.fleet, open |-> TRUE]
    BY <2>1 DEF ConfigInv, ConfigTypes, Daemons
  <2>3. pointer = svc.pointer /\ pointer.revision = svc.active /\ svc.fleet = ApplyMetadataOverlay(content[svc.active], svc.overlay)
    BY <2>1 DEF ConfigInv, ServiceInv
  <2> QED BY <2>1, <2>2, <2>3
<1> QED BY <1>1, <1>2 DEF ServedAsSaved

LEMMA ConfigAlways == AllSpec => []ConfigInv
<1>1. AllInit => ConfigInv
  BY ConfigInit DEF AllInit
<1>2. ConfigInv /\ [AllNext]_allVars => ConfigInv'
  BY ConfigStep, ConfigStutters DEF AllNext, allVars
<1> QED BY <1>1, <1>2, PTL DEF AllSpec

\* Whatever crashes, failures and concurrent edits do, the pointer names revisions that are whole and whose keys
\* are in the vault, the gateway serves what was acknowledged, and in a ready service the fields, the files and the
\* gateway are one configuration.
THEOREM RevisionsAreServed == AllSpec => []RevisionsServed
<1>1. ConfigInv => RevisionsServed
  BY ConfigCanRollBack, ConfigAgrees DEF RevisionsServed
<1> QED BY <1>1, ConfigAlways, PTL

\* A save is admitted only from the configuration it replaces (applyFleet's expectedRevision): the token a page holds
\* names one fleet, across overlays, undone saves, crashes and restarts.
THEOREM NothingOverwritten == AllSpec => NoLostUpdate
<1>1. ConfigInv /\ [AllNext]_allVars => [op.pc = "idle" /\ op'.pc \in {"overlay", "publish"} => view.profile = svc.fleet]_vars
  <2> SUFFICES ASSUME ConfigInv, Next, op.pc = "idle", op'.pc \in {"overlay", "publish"}
               PROVE  view.profile = svc.fleet
    BY DEF AllNext, allVars, vars
  <2>1. ViewInv
    BY DEF ConfigInv
  <2>2. ASSUME Admitted
        PROVE  view.profile = svc.fleet
    BY <2>1, <2>2 DEF Admitted, ViewInv
  <2>3. ASSUME NEW p \in Profiles, SaveOverlay(p) \/ SaveFull(p)
        PROVE  Admitted
    BY <2>3 DEF SaveOverlay, SaveFull
  <2>4. CASE StartProcess \/ Read \/ Close \/ Closed \/ Crash \/ (\E k \in Targets : RemoveKey(k) \/ AddKey(k)) \/ (\E r \in Ids : Damage(r))
    BY <2>4 DEF StartProcess, Read, Close, Closed, Crash, RemoveKey, AddKey, Damage, Idle
  <2>5. CASE InitEmpty \/ InitUnrecoverable \/ InitSelect \/ InitFails \/ InitActivate \/ Prune \/ PruneFails
    BY <2>5 DEF InitEmpty, InitUnrecoverable, InitSelect, InitFails, InitActivate, Prune, PruneFails, PruneCalls
  <2>6. CASE OverlayApplied \/ OverlayRefused \/ OverlayStuck \/ Publish \/ StageFails \/ Commit \/ CommitFails
    BY <2>6 DEF OverlayApplied, OverlayRefused, OverlayStuck, Publish, StageFails, Commit, CommitFails
  <2>7. CASE Reloaded \/ ReloadUndone \/ ReloadStuck \/ Discard
    BY <2>7 DEF Reloaded, ReloadUndone, ReloadStuck, Discard
  <2> QED BY <2>2, <2>3, <2>4, <2>5, <2>6, <2>7 DEF Next
<1> QED BY <1>1, ConfigAlways, PTL DEF AllSpec, NoLostUpdate
----------------------------------------------------------------------------
(* The lease, as long as one process dies at most.                         *)

OwnerPcs == {"checkDescriptor", "dropDescriptor", "writeDescriptor", "holding", "unlock", "unlockRefused", "unlinkOwn"}
ClaimedPcs == {"verify", "unlinkOwner", "checkOwnClaim", "dropOwnClaim"}
RecoverPcs == ClaimedPcs \cup {"claim", "readClaim", "removeDirectory", "unclaim"}
EndedPcs == {"removeOwnDirectory", "released"}
LeasePcs == OwnerPcs \cup RecoverPcs \cup EndedPcs
              \cup {"acquire", "readOwner", "readDirectory", "removeIncomplete", "refused", "failed"}

\* The only one that can be dead is an owner, so no claim is ever abandoned.
LeaseTypes ==
    /\ lockDir \in BOOLEAN /\ owner \in Procs \cup {"none"} /\ claim \in Procs \cup {"none"}
    /\ desc \in Procs \cup {"none"}
    /\ pc \in [Procs -> LeasePcs] /\ alive \in [Procs -> BOOLEAN]
    /\ seenOwner \in [Procs -> Procs \cup {"none"}]
    /\ \A p, q \in Procs : ~alive[p] /\ ~alive[q] => p = q

\* Who works as the owner is the owner, whoever recovers does so from a dead one, alone.
OwnerInv ==
    /\ owner # "none" \/ claim # "none" => lockDir
    /\ \A p \in Procs : alive[p] /\ pc[p] \in OwnerPcs => owner = p
    /\ \A p \in Procs : alive[p] /\ pc[p] = "holding" => desc = p

RecoverInv ==
    /\ \A p \in Procs : alive[p] /\ pc[p] \in ClaimedPcs => claim = p
    /\ claim # "none" => alive[claim] /\ pc[claim] \in ClaimedPcs \cup {"unclaim"}
    /\ \A p \in Procs : alive[p] /\ pc[p] \in RecoverPcs => Lease!Dead(seenOwner[p])
    /\ \A p \in Procs : alive[p] /\ pc[p] = "unlinkOwner" => owner = seenOwner[p]

\* Until somebody dies, whoever gets past the rename goes on to hold the lease or to give it back.
FirstInv ==
    \/ \E p \in Procs : ~alive[p]
    \/ \E p \in Procs : pc[p] \in OwnerPcs \cup EndedPcs
    \/ ~lockDir /\ \A p \in Procs : pc[p] = "acquire"

LeaseInv == LeaseTypes /\ OwnerInv /\ RecoverInv /\ FirstInv

----------------------------------------------------------------------------
(* One step of one process.                                                *)

\* p moves to l; what the files and its memory hold afterwards.
MoveTypes(p, l) ==
    /\ alive[p] /\ alive' = alive /\ l \in LeasePcs /\ pc' = [pc EXCEPT ![p] = l]
    /\ lockDir' \in BOOLEAN /\ owner' \in Procs \cup {"none"} /\ claim' \in Procs \cup {"none"}
    /\ desc' \in Procs \cup {"none"}
    /\ seenOwner' \in [Procs -> Procs \cup {"none"}] /\ \A q \in Procs \ {p} : seenOwner'[q] = seenOwner[q]

\* No live process but p is in one of the states S.
Alone(p, S) == \A q \in Procs \ {p} : alive[q] => pc[q] \notin S

\* p takes nothing from under the others.
MoveLeaves(p, l) ==
    /\ owner' # "none" \/ claim' # "none" => lockDir'
    /\ owner' # owner => Alone(p, OwnerPcs \cup {"unlinkOwner"})
    /\ desc' # desc => Alone(p, {"holding"})
    /\ claim' # claim => Alone(p, ClaimedPcs)
    /\ claim' = claim \/ claim' \in {p, "none"}
    /\ pc[p] = "acquire" => lockDir \/ l \in OwnerPcs

\* What p must have to be at l.
MoveOwes(p, l) ==
    /\ l \in OwnerPcs => owner' = p
    /\ l = "holding" => desc' = p
    /\ l \in ClaimedPcs => claim' = p
    /\ claim' = p => l \in ClaimedPcs \cup {"unclaim"}
    /\ l \in RecoverPcs => Lease!Dead(seenOwner'[p])
    /\ l = "unlinkOwner" => owner' = seenOwner'[p]
    /\ pc[p] \in OwnerPcs \cup EndedPcs => l \in OwnerPcs \cup EndedPcs

LEMMA MoveKeeps ==
    ASSUME LeaseInv, NEW p \in Procs, NEW l \in LeasePcs, MoveTypes(p, l), MoveLeaves(p, l), MoveOwes(p, l)
    PROVE  LeaseInv'
<1>1. /\ alive[p] /\ alive' = alive /\ alive \in [Procs -> BOOLEAN] /\ pc \in [Procs -> LeasePcs]
      /\ pc' \in [Procs -> LeasePcs] /\ pc'[p] = l /\ \A q \in Procs \ {p} : pc'[q] = pc[q]
      /\ \A q \in Procs \ {p} : seenOwner'[q] = seenOwner[q]
      /\ \A a, b \in Procs : ~alive[a] /\ ~alive[b] => a = b
  BY DEF LeaseInv, LeaseTypes, MoveTypes
<1>2. LeaseTypes'
  BY <1>1 DEF LeaseTypes, MoveTypes
<1>3. \A q \in Procs : Lease!Dead(q)' <=> Lease!Dead(q)
  BY <1>1 DEF Lease!Dead
<1>4. OwnerInv'
  <2>1. ASSUME NEW q \in Procs, alive'[q], pc'[q] \in OwnerPcs
        PROVE  owner' = q
    <3>1. CASE q = p
      BY <1>1, <2>1, <3>1 DEF MoveOwes
    <3>2. CASE q # p
      BY <1>1, <2>1, <3>2 DEF LeaseInv, OwnerInv, MoveLeaves, Alone
    <3> QED BY <3>1, <3>2
  <2>2. ASSUME NEW q \in Procs, alive'[q], pc'[q] = "holding"
        PROVE  desc' = q
    <3>1. CASE q = p
      BY <1>1, <2>2, <3>1 DEF MoveOwes
    <3>2. CASE q # p
      BY <1>1, <2>2, <3>2 DEF LeaseInv, OwnerInv, MoveLeaves, Alone
    <3> QED BY <3>1, <3>2
  <2> QED BY <2>1, <2>2 DEF OwnerInv, MoveLeaves
<1>5. RecoverInv'
  <2>1. ASSUME NEW q \in Procs, alive'[q], pc'[q] \in ClaimedPcs
        PROVE  claim' = q
    <3>1. CASE q = p
      BY <1>1, <2>1, <3>1 DEF MoveOwes
    <3>2. CASE q # p
      BY <1>1, <2>1, <3>2 DEF LeaseInv, RecoverInv, MoveLeaves, Alone
    <3> QED BY <3>1, <3>2
  <2>2. ASSUME claim' # "none"
        PROVE  alive'[claim'] /\ pc'[claim'] \in ClaimedPcs \cup {"unclaim"}
    <3>1. CASE claim' = p
      BY <1>1, <3>1 DEF MoveOwes
    <3>2. CASE claim' # p
      <4>1. claim' = claim /\ claim \in Procs \ {p}
        BY <2>2, <3>2 DEF MoveLeaves, MoveTypes
      <4>2. alive[claim] /\ pc[claim] \in ClaimedPcs \cup {"unclaim"}
        BY <2>2, <4>1 DEF LeaseInv, RecoverInv
      <4> QED BY <1>1, <4>1, <4>2
    <3> QED BY <3>1, <3>2
  <2>3. ASSUME NEW q \in Procs, alive'[q], pc'[q] \in RecoverPcs
        PROVE  Lease!Dead(seenOwner[q])'
    <3>1. CASE q = p
      <4>1. Lease!Dead(seenOwner'[p])
        BY <1>1, <2>3, <3>1 DEF MoveOwes
      <4> QED BY <1>1, <3>1, <4>1 DEF Lease!Dead
    <3>2. CASE q # p
      <4>1. Lease!Dead(seenOwner[q])
        BY <1>1, <2>3, <3>2 DEF LeaseInv, RecoverInv
      <4> QED BY <1>1, <3>2, <4>1 DEF Lease!Dead
    <3> QED BY <3>1, <3>2
  <2>4. ASSUME NEW q \in Procs, alive'[q], pc'[q] = "unlinkOwner"
        PROVE  owner' = seenOwner'[q]
    <3>1. CASE q = p
      BY <1>1, <2>4, <3>1 DEF MoveOwes
    <3>2. CASE q # p
      BY <1>1, <2>4, <3>2 DEF LeaseInv, RecoverInv, MoveLeaves, Alone
    <3> QED BY <3>1, <3>2
  <2> QED BY <2>1, <2>2, <2>3, <2>4 DEF RecoverInv
<1>6. FirstInv'
  <2>1. CASE \E q \in Procs : ~alive[q]
    BY <1>1, <2>1 DEF FirstInv
  <2>2. CASE \E q \in Procs : pc[q] \in OwnerPcs \cup EndedPcs
    <3>1. PICK q \in Procs : pc[q] \in OwnerPcs \cup EndedPcs
      BY <2>2
    <3>2. pc'[q] \in OwnerPcs \cup EndedPcs
      BY <1>1, <3>1 DEF MoveOwes
    <3> QED BY <3>2 DEF FirstInv
  <2>3. CASE ~lockDir /\ \A q \in Procs : pc[q] = "acquire"
    <3>1. pc'[p] \in OwnerPcs
      BY <1>1, <2>3 DEF MoveLeaves
    <3> QED BY <3>1 DEF FirstInv
  <2> QED BY <2>1, <2>2, <2>3 DEF LeaseInv, FirstInv
<1> QED BY <1>2, <1>4, <1>5, <1>6 DEF LeaseInv

\* Most steps only look: the files stay as they are.
LEMMA LookKeeps ==
    ASSUME LeaseInv, NEW p \in Procs, NEW l \in LeasePcs, alive[p], Lease!Goto(p, l),
           UNCHANGED <<lockDir, owner, claim, desc, alive, seenOwner>>,
           MoveOwes(p, l), pc[p] = "acquire" => lockDir
    PROVE  LeaseInv'
<1>1. MoveTypes(p, l)
  BY DEF MoveTypes, LeaseInv, LeaseTypes, Lease!Goto
<1>2. MoveLeaves(p, l)
  BY DEF MoveLeaves, LeaseInv, OwnerInv
<1> QED BY <1>1, <1>2, MoveKeeps
----------------------------------------------------------------------------
(* The steps of a contender that does not recover.                         *)

\* Where p stands tells what it has.
LEMMA WhereItStands ==
    ASSUME LeaseInv, NEW p \in Procs, alive[p]
    PROVE  /\ pc[p] \in LeasePcs /\ lockDir \in BOOLEAN /\ owner \in Procs \cup {"none"}
           /\ claim \in Procs \cup {"none"} /\ desc \in Procs \cup {"none"}
           /\ "none" \notin Procs
           /\ owner # "none" \/ claim # "none" => lockDir
           /\ pc[p] \in OwnerPcs => owner = p
           /\ pc[p] = "holding" => desc = p
           /\ pc[p] \in ClaimedPcs => claim = p
           /\ claim = p => pc[p] \in ClaimedPcs \cup {"unclaim"}
           /\ claim # "none" => ~Lease!Dead(claim)
           /\ pc[p] \in RecoverPcs => Lease!Dead(seenOwner[p])
           /\ pc[p] = "unlinkOwner" => owner = seenOwner[p]
<1>1. LeaseTypes /\ OwnerInv /\ RecoverInv
  BY DEF LeaseInv
<1>2. "none" \notin Procs
  BY LeaseAssumption
<1>3. claim # "none" => ~Lease!Dead(claim)
  BY <1>1 DEF RecoverInv, Lease!Dead
<1> QED BY <1>1, <1>2, <1>3 DEF LeaseTypes, OwnerInv, RecoverInv

LEMMA RenameKeeps ==
    ASSUME LeaseInv, NEW p \in Procs, Lease!Rename(p) \/ Lease!RenameRefused(p)
    PROVE  LeaseInv'
<1>0. alive[p] /\ pc[p] = "acquire"
  BY DEF Lease!Rename, Lease!RenameRefused, Lease!At
<1>1. CASE Lease!Goto(p, "readOwner") /\ UNCHANGED <<lockDir, owner, claim, desc, alive, seenOwner>> /\ lockDir
  <2>1. "readOwner" \in LeasePcs /\ MoveOwes(p, "readOwner")
    BY <1>0, <1>1, WhereItStands DEF LeasePcs, MoveOwes, OwnerPcs, ClaimedPcs, RecoverPcs, EndedPcs
  <2> QED BY <1>0, <1>1, <2>1, LookKeeps
<1>2. CASE /\ Lease!Goto(p, "checkDescriptor") /\ UNCHANGED <<claim, desc, alive, seenOwner>>
           /\ lockDir' = TRUE /\ owner' = p /\ ~(lockDir /\ (owner # "none" \/ claim # "none"))
  <2>1. owner = "none" /\ claim = "none" /\ "none" \notin Procs
    BY <1>0, <1>2, WhereItStands
  <2>2. "checkDescriptor" \in LeasePcs /\ MoveOwes(p, "checkDescriptor")
    BY <1>0, <1>2, <2>1 DEF LeasePcs, MoveOwes, OwnerPcs, ClaimedPcs, RecoverPcs, EndedPcs
  <2>3. MoveTypes(p, "checkDescriptor")
    BY <1>0, <1>2, <2>2 DEF MoveTypes, LeaseInv, LeaseTypes, Lease!Goto
  <2>4. Alone(p, OwnerPcs \cup {"unlinkOwner"})
    BY <2>1 DEF Alone, LeaseInv, OwnerInv, RecoverInv, ClaimedPcs
  <2>5. MoveLeaves(p, "checkDescriptor")
    BY <1>2, <2>1, <2>4 DEF MoveLeaves, OwnerPcs
  <2> QED BY <2>2, <2>3, <2>5, MoveKeeps
<1>3. CASE Lease!Rename(p)
  BY <1>1, <1>2, <1>3 DEF Lease!Rename, Lease!files, Lease!memory, Lease!None
<1>4. CASE Lease!RenameRefused(p)
  BY <1>1, <1>4 DEF Lease!RenameRefused, Lease!files, Lease!memory
<1> QED BY <1>3, <1>4

\* The places a process can go to that hold nothing.
Elsewhere == {"acquire", "readOwner", "readDirectory", "removeIncomplete", "refused", "failed"}

\* A contender without a claim looks and goes on empty-handed.
LEMMA GoesOn ==
    ASSUME LeaseInv, NEW p \in Procs, NEW l \in Elsewhere, alive[p], pc[p] \notin OwnerPcs \cup EndedPcs, claim # p,
           Lease!Goto(p, l), UNCHANGED <<lockDir, owner, claim, desc, alive, seenOwner>>, pc[p] # "acquire"
    PROVE  LeaseInv'
<1>1. l \in LeasePcs /\ MoveOwes(p, l)
  BY DEF LeasePcs, MoveOwes, Elsewhere, OwnerPcs, ClaimedPcs, RecoverPcs, EndedPcs
<1> QED BY <1>1, LookKeeps

LEMMA ReadOwnerKeeps ==
    ASSUME LeaseInv, NEW p \in Procs, Lease!ReadOwner(p)
    PROVE  LeaseInv'
<1>1. alive[p] /\ pc[p] = "readOwner" /\ UNCHANGED <<lockDir, owner, claim, desc, alive>>
  BY DEF Lease!ReadOwner, Lease!At, Lease!files
<1>2. claim # p /\ pc[p] \notin OwnerPcs \cup EndedPcs
  BY <1>1, WhereItStands DEF ClaimedPcs, OwnerPcs, EndedPcs
<1>3. CASE \E l \in Elsewhere : Lease!Goto(p, l) /\ UNCHANGED seenOwner
  BY <1>1, <1>2, <1>3, GoesOn
<1>4. CASE Lease!Dead(owner) /\ seenOwner' = [seenOwner EXCEPT ![p] = owner] /\ Lease!Goto(p, "claim")
  <2>1. /\ "claim" \in LeasePcs /\ "claim" \in RecoverPcs /\ "claim" \notin OwnerPcs
        /\ "claim" \notin ClaimedPcs /\ "claim" # "unlinkOwner"
    BY DEF LeasePcs, OwnerPcs, ClaimedPcs, RecoverPcs
  <2>2. MoveTypes(p, "claim")
    BY <1>1, <1>4, <2>1 DEF MoveTypes, LeaseInv, LeaseTypes, Lease!Goto
  <2>3. MoveLeaves(p, "claim")
    BY <1>1 DEF MoveLeaves, LeaseInv, OwnerInv
  <2>4. seenOwner'[p] = owner
    BY <1>4 DEF LeaseInv, LeaseTypes
  <2>5. MoveOwes(p, "claim")
    BY <1>1, <1>2, <1>4, <2>1, <2>4 DEF MoveOwes
  <2> QED BY <2>1, <2>2, <2>3, <2>5, MoveKeeps
<1>5. {"acquire", "failed", "readDirectory", "refused"} \subseteq Elsewhere
  BY DEF Elsewhere
<1> QED BY <1>3, <1>4, <1>5 DEF Lease!ReadOwner, Lease!Retry

LEMMA ReadDirectoryKeeps ==
    ASSUME LeaseInv, NEW p \in Procs, Lease!ReadDirectory(p)
    PROVE  LeaseInv'
<1>1. alive[p] /\ pc[p] = "readDirectory" /\ UNCHANGED <<lockDir, owner, claim, desc, alive, seenOwner>>
  BY DEF Lease!ReadDirectory, Lease!At, Lease!files
<1>2. claim # p /\ pc[p] \notin OwnerPcs \cup EndedPcs /\ ~Lease!Dead(claim)
  BY <1>1, WhereItStands DEF ClaimedPcs, OwnerPcs, EndedPcs, Lease!Dead
<1>3. \E l \in {"acquire", "failed", "removeIncomplete", "refused"} : Lease!Goto(p, l)
  BY <1>2 DEF Lease!ReadDirectory, Lease!Retry
<1>4. {"acquire", "failed", "removeIncomplete", "refused"} \subseteq Elsewhere
  BY DEF Elsewhere
<1> QED BY <1>1, <1>2, <1>3, <1>4, GoesOn

LEMMA RemoveIncompleteKeeps ==
    ASSUME LeaseInv, NEW p \in Procs, Lease!RemoveIncomplete(p)
    PROVE  LeaseInv'
<1>1. /\ alive[p] /\ pc[p] = "removeIncomplete" /\ UNCHANGED <<owner, claim, desc, alive, seenOwner>>
      /\ lockDir' = (lockDir /\ (owner # "none" \/ claim # "none"))
      /\ \E l \in {"acquire", "failed"} : Lease!Goto(p, l)
  BY DEF Lease!RemoveIncomplete, Lease!At, Lease!Retry, Lease!None
<1>2. PICK l \in {"acquire", "failed"} : Lease!Goto(p, l)
  BY <1>1
<1>3. claim # p /\ pc[p] \notin OwnerPcs \cup EndedPcs
  BY <1>1, WhereItStands DEF ClaimedPcs, OwnerPcs, EndedPcs
<1>4. l \in LeasePcs /\ MoveOwes(p, l)
  BY <1>1, <1>2, <1>3 DEF LeasePcs, MoveOwes, OwnerPcs, ClaimedPcs, RecoverPcs, EndedPcs
<1>5. MoveTypes(p, l)
  BY <1>1, <1>2, <1>4 DEF MoveTypes, LeaseInv, LeaseTypes, Lease!Goto
<1>6. MoveLeaves(p, l)
  BY <1>1 DEF MoveLeaves, LeaseInv, OwnerInv
<1> QED BY <1>4, <1>5, <1>6, MoveKeeps
----------------------------------------------------------------------------
(* The steps of the one that recovers a dead owner's lock.                 *)

\* What a recoverer's step needs: it is alone under its claim.
LEMMA RecoversAlone ==
    ASSUME LeaseInv, NEW p \in Procs, alive[p], pc[p] \in RecoverPcs
    PROVE  /\ Lease!Dead(seenOwner[p]) /\ "none" \notin Procs
           /\ pc[p] \notin OwnerPcs \cup EndedPcs /\ pc[p] # "acquire"
           /\ claim \in {p, "none"} => Alone(p, ClaimedPcs)
           /\ claim = p => lockDir
           /\ \A q \in Procs : alive[q] => seenOwner[p] # q
           /\ owner = seenOwner[p] => Alone(p, OwnerPcs)
<1>1. /\ Lease!Dead(seenOwner[p]) /\ "none" \notin Procs /\ (claim = p => lockDir)
      /\ pc[p] \notin OwnerPcs \cup EndedPcs /\ pc[p] # "acquire"
  BY WhereItStands DEF RecoverPcs, ClaimedPcs, OwnerPcs, EndedPcs
<1>2. claim \in {p, "none"} => Alone(p, ClaimedPcs)
  BY <1>1 DEF LeaseInv, RecoverInv, Alone
<1>3. \A q \in Procs : alive[q] => seenOwner[p] # q
  BY <1>1 DEF Lease!Dead
<1>4. owner = seenOwner[p] => Alone(p, OwnerPcs)
  BY <1>3 DEF LeaseInv, OwnerInv, Alone
<1> QED BY <1>1, <1>2, <1>3, <1>4

\* A recoverer that only looks.
LEMMA RecovererLooks ==
    ASSUME LeaseInv, NEW p \in Procs, alive[p], pc[p] \in RecoverPcs, NEW l \in RecoverPcs \cup Elsewhere,
           Lease!Goto(p, l), UNCHANGED <<lockDir, owner, claim, desc, alive, seenOwner>>,
           l \in ClaimedPcs <=> claim = p, l = "unlinkOwner" => owner = seenOwner[p]
    PROVE  LeaseInv'
<1>1. l \in LeasePcs /\ l \notin OwnerPcs /\ l # "holding" /\ (l \in RecoverPcs \/ l \notin RecoverPcs)
  BY DEF LeasePcs, Elsewhere, OwnerPcs, ClaimedPcs, RecoverPcs
<1>2. MoveOwes(p, l)
  BY <1>1, RecoversAlone DEF MoveOwes
<1> QED BY <1>1, <1>2, RecoversAlone, LookKeeps

LEMMA ClaimKeeps ==
    ASSUME LeaseInv, NEW p \in Procs, Lease!Claim(p)
    PROVE  LeaseInv'
<1>1. alive[p] /\ pc[p] = "claim" /\ UNCHANGED <<lockDir, owner, desc, alive, seenOwner>>
  <2>1. pc[p] # "claimAgain"
    BY DEF LeaseInv, LeaseTypes, LeasePcs, OwnerPcs, RecoverPcs, ClaimedPcs, EndedPcs
  <2> QED BY <2>1 DEF Lease!Claim, Lease!At, Lease!memory
<1>2. pc[p] \in RecoverPcs /\ claim # p
  BY <1>1, WhereItStands DEF RecoverPcs, ClaimedPcs
<1>3. CASE UNCHANGED claim /\ \E l \in {"failed", "readClaim"} : Lease!Goto(p, l)
  <2>1. PICK l \in {"failed", "readClaim"} : Lease!Goto(p, l)
    BY <1>3
  <2>2. l \in RecoverPcs \cup Elsewhere /\ l \notin ClaimedPcs /\ l # "unlinkOwner"
    BY DEF RecoverPcs, Elsewhere, ClaimedPcs
  <2> QED BY <1>1, <1>2, <1>3, <2>1, <2>2, RecovererLooks
<1>4. CASE lockDir /\ claim = "none" /\ claim' = p /\ Lease!Goto(p, "verify")
  <2>1. /\ "verify" \in LeasePcs /\ "verify" \in RecoverPcs /\ "verify" \notin OwnerPcs
        /\ "verify" \in ClaimedPcs
    BY DEF LeasePcs, OwnerPcs, ClaimedPcs, RecoverPcs
  <2>2. MoveTypes(p, "verify")
    BY <1>1, <1>4, <2>1 DEF MoveTypes, LeaseInv, LeaseTypes, Lease!Goto
  <2>3. Alone(p, ClaimedPcs)
    BY <1>1, <1>2, <1>4, RecoversAlone
  <2>4. MoveLeaves(p, "verify")
    BY <1>1, <1>4, <2>3 DEF MoveLeaves
  <2>5. MoveOwes(p, "verify")
    BY <1>1, <1>2, <1>4, <2>1, RecoversAlone DEF MoveOwes
  <2> QED BY <2>1, <2>2, <2>4, <2>5, MoveKeeps
<1>5. Lease!None = "none"
  BY DEF Lease!None
<1> QED BY <1>1, <1>3, <1>4, <1>5 DEF Lease!Claim

LEMMA ReadClaimKeeps ==
    ASSUME LeaseInv, NEW p \in Procs, Lease!ReadClaim(p)
    PROVE  LeaseInv'
<1>1. alive[p] /\ pc[p] = "readClaim" /\ UNCHANGED <<lockDir, owner, claim, desc, alive, seenOwner>>
  BY DEF Lease!ReadClaim, Lease!At, Lease!files
<1>2. claim # p /\ pc[p] \in RecoverPcs /\ ~Lease!Dead(claim)
  BY <1>1, WhereItStands DEF ClaimedPcs, RecoverPcs, Lease!Dead
<1>3. PICK l \in {"refused", "failed"} : Lease!Goto(p, l)
  BY <1>2 DEF Lease!ReadClaim
<1>4. l \in RecoverPcs \cup Elsewhere /\ l \notin ClaimedPcs /\ l # "unlinkOwner"
  BY DEF RecoverPcs, Elsewhere, ClaimedPcs
<1> QED BY <1>1, <1>2, <1>3, <1>4, RecovererLooks

LEMMA VerifyKeeps ==
    ASSUME LeaseInv, NEW p \in Procs, Lease!Verify(p) \/ Lease!CheckOwnClaim(p)
    PROVE  LeaseInv'
<1>1. /\ alive[p] /\ pc[p] \in {"verify", "checkOwnClaim"}
      /\ UNCHANGED <<lockDir, owner, claim, desc, alive, seenOwner>>
  BY DEF Lease!Verify, Lease!CheckOwnClaim, Lease!At, Lease!files, Lease!memory
<1>2. claim = p /\ pc[p] \in RecoverPcs
  BY <1>1, WhereItStands DEF ClaimedPcs, RecoverPcs
<1>3. CASE Lease!Goto(p, "unclaim")
  <2>1. MoveOwes(p, "unclaim") /\ "unclaim" \in LeasePcs
    BY <1>1, <1>2, RecoversAlone DEF MoveOwes, OwnerPcs, EndedPcs, ClaimedPcs, RecoverPcs, LeasePcs
  <2> QED BY <1>1, <1>2, <1>3, <2>1, RecoversAlone, LookKeeps
<1>4. CASE \E l \in {"unlinkOwner", "dropOwnClaim"} : Lease!Goto(p, l) /\ (l = "unlinkOwner" => owner = seenOwner[p])
  <2>1. {"unlinkOwner", "dropOwnClaim"} \subseteq ClaimedPcs /\ ClaimedPcs \subseteq RecoverPcs
    BY DEF ClaimedPcs, RecoverPcs
  <2> QED BY <1>1, <1>2, <1>4, <2>1, RecovererLooks
<1> QED BY <1>1, <1>2, <1>3, <1>4 DEF Lease!Verify, Lease!CheckOwnClaim

LEMMA UnlinkOwnerKeeps ==
    ASSUME LeaseInv, NEW p \in Procs, Lease!UnlinkOwner(p)
    PROVE  LeaseInv'
<1>1. alive[p] /\ pc[p] = "unlinkOwner" /\ owner' = "none" /\ UNCHANGED <<lockDir, claim, desc, alive, seenOwner>>
  BY DEF Lease!UnlinkOwner, Lease!At, Lease!memory, Lease!None
<1>2. claim = p /\ pc[p] \in RecoverPcs /\ owner = seenOwner[p] /\ lockDir
  BY <1>1, WhereItStands DEF ClaimedPcs, RecoverPcs
<1>3. owner # "none" /\ Alone(p, ClaimedPcs) /\ Alone(p, OwnerPcs)
  BY <1>1, <1>2, RecoversAlone DEF Lease!Dead
<1>4. Lease!Goto(p, "checkOwnClaim")
  BY <1>3 DEF Lease!UnlinkOwner, Lease!None
<1>5. /\ "checkOwnClaim" \in LeasePcs /\ "checkOwnClaim" \in ClaimedPcs /\ "checkOwnClaim" \notin OwnerPcs
  BY DEF LeasePcs, OwnerPcs, ClaimedPcs, RecoverPcs
<1>6. MoveTypes(p, "checkOwnClaim")
  BY <1>1, <1>4, <1>5 DEF MoveTypes, LeaseInv, LeaseTypes, Lease!Goto
<1>7. Alone(p, OwnerPcs \cup {"unlinkOwner"})
  BY <1>3 DEF Alone, ClaimedPcs
<1>8. MoveLeaves(p, "checkOwnClaim")
  BY <1>1, <1>2, <1>7 DEF MoveLeaves
<1>9. MoveOwes(p, "checkOwnClaim")
  BY <1>1, <1>2, <1>5, RecoversAlone DEF MoveOwes
<1> QED BY <1>5, <1>6, <1>8, <1>9, MoveKeeps

\* Who gives up its claim touches nothing of the others.
LEMMA ClaimIsDropped ==
    ASSUME LeaseInv, NEW p \in Procs, alive[p], pc[p] \in RecoverPcs, NEW l \in {"removeDirectory", "failed"},
           Lease!Goto(p, l), UNCHANGED <<lockDir, owner, desc, alive, seenOwner>>,
           claim' = IF claim = p THEN "none" ELSE claim
    PROVE  LeaseInv'
<1>1. l \in LeasePcs /\ l \notin OwnerPcs /\ l # "holding" /\ l \notin ClaimedPcs /\ l # "unlinkOwner"
  BY DEF LeasePcs, OwnerPcs, ClaimedPcs, RecoverPcs
<1>2. MoveTypes(p, l)
  BY <1>1 DEF MoveTypes, LeaseInv, LeaseTypes, Lease!Goto
<1>3. MoveLeaves(p, l)
  BY RecoversAlone DEF MoveLeaves, LeaseInv, OwnerInv
<1>4. MoveOwes(p, l)
  BY <1>1, RecoversAlone DEF MoveOwes
<1> QED BY <1>1, <1>2, <1>3, <1>4, MoveKeeps

LEMMA DropOwnClaimKeeps ==
    ASSUME LeaseInv, NEW p \in Procs, Lease!DropOwnClaim(p) \/ Lease!Unclaim(p)
    PROVE  LeaseInv'
<1>1. /\ alive[p] /\ pc[p] \in {"dropOwnClaim", "unclaim"}
      /\ UNCHANGED <<lockDir, owner, desc, alive, seenOwner>>
  BY DEF Lease!DropOwnClaim, Lease!Unclaim, Lease!At, Lease!memory
<1>2. pc[p] \in RecoverPcs /\ (pc[p] = "dropOwnClaim" => claim = p) /\ "none" \notin Procs
  BY <1>1, WhereItStands DEF ClaimedPcs, RecoverPcs
<1>3. claim' = IF claim = p THEN "none" ELSE claim
  BY <1>2 DEF Lease!DropOwnClaim, Lease!Unclaim, Lease!None, Lease!At
<1>4. \E l \in {"removeDirectory", "failed"} : Lease!Goto(p, l)
  BY <1>2 DEF Lease!DropOwnClaim, Lease!Unclaim, Lease!None, Lease!At
<1> QED BY <1>1, <1>2, <1>3, <1>4, ClaimIsDropped

LEMMA RemoveDirectoryKeeps ==
    ASSUME LeaseInv, NEW p \in Procs, Lease!RemoveDirectory(p)
    PROVE  LeaseInv'
<1>1. /\ alive[p] /\ pc[p] = "removeDirectory" /\ UNCHANGED <<owner, claim, desc, alive, seenOwner>>
      /\ lockDir' = lockDir \/ (lockDir' = FALSE /\ owner = "none" /\ claim = "none")
      /\ \E l \in {"acquire", "failed", "unclaim"} : Lease!Goto(p, l)
  BY DEF Lease!RemoveDirectory, Lease!At, Lease!Retry, Lease!None
<1>2. PICK l \in {"acquire", "failed", "unclaim"} : Lease!Goto(p, l)
  BY <1>1
<1>3. claim # p /\ pc[p] \in RecoverPcs
  BY <1>1, WhereItStands DEF ClaimedPcs, RecoverPcs
<1>4. l \in LeasePcs /\ l \notin OwnerPcs /\ l # "holding" /\ l \notin ClaimedPcs /\ l # "unlinkOwner"
  BY DEF LeasePcs, OwnerPcs, ClaimedPcs, RecoverPcs
<1>5. MoveTypes(p, l)
  BY <1>1, <1>2, <1>4 DEF MoveTypes, LeaseInv, LeaseTypes, Lease!Goto
<1>6. MoveLeaves(p, l)
  BY <1>1 DEF MoveLeaves, LeaseInv, OwnerInv
<1>7. MoveOwes(p, l)
  BY <1>1, <1>3, <1>4, RecoversAlone DEF MoveOwes
<1> QED BY <1>4, <1>5, <1>6, <1>7, MoveKeeps
----------------------------------------------------------------------------
(* The steps of the one that has the lock.                                 *)

\* An owner's step needs: it is the owner, and there is only one.
LEMMA OwnsAlone ==
    ASSUME LeaseInv, NEW p \in Procs, alive[p], pc[p] \in OwnerPcs
    PROVE  /\ owner = p /\ lockDir /\ claim # p /\ "none" \notin Procs
           /\ Alone(p, OwnerPcs \cup {"unlinkOwner"}) /\ Alone(p, {"holding"})
           /\ pc[p] # "acquire"
<1>1. owner = p /\ lockDir /\ claim # p /\ "none" \notin Procs /\ pc[p] # "acquire"
  BY WhereItStands DEF OwnerPcs, ClaimedPcs
<1>2. Alone(p, OwnerPcs)
  BY <1>1 DEF LeaseInv, OwnerInv, Alone
<1>3. Alone(p, {"unlinkOwner"})
  <2> SUFFICES ASSUME NEW q \in Procs, alive[q], pc[q] = "unlinkOwner"
               PROVE  FALSE
    BY DEF Alone
  <2>1. owner = seenOwner[q] /\ Lease!Dead(seenOwner[q])
    BY DEF LeaseInv, RecoverInv, RecoverPcs, ClaimedPcs
  <2> QED BY <1>1, <2>1 DEF Lease!Dead
<1>4. "holding" \in OwnerPcs
  BY DEF OwnerPcs
<1> QED BY <1>1, <1>2, <1>3, <1>4 DEF Alone

\* An owner goes on to one of its own states, with the lock as it is.
LEMMA OwnerGoesOn ==
    ASSUME LeaseInv, NEW p \in Procs, alive[p], pc[p] \in OwnerPcs, NEW l \in OwnerPcs,
           Lease!Goto(p, l), UNCHANGED <<lockDir, owner, claim, alive, seenOwner>>,
           desc' \in {desc, p, "none"}, l = "holding" => desc' = p
    PROVE  LeaseInv'
<1>1. l \in LeasePcs /\ l \notin ClaimedPcs /\ l \notin RecoverPcs /\ l # "unlinkOwner"
  BY DEF LeasePcs, OwnerPcs, ClaimedPcs, RecoverPcs
<1>2. MoveTypes(p, l)
  BY <1>1 DEF MoveTypes, LeaseInv, LeaseTypes, Lease!Goto
<1>3. MoveLeaves(p, l)
  BY OwnsAlone DEF MoveLeaves, LeaseInv, OwnerInv
<1>4. MoveOwes(p, l)
  BY <1>1, OwnsAlone DEF MoveOwes
<1> QED BY <1>1, <1>2, <1>3, <1>4, MoveKeeps

LEMMA OwnerStepKeeps ==
    ASSUME LeaseInv, NEW p \in Procs,
           \/ Lease!CheckDescriptor(p) \/ Lease!DropDescriptor(p) \/ Lease!WriteDescriptor(p)
           \/ Lease!Release(p) \/ Lease!ReadOwnLock(p)
    PROVE  LeaseInv'
<1> USE DEF Lease!At, Lease!files, Lease!memory, Lease!None
<1>1. {"checkDescriptor", "dropDescriptor", "writeDescriptor", "holding", "unlock", "unlockRefused", "unlinkOwn"} \subseteq OwnerPcs
  BY DEF OwnerPcs
<1>2. CASE Lease!CheckDescriptor(p)
  <2>1. PICK l \in {"writeDescriptor", "dropDescriptor", "unlockRefused"} : Lease!Goto(p, l)
    BY <1>2 DEF Lease!CheckDescriptor
  <2>2. /\ alive[p] /\ pc[p] \in OwnerPcs /\ l \in OwnerPcs /\ l # "holding"
        /\ UNCHANGED <<lockDir, owner, claim, desc, alive, seenOwner>>
    BY <1>1, <1>2 DEF Lease!CheckDescriptor
  <2> QED BY <2>1, <2>2, OwnerGoesOn
<1>3. CASE Lease!DropDescriptor(p)
  <2>1. /\ alive[p] /\ pc[p] \in OwnerPcs /\ desc' = "none" /\ Lease!Goto(p, "writeDescriptor")
        /\ UNCHANGED <<lockDir, owner, claim, alive, seenOwner>>
    BY <1>1, <1>3 DEF Lease!DropDescriptor
  <2> QED BY <1>1, <2>1, OwnerGoesOn
<1>4. CASE Lease!WriteDescriptor(p)
  <2>1. /\ alive[p] /\ pc[p] \in OwnerPcs /\ desc' = p /\ Lease!Goto(p, "holding")
        /\ UNCHANGED <<lockDir, owner, claim, alive, seenOwner>>
    BY <1>1, <1>4 DEF Lease!WriteDescriptor
  <2> QED BY <1>1, <2>1, OwnerGoesOn
<1>5. CASE Lease!Release(p)
  <2>1. /\ alive[p] /\ pc[p] \in OwnerPcs /\ desc' \in {desc, "none"} /\ Lease!Goto(p, "unlock")
        /\ UNCHANGED <<lockDir, owner, claim, alive, seenOwner>>
    BY <1>1, <1>5 DEF Lease!Release, Lease!DescriptorWithout
  <2> QED BY <1>1, <2>1, OwnerGoesOn
<1>6. CASE Lease!ReadOwnLock(p)
  <2>1. /\ alive[p] /\ pc[p] \in OwnerPcs /\ UNCHANGED <<lockDir, owner, claim, desc, alive, seenOwner>>
    BY <1>1, <1>6 DEF Lease!ReadOwnLock
  <2>2. Lease!Goto(p, "unlinkOwn")
    BY <1>6, <2>1, OwnsAlone DEF Lease!ReadOwnLock
  <2> QED BY <1>1, <2>1, <2>2, OwnerGoesOn
<1> QED BY <1>2, <1>3, <1>4, <1>5, <1>6

LEMMA UnlinkOwnKeeps ==
    ASSUME LeaseInv, NEW p \in Procs, Lease!UnlinkOwn(p)
    PROVE  LeaseInv'
<1>1. /\ alive[p] /\ pc[p] = "unlinkOwn" /\ owner' = "none" /\ Lease!Goto(p, "removeOwnDirectory")
      /\ UNCHANGED <<lockDir, claim, desc, alive, seenOwner>>
  BY DEF Lease!UnlinkOwn, Lease!At, Lease!memory, Lease!None
<1>2. pc[p] \in OwnerPcs
  BY <1>1 DEF OwnerPcs
<1>3. /\ "removeOwnDirectory" \in LeasePcs /\ "removeOwnDirectory" \in EndedPcs
      /\ "removeOwnDirectory" \notin OwnerPcs \cup RecoverPcs \cup ClaimedPcs
  BY DEF LeasePcs, OwnerPcs, ClaimedPcs, RecoverPcs, EndedPcs
<1>4. MoveTypes(p, "removeOwnDirectory")
  BY <1>1, <1>3 DEF MoveTypes, LeaseInv, LeaseTypes, Lease!Goto
<1>5. MoveLeaves(p, "removeOwnDirectory")
  BY <1>1, <1>2, OwnsAlone DEF MoveLeaves
<1>6. MoveOwes(p, "removeOwnDirectory")
  BY <1>1, <1>2, <1>3, OwnsAlone DEF MoveOwes
<1> QED BY <1>3, <1>4, <1>5, <1>6, MoveKeeps

LEMMA RemoveOwnDirectoryKeeps ==
    ASSUME LeaseInv, NEW p \in Procs, Lease!RemoveOwnDirectory(p)
    PROVE  LeaseInv'
<1>1. /\ alive[p] /\ pc[p] = "removeOwnDirectory" /\ UNCHANGED <<owner, claim, desc, alive, seenOwner>>
      /\ lockDir' = (lockDir /\ (owner # "none" \/ claim # "none"))
      /\ Lease!Goto(p, "released")
  BY DEF Lease!RemoveOwnDirectory, Lease!At, Lease!memory, Lease!None
<1>2. claim # p
  BY <1>1, WhereItStands DEF ClaimedPcs
<1>3. /\ "released" \in LeasePcs /\ "released" \in EndedPcs
      /\ "released" \notin OwnerPcs \cup RecoverPcs \cup ClaimedPcs
  BY DEF LeasePcs, OwnerPcs, ClaimedPcs, RecoverPcs, EndedPcs
<1>4. MoveTypes(p, "released")
  BY <1>1, <1>3 DEF MoveTypes, LeaseInv, LeaseTypes, Lease!Goto
<1>5. MoveLeaves(p, "released")
  BY <1>1 DEF MoveLeaves, LeaseInv, OwnerInv
<1>6. MoveOwes(p, "released")
  BY <1>1, <1>2, <1>3 DEF MoveOwes
<1> QED BY <1>3, <1>4, <1>5, <1>6, MoveKeeps
----------------------------------------------------------------------------
(* The one death, and the lease as a whole.                                *)

\* Until somebody dies nobody recovers and nothing is claimed.
LEMMA NobodyRecovers ==
    ASSUME LeaseInv, \A p \in Procs : alive[p]
    PROVE  claim = "none" /\ \A p \in Procs : pc[p] \notin RecoverPcs
<1>1. \A p \in Procs : pc[p] \notin RecoverPcs
  BY DEF LeaseInv, RecoverInv, Lease!Dead
<1>2. claim = "none"
  BY <1>1 DEF LeaseInv, LeaseTypes, RecoverInv, RecoverPcs
<1> QED BY <1>1, <1>2

LEMMA DieKeeps ==
    ASSUME MaxDeaths <= 1, LeaseInv, NEW p \in Procs, Lease!Die(p)
    PROVE  LeaseInv'
<1>1. /\ alive' = [alive EXCEPT ![p] = FALSE] /\ UNCHANGED <<lockDir, owner, desc, pc, seenOwner>>
      /\ claim' \in {claim} \cup (IF claim = p /\ pc[p] = "verify" THEN {"torn"} ELSE {})
      /\ Cardinality({q \in Procs : ~alive[q]}) < MaxDeaths
  <2>1. \A S : Lease!Cardinality(S) = Cardinality(S)
    BY DEF Lease!Cardinality, Cardinality
  <2> QED BY <2>1 DEF Lease!Die, Lease!Torn
<1> DEFINE D == {q \in Procs : ~alive[q]}
<1>2. \A q \in Procs : alive[q]
  <2>1. ASSUME NEW q \in D
        PROVE  FALSE
    <3>1. D = {q}
      BY <2>1 DEF LeaseInv, LeaseTypes
    <3>2. Cardinality(D) = 1
      BY <3>1, FS_Singleton
    <3> QED BY <1>1, <3>2, LeaseAssumption
  <2> QED BY <2>1 DEF LeaseInv, LeaseTypes
<1>3. claim = "none" /\ \A q \in Procs : pc[q] \notin RecoverPcs
  BY <1>2, NobodyRecovers
<1>4. claim' = "none" /\ alive \in [Procs -> BOOLEAN] /\ ~alive'[p]
  BY <1>1, <1>3, LeaseAssumption DEF LeaseInv, LeaseTypes
<1>5. \A q \in Procs : alive'[q] <=> q # p
  BY <1>1, <1>2, <1>4
<1>6. LeaseTypes'
  BY <1>1, <1>4, <1>5 DEF LeaseInv, LeaseTypes
<1>7. OwnerInv'
  BY <1>1, <1>2, <1>3, <1>4 DEF LeaseInv, OwnerInv
<1>8. RecoverInv'
  <2>1. ClaimedPcs \subseteq RecoverPcs /\ "unlinkOwner" \in RecoverPcs
    BY DEF ClaimedPcs, RecoverPcs
  <2> QED BY <1>1, <1>3, <1>4, <2>1 DEF RecoverInv
<1>9. FirstInv'
  BY <1>4 DEF FirstInv
<1> QED BY <1>6, <1>7, <1>8, <1>9 DEF LeaseInv

LEMMA LeaseInit ==
    ASSUME Lease!Init
    PROVE  LeaseInv
<1>1. /\ lockDir = FALSE /\ owner = "none" /\ claim = "none" /\ desc = "none"
      /\ pc = [p \in Procs |-> "acquire"] /\ alive = [p \in Procs |-> TRUE]
      /\ seenOwner = [p \in Procs |-> "none"]
  BY DEF Lease!Init, Lease!None
<1>2. "acquire" \in LeasePcs /\ "acquire" \notin OwnerPcs \cup RecoverPcs \cup ClaimedPcs
  BY DEF LeasePcs, OwnerPcs, RecoverPcs, ClaimedPcs, EndedPcs
<1>3. LeaseTypes
  BY <1>1, <1>2 DEF LeaseTypes
<1>4. OwnerInv /\ RecoverInv /\ FirstInv
  BY <1>1, <1>2 DEF OwnerInv, RecoverInv, FirstInv
<1> QED BY <1>3, <1>4 DEF LeaseInv

\* Nobody removes a dead contender's claim: no contender with a claim dies.
LEMMA NoClaimIsLeft ==
    ASSUME LeaseInv, NEW p \in Procs
    PROVE  ~Lease!CheckClaim(p) /\ ~Lease!DropClaim(p) /\ ~Lease!DropDeadClaim(p)
<1>1. pc[p] \notin {"checkClaim", "dropClaim", "dropDeadClaim"}
  BY DEF LeaseInv, LeaseTypes, LeasePcs, OwnerPcs, RecoverPcs, ClaimedPcs, EndedPcs
<1> QED BY <1>1 DEF Lease!CheckClaim, Lease!DropClaim, Lease!DropDeadClaim, Lease!At

LEMMA LeaseStep ==
    ASSUME MaxDeaths <= 1, LeaseInv, Lease!Next
    PROVE  LeaseInv'
<1> SUFFICES ASSUME NEW p \in Procs, Lease!Step(p) \/ Lease!Release(p) \/ Lease!Die(p)
             PROVE  LeaseInv'
  BY DEF Lease!Next
<1>1. CASE Lease!Rename(p) \/ Lease!RenameRefused(p) \/ Lease!ReadOwner(p) \/ Lease!ReadDirectory(p) \/ Lease!RemoveIncomplete(p)
  BY <1>1, RenameKeeps, ReadOwnerKeeps, ReadDirectoryKeeps, RemoveIncompleteKeeps
<1>2. CASE Lease!Claim(p) \/ Lease!ReadClaim(p) \/ Lease!Verify(p) \/ Lease!UnlinkOwner(p) \/ Lease!CheckOwnClaim(p)
  BY <1>2, ClaimKeeps, ReadClaimKeeps, VerifyKeeps, UnlinkOwnerKeeps
<1>3. CASE Lease!DropOwnClaim(p) \/ Lease!RemoveDirectory(p) \/ Lease!Unclaim(p)
  BY <1>3, DropOwnClaimKeeps, RemoveDirectoryKeeps
<1>4. CASE Lease!CheckClaim(p) \/ Lease!DropClaim(p) \/ Lease!DropDeadClaim(p)
  BY <1>4, NoClaimIsLeft
<1>5. CASE Lease!CheckDescriptor(p) \/ Lease!DropDescriptor(p) \/ Lease!WriteDescriptor(p) \/ Lease!ReadOwnLock(p) \/ Lease!Release(p)
  BY <1>5, OwnerStepKeeps
<1>6. CASE Lease!UnlinkOwn(p) \/ Lease!RemoveOwnDirectory(p)
  BY <1>6, UnlinkOwnKeeps, RemoveOwnDirectoryKeeps
<1>7. CASE Lease!Die(p)
  BY <1>7, DieKeeps
<1> QED BY <1>1, <1>2, <1>3, <1>4, <1>5, <1>6, <1>7 DEF Lease!Step

LEMMA LeaseStutters ==
    ASSUME LeaseInv, UNCHANGED leaseVars
    PROVE  LeaseInv'
<1> USE DEF leaseVars
<1>1. LeaseTypes' /\ OwnerInv'
  BY DEF LeaseInv, LeaseTypes, OwnerInv
<1>2. RecoverInv' /\ FirstInv'
  BY DEF LeaseInv, RecoverInv, FirstInv, Lease!Dead
<1> QED BY <1>1, <1>2 DEF LeaseInv

LEMMA LeaseIsOneHolders ==
    ASSUME LeaseInv
    PROVE  LeaseIsHeld
<1>1. Lease!OneHolder
  <2> SUFFICES ASSUME NEW p \in Procs, alive[p], pc[p] = "holding"
               PROVE  /\ \A q \in Procs : alive[q] /\ pc[q] = "holding" => q = p
                      /\ desc = p /\ lockDir /\ owner = p
    BY DEF Lease!OneHolder, Lease!At
  <2>1. pc[p] \in OwnerPcs
    BY DEF OwnerPcs
  <2>2. owner = p /\ lockDir /\ Alone(p, {"holding"})
    BY <2>1, OwnsAlone
  <2> QED BY <2>2, WhereItStands DEF Alone
<1>2. Lease!SomebodyHeld
  <2> SUFFICES ASSUME \A p \in Procs : pc[p] \in {"refused", "failed"}
               PROVE  \E p \in Procs : ~alive[p]
    BY DEF Lease!SomebodyHeld
  <2>1. \A p \in Procs : pc[p] \notin OwnerPcs \cup EndedPcs /\ pc[p] # "acquire"
    BY DEF OwnerPcs, EndedPcs
  <2> QED BY <2>1, LeaseAssumption DEF LeaseInv, FirstInv
<1> QED BY <1>1, <1>2 DEF LeaseIsHeld, Lease!LeaseIsHeld

\* However many processes start on a data directory and try again however often: as long as one of them dies at
\* most, acquireRuntimeLock lets one through at a time, what it holds is its own, and contention alone never
\* leaves the directory to nobody.
THEOREM LeaseHeldByOne == ASSUME MaxDeaths <= 1 PROVE AllSpec => []LeaseIsHeld
<1>1. AllInit => LeaseInv
  BY LeaseInit DEF AllInit
<1>2. LeaseInv /\ [AllNext]_allVars => LeaseInv'
  BY LeaseStep, LeaseStutters DEF AllNext, allVars
<1>3. LeaseInv => LeaseIsHeld
  BY LeaseIsOneHolders
<1> QED BY <1>1, <1>2, <1>3, PTL DEF AllSpec
=============================================================================
