---------------------------- MODULE MemoryProofs ----------------------------
(* Proofs about Memory for any numbers of processes, pages, page tables    *)
(* and frames.                                                             *)
EXTENDS Memory, FiniteSetTheorems, TLAPS

-----------------------------------------------------------------------------
(* Two finite sets that differ in one element at most. *)
LEMMA SwapOne ==
    ASSUME NEW S, NEW T, NEW x, IsFiniteSet(S), S \ {x} = T \ {x}
    PROVE  /\ IsFiniteSet(T)
           /\ Cardinality(S) \in Nat /\ Cardinality(T) \in Nat
           /\ Cardinality(T) = Cardinality(S) - (IF x \in S THEN 1 ELSE 0)
                                              + (IF x \in T THEN 1 ELSE 0)
  <1>1. IsFiniteSet(S \ {x})  BY FS_RemoveElement
  <1>2. IsFiniteSet((T \ {x}) \cup {x})  BY <1>1, FS_AddElement
  <1>3. T \subseteq (T \ {x}) \cup {x}  OBVIOUS
  <1>4. IsFiniteSet(T)  BY <1>2, <1>3, FS_Subset
  <1>5. Cardinality(S) \in Nat /\ Cardinality(T) \in Nat
    BY <1>4, FS_CardinalityType
  <1>6. Cardinality(S \ {x}) = IF x \in S THEN Cardinality(S) - 1 ELSE Cardinality(S)
    BY FS_RemoveElement
  <1>7. Cardinality(T \ {x}) = IF x \in T THEN Cardinality(T) - 1 ELSE Cardinality(T)
    BY <1>4, FS_RemoveElement
  <1> QED  BY <1>4, <1>5, <1>6, <1>7

(* The pairs of a relation that start with a, and the others. *)
RowOf(M, B, a) == {b \in B : <<a, b>> \in M}
Others(M, a)   == {x \in M : x[1] # a}

(* Both together are the relation. *)
LEMMA Row ==
    ASSUME NEW A, NEW B, IsFiniteSet(A), IsFiniteSet(B), NEW a \in A,
           NEW M \in SUBSET (A \X B)
    PROVE  /\ Cardinality(M) \in Nat /\ Cardinality(Others(M, a)) \in Nat
           /\ Cardinality(RowOf(M, B, a)) \in Nat
           /\ Cardinality(M) = Cardinality(Others(M, a))
                                 + Cardinality(RowOf(M, B, a))
  <1> DEFINE R == Others(M, a)
             S == RowOf(M, B, a)
             P == {a} \X S
  <1>1. IsFiniteSet(A \X B)  BY FS_Product
  <1>2. IsFiniteSet(M) /\ Cardinality(M) \in Nat
    BY <1>1, FS_Subset, FS_CardinalityType
  <1>3. R \in SUBSET M /\ S \in SUBSET B  BY DEF Others, RowOf
  <1>4. M = R \cup P /\ R \cap P = {}  BY DEF Others, RowOf
  <1> HIDE DEF R, S
  <1>5. /\ IsFiniteSet(R) /\ Cardinality(R) \in Nat
        /\ IsFiniteSet(S) /\ Cardinality(S) \in Nat
    BY <1>2, <1>3, FS_Subset, FS_CardinalityType
  <1>6. IsFiniteSet({a}) /\ Cardinality({a}) = 1  BY FS_Singleton
  <1>7. IsFiniteSet(P) /\ Cardinality(P) = 1 * Cardinality(S)
    BY <1>5, <1>6, FS_Product
  <1> HIDE DEF P
  <1>8. Cardinality(R \cup P) = Cardinality(R) + Cardinality(P) - Cardinality({})
    BY <1>4, <1>5, <1>7, FS_Union
  <1>9. Cardinality(P) = Cardinality(S)  BY <1>5, <1>7
  <1>10. Cardinality({}) = 0  BY FS_EmptySet
  <1>11. Cardinality(M) = Cardinality(R) + Cardinality(S)
    BY <1>4, <1>5, <1>8, <1>9, <1>10
  <1> QED  BY <1>2, <1>5, <1>11 DEF R, S

(* Two relations that differ in the pairs that start with a at most. *)
LEMMA SwapRow ==
    ASSUME NEW A, NEW B, IsFiniteSet(A), IsFiniteSet(B), NEW a \in A,
           NEW M \in SUBSET (A \X B), NEW N \in SUBSET (A \X B),
           \A x \in A \X B : x[1] # a => (x \in M <=> x \in N)
    PROVE  Cardinality(N) = Cardinality(M) - Cardinality(RowOf(M, B, a))
                                           + Cardinality(RowOf(N, B, a))
  <1>1. Others(M, a) = Others(N, a)  BY DEF Others
  <1> QED  BY <1>1, Row

-----------------------------------------------------------------------------
(* All that is counted is finite. *)
Finite ==
    /\ \A f : /\ IsFiniteSet(Refs(f)) /\ Cardinality(Refs(f)) \in Nat
              /\ IsFiniteSet(Callers(f)) /\ Cardinality(Callers(f)) \in Nat
    /\ \A t, f : /\ IsFiniteSet({v \in Pages : pte[t][v].frame = f})
                 /\ Uses(t, f) \in Nat
    /\ IsFiniteSet(AllTables) /\ Cardinality(AllTables) \in Nat
    /\ IsFiniteSet(Frames \ Unused) /\ Cardinality(Frames \ Unused) \in Nat
    /\ IsFiniteSet({t \in Tasks : life[t] # "none"})
    /\ Cardinality({t \in Tasks : life[t] # "none"}) \in Nat
    /\ \A D \in SUBSET Tables : IsFiniteSet(D) /\ Cardinality(D) \in Nat

(* The constants are finite, and so is what is made of them. *)
LEMMA CountsFinite == Finite
  <1>1. \A S, T : IsFiniteSet(S) /\ T \subseteq S =>
           IsFiniteSet(T) /\ Cardinality(T) \in Nat
    <2> SUFFICES ASSUME NEW S, NEW T, IsFiniteSet(S), T \subseteq S
                 PROVE  IsFiniteSet(T) /\ Cardinality(T) \in Nat
      OBVIOUS
    <2>1. IsFiniteSet(T)  BY FS_Subset
    <2> QED  BY <2>1, FS_CardinalityType
  <1>2. /\ IsFiniteSet(Tasks) /\ IsFiniteSet(Pages) /\ IsFiniteSet(Frames)
        /\ IsFiniteSet(Tables)
    BY MemoryAssumption
  <1>3. IsFiniteSet(Tasks \X Pages) /\ IsFiniteSet(Tasks \X Tables)
    BY <1>2, FS_Product
  <1>4. \A f : /\ IsFiniteSet(Refs(f)) /\ Cardinality(Refs(f)) \in Nat
               /\ IsFiniteSet(Callers(f)) /\ Cardinality(Callers(f)) \in Nat
    <2>1. \A f : Refs(f) \subseteq Tasks \X Pages  BY DEF Refs
    <2>2. \A f : Callers(f) \subseteq Tasks  BY DEF Callers
    <2> QED  BY <1>1, <1>2, <1>3, <2>1, <2>2
  <1>5. \A t, f : /\ IsFiniteSet({v \in Pages : pte[t][v].frame = f})
                  /\ Uses(t, f) \in Nat
    <2>1. \A t, f : {v \in Pages : pte[t][v].frame = f} \subseteq Pages  OBVIOUS
    <2> QED  BY <1>1, <1>2, <2>1 DEF Uses
  <1>6. AllTables \subseteq Tasks \X Tables  BY DEF AllTables
  <1>7. Frames \ Unused \subseteq Frames  OBVIOUS
  <1>8. {t \in Tasks : life[t] # "none"} \subseteq Tasks  OBVIOUS
  <1>9. IsFiniteSet(AllTables) /\ Cardinality(AllTables) \in Nat
    BY <1>1, <1>3, <1>6
  <1>10. IsFiniteSet(Frames \ Unused) /\ Cardinality(Frames \ Unused) \in Nat
    BY <1>1, <1>2, <1>7
  <1>11. /\ IsFiniteSet({t \in Tasks : life[t] # "none"})
         /\ Cardinality({t \in Tasks : life[t] # "none"}) \in Nat
    BY <1>1, <1>2, <1>8
  <1>12. \A D \in SUBSET Tables : IsFiniteSet(D) /\ Cardinality(D) \in Nat
    BY <1>1, <1>2
  <1> QED  BY <1>4, <1>5, <1>9, <1>10, <1>11, <1>12 DEF Finite

(* And stays so. *)
LEMMA CountsFiniteNext == Finite'
  BY CountsFinite, PTL

(* A step that changes the entries of t: the users of a frame. *)
LEMMA TaskRefs ==
    ASSUME NEW t \in Tasks, NEW f,
           \A u \in Tasks \ {t} : \A v \in Pages :
              pte'[u][v].frame = pte[u][v].frame
    PROVE  Cardinality(Refs(f)') = Cardinality(Refs(f)) - Uses(t, f) + Uses(t, f)'
  <1> DEFINE M == Refs(f)
             N == Refs(f)'
             S == RowOf(M, Pages, t)
             T == RowOf(N, Pages, t)
  <1>1. IsFiniteSet(Tasks) /\ IsFiniteSet(Pages)  BY MemoryAssumption
  <1>2. M \in SUBSET (Tasks \X Pages) /\ N \in SUBSET (Tasks \X Pages)  BY DEF Refs
  <1>3. \A x \in Tasks \X Pages : x[1] # t => (x \in M <=> x \in N)  BY DEF Refs
  <1>4. Uses(t, f) = Cardinality(S)
    <2>1. S = {v \in Pages : pte[t][v].frame = f}  BY DEF RowOf, Refs
    <2> QED  BY <2>1 DEF Uses
  <1>5. Uses(t, f)' = Cardinality(T)
    <2>1. T = {v \in Pages : pte'[t][v].frame = f}  BY DEF RowOf, Refs
    <2> QED  BY <2>1 DEF Uses
  <1> HIDE DEF M, N
  <1>6. Cardinality(N) = Cardinality(M) - Cardinality(S) + Cardinality(T)
    BY <1>1, <1>2, <1>3, SwapRow
  <1> QED  BY <1>4, <1>5, <1>6 DEF M, N

(* A step that changes one entry of t. *)
LEMMA UsesOne ==
    ASSUME NEW t, NEW v \in Pages, NEW f,
           \A w \in Pages \ {v} : pte'[t][w].frame = pte[t][w].frame
    PROVE  Uses(t, f)' = Uses(t, f) - (IF pte[t][v].frame = f THEN 1 ELSE 0)
                                    + (IF pte'[t][v].frame = f THEN 1 ELSE 0)
  <1> DEFINE S == {w \in Pages : pte[t][w].frame = f}
             T == {w \in Pages : pte'[t][w].frame = f}
  <1>1. S \ {v} = T \ {v}  OBVIOUS
  <1>2. IsFiniteSet(S)
    <2>1. S \subseteq Pages /\ IsFiniteSet(Pages)  BY MemoryAssumption
    <2> QED  BY <2>1, FS_Subset
  <1>3. (v \in S <=> pte[t][v].frame = f) /\ (v \in T <=> pte'[t][v].frame = f)
    OBVIOUS
  <1>4. Uses(t, f) = Cardinality(S) /\ Uses(t, f)' = Cardinality(T)  BY DEF Uses
  <1> HIDE DEF S, T
  <1>5. /\ Cardinality(S) \in Nat /\ Cardinality(T) \in Nat
        /\ Cardinality(T) = Cardinality(S) - (IF v \in S THEN 1 ELSE 0)
                                           + (IF v \in T THEN 1 ELSE 0)
    BY <1>1, <1>2, SwapOne
  <1> QED  BY <1>3, <1>4, <1>5

(* A step that changes what t is about to do. *)
LEMMA CallersOne ==
    ASSUME NEW t \in Tasks, NEW f,
           \A u \in Tasks \ {t} : call'[u].frame = call[u].frame
    PROVE  Cardinality(Callers(f)') = Cardinality(Callers(f))
                    - (IF call[t].frame = f THEN 1 ELSE 0)
                    + (IF call'[t].frame = f THEN 1 ELSE 0)
  <1> DEFINE S == Callers(f)
             T == Callers(f)'
  <1>1. S \ {t} = T \ {t}  BY DEF Callers
  <1>2. IsFiniteSet(S)  BY CountsFinite DEF Finite
  <1>3. (t \in S <=> call[t].frame = f) /\ (t \in T <=> call'[t].frame = f)
    BY DEF Callers
  <1> HIDE DEF S, T
  <1>4. /\ Cardinality(S) \in Nat /\ Cardinality(T) \in Nat
        /\ Cardinality(T) = Cardinality(S) - (IF t \in S THEN 1 ELSE 0)
                                           + (IF t \in T THEN 1 ELSE 0)
    BY <1>1, <1>2, SwapOne
  <1>5. Cardinality(T) = Cardinality(S)
                    - (IF call[t].frame = f THEN 1 ELSE 0)
                    + (IF call'[t].frame = f THEN 1 ELSE 0)
    BY <1>3, <1>4
  <1> QED  BY <1>5 DEF S, T

(* A step that changes the page tables of t. *)
LEMMA TaskTables ==
    ASSUME dir \in [Tasks -> SUBSET Tables], dir' \in [Tasks -> SUBSET Tables],
           NEW t \in Tasks, \A u \in Tasks \ {t} : dir'[u] = dir[u]
    PROVE  Cardinality(AllTables') = Cardinality(AllTables)
                 - Cardinality(dir[t]) + Cardinality(dir'[t])
  <1> DEFINE M == AllTables
             N == AllTables'
             S == RowOf(M, Tables, t)
             T == RowOf(N, Tables, t)
  <1>1. IsFiniteSet(Tasks) /\ IsFiniteSet(Tables)  BY MemoryAssumption
  <1>2. M \in SUBSET (Tasks \X Tables) /\ N \in SUBSET (Tasks \X Tables)
    BY DEF AllTables
  <1>3. \A x \in Tasks \X Tables : x[1] # t => (x \in M <=> x \in N)
    BY DEF AllTables
  <1>4. S = dir[t] /\ T = dir'[t]  BY DEF RowOf, AllTables
  <1> HIDE DEF M, N
  <1>5. Cardinality(N) = Cardinality(M) - Cardinality(S) + Cardinality(T)
    BY <1>1, <1>2, <1>3, SwapRow
  <1> QED  BY <1>4, <1>5 DEF M, N

(* The frames in use, when one becomes used. *)
LEMMA UsedOne ==
    ASSUME NEW new \in Frames, memory_map[new] = 0, memory_map'[new] # 0,
           \A f \in Frames \ {new} : memory_map'[f] = 0 <=> memory_map[f] = 0
    PROVE  Cardinality((Frames \ Unused)') = Cardinality(Frames \ Unused) + 1
  <1> DEFINE S == Frames \ Unused
             T == (Frames \ Unused)'
  <1>1. T = S \cup {new} /\ new \notin S  BY DEF Unused
  <1>2. IsFiniteSet(S)  BY CountsFinite DEF Finite
  <1> HIDE DEF S, T
  <1>3. Cardinality(T) = Cardinality(S) + 1  BY <1>1, <1>2, FS_AddElement
  <1> QED  BY <1>3 DEF S, T

(* The frames in use, when none becomes used. *)
LEMMA UsedLess ==
    ASSUME \A f \in Frames : memory_map[f] = 0 => memory_map'[f] = 0
    PROVE  /\ Cardinality((Frames \ Unused)') <= Cardinality(Frames \ Unused)
           /\ Cardinality((Frames \ Unused)') \in Nat
  <1> DEFINE S == Frames \ Unused
             T == (Frames \ Unused)'
  <1>1. T \subseteq S  BY DEF Unused
  <1>2. IsFiniteSet(S)  BY CountsFinite DEF Finite
  <1> HIDE DEF S, T
  <1>3. IsFiniteSet(T) /\ Cardinality(T) <= Cardinality(S)
    BY <1>1, <1>2, FS_Subset
  <1>4. Cardinality(T) \in Nat  BY <1>3, FS_CardinalityType
  <1> QED  BY <1>3, <1>4 DEF S, T

(* The books are right after a step of t that counts what it gains and     *)
(* what it gives up.                                                       *)
LEMMA BooksKept ==
    ASSUME Accounted, NEW t \in Tasks,
           dir \in [Tasks -> SUBSET Tables], dir' \in [Tasks -> SUBSET Tables],
           \A u \in Tasks \ {t} :
              /\ \A v \in Pages : pte'[u][v].frame = pte[u][v].frame
              /\ call'[u].frame = call[u].frame /\ dir'[u] = dir[u]
              /\ life'[u] = life[u],
           \A f \in Frames : memory_map'[f] = memory_map[f]
              - Uses(t, f) + Uses(t, f)'
              - (IF call[t].frame = f THEN 1 ELSE 0)
              + (IF call'[t].frame = f THEN 1 ELSE 0),
           taken' = taken - Cardinality(dir[t]) + Cardinality(dir'[t])
              - (IF life[t] # "none" THEN 1 ELSE 0)
              + (IF life'[t] # "none" THEN 1 ELSE 0)
    PROVE  /\ \A f \in Frames : memory_map'[f] =
                 Cardinality(Refs(f)') + Cardinality(Callers(f)')
           /\ \A f \in Frames : memory_map'[f] \in Nat
           /\ taken' = Cardinality({u \in Tasks : life'[u] # "none"})
                         + Cardinality(AllTables')
           /\ taken' \in Nat
  <1>0. /\ \A f : Cardinality(Refs(f)') \in Nat /\ Cardinality(Callers(f)') \in Nat
        /\ \A f : Cardinality(Refs(f)) \in Nat /\ Cardinality(Callers(f)) \in Nat
        /\ Cardinality(AllTables) \in Nat /\ Cardinality(AllTables') \in Nat
        /\ \A f : Uses(t, f) \in Nat /\ Uses(t, f)' \in Nat
        /\ Cardinality(dir[t]) \in Nat /\ Cardinality(dir'[t]) \in Nat
    <2>1. /\ \A f : Cardinality(Refs(f)) \in Nat /\ Cardinality(Callers(f)) \in Nat
          /\ Cardinality(AllTables) \in Nat
          /\ \A f : Uses(t, f) \in Nat
          /\ \A D \in SUBSET Tables : Cardinality(D) \in Nat
      BY CountsFinite DEF Finite
    <2>2. /\ \A f : Cardinality(Refs(f)') \in Nat /\ Cardinality(Callers(f)') \in Nat
          /\ Cardinality(AllTables') \in Nat
          /\ \A f : Uses(t, f)' \in Nat
      BY CountsFiniteNext DEF Finite
    <2> QED  BY <2>1, <2>2
  <1>1. ASSUME NEW f \in Frames
        PROVE  /\ memory_map'[f] = Cardinality(Refs(f)') + Cardinality(Callers(f)')
               /\ memory_map'[f] \in Nat
    <2>1. Cardinality(Refs(f)') = Cardinality(Refs(f)) - Uses(t, f) + Uses(t, f)'
      BY TaskRefs
    <2>2. Cardinality(Callers(f)') = Cardinality(Callers(f))
                    - (IF call[t].frame = f THEN 1 ELSE 0)
                    + (IF call'[t].frame = f THEN 1 ELSE 0)
      BY CallersOne
    <2>3. memory_map[f] = Cardinality(Refs(f)) + Cardinality(Callers(f))
      BY DEF Accounted
    <2>4. memory_map'[f] = memory_map[f]
              - Uses(t, f) + Uses(t, f)'
              - (IF call[t].frame = f THEN 1 ELSE 0)
              + (IF call'[t].frame = f THEN 1 ELSE 0)
      OBVIOUS
    <2> QED  BY <1>0, <2>1, <2>2, <2>3, <2>4
  <1>2. /\ taken' = Cardinality({u \in Tasks : life'[u] # "none"})
                      + Cardinality(AllTables')
        /\ taken' \in Nat
    <2> DEFINE S == {u \in Tasks : life[u] # "none"}
               T == {u \in Tasks : life'[u] # "none"}
    <2>1. S \ {t} = T \ {t}  OBVIOUS
    <2>2. (t \in S <=> life[t] # "none") /\ (t \in T <=> life'[t] # "none")  OBVIOUS
    <2>3. IsFiniteSet(S)
      <3>1. S \subseteq Tasks /\ IsFiniteSet(Tasks)  BY MemoryAssumption
      <3> QED  BY <3>1, FS_Subset
    <2>4. taken = Cardinality(S) + Cardinality(AllTables)  BY DEF Accounted
    <2> HIDE DEF S, T
    <2>5. /\ Cardinality(S) \in Nat /\ Cardinality(T) \in Nat
          /\ Cardinality(T) = Cardinality(S) - (IF t \in S THEN 1 ELSE 0)
                                             + (IF t \in T THEN 1 ELSE 0)
      BY <2>1, <2>3, SwapOne
    <2>6. Cardinality(AllTables') = Cardinality(AllTables)
                 - Cardinality(dir[t]) + Cardinality(dir'[t])
      BY TaskTables
    <2>7. taken' = Cardinality(T) + Cardinality(AllTables') /\ taken' \in Nat
      BY <1>0, <2>2, <2>4, <2>5, <2>6
    <2> QED  BY <2>7 DEF T
  <1> QED  BY <1>1, <1>2

-----------------------------------------------------------------------------
(* What a count of 0 or 1 means: nobody uses the frame, or one entry or    *)
(* one call does.  Own says it without the counts.                         *)
Nobodys(f) ==
    \A u \in Tasks : call[u].frame # f /\ \A w \in Pages : pte[u][w].frame # f

EntriesOwn == \A t \in Tasks : \A v \in Pages : pte[t][v].rw =>
    /\ pte[t][v].frame \in Frames
    /\ \A u \in Tasks : /\ call[u].frame # pte[t][v].frame
                        /\ \A w \in Pages : pte[u][w].frame = pte[t][v].frame
                                              => u = t /\ w = v

CallsOwn == \A t \in Tasks : call[t].frame # NoFrame =>
    \A u \in Tasks : /\ call[u].frame = call[t].frame => u = t
                     /\ \A w \in Pages : pte[u][w].frame # call[t].frame

CallsCounted == \A t \in Tasks :
    call[t].frame # NoFrame => memory_map[call[t].frame] = 1

(* Members of sets that have one element between them. *)
LEMMA OneBetween ==
    ASSUME NEW S, NEW T, IsFiniteSet(S), IsFiniteSet(T),
           Cardinality(S) + Cardinality(T) = 1, NEW x \in S
    PROVE  T = {} /\ \A y \in S : y = x
  <1>1. Cardinality(S) \in Nat /\ Cardinality(T) \in Nat  BY FS_CardinalityType
  <1>2. S # {}  OBVIOUS
  <1>3. Cardinality(S) # 0  BY <1>2, FS_EmptySet
  <1>4. Cardinality(S) = 1 /\ Cardinality(T) = 0  BY <1>1, <1>3
  <1>5. T = {}  BY <1>4, FS_EmptySet
  <1>6. PICK y : S = {y}  BY <1>4, FS_Singleton
  <1> QED  BY <1>5, <1>6

(* A frame with the count 0 is nobody's. *)
LEMMA FreeFrame ==
    ASSUME Accounted, NEW f \in Frames, memory_map[f] = 0
    PROVE  Nobodys(f)
  <1>1. /\ IsFiniteSet(Refs(f)) /\ Cardinality(Refs(f)) \in Nat
        /\ IsFiniteSet(Callers(f)) /\ Cardinality(Callers(f)) \in Nat
    BY CountsFinite DEF Finite
  <1>2. Cardinality(Refs(f)) + Cardinality(Callers(f)) = 0  BY DEF Accounted
  <1>3. Cardinality(Refs(f)) = 0 /\ Cardinality(Callers(f)) = 0  BY <1>1, <1>2
  <1>4. Refs(f) = {} /\ Callers(f) = {}  BY <1>1, <1>3, FS_EmptySet
  <1>5. \A u \in Tasks : u \notin Callers(f) /\ \A w \in Pages : <<u, w>> \notin Refs(f)
    BY <1>4
  <1> QED  BY <1>5 DEF Nobodys, Refs, Callers

(* A frame with the count 1 that an entry has, has no other user, ... *)
LEMMA OneEntry ==
    ASSUME Accounted, NEW f \in Frames, memory_map[f] = 1,
           NEW t \in Tasks, NEW v \in Pages, pte[t][v].frame = f
    PROVE  \A u \in Tasks : /\ call[u].frame # f
                            /\ \A w \in Pages : pte[u][w].frame = f => u = t /\ w = v
  <1>1. IsFiniteSet(Refs(f)) /\ IsFiniteSet(Callers(f))
    BY CountsFinite DEF Finite
  <1>2. Cardinality(Refs(f)) + Cardinality(Callers(f)) = 1  BY DEF Accounted
  <1>3. <<t, v>> \in Refs(f)  BY DEF Refs
  <1>4. Callers(f) = {} /\ \A y \in Refs(f) : y = <<t, v>>
    BY <1>1, <1>2, <1>3, OneBetween
  <1>5. \A u \in Tasks : u \notin Callers(f) /\
           \A w \in Pages : <<u, w>> \in Refs(f) => <<u, w>> = <<t, v>>
    BY <1>4
  <1> QED  BY <1>5 DEF Refs, Callers

(* ... nor has one that belongs to a call. *)
LEMMA OneCall ==
    ASSUME Accounted, NEW f \in Frames, memory_map[f] = 1,
           NEW t \in Tasks, call[t].frame = f
    PROVE  \A u \in Tasks : /\ call[u].frame = f => u = t
                            /\ \A w \in Pages : pte[u][w].frame # f
  <1>1. IsFiniteSet(Refs(f)) /\ IsFiniteSet(Callers(f))
    BY CountsFinite DEF Finite
  <1>2. /\ Cardinality(Callers(f)) + Cardinality(Refs(f)) = 1
    <2>1. Cardinality(Refs(f)) \in Nat /\ Cardinality(Callers(f)) \in Nat
      BY CountsFinite DEF Finite
    <2>2. Cardinality(Refs(f)) + Cardinality(Callers(f)) = 1  BY DEF Accounted
    <2> QED  BY <2>1, <2>2
  <1>3. t \in Callers(f)  BY DEF Callers
  <1>4. Refs(f) = {} /\ \A y \in Callers(f) : y = t
    BY <1>1, <1>2, <1>3, OneBetween
  <1>5. \A u \in Tasks : /\ u \in Callers(f) => u = t
                         /\ \A w \in Pages : <<u, w>> \notin Refs(f)
    BY <1>4
  <1> QED  BY <1>5 DEF Refs, Callers

(* From the counts to the users, ... *)
LEMMA OwnIf ==
    ASSUME IInv
    PROVE  EntriesOwn /\ CallsOwn
  <1>1. EntriesOwn
    <2> SUFFICES ASSUME NEW t \in Tasks, NEW v \in Pages, pte[t][v].rw
                 PROVE  /\ pte[t][v].frame \in Frames
                        /\ \A u \in Tasks :
                             /\ call[u].frame # pte[t][v].frame
                             /\ \A w \in Pages : pte[u][w].frame = pte[t][v].frame
                                                   => u = t /\ w = v
      BY DEF EntriesOwn
    <2>1. PICK f \in Frames : f = pte[t][v].frame  BY DEF IInv, LowIsSafe
    <2>2. f # NoFrame  BY MemoryAssumption
    <2>3. memory_map[f] = 1  BY <2>1, <2>2 DEF IInv, WritableIsOwn, Present
    <2>4. Accounted  BY DEF IInv
    <2> QED  BY <2>1, <2>3, <2>4, OneEntry
  <1>2. CallsOwn
    <2> SUFFICES ASSUME NEW t \in Tasks, call[t].frame # NoFrame
                 PROVE  \A u \in Tasks :
                          /\ call[u].frame = call[t].frame => u = t
                          /\ \A w \in Pages : pte[u][w].frame # call[t].frame
      BY DEF CallsOwn
    <2>1. PICK f \in Frames : f = call[t].frame
      BY DEF IInv, TypeOK, CallType
    <2>2. memory_map[f] = 1  BY <2>1 DEF IInv, Reserved
    <2>3. Accounted  BY DEF IInv
    <2> QED  BY <2>1, <2>2, <2>3, OneCall
  <1> QED  BY <1>1, <1>2

(* ... and back. *)
LEMMA IfOwn == TypeOK /\ Accounted /\ EntriesOwn /\ CallsOwn =>
                  WritableIsOwn /\ CallsCounted
  <1> SUFFICES ASSUME TypeOK, Accounted, EntriesOwn, CallsOwn
               PROVE  WritableIsOwn /\ CallsCounted
    OBVIOUS
  <1>0. \A x : Cardinality({x}) = 1  BY FS_Singleton
  <1>e. Cardinality({}) = 0  BY FS_EmptySet
  <1>1. ASSUME NEW t \in Tasks, NEW v \in Pages, pte[t][v].rw
        PROVE  memory_map[pte[t][v].frame] = 1
    <2>1. PICK f \in Frames : f = pte[t][v].frame  BY <1>1 DEF EntriesOwn
    <2>2. Refs(f) = {<<t, v>>}  BY <1>1, <2>1 DEF EntriesOwn, Refs
    <2>3. Callers(f) = {}  BY <1>1, <2>1 DEF EntriesOwn, Callers
    <2>4. Cardinality(Refs(f)) = 1 /\ Cardinality(Callers(f)) = 0
      BY <1>0, <1>e, <2>2, <2>3
    <2> QED  BY <2>1, <2>4 DEF Accounted
  <1>2. ASSUME NEW t \in Tasks, call[t].frame # NoFrame
        PROVE  memory_map[call[t].frame] = 1
    <2>1. PICK f \in Frames : f = call[t].frame  BY <1>2 DEF TypeOK, CallType
    <2>2. Callers(f) = {t}  BY <1>2, <2>1 DEF CallsOwn, Callers
    <2>3. Refs(f) = {}  BY <1>2, <2>1 DEF CallsOwn, Refs
    <2>4. Cardinality(Refs(f)) = 0 /\ Cardinality(Callers(f)) = 1
      BY <1>0, <1>e, <2>2, <2>3
    <2> QED  BY <2>1, <2>4 DEF Accounted
  <1> QED  BY <1>1, <1>2 DEF WritableIsOwn, CallsCounted

(* The same after a step. *)
LEMMA IfOwnNext == TypeOK' /\ Accounted' /\ EntriesOwn' /\ CallsOwn' =>
                      WritableIsOwn' /\ CallsCounted'
  BY IfOwn, PTL

-----------------------------------------------------------------------------
(* What the invariant says of one process, apart from the counts. *)
Held(t) ==
    /\ life[t] # "alive" => pte[t] = NoPages /\ dir[t] = {} /\ call[t] = User
    /\ life[t] = "alive" => dir[t] # {}
    /\ \A v \in Pages : Present(t, v) => Table[v] \in dir[t]
    /\ InWrite(t) => pte[t][call[t].page].frame # Low
    /\ call[t].frame # NoFrame <=> call[t].op \in {"load", "exec"}
    /\ call[t].op = "load" => /\ ~Present(t, call[t].page)
                              /\ Image(executable[t], call[t].page) # 0
    /\ call[t].op = "exec" => executable[t] # NoProgram

CallsBlank == \A t \in Tasks : call[t].frame # NoFrame => page[call[t].frame] = 0

(* The invariant in terms of users, ... *)
LEMMA Parts ==
    ASSUME IInv
    PROVE  /\ TypeOK /\ Accounted /\ EntriesOwn /\ CallsOwn /\ Blank /\ CallsBlank
           /\ \A t \in Tasks : Held(t)
  <1>1. EntriesOwn /\ CallsOwn  BY OwnIf
  <1>2. CallsBlank  BY DEF IInv, Reserved, CallsBlank
  <1>3. \A t \in Tasks : Held(t)  BY DEF IInv, Owned, LowIsSafe, Reserved, Held
  <1> QED  BY <1>1, <1>2, <1>3 DEF IInv

(* ... and back, after a step. *)
LEMMA Assembled ==
    ASSUME TypeOK', Accounted', EntriesOwn', CallsOwn', Blank', CallsBlank',
           \A t \in Tasks : Held(t)'
    PROVE  IInv'
  <1>1. WritableIsOwn' /\ CallsCounted'  BY IfOwnNext
  <1>2. Owned'  BY DEF Owned, Held
  <1>3. LowIsSafe'  BY DEF LowIsSafe, Held, EntriesOwn
  <1>4. Reserved'  BY <1>1 DEF Reserved, Held, CallsCounted, CallsBlank
  <1> QED  BY <1>1, <1>2, <1>3, <1>4 DEF IInv

(* A process that another one's step leaves alone, or only takes a right   *)
(* to write from.                                                          *)
LEMMA OtherHeld ==
    ASSUME NEW u \in Tasks, Held(u),
           life'[u] = life[u], dir'[u] = dir[u], call'[u] = call[u],
           executable'[u] = executable[u], call[u].page \in Pages,
           pte'[u] = pte[u] \/ life[u] = "alive",
           \A v \in Pages : pte'[u][v].frame = pte[u][v].frame
    PROVE  Held(u)'
  <1>1. life'[u] # "alive" => pte'[u] = NoPages /\ dir'[u] = {} /\ call'[u] = User
    BY DEF Held
  <1>2. \A v \in Pages : Present(u, v)' <=> Present(u, v)  BY DEF Present
  <1>3. life'[u] = "alive" => dir'[u] # {}  BY DEF Held
  <1>4. \A v \in Pages : Present(u, v)' => Table[v] \in dir'[u]  BY <1>2 DEF Held
  <1>5. InWrite(u)' => pte'[u][call'[u].page].frame # Low
    BY DEF Held, InWrite
  <1>6. call'[u].frame # NoFrame <=> call'[u].op \in {"load", "exec"}  BY DEF Held
  <1>7. call'[u].op = "load" =>
           /\ ~Present(u, call[u].page)'
           /\ Image(executable'[u], call'[u].page) # 0
    BY <1>2 DEF Held
  <1> QED  BY <1>1, <1>3, <1>4, <1>5, <1>6, <1>7 DEF Held, Present, Image

(* What a process in user mode is. *)
LEMMA UserType ==
    /\ User \in CallType /\ User.frame = NoFrame /\ User.op = "user"
    /\ NoPages \in [Pages -> EntryType]
    /\ \A v \in Pages : /\ NoPages[v].frame = NoFrame /\ NoPages[v].rw = FALSE
                        /\ NoPages[v].frame \notin Frames
  BY MemoryAssumption DEF User, Call, CallType, NoPages, Absent, EntryType

(* do_exit *)
LEMMA ExitStep ==
    ASSUME IInv, NEW t \in Tasks, life[t] = "alive", do_exit(t)
    PROVE  IInv'
  <1>1. /\ TypeOK /\ Accounted /\ EntriesOwn /\ CallsOwn /\ Blank /\ CallsBlank
        /\ \A u \in Tasks : Held(u)
    BY Parts
  <1>2. /\ life' = [life EXCEPT ![t] = "zombie"]
        /\ executable' = [executable EXCEPT ![t] = NoProgram]
        /\ dir' = [dir EXCEPT ![t] = {}] /\ pte' = [pte EXCEPT ![t] = NoPages]
        /\ call' = [call EXCEPT ![t] = User]
        /\ taken' = taken - Cardinality(dir[t])
        /\ \A f \in Frames : memory_map'[f] =
              memory_map[f] - Uses(t, f) - (IF f = call[t].frame THEN 1 ELSE 0)
        /\ DOMAIN memory_map' = Frames
        /\ page' = Cleared(memory_map')
    BY DEF do_exit, free_pages
  <1>3. /\ life' \in [Tasks -> {"none", "alive", "zombie"}]
        /\ executable' \in [Tasks -> Programs \cup {NoProgram}]
        /\ dir \in [Tasks -> SUBSET Tables] /\ dir' \in [Tasks -> SUBSET Tables]
        /\ pte' \in [Tasks -> [Pages -> EntryType]]
        /\ call' \in [Tasks -> CallType]
    BY <1>1, <1>2, UserType DEF TypeOK
  <1>4. /\ life'[t] = "zombie" /\ dir'[t] = {} /\ pte'[t] = NoPages
        /\ call'[t] = User
        /\ \A u \in Tasks \ {t} :
              /\ life'[u] = life[u] /\ dir'[u] = dir[u] /\ pte'[u] = pte[u]
              /\ call'[u] = call[u] /\ executable'[u] = executable[u]
    BY <1>1, <1>2 DEF TypeOK
  <1>5. \A f \in Frames : Uses(t, f)' = 0
    <2> TAKE f \in Frames
    <2>1. {v \in Pages : pte'[t][v].frame = f} = {}  BY <1>4, UserType
    <2> QED  BY <2>1, FS_EmptySet DEF Uses
  <1>6. Cardinality(dir'[t]) = 0  BY <1>4, FS_EmptySet
  <1>7. /\ \A f \in Frames : Uses(t, f) \in Nat /\ memory_map[f] \in Nat
        /\ Cardinality(dir[t]) \in Nat /\ taken \in Nat
    BY <1>1, CountsFinite DEF Finite, TypeOK
  <1>8. \A f \in Frames : memory_map'[f] = memory_map[f]
              - Uses(t, f) + Uses(t, f)'
              - (IF call[t].frame = f THEN 1 ELSE 0)
              + (IF call'[t].frame = f THEN 1 ELSE 0)
    <2> TAKE f \in Frames
    <2>1. call'[t].frame # f  BY <1>4, UserType, MemoryAssumption
    <2> QED  BY <1>2, <1>5, <1>7, <2>1
  <1>9. taken' = taken - Cardinality(dir[t]) + Cardinality(dir'[t])
              - (IF life[t] # "none" THEN 1 ELSE 0)
              + (IF life'[t] # "none" THEN 1 ELSE 0)
    BY <1>2, <1>4, <1>6, <1>7
  <1>10. /\ \A f \in Frames : memory_map'[f] =
                 Cardinality(Refs(f)') + Cardinality(Callers(f)')
         /\ \A f \in Frames : memory_map'[f] \in Nat
         /\ taken' = Cardinality({u \in Tasks : life'[u] # "none"})
                         + Cardinality(AllTables')
         /\ taken' \in Nat
    BY <1>1, <1>3, <1>4, <1>8, <1>9, BooksKept
  <1>11. \A f \in Frames : memory_map[f] = 0 => memory_map'[f] = 0
    <2> SUFFICES ASSUME NEW f \in Frames, memory_map[f] = 0
                 PROVE  memory_map'[f] = 0
      OBVIOUS
    <2> QED  BY <1>2, <1>7, <1>10
  <1>12. InUse' <= NR_FRAMES
    <2>1. InUse <= NR_FRAMES /\ NR_FRAMES \in Nat
      BY <1>1, MemoryAssumption DEF Accounted
    <2>2. /\ Cardinality((Frames \ Unused)') <= Cardinality(Frames \ Unused)
          /\ Cardinality((Frames \ Unused)') \in Nat
      BY <1>11, UsedLess
    <2>3. Cardinality(Frames \ Unused) \in Nat  BY CountsFinite DEF Finite
    <2>4. taken' <= taken /\ taken' \in Nat  BY <1>2, <1>7, <1>10
    <2> QED  BY <1>7, <2>1, <2>2, <2>3, <2>4 DEF InUse
  <1>13. Accounted'  BY <1>10, <1>12 DEF Accounted
  <1>14. /\ page' \in [Frames \cup {Low} -> Contents] /\ Blank'
         /\ \A f \in Frames \cup {Low} : page[f] = 0 => page'[f] = 0
    <2>1. page \in [Frames \cup {Low} -> Contents] /\ 0 \in Contents
      BY <1>1 DEF TypeOK, Contents
    <2> QED  BY <1>2, <2>1, MemoryAssumption DEF Cleared, Blank
  <1>15. TypeOK'
    <2>1. memory_map' \in [Frames -> Nat]
      <3>1. memory_map' = [f \in Frames |-> memory_map'[f]]
        BY DEF do_exit, free_pages
      <3> QED  BY <1>10, <3>1
    <2> QED  BY <1>3, <1>10, <1>14, <2>1 DEF TypeOK
  <1>16. EntriesOwn'  BY <1>1, <1>4, UserType, MemoryAssumption DEF EntriesOwn
  <1>17. CallsOwn'  BY <1>1, <1>4, UserType, MemoryAssumption DEF CallsOwn
  <1>18. CallsBlank'
    <2> SUFFICES ASSUME NEW u \in Tasks, call'[u].frame # NoFrame
                 PROVE  page'[call'[u].frame] = 0
      BY DEF CallsBlank
    <2>1. call'[u] = call[u]  BY <1>4, UserType
    <2>2. page[call[u].frame] = 0 /\ call[u].frame \in Frames
      BY <1>1, <2>1 DEF CallsBlank, TypeOK, CallType
    <2> QED  BY <1>14, <2>1, <2>2
  <1>19. ASSUME NEW u \in Tasks PROVE Held(u)'
    <2>1. CASE u = t
      BY <1>4, <2>1, UserType, MemoryAssumption DEF Held, Present, InWrite
    <2>2. CASE u # t
      <3>1. call[u].page \in Pages  BY <1>1 DEF TypeOK, CallType
      <3> QED  BY <1>1, <1>4, <2>2, <3>1, OtherHeld
    <2> QED  BY <2>1, <2>2
  <1> QED
    BY <1>13, <1>14, <1>15, <1>16, <1>17, <1>18, <1>19, Assembled

-----------------------------------------------------------------------------
(* A step that moves no frame and no table. *)
LEMMA SameBooks ==
    ASSUME Accounted, memory_map' = memory_map, taken' = taken,
           dir' = dir, life' = life,
           \A u \in Tasks : /\ call'[u].frame = call[u].frame
                            /\ \A v \in Pages : pte'[u][v].frame = pte[u][v].frame
    PROVE  Accounted'
  <1>1. \A f : Refs(f)' = Refs(f)  BY DEF Refs
  <1>2. \A f : Callers(f)' = Callers(f)  BY DEF Callers
  <1>3. AllTables' = AllTables  BY DEF AllTables
  <1>4. InUse' = InUse  BY DEF InUse, Unused
  <1>5. \A f \in Frames : memory_map'[f] =
          Cardinality(Refs(f)') + Cardinality(Callers(f)')
    BY <1>1, <1>2 DEF Accounted
  <1>6. taken' = Cardinality({t \in Tasks : life[t] # "none"})
                   + Cardinality(AllTables')
    BY <1>3 DEF Accounted
  <1> QED  BY <1>4, <1>5, <1>6 DEF Accounted

(* A step that changes one entry and perhaps the tables of its process. *)
LEMMA EntryBooks ==
    ASSUME TypeOK, Accounted, NEW t \in Tasks, NEW v \in Pages,
           dir' \in [Tasks -> SUBSET Tables],
           \A u \in Tasks \ {t} :
              /\ \A w \in Pages : pte'[u][w].frame = pte[u][w].frame
              /\ call'[u].frame = call[u].frame /\ dir'[u] = dir[u],
           life' = life,
           \A w \in Pages \ {v} : pte'[t][w].frame = pte[t][w].frame,
           \A f \in Frames : memory_map'[f] = memory_map[f]
              - (IF pte[t][v].frame = f THEN 1 ELSE 0)
              + (IF pte'[t][v].frame = f THEN 1 ELSE 0)
              - (IF call[t].frame = f THEN 1 ELSE 0)
              + (IF call'[t].frame = f THEN 1 ELSE 0),
           taken' = taken - Cardinality(dir[t]) + Cardinality(dir'[t])
    PROVE  /\ \A f \in Frames : memory_map'[f] =
                 Cardinality(Refs(f)') + Cardinality(Callers(f)')
           /\ \A f \in Frames : memory_map'[f] \in Nat
           /\ taken' = Cardinality({u \in Tasks : life'[u] # "none"})
                         + Cardinality(AllTables')
           /\ taken' \in Nat
  <1>1. /\ dir \in [Tasks -> SUBSET Tables] /\ taken \in Nat
        /\ \A f \in Frames : memory_map[f] \in Nat
    BY DEF TypeOK
  <1>2. /\ \A f : Uses(t, f) \in Nat
        /\ Cardinality(dir[t]) \in Nat /\ Cardinality(dir'[t]) \in Nat
    BY <1>1, CountsFinite DEF Finite
  <1>3. \A f \in Frames : memory_map'[f] = memory_map[f]
              - Uses(t, f) + Uses(t, f)'
              - (IF call[t].frame = f THEN 1 ELSE 0)
              + (IF call'[t].frame = f THEN 1 ELSE 0)
    <2> TAKE f \in Frames
    <2>1. Uses(t, f)' = Uses(t, f) - (IF pte[t][v].frame = f THEN 1 ELSE 0)
                                   + (IF pte'[t][v].frame = f THEN 1 ELSE 0)
      BY UsesOne
    <2>2. memory_map'[f] = memory_map[f]
              - (IF pte[t][v].frame = f THEN 1 ELSE 0)
              + (IF pte'[t][v].frame = f THEN 1 ELSE 0)
              - (IF call[t].frame = f THEN 1 ELSE 0)
              + (IF call'[t].frame = f THEN 1 ELSE 0)
      OBVIOUS
    <2> QED  BY <1>1, <1>2, <2>1, <2>2
  <1>4. taken' = taken - Cardinality(dir[t]) + Cardinality(dir'[t])
              - (IF life[t] # "none" THEN 1 ELSE 0)
              + (IF life'[t] # "none" THEN 1 ELSE 0)
    BY <1>1, <1>2
  <1> QED  BY <1>1, <1>3, <1>4, BooksKept

(* A step that replaces one entry. *)
Replace(t, v, y) == pte' = [pte EXCEPT ![t] = [pte[t] EXCEPT ![v] = y]]

(* What the entries are then. *)
LEMMA EntrySet ==
    ASSUME TypeOK, NEW t \in Tasks, NEW v \in Pages, NEW y \in EntryType,
           Replace(t, v, y)
    PROVE  /\ pte' \in [Tasks -> [Pages -> EntryType]]
           /\ \A u \in Tasks \ {t} : pte'[u] = pte[u]
           /\ \A w \in Pages \ {v} : pte'[t][w] = pte[t][w]
           /\ pte'[t][v] = y
  <1> DEFINE row == [pte[t] EXCEPT ![v] = y]
  <1>1. pte \in [Tasks -> [Pages -> EntryType]] /\ pte[t] \in [Pages -> EntryType]
    BY DEF TypeOK
  <1>2. /\ row \in [Pages -> EntryType] /\ row[v] = y
        /\ \A w \in Pages \ {v} : row[w] = pte[t][w]
    BY <1>1
  <1>3. pte' = [pte EXCEPT ![t] = row]  BY DEF Replace
  <1> HIDE DEF row
  <1>4. pte'[t] = row /\ \A u \in Tasks \ {t} : pte'[u] = pte[u]
    BY <1>1, <1>3
  <1> QED  BY <1>1, <1>2, <1>3, <1>4

(* A frame that is used has a count. *)
LEMMA UsedCounted ==
    ASSUME IInv, NEW t \in Tasks, NEW v \in Pages, NEW f \in Frames,
           pte[t][v].frame = f
    PROVE  memory_map[f] \in Nat /\ memory_map[f] # 0
  <1>1. Accounted /\ memory_map[f] \in Nat  BY DEF IInv, TypeOK
  <1>2. ~Nobodys(f)  BY DEF Nobodys
  <1> QED  BY <1>1, <1>2, FreeFrame

(* release *)
LEMMA ReleaseStep ==
    ASSUME IInv, NEW t \in Tasks, release(t)
    PROVE  IInv'
  <1>1. /\ TypeOK /\ Accounted /\ EntriesOwn /\ CallsOwn /\ Blank /\ CallsBlank
        /\ \A u \in Tasks : Held(u)
    BY Parts
  <1>2. /\ life[t] = "zombie" /\ life' = [life EXCEPT ![t] = "none"]
        /\ taken' = taken - 1 /\ executable' = executable /\ dir' = dir
        /\ pte' = pte /\ memory_map' = memory_map /\ page' = page /\ call' = call
    BY DEF release
  <1>3. /\ life' \in [Tasks -> {"none", "alive", "zombie"}] /\ life'[t] = "none"
        /\ \A u \in Tasks \ {t} : life'[u] = life[u]
        /\ dir \in [Tasks -> SUBSET Tables] /\ taken \in Nat
        /\ \A f \in Frames : memory_map[f] \in Nat
    BY <1>1, <1>2 DEF TypeOK
  <1>4. \A f \in Frames : Uses(t, f) \in Nat /\ Uses(t, f)' = Uses(t, f)
    BY <1>2, CountsFinite DEF Finite, Uses
  <1>5. Cardinality(dir[t]) \in Nat  BY <1>3, CountsFinite DEF Finite
  <1>6. \A f \in Frames : memory_map'[f] = memory_map[f]
              - Uses(t, f) + Uses(t, f)'
              - (IF call[t].frame = f THEN 1 ELSE 0)
              + (IF call'[t].frame = f THEN 1 ELSE 0)
    BY <1>2, <1>3, <1>4
  <1>7. taken' = taken - Cardinality(dir[t]) + Cardinality(dir'[t])
              - (IF life[t] # "none" THEN 1 ELSE 0)
              + (IF life'[t] # "none" THEN 1 ELSE 0)
    BY <1>2, <1>3, <1>5
  <1>8. /\ \A f \in Frames : memory_map'[f] =
                 Cardinality(Refs(f)') + Cardinality(Callers(f)')
        /\ taken' = Cardinality({u \in Tasks : life'[u] # "none"})
                         + Cardinality(AllTables')
        /\ taken' \in Nat
    BY <1>1, <1>2, <1>3, <1>6, <1>7, BooksKept
  <1>9. InUse' <= NR_FRAMES
    <2>1. InUse <= NR_FRAMES /\ NR_FRAMES \in Nat
      BY <1>1, MemoryAssumption DEF Accounted
    <2>2. Cardinality((Frames \ Unused)') = Cardinality(Frames \ Unused)
      BY <1>2 DEF Unused
    <2>3. Cardinality(Frames \ Unused) \in Nat  BY CountsFinite DEF Finite
    <2> QED  BY <1>2, <1>3, <1>8, <2>1, <2>2, <2>3 DEF InUse
  <1>10. Accounted'  BY <1>8, <1>9 DEF Accounted
  <1>11. TypeOK'  BY <1>1, <1>2, <1>3, <1>8 DEF TypeOK
  <1>12. EntriesOwn' /\ CallsOwn' /\ Blank' /\ CallsBlank'
    BY <1>1, <1>2 DEF EntriesOwn, CallsOwn, Blank, CallsBlank
  <1>13. \A u \in Tasks : Held(u)'
    BY <1>1, <1>2, <1>3 DEF Held, Present, InWrite, Image
  <1> QED  BY <1>10, <1>11, <1>12, <1>13, Assembled

(* copy_page_tables gave up: some pages are write-protected. *)
LEMMA ForkFailsStep ==
    ASSUME IInv, NEW t \in Tasks, ForkFails(t)
    PROVE  IInv'
  <1>1. /\ TypeOK /\ Accounted /\ EntriesOwn /\ CallsOwn /\ Blank /\ CallsBlank
        /\ \A u \in Tasks : Held(u)
    BY Parts
  <1>2. PICK ds : pte' = [pte EXCEPT ![t] = Protected(t, ds)]
    BY DEF ForkFails
  <1>3. /\ life' = life /\ executable' = executable /\ dir' = dir
        /\ memory_map' = memory_map /\ taken' = taken /\ page' = page
        /\ call' = call /\ life[t] = "alive"
    BY DEF ForkFails, Running
  <1>4. /\ Protected(t, ds) \in [Pages -> EntryType]
        /\ \A v \in Pages : /\ Protected(t, ds)[v].frame = pte[t][v].frame
                            /\ Protected(t, ds)[v].rw => pte[t][v].rw
    <2>1. \A v \in Pages : pte[t][v] \in EntryType  BY <1>1 DEF TypeOK
    <2>2. \A e \in EntryType : /\ ReadOnly(e) \in EntryType
                               /\ ReadOnly(e).frame = e.frame
                               /\ ReadOnly(e).rw = FALSE
      BY DEF ReadOnly, EntryType
    <2> QED  BY <2>1, <2>2 DEF Protected
  <1>5. /\ pte' \in [Tasks -> [Pages -> EntryType]]
        /\ \A u \in Tasks : u # t => pte'[u] = pte[u]
        /\ \A u \in Tasks : \A v \in Pages : /\ pte'[u][v].frame = pte[u][v].frame
                                             /\ pte'[u][v].rw => pte[u][v].rw
    BY <1>1, <1>2, <1>4 DEF TypeOK
  <1>6. TypeOK'  BY <1>1, <1>3, <1>5 DEF TypeOK
  <1>7. Accounted'  BY <1>1, <1>3, <1>5, SameBooks
  <1>8. EntriesOwn'  BY <1>1, <1>3, <1>5 DEF EntriesOwn
  <1>9. CallsOwn' /\ Blank' /\ CallsBlank'
    BY <1>1, <1>3, <1>5 DEF CallsOwn, Blank, CallsBlank
  <1>10. ASSUME NEW u \in Tasks PROVE Held(u)'
    <2>1. call[u].page \in Pages  BY <1>1 DEF TypeOK, CallType
    <2>2. pte'[u] = pte[u] \/ life[u] = "alive"  BY <1>3, <1>5
    <2> QED  BY <1>1, <1>3, <1>5, <2>1, <2>2, OtherHeld
  <1> QED  BY <1>6, <1>7, <1>8, <1>9, <1>10, Assembled

(* A write to a page that is present, by the process or by the kernel. *)
LEMMA WriteStep ==
    ASSUME IInv, NEW t \in Tasks, NEW v \in Pages, life[t] = "alive",
           pte[t][v].frame \in Frames,
           page' = [page EXCEPT ![pte[t][v].frame] = t],
           pte' = [pte EXCEPT ![t][v].dirty = TRUE],
           UNCHANGED <<life, executable, dir, memory_map, taken>>,
           \/ call' = call
           \/ InWrite(t) /\ call' = [call EXCEPT ![t] = User]
    PROVE  IInv'
  <1>1. /\ TypeOK /\ Accounted /\ EntriesOwn /\ CallsOwn /\ Blank /\ CallsBlank
        /\ \A u \in Tasks : Held(u)
    BY Parts
  <1>2. PICK f \in Frames : f = pte[t][v].frame  OBVIOUS
  <1>3. /\ page' \in [Frames \cup {Low} -> Contents]
        /\ \A g \in Frames \ {f} : page'[g] = page[g]
    BY <1>1, <1>2 DEF TypeOK, Contents
  <1>4. /\ pte' \in [Tasks -> [Pages -> EntryType]]
        /\ \A u \in Tasks : u # t => pte'[u] = pte[u]
        /\ \A u \in Tasks : \A w \in Pages : /\ pte'[u][w].frame = pte[u][w].frame
                                             /\ pte'[u][w].rw = pte[u][w].rw
    <2>1. pte \in [Tasks -> [Pages -> EntryType]] /\ pte[t][v] \in EntryType
      BY <1>1 DEF TypeOK
    <2>2. PICK y \in EntryType : y = [pte[t][v] EXCEPT !.dirty = TRUE]
      BY <2>1 DEF EntryType
    <2>3. y.frame = pte[t][v].frame /\ y.rw = pte[t][v].rw
      BY <2>1, <2>2 DEF EntryType
    <2>4. Replace(t, v, y)  BY <2>1, <2>2 DEF Replace
    <2>5. /\ pte' \in [Tasks -> [Pages -> EntryType]]
          /\ \A u \in Tasks \ {t} : pte'[u] = pte[u]
          /\ \A w \in Pages \ {v} : pte'[t][w] = pte[t][w]
          /\ pte'[t][v] = y
      BY <1>1, <2>4, EntrySet
    <2> QED  BY <2>3, <2>5
  <1>5. /\ call' \in [Tasks -> CallType]
        /\ \A u \in Tasks : u # t => call'[u] = call[u]
        /\ \A u \in Tasks : call'[u].frame = call[u].frame
        /\ call'[t] = call[t] \/ call'[t] = User
    <2>1. CASE call' = call  BY <1>1, <2>1 DEF TypeOK
    <2>2. CASE InWrite(t) /\ call' = [call EXCEPT ![t] = User]
      <3>1. call[t].frame = NoFrame  BY <1>1, <2>2 DEF Held, InWrite
      <3> QED  BY <1>1, <2>2, <3>1, UserType DEF TypeOK
    <2> QED  BY <2>1, <2>2
  <1>6. TypeOK'  BY <1>1, <1>3, <1>4, <1>5 DEF TypeOK
  <1>7. Accounted'  BY <1>1, <1>4, <1>5, SameBooks
  <1>8. EntriesOwn'  BY <1>1, <1>4, <1>5 DEF EntriesOwn
  <1>9. CallsOwn'  BY <1>1, <1>4, <1>5 DEF CallsOwn
  <1>10. Blank'
    <2>1. memory_map[f] # 0  BY <1>2, UsedCounted
    <2> QED  BY <1>1, <1>3, <2>1 DEF Blank
  <1>11. CallsBlank'
    <2> SUFFICES ASSUME NEW u \in Tasks, call'[u].frame # NoFrame
                 PROVE  page'[call'[u].frame] = 0
      BY DEF CallsBlank
    <2>1. call[u].frame # NoFrame /\ call'[u].frame = call[u].frame  BY <1>5
    <2>2. call[u].frame # f  BY <1>1, <1>2, <2>1 DEF CallsOwn
    <2>3. call[u].frame \in Frames  BY <1>1, <2>1 DEF TypeOK, CallType
    <2>4. page[call[u].frame] = 0  BY <1>1, <2>1 DEF CallsBlank
    <2> QED  BY <1>3, <2>1, <2>2, <2>3, <2>4
  <1>12. ASSUME NEW u \in Tasks PROVE Held(u)'
    <2>0. call[u].page \in Pages  BY <1>1 DEF TypeOK, CallType
    <2>1. CASE call'[u] = call[u]
      <3>1. pte'[u] = pte[u] \/ life[u] = "alive"  BY <1>4
      <3> QED  BY <1>1, <1>4, <2>0, <2>1, <3>1, OtherHeld
    <2>2. CASE u = t /\ call'[t] = User
      <3>1. \A w \in Pages : Present(u, w)' <=> Present(u, w)  BY <1>4 DEF Present
      <3> QED  BY <1>1, <2>2, <3>1, UserType DEF Held, InWrite
    <2> QED  BY <1>5, <2>1, <2>2
  <1> QED  BY <1>6, <1>7, <1>8, <1>9, <1>10, <1>11, <1>12, Assembled

-----------------------------------------------------------------------------
(* A process in user mode stays there, or passes verify_area for page v. *)
Enters(t, v) == \/ call' = call
                \/ call' = [call EXCEPT ![t] = Call("write", v, NoFrame, "user")]

(* What is left of its call. *)
LEMMA EntersFacts ==
    ASSUME TypeOK, NEW t \in Tasks, NEW v \in Pages, call[t] = User, Enters(t, v)
    PROVE  /\ call' \in [Tasks -> CallType]
           /\ \A u \in Tasks \ {t} : call'[u] = call[u]
           /\ \A u \in Tasks : call'[u].frame = call[u].frame
           /\ call[t].frame = NoFrame
           /\ \/ call'[t] = User
              \/ call'[t].op = "write" /\ call'[t].page = v
  <1> DEFINE c == Call("write", v, NoFrame, "user")
  <1>1. c \in CallType /\ c.frame = NoFrame /\ c.op = "write" /\ c.page = v
    BY DEF Call, CallType
  <1>2. call' = call \/ call' = [call EXCEPT ![t] = c]  BY DEF Enters
  <1> HIDE DEF c
  <1> QED  BY <1>1, <1>2, UserType DEF TypeOK

(* Such a process is as it has to be if its pages are. *)
LEMMA EntersHeld ==
    ASSUME NEW t \in Tasks, NEW v \in Pages,
           life'[t] = "alive", dir'[t] # {},
           \A w \in Pages : Present(t, w)' => Table[w] \in dir'[t],
           call'[t].frame = NoFrame, pte'[t][v].frame # Low,
           \/ call'[t] = User
           \/ call'[t].op = "write" /\ call'[t].page = v
    PROVE  Held(t)'
  <1>1. call'[t].op \in {"user", "write"}  BY UserType
  <1> QED  BY <1>1, UserType DEF Held, InWrite

(* un_wp_page: the only user of a page may write to it. *)
LEMMA UnprotectStep ==
    ASSUME IInv, NEW t \in Tasks, NEW v \in Pages, Running(t),
           ReadOnlyPage(t, v), ~ShouldCopy(pte[t][v].frame),
           pte' = [pte EXCEPT ![t][v].rw = TRUE], Enters(t, v),
           UNCHANGED <<life, executable, dir, memory_map, taken, page>>
    PROVE  IInv'
  <1>1. /\ TypeOK /\ Accounted /\ EntriesOwn /\ CallsOwn /\ Blank /\ CallsBlank
        /\ \A u \in Tasks : Held(u)
    BY Parts
  <1>2. life[t] = "alive" /\ call[t] = User  BY DEF Running
  <1>3. PICK f \in Frames : f = pte[t][v].frame /\ memory_map[f] = 1
    <2>1. pte[t][v].frame \in Frames \cup {Low, NoFrame}
      BY <1>1 DEF TypeOK, EntryType
    <2> QED  BY <2>1 DEF ShouldCopy, ReadOnlyPage, Present
  <1>4. \A u \in Tasks : /\ call[u].frame # f
                         /\ \A w \in Pages : pte[u][w].frame = f => u = t /\ w = v
    BY <1>1, <1>3, OneEntry
  <1>5. /\ pte' \in [Tasks -> [Pages -> EntryType]]
        /\ \A u \in Tasks \ {t} : pte'[u] = pte[u]
        /\ \A w \in Pages \ {v} : pte'[t][w] = pte[t][w]
        /\ pte'[t][v].frame = pte[t][v].frame
    <2>1. pte \in [Tasks -> [Pages -> EntryType]] /\ pte[t][v] \in EntryType
      BY <1>1 DEF TypeOK
    <2>2. PICK y \in EntryType : y = [pte[t][v] EXCEPT !.rw = TRUE]
      BY <2>1 DEF EntryType
    <2>3. y.frame = pte[t][v].frame  BY <2>1, <2>2 DEF EntryType
    <2>4. Replace(t, v, y)  BY <2>1, <2>2 DEF Replace
    <2> QED  BY <1>1, <2>3, <2>4, EntrySet
  <1>6. \A u \in Tasks : \A w \in Pages :
           /\ pte'[u][w].frame = pte[u][w].frame
           /\ pte'[u][w].rw => pte[u][w].rw \/ (u = t /\ w = v)
    BY <1>5
  <1>7. /\ call' \in [Tasks -> CallType]
        /\ \A u \in Tasks \ {t} : call'[u] = call[u]
        /\ \A u \in Tasks : call'[u].frame = call[u].frame
        /\ call[t].frame = NoFrame
        /\ \/ call'[t] = User
           \/ call'[t].op = "write" /\ call'[t].page = v
    BY <1>1, <1>2, EntersFacts
  <1>8. TypeOK'  BY <1>1, <1>5, <1>7 DEF TypeOK
  <1>9. Accounted'  BY <1>1, <1>6, <1>7, SameBooks
  <1>10. EntriesOwn'
    BY <1>1, <1>3, <1>4, <1>6, <1>7 DEF EntriesOwn
  <1>11. CallsOwn' /\ Blank' /\ CallsBlank'
    BY <1>1, <1>6, <1>7 DEF CallsOwn, Blank, CallsBlank
  <1>12. ASSUME NEW u \in Tasks PROVE Held(u)'
    <2>1. CASE u = t
      <3>1. \A w \in Pages : Present(t, w)' => Table[w] \in dir[t]
        BY <1>1, <1>6 DEF Present, Held
      <3>2. pte'[t][v].frame # Low  BY <1>3, <1>5, MemoryAssumption
      <3>3. dir[t] # {}  BY <1>1, <1>2 DEF Held
      <3> QED  BY <1>2, <1>7, <2>1, <3>1, <3>2, <3>3, EntersHeld
    <2>2. CASE u # t
      <3>1. call[u].page \in Pages  BY <1>1 DEF TypeOK, CallType
      <3> QED  BY <1>1, <1>5, <1>7, <2>2, <3>1, OtherHeld
    <2> QED  BY <2>1, <2>2
  <1> QED  BY <1>8, <1>9, <1>10, <1>11, <1>12, Assembled

(* un_wp_page: the page is replaced by a copy. *)
LEMMA CopyPageStep ==
    ASSUME IInv, NEW t \in Tasks, NEW v \in Pages, Running(t),
           ReadOnlyPage(t, v), ShouldCopy(pte[t][v].frame),
           un_wp_page(t, v), Enters(t, v),
           UNCHANGED <<life, executable, dir, taken>>
    PROVE  IInv'
  <1>1. /\ TypeOK /\ Accounted /\ EntriesOwn /\ CallsOwn /\ Blank /\ CallsBlank
        /\ \A u \in Tasks : Held(u)
    BY Parts
  <1>2. life[t] = "alive" /\ call[t] = User  BY DEF Running
  <1>3. PICK old \in Frames \cup {Low} : old = pte[t][v].frame
    BY <1>1 DEF TypeOK, EntryType, ReadOnlyPage, Present
  <1>4. PICK new \in Frames :
          /\ get_free_page(new)
          /\ memory_map' = [f \in Frames |-> CASE f = new -> 1
                              [] f = pte[t][v].frame -> memory_map[f] - 1
                              [] OTHER   -> memory_map[f]]
          /\ pte' = [pte EXCEPT ![t][v] = Entry(new, TRUE)]
          /\ page' = [page EXCEPT ![new] = page[pte[t][v].frame]]
    BY Zenon DEF un_wp_page
  <1>5. memory_map[new] = 0 /\ Left > 0  BY <1>4 DEF get_free_page, Unused
  <1>6. Nobodys(new)  BY <1>1, <1>5, FreeFrame
  <1>7. old # new  BY <1>3, <1>6 DEF Nobodys
  <1>8. old \in Frames => memory_map[old] \in Nat /\ memory_map[old] >= 2
    <2> SUFFICES ASSUME old \in Frames
                 PROVE  memory_map[old] \in Nat /\ memory_map[old] >= 2
      OBVIOUS
    <2>1. memory_map[old] # 1  BY <1>3, MemoryAssumption DEF ShouldCopy
    <2>2. memory_map[old] \in Nat /\ memory_map[old] # 0  BY <1>3, UsedCounted
    <2> QED  BY <2>1, <2>2
  <1>9. /\ pte' \in [Tasks -> [Pages -> EntryType]]
        /\ \A u \in Tasks \ {t} : pte'[u] = pte[u]
        /\ \A w \in Pages \ {v} : pte'[t][w] = pte[t][w]
        /\ pte'[t][v].frame = new
    <2>1. PICK y \in EntryType : y = Entry(new, TRUE)  BY DEF Entry, EntryType
    <2>2. y.frame = new  BY <2>1 DEF Entry
    <2>3. Replace(t, v, y)  BY <1>1, <1>4, <2>1 DEF Replace
    <2> QED  BY <1>1, <2>2, <2>3, EntrySet
  <1>10. /\ call' \in [Tasks -> CallType]
         /\ \A u \in Tasks \ {t} : call'[u] = call[u]
         /\ \A u \in Tasks : call'[u].frame = call[u].frame
         /\ call[t].frame = NoFrame
         /\ \/ call'[t] = User
            \/ call'[t].op = "write" /\ call'[t].page = v
    BY <1>1, <1>2, EntersFacts
  <1>11. /\ memory_map'[new] = 1
         /\ old \in Frames => memory_map'[old] = memory_map[old] - 1
         /\ \A f \in Frames \ {new, old} : memory_map'[f] = memory_map[f]
    BY <1>3, <1>4, <1>7
  <1>12. \A f \in Frames : memory_map[f] \in Nat  BY <1>1 DEF TypeOK
  <1>13. /\ \A f \in Frames : memory_map'[f] =
                 Cardinality(Refs(f)') + Cardinality(Callers(f)')
         /\ \A f \in Frames : memory_map'[f] \in Nat
         /\ taken' = Cardinality({u \in Tasks : life'[u] # "none"})
                         + Cardinality(AllTables')
         /\ taken' \in Nat
    <2>1. \A f \in Frames : memory_map'[f] = memory_map[f]
              - (IF pte[t][v].frame = f THEN 1 ELSE 0)
              + (IF pte'[t][v].frame = f THEN 1 ELSE 0)
              - (IF call[t].frame = f THEN 1 ELSE 0)
              + (IF call'[t].frame = f THEN 1 ELSE 0)
      <3> TAKE f \in Frames
      <3>1. f # NoFrame /\ call'[t].frame = NoFrame  BY <1>10, MemoryAssumption
      <3>2. CASE f = new  BY <1>3, <1>5, <1>7, <1>9, <1>10, <1>11, <3>1, <3>2
      <3>3. CASE f = old
        BY <1>3, <1>7, <1>8, <1>9, <1>10, <1>11, <3>1, <3>3
      <3>4. CASE f \notin {new, old}
        BY <1>3, <1>9, <1>10, <1>11, <1>12, <3>1, <3>4
      <3> QED  BY <3>2, <3>3, <3>4
    <2>2. /\ dir \in [Tasks -> SUBSET Tables] /\ taken \in Nat  BY <1>1 DEF TypeOK
    <2>3. Cardinality(dir[t]) \in Nat  BY <2>2, CountsFinite DEF Finite
    <2>4. taken' = taken - Cardinality(dir[t]) + Cardinality(dir'[t])
      BY <2>2, <2>3
    <2>5. \A u \in Tasks \ {t} :
              /\ \A w \in Pages : pte'[u][w].frame = pte[u][w].frame
              /\ call'[u].frame = call[u].frame /\ dir'[u] = dir[u]
      BY <1>9, <1>10
    <2>6. \A w \in Pages \ {v} : pte'[t][w].frame = pte[t][w].frame  BY <1>9
    <2>7. dir' \in [Tasks -> SUBSET Tables] /\ life' = life  BY <2>2
    <2> HIDE DEF un_wp_page
    <2> QED  BY <1>1, <2>1, <2>4, <2>5, <2>6, <2>7, EntryBooks
  <1>14. InUse' <= NR_FRAMES
    <2>1. \A f \in Frames \ {new} : memory_map'[f] = 0 <=> memory_map[f] = 0
      BY <1>8, <1>11
    <2>2. Cardinality((Frames \ Unused)') = Cardinality(Frames \ Unused) + 1
      BY <1>5, <1>11, <2>1, UsedOne, SMTT(30)
    <2>3. Cardinality(Frames \ Unused) \in Nat  BY CountsFinite DEF Finite
    <2>4. taken' = taken /\ taken \in Nat /\ NR_FRAMES \in Nat
      BY <1>1, MemoryAssumption DEF TypeOK
    <2> QED  BY <1>5, <2>2, <2>3, <2>4 DEF InUse, Left
  <1>15. Accounted'  BY <1>13, <1>14 DEF Accounted
  <1>16. /\ page' \in [Frames \cup {Low} -> Contents]
         /\ \A f \in Frames \ {new} : page'[f] = page[f]
    BY <1>1, <1>3, <1>4 DEF TypeOK
  <1>17. TypeOK'
    <2>1. memory_map' = [f \in Frames |-> memory_map'[f]]  BY <1>4
    <2>2. memory_map' \in [Frames -> Nat]  BY <1>13, <2>1
    <2> QED  BY <1>1, <1>9, <1>10, <1>16, <2>2 DEF TypeOK
  <1>18. EntriesOwn'
    <2> SUFFICES ASSUME NEW a \in Tasks, NEW b \in Pages, pte'[a][b].rw
                 PROVE  /\ pte'[a][b].frame \in Frames
                        /\ \A u \in Tasks :
                             /\ call'[u].frame # pte'[a][b].frame
                             /\ \A w \in Pages : pte'[u][w].frame = pte'[a][b].frame
                                                   => u = a /\ w = b
      BY DEF EntriesOwn
    <2>1. CASE a = t /\ b = v
      BY <1>6, <1>9, <1>10, <2>1 DEF Nobodys
    <2>2. CASE ~(a = t /\ b = v)
      <3>1. pte'[a][b] = pte[a][b]  BY <1>9, <2>2
      <3>2. pte[a][b].frame # new  BY <1>6 DEF Nobodys
      <3> QED  BY <1>1, <1>9, <1>10, <3>1, <3>2 DEF EntriesOwn
    <2> QED  BY <2>1, <2>2
  <1>19. CallsOwn'
    <2> SUFFICES ASSUME NEW a \in Tasks, call'[a].frame # NoFrame
                 PROVE  \A u \in Tasks :
                          /\ call'[u].frame = call'[a].frame => u = a
                          /\ \A w \in Pages : pte'[u][w].frame # call'[a].frame
      BY DEF CallsOwn
    <2>1. call'[a].frame = call[a].frame /\ call[a].frame # new
      BY <1>6, <1>10 DEF Nobodys
    <2>2. \A u \in Tasks : /\ call[u].frame = call[a].frame => u = a
                          /\ \A w \in Pages : pte[u][w].frame # call[a].frame
      BY <1>1, <2>1 DEF CallsOwn
    <2> QED  BY <1>9, <1>10, <2>1, <2>2
  <1>20. Blank'
    <2> SUFFICES ASSUME NEW f \in Frames, memory_map'[f] = 0 PROVE page'[f] = 0
      BY DEF Blank
    <2>1. f # new  BY <1>11
    <2>2. memory_map[f] = 0  BY <1>8, <1>11, <2>1
    <2> QED  BY <1>1, <1>16, <2>1, <2>2 DEF Blank
  <1>21. CallsBlank'
    <2> SUFFICES ASSUME NEW u \in Tasks, call'[u].frame # NoFrame
                 PROVE  page'[call'[u].frame] = 0
      BY DEF CallsBlank
    <2>1. call[u].frame # NoFrame /\ call'[u].frame = call[u].frame  BY <1>10
    <2>2. call[u].frame # new  BY <1>6 DEF Nobodys
    <2>3. call[u].frame \in Frames  BY <1>1, <2>1 DEF TypeOK, CallType
    <2>4. page[call[u].frame] = 0  BY <1>1, <2>1 DEF CallsBlank
    <2> QED  BY <1>16, <2>1, <2>2, <2>3, <2>4
  <1>22. ASSUME NEW u \in Tasks PROVE Held(u)'
    <2>1. CASE u = t
      <3>1. \A w \in Pages : Present(t, w)' => Table[w] \in dir[t]
        <4> SUFFICES ASSUME NEW w \in Pages, Present(t, w)'
                     PROVE  Table[w] \in dir[t]
          OBVIOUS
        <4>1. Present(t, w)  BY <1>9 DEF Present, ReadOnlyPage
        <4> QED  BY <1>1, <4>1 DEF Held
      <3>2. pte'[t][v].frame # Low  BY <1>9, MemoryAssumption
      <3>3. dir[t] # {}  BY <1>1, <1>2 DEF Held
      <3> QED  BY <1>2, <1>10, <2>1, <3>1, <3>2, <3>3, EntersHeld
    <2>2. CASE u # t
      <3>1. call[u].page \in Pages  BY <1>1 DEF TypeOK, CallType
      <3> QED  BY <1>1, <1>9, <1>10, <2>2, <3>1, OtherHeld
    <2> QED  BY <2>1, <2>2
  <1> QED
    BY <1>15, <1>17, <1>18, <1>19, <1>20, <1>21, <1>22, Assembled

-----------------------------------------------------------------------------
(* put_page: a page table is taken when there is none. *)
LEMMA TableAdded ==
    ASSUME TypeOK, NEW t \in Tasks, NEW v \in Pages, AddTable(t, v)
    PROVE  /\ dir' \in [Tasks -> SUBSET Tables]
           /\ \A u \in Tasks \ {t} : dir'[u] = dir[u]
           /\ dir'[t] = dir[t] \cup {Table[v]}
           /\ Cardinality(NewTables(t, v)) \in Nat
           /\ taken \in Nat
           /\ taken' = taken + Cardinality(NewTables(t, v))
           /\ taken' = taken - Cardinality(dir[t]) + Cardinality(dir'[t])
  <1>1. Table[v] \in Tables  BY MemoryAssumption
  <1>2. dir \in [Tasks -> SUBSET Tables] /\ taken \in Nat  BY DEF TypeOK
  <1>3. /\ dir' = [dir EXCEPT ![t] = dir[t] \cup {Table[v]}]
        /\ taken' = taken + Cardinality(NewTables(t, v))
    BY <1>2 DEF AddTable
  <1>4. /\ dir' \in [Tasks -> SUBSET Tables]
        /\ \A u \in Tasks \ {t} : dir'[u] = dir[u]
        /\ dir'[t] = dir[t] \cup {Table[v]}
    BY <1>1, <1>2, <1>3
  <1>5. IsFiniteSet(dir[t]) /\ Cardinality(dir[t]) \in Nat
    BY <1>2, CountsFinite DEF Finite
  <1>6. CASE Table[v] \in dir[t]
    <2>1. NewTables(t, v) = {} /\ dir'[t] = dir[t]  BY <1>4, <1>6 DEF NewTables
    <2>2. Cardinality(NewTables(t, v)) = 0  BY <2>1, FS_EmptySet
    <2>3. Cardinality(dir'[t]) = Cardinality(dir[t])  BY <2>1
    <2>4. taken' = taken - Cardinality(dir[t]) + Cardinality(dir'[t])
      BY <1>2, <1>3, <1>5, <2>2, <2>3
    <2> QED  BY <1>2, <1>3, <1>4, <2>2, <2>4
  <1>7. CASE Table[v] \notin dir[t]
    <2>1. NewTables(t, v) = {Table[v]}  BY <1>7 DEF NewTables
    <2>2. Cardinality(NewTables(t, v)) = 1  BY <2>1, FS_Singleton
    <2>3. Cardinality(dir[t] \cup {Table[v]}) = Cardinality(dir[t]) + 1
      BY <1>5, <1>7, FS_AddElement
    <2>4. Cardinality(dir'[t]) = Cardinality(dir[t]) + 1  BY <1>4, <2>3
    <2>5. taken' = taken - Cardinality(dir[t]) + Cardinality(dir'[t])
      BY <1>2, <1>3, <1>5, <2>2, <2>4
    <2> QED  BY <1>2, <1>3, <1>4, <2>2, <2>5
  <1> QED  BY <1>6, <1>7

(* A process that meets a missing page: in user mode, or in a system call  *)
(* that writes to that page.                                               *)
Faults(t, v) == /\ life[t] = "alive" /\ ~Present(t, v)
                /\ Running(t) \/ (InWrite(t) /\ v = call[t].page)

(* Its call holds no frame yet. *)
LEMMA FaultsFacts ==
    ASSUME TypeOK, NEW t \in Tasks, NEW v \in Pages, Held(t), Faults(t, v)
    PROVE  /\ call[t].op \in {"user", "write"} /\ call[t].frame = NoFrame
           /\ pte[t][v].frame = NoFrame /\ dir[t] # {}
  <1>1. call[t].op \in {"user", "write"}
    BY UserType DEF Faults, Running, InWrite
  <1> QED  BY <1>1 DEF Held, Faults, Present

(* The process that got page v of its own or shares it. *)
LEMMA FaultsHeld ==
    ASSUME TypeOK, NEW t \in Tasks, NEW v \in Pages, Held(t), Faults(t, v),
           life' = life, call' = call, executable' = executable,
           dir'[t] = dir[t] \cup {Table[v]}, pte'[t][v].frame \in Frames,
           \A w \in Pages \ {v} : pte'[t][w] = pte[t][w]
    PROVE  Held(t)'
  <1>1. /\ call[t].op \in {"user", "write"} /\ call[t].frame = NoFrame
        /\ pte[t][v].frame = NoFrame /\ dir[t] # {}
    BY FaultsFacts
  <1>2. life[t] = "alive"  BY DEF Faults
  <1>3. \A w \in Pages : Present(t, w)' => Table[w] \in dir'[t]
    <2> SUFFICES ASSUME NEW w \in Pages, Present(t, w)', w # v
                 PROVE  Table[w] \in dir[t]
      OBVIOUS
    <2> QED  BY DEF Held, Present
  <1>4. call[t].page \in Pages  BY DEF TypeOK, CallType
  <1>5. InWrite(t) => pte'[t][call[t].page].frame # Low
    BY <1>4, MemoryAssumption DEF Held, InWrite
  <1> QED  BY <1>1, <1>2, <1>3, <1>5 DEF Held, InWrite

(* get_empty_page *)
EmptyPage(t, v, new) ==
    /\ get_free_page(new)
    /\ Left >= 1 + Cardinality(NewTables(t, v))
    /\ memory_map' = [memory_map EXCEPT ![new] = 1]
    /\ pte' = [pte EXCEPT ![t][v] = Entry(new, TRUE)]
    /\ AddTable(t, v)
    /\ UNCHANGED <<life, executable, page, call>>

(* The process gets a frame nobody used. *)
LEMMA EmptyPageStep ==
    ASSUME IInv, NEW t \in Tasks, NEW v \in Pages, Faults(t, v),
           NEW new \in Frames, EmptyPage(t, v, new)
    PROVE  IInv'
  <1>0. life' = life /\ executable' = executable /\ page' = page /\ call' = call
    BY DEF EmptyPage
  <1>1. /\ TypeOK /\ Accounted /\ EntriesOwn /\ CallsOwn /\ Blank /\ CallsBlank
        /\ \A u \in Tasks : Held(u)
    BY Parts
  <1>2. /\ call[t].op \in {"user", "write"} /\ call[t].frame = NoFrame
        /\ pte[t][v].frame = NoFrame /\ dir[t] # {}
    BY <1>1, FaultsFacts
  <1>3. memory_map[new] = 0  BY DEF EmptyPage, get_free_page, Unused
  <1>4. Nobodys(new)  BY <1>1, <1>3, FreeFrame
  <1>5. /\ pte' \in [Tasks -> [Pages -> EntryType]]
        /\ \A u \in Tasks \ {t} : pte'[u] = pte[u]
        /\ \A w \in Pages \ {v} : pte'[t][w] = pte[t][w]
        /\ pte'[t][v].frame = new
    <2>1. PICK y \in EntryType : y = Entry(new, TRUE)  BY DEF Entry, EntryType
    <2>2. y.frame = new  BY <2>1 DEF Entry
    <2>3. Replace(t, v, y)  BY <1>1, <2>1 DEF Replace, EmptyPage, TypeOK
    <2> QED  BY <1>1, <2>2, <2>3, EntrySet
  <1>6. /\ dir' \in [Tasks -> SUBSET Tables]
        /\ \A u \in Tasks \ {t} : dir'[u] = dir[u]
        /\ dir'[t] = dir[t] \cup {Table[v]}
        /\ Cardinality(NewTables(t, v)) \in Nat
        /\ taken \in Nat
        /\ taken' = taken + Cardinality(NewTables(t, v))
        /\ taken' = taken - Cardinality(dir[t]) + Cardinality(dir'[t])
    <2>1. AddTable(t, v)  BY DEF EmptyPage
    <2> QED  BY <1>1, <2>1, TableAdded
  <1>7. /\ memory_map' \in [Frames -> Nat] /\ memory_map'[new] = 1
        /\ \A f \in Frames : memory_map[f] \in Nat
        /\ \A f \in Frames \ {new} : memory_map'[f] = memory_map[f]
    BY <1>1 DEF TypeOK, EmptyPage
  <1>8. /\ \A f \in Frames : memory_map'[f] =
                 Cardinality(Refs(f)') + Cardinality(Callers(f)')
        /\ \A f \in Frames : memory_map'[f] \in Nat
        /\ taken' = Cardinality({u \in Tasks : life'[u] # "none"})
                         + Cardinality(AllTables')
        /\ taken' \in Nat
    <2>1. \A f \in Frames : memory_map'[f] = memory_map[f]
              - (IF pte[t][v].frame = f THEN 1 ELSE 0)
              + (IF pte'[t][v].frame = f THEN 1 ELSE 0)
              - (IF call[t].frame = f THEN 1 ELSE 0)
              + (IF call'[t].frame = f THEN 1 ELSE 0)
      <3> TAKE f \in Frames
      <3>1. f # NoFrame  BY MemoryAssumption
      <3>2. CASE f = new  BY <1>0, <1>2, <1>3, <1>5, <1>7, <3>1, <3>2
      <3>3. CASE f # new  BY <1>0, <1>2, <1>5, <1>7, <3>1, <3>3
      <3> QED  BY <3>2, <3>3
    <2>2. \A u \in Tasks \ {t} :
              /\ \A w \in Pages : pte'[u][w].frame = pte[u][w].frame
              /\ call'[u].frame = call[u].frame /\ dir'[u] = dir[u]
      BY <1>0, <1>5, <1>6
    <2>3. \A w \in Pages \ {v} : pte'[t][w].frame = pte[t][w].frame  BY <1>5
    <2> QED  BY <1>0, <1>1, <1>6, <2>1, <2>2, <2>3, EntryBooks
  <1>9. InUse' <= NR_FRAMES
    <2>1. Cardinality((Frames \ Unused)') = Cardinality(Frames \ Unused) + 1
      <3>1. /\ memory_map'[new] # 0
            /\ \A f \in Frames \ {new} : memory_map'[f] = 0 <=> memory_map[f] = 0
        BY <1>7
      <3> QED  BY <1>3, <3>1, UsedOne
    <2>2. Cardinality(Frames \ Unused) \in Nat  BY CountsFinite DEF Finite
    <2>3. NR_FRAMES \in Nat  BY MemoryAssumption
    <2>4. Left >= 1 + Cardinality(NewTables(t, v))  BY DEF EmptyPage
    <2> QED  BY <1>6, <2>1, <2>2, <2>3, <2>4 DEF InUse, Left
  <1>10. Accounted'  BY <1>8, <1>9 DEF Accounted
  <1>11. TypeOK'  BY <1>0, <1>1, <1>5, <1>6, <1>7, <1>8 DEF TypeOK
  <1>12. EntriesOwn'
    <2> SUFFICES ASSUME NEW a \in Tasks, NEW b \in Pages, pte'[a][b].rw
                 PROVE  /\ pte'[a][b].frame \in Frames
                        /\ \A u \in Tasks :
                             /\ call'[u].frame # pte'[a][b].frame
                             /\ \A w \in Pages : pte'[u][w].frame = pte'[a][b].frame
                                                   => u = a /\ w = b
      BY DEF EntriesOwn
    <2>1. CASE a = t /\ b = v
      BY <1>0, <1>4, <1>5, <2>1 DEF Nobodys
    <2>2. CASE ~(a = t /\ b = v)
      <3>1. pte'[a][b] = pte[a][b]  BY <1>5, <2>2
      <3>2. pte[a][b].frame # new  BY <1>4 DEF Nobodys
      <3> QED  BY <1>0, <1>1, <1>5, <3>1, <3>2 DEF EntriesOwn
    <2> QED  BY <2>1, <2>2
  <1>13. CallsOwn'
    <2> SUFFICES ASSUME NEW a \in Tasks, call[a].frame # NoFrame
                 PROVE  \A u \in Tasks :
                          /\ call[u].frame = call[a].frame => u = a
                          /\ \A w \in Pages : pte'[u][w].frame # call[a].frame
      BY <1>0 DEF CallsOwn
    <2>1. call[a].frame # new  BY <1>4 DEF Nobodys
    <2>2. \A u \in Tasks : /\ call[u].frame = call[a].frame => u = a
                          /\ \A w \in Pages : pte[u][w].frame # call[a].frame
      BY <1>1 DEF CallsOwn
    <2> QED  BY <1>5, <2>1, <2>2
  <1>14. Blank' /\ CallsBlank'  BY <1>0, <1>1, <1>7 DEF Blank, CallsBlank
  <1>15. ASSUME NEW u \in Tasks PROVE Held(u)'
    <2>1. CASE u = t  BY <1>0, <1>1, <1>5, <1>6, <2>1, FaultsHeld
    <2>2. CASE u # t
      <3>1. call[u].page \in Pages  BY <1>1 DEF TypeOK, CallType
      <3> QED  BY <1>0, <1>1, <1>5, <1>6, <2>2, <3>1, OtherHeld
    <2> QED  BY <2>1, <2>2
  <1> QED  BY <1>10, <1>11, <1>12, <1>13, <1>14, <1>15, Assembled

(* do_no_page and do_execve take a frame that they enter later. *)
Reserve(t, c, new, e) ==
    /\ get_free_page(new)
    /\ memory_map' = [memory_map EXCEPT ![new] = 1]
    /\ call' = [call EXCEPT ![t] = c]
    /\ executable' = [executable EXCEPT ![t] = e]
    /\ UNCHANGED <<life, dir, pte, taken, page>>

(* The frame is blank and belongs to the call. *)
LEMMA ReserveStep ==
    ASSUME IInv, NEW t \in Tasks, life[t] = "alive", call[t].frame = NoFrame,
           NEW new \in Frames, NEW c \in CallType, c.frame = new,
           c.op \in {"load", "exec"}, NEW e \in Programs \cup {NoProgram},
           c.op = "load" => ~Present(t, c.page) /\ Image(e, c.page) # 0,
           c.op = "exec" => e # NoProgram,
           Reserve(t, c, new, e)
    PROVE  IInv'
  <1>0. life' = life /\ dir' = dir /\ pte' = pte /\ taken' = taken /\ page' = page
    BY DEF Reserve
  <1>1. /\ TypeOK /\ Accounted /\ EntriesOwn /\ CallsOwn /\ Blank /\ CallsBlank
        /\ \A u \in Tasks : Held(u)
    BY Parts
  <1>2. /\ memory_map[new] = 0 /\ Left > 0
        /\ call' = [call EXCEPT ![t] = c]
        /\ executable' = [executable EXCEPT ![t] = e]
    BY DEF Reserve, get_free_page, Unused
  <1>3. Nobodys(new) /\ page[new] = 0
    BY <1>1, <1>2, FreeFrame DEF Blank
  <1>4. /\ call' \in [Tasks -> CallType] /\ call'[t] = c
        /\ \A u \in Tasks \ {t} : call'[u] = call[u]
        /\ executable' \in [Tasks -> Programs \cup {NoProgram}]
        /\ executable'[t] = e
        /\ \A u \in Tasks \ {t} : executable'[u] = executable[u]
    BY <1>1, <1>2 DEF TypeOK
  <1>5. /\ memory_map' \in [Frames -> Nat] /\ memory_map'[new] = 1
        /\ \A f \in Frames : memory_map[f] \in Nat
        /\ \A f \in Frames \ {new} : memory_map'[f] = memory_map[f]
    BY <1>1 DEF TypeOK, Reserve
  <1>6. /\ \A f \in Frames : memory_map'[f] =
                 Cardinality(Refs(f)') + Cardinality(Callers(f)')
        /\ \A f \in Frames : memory_map'[f] \in Nat
        /\ taken' = Cardinality({u \in Tasks : life'[u] # "none"})
                         + Cardinality(AllTables')
        /\ taken' \in Nat
    <2>1. \A f \in Frames : memory_map'[f] = memory_map[f]
              - (IF pte[t][Stack].frame = f THEN 1 ELSE 0)
              + (IF pte'[t][Stack].frame = f THEN 1 ELSE 0)
              - (IF call[t].frame = f THEN 1 ELSE 0)
              + (IF call'[t].frame = f THEN 1 ELSE 0)
      <3> TAKE f \in Frames
      <3>1. f # NoFrame  BY MemoryAssumption
      <3>2. CASE f = new  BY <1>0, <1>2, <1>4, <1>5, <3>1, <3>2
      <3>3. CASE f # new  BY <1>0, <1>4, <1>5, <3>1, <3>3
      <3> QED  BY <3>2, <3>3
    <2>2. \A u \in Tasks \ {t} :
              /\ \A w \in Pages : pte'[u][w].frame = pte[u][w].frame
              /\ call'[u].frame = call[u].frame /\ dir'[u] = dir[u]
      BY <1>0, <1>4
    <2>3. \A w \in Pages \ {Stack} : pte'[t][w].frame = pte[t][w].frame  BY <1>0
    <2>4. dir \in [Tasks -> SUBSET Tables] /\ taken \in Nat  BY <1>1 DEF TypeOK
    <2>5. Cardinality(dir[t]) \in Nat  BY <2>4, CountsFinite DEF Finite
    <2>6. taken' = taken - Cardinality(dir[t]) + Cardinality(dir'[t])
      BY <1>0, <2>4, <2>5
    <2>7. Stack \in Pages  BY MemoryAssumption
    <2> QED  BY <1>0, <1>1, <2>1, <2>2, <2>3, <2>4, <2>6, <2>7, EntryBooks
  <1>7. InUse' <= NR_FRAMES
    <2>1. Cardinality((Frames \ Unused)') = Cardinality(Frames \ Unused) + 1
      <3>1. /\ memory_map'[new] # 0
            /\ \A f \in Frames \ {new} : memory_map'[f] = 0 <=> memory_map[f] = 0
        BY <1>5
      <3> QED  BY <1>2, <3>1, UsedOne
    <2>2. Cardinality(Frames \ Unused) \in Nat  BY CountsFinite DEF Finite
    <2>3. NR_FRAMES \in Nat /\ taken \in Nat  BY <1>1, MemoryAssumption DEF TypeOK
    <2> QED  BY <1>0, <1>2, <2>1, <2>2, <2>3 DEF InUse, Left
  <1>8. Accounted'  BY <1>6, <1>7 DEF Accounted
  <1>9. TypeOK'  BY <1>0, <1>1, <1>4, <1>5 DEF TypeOK
  <1>10. EntriesOwn'
    BY <1>0, <1>1, <1>3, <1>4 DEF EntriesOwn, Nobodys
  <1>11. CallsOwn'
    <2> SUFFICES ASSUME NEW a \in Tasks, call'[a].frame # NoFrame
                 PROVE  \A u \in Tasks :
                          /\ call'[u].frame = call'[a].frame => u = a
                          /\ \A w \in Pages : pte[u][w].frame # call'[a].frame
      BY <1>0 DEF CallsOwn
    <2>1. CASE a = t  BY <1>3, <1>4, <2>1 DEF Nobodys
    <2>2. CASE a # t
      <3>1. call'[a] = call[a] /\ call[a].frame # new
        BY <1>3, <1>4, <2>2 DEF Nobodys
      <3>2. \A u \in Tasks : /\ call[u].frame = call[a].frame => u = a
                            /\ \A w \in Pages : pte[u][w].frame # call[a].frame
        BY <1>1, <3>1 DEF CallsOwn
      <3> QED  BY <1>4, <3>1, <3>2
    <2> QED  BY <2>1, <2>2
  <1>12. Blank'  BY <1>0, <1>1, <1>5 DEF Blank
  <1>13. CallsBlank'  BY <1>0, <1>1, <1>3, <1>4 DEF CallsBlank
  <1>14. ASSUME NEW u \in Tasks PROVE Held(u)'
    <2>1. CASE u = t
      <3>1. new # NoFrame  BY MemoryAssumption
      <3>2. \A w \in Pages : Present(t, w)' => Table[w] \in dir[t]
        BY <1>0, <1>1 DEF Held, Present
      <3>3. dir[t] # {}  BY <1>1 DEF Held
      <3>4. c.op = "load" => ~Present(t, c.page)'  BY <1>0 DEF Present
      <3> QED  BY <1>0, <1>4, <2>1, <3>1, <3>2, <3>3, <3>4 DEF Held, InWrite
    <2>2. CASE u # t
      <3>1. call[u].page \in Pages  BY <1>1 DEF TypeOK, CallType
      <3> QED  BY <1>0, <1>1, <1>4, <2>2, <3>1, OtherHeld
    <2> QED  BY <2>1, <2>2
  <1> QED
    BY <1>8, <1>9, <1>10, <1>11, <1>12, <1>13, <1>14, Assembled

(* do_no_page: the page was read. *)
Load(t, v, new, c) ==
    /\ Left >= Cardinality(NewTables(t, v))
    /\ pte' = [pte EXCEPT ![t][v] = Entry(new, TRUE)]
    /\ AddTable(t, v)
    /\ page' = [page EXCEPT ![new] = executable[t]]
    /\ call' = [call EXCEPT ![t] = c]
    /\ UNCHANGED <<life, executable, memory_map>>

(* The frame of the call becomes the page of the process. *)
LEMMA LoadStep ==
    ASSUME IInv, NEW t \in Tasks, NEW v \in Pages, NEW new \in Frames,
           call[t].op = "load", call[t].page = v, call[t].frame = new,
           NEW c \in CallType, c.frame = NoFrame,
           c.op = "user" \/ (c.op = "write" /\ c.page = v),
           Load(t, v, new, c)
    PROVE  IInv'
  <1>0. /\ life' = life /\ executable' = executable /\ memory_map' = memory_map
        /\ call' = [call EXCEPT ![t] = c]
    BY DEF Load
  <1>1. /\ TypeOK /\ Accounted /\ EntriesOwn /\ CallsOwn /\ Blank /\ CallsBlank
        /\ \A u \in Tasks : Held(u)
    BY Parts
  <1>2. life[t] = "alive" /\ pte[t][v].frame = NoFrame
    BY <1>1, UserType DEF Held, Present
  <1>3. memory_map[new] = 1
    BY MemoryAssumption DEF IInv, Reserved
  <1>4. \A u \in Tasks : /\ call[u].frame = new => u = t
                         /\ \A w \in Pages : pte[u][w].frame # new
    BY <1>1, <1>3, OneCall
  <1>5. /\ pte' \in [Tasks -> [Pages -> EntryType]]
        /\ \A u \in Tasks \ {t} : pte'[u] = pte[u]
        /\ \A w \in Pages \ {v} : pte'[t][w] = pte[t][w]
        /\ pte'[t][v].frame = new
    <2>1. PICK y \in EntryType : y = Entry(new, TRUE)  BY DEF Entry, EntryType
    <2>2. y.frame = new  BY <2>1 DEF Entry
    <2>3. Replace(t, v, y)  BY <1>1, <2>1 DEF Replace, Load, TypeOK
    <2> QED  BY <1>1, <2>2, <2>3, EntrySet
  <1>6. /\ dir' \in [Tasks -> SUBSET Tables]
        /\ \A u \in Tasks \ {t} : dir'[u] = dir[u]
        /\ dir'[t] = dir[t] \cup {Table[v]}
        /\ Cardinality(NewTables(t, v)) \in Nat
        /\ taken \in Nat
        /\ taken' = taken + Cardinality(NewTables(t, v))
        /\ taken' = taken - Cardinality(dir[t]) + Cardinality(dir'[t])
    <2>1. AddTable(t, v)  BY DEF Load
    <2> QED  BY <1>1, <2>1, TableAdded
  <1>7. /\ call' \in [Tasks -> CallType] /\ call'[t] = c
        /\ \A u \in Tasks \ {t} : call'[u] = call[u]
    BY <1>0, <1>1 DEF TypeOK
  <1>8. /\ \A f \in Frames : memory_map'[f] =
                 Cardinality(Refs(f)') + Cardinality(Callers(f)')
        /\ \A f \in Frames : memory_map'[f] \in Nat
        /\ taken' = Cardinality({u \in Tasks : life'[u] # "none"})
                         + Cardinality(AllTables')
        /\ taken' \in Nat
    <2>0. \A f \in Frames : memory_map[f] \in Nat  BY <1>1 DEF TypeOK
    <2>1. \A f \in Frames : memory_map'[f] = memory_map[f]
              - (IF pte[t][v].frame = f THEN 1 ELSE 0)
              + (IF pte'[t][v].frame = f THEN 1 ELSE 0)
              - (IF call[t].frame = f THEN 1 ELSE 0)
              + (IF call'[t].frame = f THEN 1 ELSE 0)
      <3> TAKE f \in Frames
      <3>1. f # NoFrame  BY MemoryAssumption
      <3>2. CASE f = new  BY <1>0, <1>2, <1>5, <1>7, <2>0, <3>1, <3>2
      <3>3. CASE f # new  BY <1>0, <1>2, <1>5, <1>7, <2>0, <3>1, <3>3
      <3> QED  BY <3>2, <3>3
    <2>2. \A u \in Tasks \ {t} :
              /\ \A w \in Pages : pte'[u][w].frame = pte[u][w].frame
              /\ call'[u].frame = call[u].frame /\ dir'[u] = dir[u]
      BY <1>5, <1>6, <1>7
    <2>3. \A w \in Pages \ {v} : pte'[t][w].frame = pte[t][w].frame  BY <1>5
    <2> QED  BY <1>0, <1>1, <1>6, <2>1, <2>2, <2>3, EntryBooks, ZenonT(60)
  <1>9. InUse' <= NR_FRAMES
    <2>1. Cardinality(Frames \ Unused) \in Nat  BY CountsFinite DEF Finite
    <2>2. NR_FRAMES \in Nat  BY MemoryAssumption
    <2>3. Left >= Cardinality(NewTables(t, v))  BY DEF Load
    <2>4. Cardinality((Frames \ Unused)') = Cardinality(Frames \ Unused)
      BY <1>0 DEF Unused
    <2> QED  BY <1>6, <2>1, <2>2, <2>3, <2>4 DEF InUse, Left
  <1>10. Accounted'  BY <1>8, <1>9 DEF Accounted
  <1>11. /\ page' \in [Frames \cup {Low} -> Contents]
         /\ \A f \in Frames \ {new} : page'[f] = page[f]
    <2>1. page \in [Frames \cup {Low} -> Contents] /\ executable[t] \in Contents
      BY <1>1 DEF TypeOK, Contents, NoProgram
    <2>2. page' = [page EXCEPT ![new] = executable[t]]  BY DEF Load
    <2> QED  BY <2>1, <2>2
  <1>12. TypeOK'  BY <1>0, <1>1, <1>5, <1>6, <1>7, <1>8, <1>11 DEF TypeOK
  <1>13. EntriesOwn'
    <2> SUFFICES ASSUME NEW a \in Tasks, NEW b \in Pages, pte'[a][b].rw
                 PROVE  /\ pte'[a][b].frame \in Frames
                        /\ \A u \in Tasks :
                             /\ call'[u].frame # pte'[a][b].frame
                             /\ \A w \in Pages : pte'[u][w].frame = pte'[a][b].frame
                                                   => u = a /\ w = b
      BY DEF EntriesOwn
    <2>0. new # NoFrame  BY MemoryAssumption
    <2>1. CASE a = t /\ b = v
      BY <1>4, <1>5, <1>7, <2>0, <2>1
    <2>2. CASE ~(a = t /\ b = v)
      <3>1. pte'[a][b] = pte[a][b]  BY <1>5, <2>2
      <3>2. pte[a][b].frame # new /\ pte[a][b].frame # NoFrame
        BY <1>1, <1>4, <3>1, MemoryAssumption DEF EntriesOwn
      <3> QED  BY <1>1, <1>5, <1>7, <3>1, <3>2 DEF EntriesOwn
    <2> QED  BY <2>1, <2>2
  <1>14. CallsOwn'
    <2> SUFFICES ASSUME NEW a \in Tasks, call'[a].frame # NoFrame
                 PROVE  \A u \in Tasks :
                          /\ call'[u].frame = call'[a].frame => u = a
                          /\ \A w \in Pages : pte'[u][w].frame # call'[a].frame
      BY DEF CallsOwn
    <2>1. a # t /\ call'[a] = call[a] /\ call[a].frame # new  BY <1>4, <1>7
    <2>2. \A u \in Tasks : /\ call[u].frame = call[a].frame => u = a
                          /\ \A w \in Pages : pte[u][w].frame # call[a].frame
      BY <1>1, <2>1 DEF CallsOwn
    <2>3. ASSUME NEW u \in Tasks
          PROVE  /\ call'[u].frame = call'[a].frame => u = a
                 /\ \A w \in Pages : pte'[u][w].frame # call'[a].frame
      <3>1. CASE u = t  BY <1>5, <1>7, <2>1, <2>2, <3>1
      <3>2. CASE u # t  BY <1>5, <1>7, <2>1, <2>2, <3>2
      <3> QED  BY <3>1, <3>2
    <2> QED  BY <2>3
  <1>15. Blank'  BY <1>0, <1>1, <1>3, <1>11 DEF Blank
  <1>16. CallsBlank'
    <2> SUFFICES ASSUME NEW u \in Tasks, call'[u].frame # NoFrame
                 PROVE  page'[call'[u].frame] = 0
      BY DEF CallsBlank
    <2>1. call'[u] = call[u] /\ call[u].frame # new  BY <1>4, <1>7
    <2>2. page[call[u].frame] = 0 /\ call[u].frame \in Frames
      BY <1>1, <2>1 DEF CallsBlank, TypeOK, CallType
    <2> QED  BY <1>11, <2>1, <2>2
  <1>17. ASSUME NEW u \in Tasks PROVE Held(u)'
    <2>1. CASE u = t
      <3>1. \A w \in Pages : Present(t, w)' => Table[w] \in dir'[t]
        <4> SUFFICES ASSUME NEW w \in Pages, Present(t, w)', w # v
                     PROVE  Table[w] \in dir[t]
          BY <1>6
        <4> QED  BY <1>1, <1>5 DEF Held, Present
      <3>2. pte'[t][v].frame # Low  BY <1>5, MemoryAssumption
      <3>3. dir'[t] # {}  BY <1>6
      <3> QED  BY <1>0, <1>2, <1>7, <2>1, <3>1, <3>2, <3>3 DEF Held, InWrite
    <2>2. CASE u # t
      <3>1. call[u].page \in Pages  BY <1>1 DEF TypeOK, CallType
      <3> QED  BY <1>0, <1>1, <1>5, <1>6, <1>7, <2>2, <3>1, OtherHeld
    <2> QED  BY <2>1, <2>2
  <1> QED  BY <1>10, <1>12, <1>13, <1>14, <1>15, <1>16, <1>17, Assembled

(* try_to_share *)
Share(t, u, v) ==
    /\ Left >= Cardinality(NewTables(t, v))
    /\ memory_map' = [memory_map EXCEPT ![pte[u][v].frame] = @ + 1]
    /\ pte' = [pte EXCEPT ![u][v] = ReadOnly(@),
                          ![t][v] = ReadOnly(pte[u][v])]
    /\ AddTable(t, v)
    /\ UNCHANGED <<life, executable, page, call>>

(* The frame gets one more user, and nobody may write to it. *)
LEMMA ShareStep ==
    ASSUME IInv, NEW t \in Tasks, NEW u \in Tasks, NEW v \in Pages, Faults(t, v),
           u # t, pte[u][v].frame \notin {NoFrame, Low}, Share(t, u, v)
    PROVE  IInv'
  <1>0. life' = life /\ executable' = executable /\ page' = page /\ call' = call
    BY DEF Share
  <1>1. /\ TypeOK /\ Accounted /\ EntriesOwn /\ CallsOwn /\ Blank /\ CallsBlank
        /\ \A a \in Tasks : Held(a)
    BY Parts
  <1>2. /\ call[t].op \in {"user", "write"} /\ call[t].frame = NoFrame
        /\ pte[t][v].frame = NoFrame /\ dir[t] # {}
    BY <1>1, FaultsFacts
  <1>3. PICK f \in Frames : f = pte[u][v].frame
    BY <1>1 DEF TypeOK, EntryType
  <1>4. memory_map[f] \in Nat /\ memory_map[f] # 0  BY <1>3, UsedCounted
  <1>5. /\ pte' \in [Tasks -> [Pages -> EntryType]]
        /\ \A a \in Tasks \ {t, u} : pte'[a] = pte[a]
        /\ \A w \in Pages \ {v} : pte'[t][w] = pte[t][w] /\ pte'[u][w] = pte[u][w]
        /\ pte'[t][v].frame = f /\ pte'[t][v].rw = FALSE
        /\ pte'[u][v].frame = f /\ pte'[u][v].rw = FALSE
    <2>1. /\ pte \in [Tasks -> [Pages -> EntryType]] /\ pte[u][v] \in EntryType
          /\ pte[t] \in [Pages -> EntryType] /\ pte[u] \in [Pages -> EntryType]
      BY <1>1 DEF TypeOK
    <2>2. PICK y \in EntryType : y = ReadOnly(pte[u][v])
      BY <2>1 DEF EntryType, ReadOnly
    <2>3. y.frame = f /\ y.rw = FALSE  BY <1>3, <2>1, <2>2 DEF EntryType, ReadOnly
    <2> DEFINE rowt == [pte[t] EXCEPT ![v] = y]
               rowu == [pte[u] EXCEPT ![v] = y]
    <2>4. pte' = [pte EXCEPT ![u] = rowu, ![t] = rowt]
      BY <2>1, <2>2 DEF Share
    <2>5. /\ rowt \in [Pages -> EntryType] /\ rowu \in [Pages -> EntryType]
          /\ rowt[v] = y /\ rowu[v] = y
          /\ \A w \in Pages \ {v} : rowt[w] = pte[t][w] /\ rowu[w] = pte[u][w]
      BY <2>1
    <2> HIDE DEF rowt, rowu
    <2>6. /\ pte' \in [Tasks -> [Pages -> EntryType]]
          /\ \A a \in Tasks \ {t, u} : pte'[a] = pte[a]
          /\ pte'[t] = rowt /\ pte'[u] = rowu
      BY <2>1, <2>4, <2>5
    <2> QED  BY <2>3, <2>5, <2>6
  <1>6. /\ dir' \in [Tasks -> SUBSET Tables]
        /\ \A a \in Tasks \ {t} : dir'[a] = dir[a]
        /\ dir'[t] = dir[t] \cup {Table[v]}
        /\ Cardinality(NewTables(t, v)) \in Nat
        /\ taken \in Nat
        /\ taken' = taken + Cardinality(NewTables(t, v))
        /\ taken' = taken - Cardinality(dir[t]) + Cardinality(dir'[t])
    <2>1. AddTable(t, v)  BY DEF Share
    <2> QED  BY <1>1, <2>1, TableAdded
  <1>7. /\ memory_map' \in [Frames -> Nat] /\ memory_map'[f] = memory_map[f] + 1
        /\ \A g \in Frames : memory_map[g] \in Nat
        /\ \A g \in Frames \ {f} : memory_map'[g] = memory_map[g]
    BY <1>1, <1>3 DEF TypeOK, Share
  <1>8. /\ \A a \in Tasks \ {t} : \A w \in Pages : pte'[a][w].frame = pte[a][w].frame
        /\ \A w \in Pages \ {v} : pte'[t][w].frame = pte[t][w].frame
    BY <1>3, <1>5
  <1>9. /\ \A g \in Frames : memory_map'[g] =
                 Cardinality(Refs(g)') + Cardinality(Callers(g)')
        /\ \A g \in Frames : memory_map'[g] \in Nat
        /\ taken' = Cardinality({a \in Tasks : life'[a] # "none"})
                         + Cardinality(AllTables')
        /\ taken' \in Nat
    <2>1. \A g \in Frames : memory_map'[g] = memory_map[g]
              - (IF pte[t][v].frame = g THEN 1 ELSE 0)
              + (IF pte'[t][v].frame = g THEN 1 ELSE 0)
              - (IF call[t].frame = g THEN 1 ELSE 0)
              + (IF call'[t].frame = g THEN 1 ELSE 0)
      <3> TAKE g \in Frames
      <3>1. g # NoFrame  BY MemoryAssumption
      <3>2. CASE g = f  BY <1>0, <1>2, <1>4, <1>5, <1>7, <3>1, <3>2
      <3>3. CASE g # f  BY <1>0, <1>2, <1>5, <1>7, <3>1, <3>3
      <3> QED  BY <3>2, <3>3
    <2>2. \A a \in Tasks \ {t} :
              /\ \A w \in Pages : pte'[a][w].frame = pte[a][w].frame
              /\ call'[a].frame = call[a].frame /\ dir'[a] = dir[a]
      BY <1>0, <1>6, <1>8
    <2>3. \A w \in Pages \ {v} : pte'[t][w].frame = pte[t][w].frame  BY <1>8
    <2> QED  BY <1>0, <1>1, <1>6, <2>1, <2>2, <2>3, EntryBooks
  <1>10. InUse' <= NR_FRAMES
    <2>1. \A g \in Frames : memory_map[g] = 0 => memory_map'[g] = 0  BY <1>4, <1>7
    <2>2. /\ Cardinality((Frames \ Unused)') <= Cardinality(Frames \ Unused)
          /\ Cardinality((Frames \ Unused)') \in Nat
      BY <2>1, UsedLess
    <2>3. Cardinality(Frames \ Unused) \in Nat  BY CountsFinite DEF Finite
    <2>4. NR_FRAMES \in Nat  BY MemoryAssumption
    <2>5. Left >= Cardinality(NewTables(t, v))  BY DEF Share
    <2> QED  BY <1>6, <2>2, <2>3, <2>4, <2>5 DEF InUse, Left
  <1>11. Accounted'  BY <1>9, <1>10 DEF Accounted
  <1>12. TypeOK'  BY <1>0, <1>1, <1>5, <1>6, <1>7, <1>9 DEF TypeOK
  <1>13. EntriesOwn'
    <2> SUFFICES ASSUME NEW a \in Tasks, NEW b \in Pages, pte'[a][b].rw
                 PROVE  /\ pte'[a][b].frame \in Frames
                        /\ \A s \in Tasks :
                             /\ call[s].frame # pte'[a][b].frame
                             /\ \A w \in Pages : pte'[s][w].frame = pte'[a][b].frame
                                                   => s = a /\ w = b
      BY <1>0 DEF EntriesOwn
    <2>1. ~(a = t /\ b = v) /\ ~(a = u /\ b = v)  BY <1>5
    <2>2. pte'[a][b] = pte[a][b]
      <3>1. CASE a \in {t, u}  BY <1>5, <2>1, <3>1
      <3>2. CASE a \notin {t, u}  BY <1>5, <3>2
      <3> QED  BY <3>1, <3>2
    <2>3. /\ pte[a][b].frame \in Frames
          /\ \A s \in Tasks :
               /\ call[s].frame # pte[a][b].frame
               /\ \A w \in Pages : pte[s][w].frame = pte[a][b].frame
                                     => s = a /\ w = b
      BY <1>1, <2>2 DEF EntriesOwn
    <2>4. pte[a][b].frame # f  BY <1>3, <2>1, <2>3
    <2>5. ASSUME NEW s \in Tasks, NEW w \in Pages,
                 pte'[s][w].frame = pte'[a][b].frame
          PROVE  s = a /\ w = b
      <3>1. ~(s = t /\ w = v)  BY <1>5, <2>2, <2>4, <2>5
      <3>2. pte'[s][w].frame = pte[s][w].frame  BY <1>8, <3>1
      <3> QED  BY <2>2, <2>3, <2>5, <3>2
    <2> QED  BY <2>2, <2>3, <2>5
  <1>14. CallsOwn'
    <2> SUFFICES ASSUME NEW a \in Tasks, call[a].frame # NoFrame
                 PROVE  \A s \in Tasks :
                          /\ call[s].frame = call[a].frame => s = a
                          /\ \A w \in Pages : pte'[s][w].frame # call[a].frame
      BY <1>0 DEF CallsOwn
    <2>1. \A s \in Tasks : /\ call[s].frame = call[a].frame => s = a
                           /\ \A w \in Pages : pte[s][w].frame # call[a].frame
      BY <1>1 DEF CallsOwn
    <2>2. call[a].frame # f  BY <1>3, <2>1
    <2>3. ASSUME NEW s \in Tasks, NEW w \in Pages
          PROVE  pte'[s][w].frame # call[a].frame
      <3>1. CASE s = t /\ w = v  BY <1>5, <2>2, <3>1
      <3>2. CASE ~(s = t /\ w = v)  BY <1>8, <2>1, <3>2
      <3> QED  BY <3>1, <3>2
    <2> QED  BY <2>1, <2>3
  <1>15. Blank' /\ CallsBlank'
    <2>1. \A g \in Frames : memory_map'[g] = 0 => memory_map[g] = 0
      BY <1>4, <1>7
    <2> QED  BY <1>0, <1>1, <2>1 DEF Blank, CallsBlank
  <1>16. ASSUME NEW a \in Tasks PROVE Held(a)'
    <2>1. CASE a = t  BY <1>0, <1>1, <1>5, <1>6, <2>1, FaultsHeld
    <2>2. CASE a # t
      <3>1. call[a].page \in Pages  BY <1>1 DEF TypeOK, CallType
      <3>2. pte'[a] = pte[a] \/ life[a] = "alive"
        <4>1. CASE a = u
          BY <1>1, <4>1, UserType DEF Held
        <4>2. CASE a # u  BY <1>5, <2>2, <4>2
        <4> QED  BY <4>1, <4>2
      <3> QED  BY <1>0, <1>1, <1>6, <1>8, <2>2, <3>1, <3>2, OtherHeld
    <2> QED  BY <2>1, <2>2
  <1> QED  BY <1>11, <1>12, <1>13, <1>14, <1>15, <1>16, Assembled

-----------------------------------------------------------------------------
(* copy_process: the child uses the pages of its parent, read-only. *)
LEMMA ForkStep ==
    ASSUME IInv, NEW t \in Tasks, NEW u \in Tasks, Fork(t, u)
    PROVE  IInv'
  <1>0. /\ life[t] = "alive" /\ call[t] = User /\ life[u] = "none"
        /\ Left >= 1 + Cardinality(dir[t])
        /\ page' = page /\ call' = call
        /\ life' = [life EXCEPT ![u] = "alive"]
        /\ executable' = [executable EXCEPT ![u] = executable[t]]
        /\ dir' = [dir EXCEPT ![u] = dir[t]]
        /\ taken' = taken + 1 + Cardinality(dir[t])
        /\ memory_map' = [f \in Frames |-> memory_map[f] + Uses(t, f)]
        /\ t # u
    BY DEF Fork, Running
  <1>1. /\ TypeOK /\ Accounted /\ EntriesOwn /\ CallsOwn /\ Blank /\ CallsBlank
        /\ \A a \in Tasks : Held(a)
    BY Parts
  <1>2. /\ pte[u] = NoPages /\ dir[u] = {} /\ call[u] = User /\ dir[t] # {}
    BY <1>0, <1>1 DEF Held
  <1>3. /\ life' \in [Tasks -> {"none", "alive", "zombie"}]
        /\ executable' \in [Tasks -> Programs \cup {NoProgram}]
        /\ dir \in [Tasks -> SUBSET Tables] /\ dir' \in [Tasks -> SUBSET Tables]
        /\ life'[u] = "alive" /\ dir'[u] = dir[t]
        /\ \A a \in Tasks \ {u} : /\ life'[a] = life[a] /\ dir'[a] = dir[a]
                                  /\ executable'[a] = executable[a]
    BY <1>0, <1>1 DEF TypeOK
  <1>4. /\ pte' \in [Tasks -> [Pages -> EntryType]]
        /\ \A a \in Tasks \ {t, u} : pte'[a] = pte[a]
        /\ \A w \in Pages : /\ pte'[t][w].frame = pte[t][w].frame
                            /\ pte'[u][w].frame = pte[t][w].frame
                            /\ pte'[u][w].rw = FALSE /\ pte'[t][w].rw = FALSE
    <2> DEFINE rowt == Protected(t, dir[t])
               rowu == [v \in Pages |-> ReadOnly(pte[t][v])]
    <2>1. pte \in [Tasks -> [Pages -> EntryType]] /\ pte[t] \in [Pages -> EntryType]
      BY <1>1 DEF TypeOK
    <2>2. \A e \in EntryType : /\ ReadOnly(e) \in EntryType
                               /\ ReadOnly(e).frame = e.frame
                               /\ ReadOnly(e).rw = FALSE
      BY DEF ReadOnly, EntryType
    <2>3. \A w \in Pages : pte[t][w] \in EntryType  BY <2>1
    <2>4. \A w \in Pages : /\ rowu[w] = ReadOnly(pte[t][w])
                           /\ rowt[w] = pte[t][w] \/ rowt[w] = ReadOnly(pte[t][w])
      BY DEF Protected
    <2>5. /\ rowt \in [Pages -> EntryType] /\ rowu \in [Pages -> EntryType]
      <3>1. \A w \in Pages : rowt[w] \in EntryType /\ rowu[w] \in EntryType
        BY <2>2, <2>3, <2>4
      <3> QED  BY <3>1 DEF Protected
    <2>6. \A w \in Pages : rowt[w].rw = FALSE
      <3> SUFFICES ASSUME NEW w \in Pages PROVE rowt[w].rw = FALSE
        OBVIOUS
      <3>1. CASE pte[t][w].rw
        <4>1. pte[t][w].frame \in Frames  BY <1>1, <3>1 DEF EntriesOwn
        <4>2. pte[t][w].frame # Low /\ pte[t][w].frame # NoFrame
          BY <4>1, MemoryAssumption
        <4>3. Table[w] \in dir[t]  BY <1>1, <4>2 DEF Held, Present
        <4>4. rowt[w] = ReadOnly(pte[t][w])  BY <4>2, <4>3 DEF Protected
        <4> QED  BY <2>2, <2>3, <4>4
      <3>2. CASE ~pte[t][w].rw
        <4>1. pte[t][w].rw = FALSE  BY <2>3, <3>2 DEF EntryType
        <4> QED  BY <2>2, <2>3, <2>4, <4>1
      <3> QED  BY <3>1, <3>2
    <2>7. \A w \in Pages : /\ rowt[w].frame = pte[t][w].frame
                           /\ rowu[w].frame = pte[t][w].frame /\ rowu[w].rw = FALSE
      BY <2>2, <2>3, <2>4
    <2>8. pte' = [pte EXCEPT ![t] = rowt, ![u] = rowu]  BY DEF Fork
    <2> HIDE DEF rowt, rowu
    <2>9. /\ pte' \in [Tasks -> [Pages -> EntryType]]
          /\ \A a \in Tasks \ {t, u} : pte'[a] = pte[a]
          /\ pte'[t] = rowt /\ pte'[u] = rowu
      BY <1>0, <2>1, <2>5, <2>8
    <2> QED  BY <2>6, <2>7, <2>9
  <1>5. \A a \in Tasks \ {u} : \A w \in Pages : pte'[a][w].frame = pte[a][w].frame
    BY <1>4
  <1>6. \A f \in Frames : Uses(t, f) \in Nat /\ Uses(u, f) = 0
                          /\ Uses(u, f)' = Uses(t, f) /\ memory_map[f] \in Nat
    <2> TAKE f \in Frames
    <2>1. {v \in Pages : pte[u][v].frame = f} = {}  BY <1>2, UserType
    <2>2. Uses(u, f) = 0  BY <2>1, FS_EmptySet DEF Uses
    <2>3. {v \in Pages : pte'[u][v].frame = f} = {v \in Pages : pte[t][v].frame = f}
      BY <1>4
    <2>4. Uses(u, f)' = Uses(t, f)  BY <2>3 DEF Uses
    <2>5. Uses(t, f) \in Nat  BY CountsFinite DEF Finite
    <2> QED  BY <1>1, <2>2, <2>4, <2>5 DEF TypeOK
  <1>7. Cardinality(dir[u]) = 0 /\ Cardinality(dir[t]) \in Nat /\ taken \in Nat
    BY <1>1, <1>2, <1>3, FS_EmptySet, CountsFinite DEF Finite, TypeOK
  <1>8. /\ \A f \in Frames : memory_map'[f] =
                 Cardinality(Refs(f)') + Cardinality(Callers(f)')
        /\ \A f \in Frames : memory_map'[f] \in Nat
        /\ taken' = Cardinality({a \in Tasks : life'[a] # "none"})
                         + Cardinality(AllTables')
        /\ taken' \in Nat
    <2>1. \A f \in Frames : memory_map'[f] = memory_map[f]
              - Uses(u, f) + Uses(u, f)'
              - (IF call[u].frame = f THEN 1 ELSE 0)
              + (IF call'[u].frame = f THEN 1 ELSE 0)
      <3> TAKE f \in Frames
      <3>1. call[u].frame # f /\ call'[u].frame # f
        BY <1>0, <1>2, UserType, MemoryAssumption
      <3>2. memory_map'[f] = memory_map[f] + Uses(t, f)  BY <1>0
      <3> QED  BY <1>6, <3>1, <3>2
    <2>2. taken' = taken - Cardinality(dir[u]) + Cardinality(dir'[u])
              - (IF life[u] # "none" THEN 1 ELSE 0)
              + (IF life'[u] # "none" THEN 1 ELSE 0)
      BY <1>0, <1>3, <1>7
    <2>3. \A a \in Tasks \ {u} :
              /\ \A v \in Pages : pte'[a][v].frame = pte[a][v].frame
              /\ call'[a].frame = call[a].frame /\ dir'[a] = dir[a]
              /\ life'[a] = life[a]
      BY <1>0, <1>3, <1>5
    <2> QED  BY <1>1, <1>3, <2>1, <2>2, <2>3, BooksKept
  <1>9. \A f \in Frames : memory_map[f] = 0 <=> memory_map'[f] = 0
    <2> SUFFICES ASSUME NEW f \in Frames
                 PROVE  memory_map[f] = 0 <=> memory_map'[f] = 0
      OBVIOUS
    <2>1. memory_map'[f] = memory_map[f] + Uses(t, f)  BY <1>0
    <2>2. memory_map[f] = 0 => Uses(t, f) = 0
      <3> SUFFICES ASSUME memory_map[f] = 0 PROVE Uses(t, f) = 0
        OBVIOUS
      <3>1. Nobodys(f)  BY <1>1, FreeFrame
      <3>2. {v \in Pages : pte[t][v].frame = f} = {}  BY <3>1 DEF Nobodys
      <3> QED  BY <3>2, FS_EmptySet DEF Uses
    <2> QED  BY <1>6, <2>1, <2>2
  <1>10. InUse' <= NR_FRAMES
    <2>1. /\ Cardinality((Frames \ Unused)') <= Cardinality(Frames \ Unused)
          /\ Cardinality((Frames \ Unused)') \in Nat
      BY <1>9, UsedLess
    <2>2. Cardinality(Frames \ Unused) \in Nat  BY CountsFinite DEF Finite
    <2>3. NR_FRAMES \in Nat  BY MemoryAssumption
    <2> QED  BY <1>0, <1>7, <2>1, <2>2, <2>3 DEF InUse, Left
  <1>11. Accounted'  BY <1>8, <1>10 DEF Accounted
  <1>12. TypeOK'
    <2>1. memory_map' \in [Frames -> Nat]
      <3>1. memory_map' = [f \in Frames |-> memory_map'[f]]  BY <1>0
      <3> QED  BY <1>8, <3>1
    <2> QED  BY <1>0, <1>1, <1>3, <1>4, <1>8, <2>1 DEF TypeOK
  <1>13. EntriesOwn'
    <2> SUFFICES ASSUME NEW a \in Tasks, NEW b \in Pages, pte'[a][b].rw
                 PROVE  /\ pte'[a][b].frame \in Frames
                        /\ \A s \in Tasks :
                             /\ call[s].frame # pte'[a][b].frame
                             /\ \A w \in Pages : pte'[s][w].frame = pte'[a][b].frame
                                                   => s = a /\ w = b
      BY <1>0 DEF EntriesOwn
    <2>1. a \notin {t, u} /\ pte'[a] = pte[a]  BY <1>4
    <2>2. /\ pte[a][b].frame \in Frames
          /\ \A s \in Tasks :
               /\ call[s].frame # pte[a][b].frame
               /\ \A w \in Pages : pte[s][w].frame = pte[a][b].frame
                                     => s = a /\ w = b
      BY <1>1, <2>1 DEF EntriesOwn
    <2>3. ASSUME NEW s \in Tasks, NEW w \in Pages,
                 pte'[s][w].frame = pte'[a][b].frame
          PROVE  s = a /\ w = b
      <3>1. CASE s = u  BY <1>4, <2>1, <2>2, <2>3, <3>1
      <3>2. CASE s # u  BY <1>5, <2>1, <2>2, <2>3, <3>2
      <3> QED  BY <3>1, <3>2
    <2> QED  BY <2>1, <2>2, <2>3
  <1>14. CallsOwn'
    <2> SUFFICES ASSUME NEW a \in Tasks, call[a].frame # NoFrame
                 PROVE  \A s \in Tasks :
                          /\ call[s].frame = call[a].frame => s = a
                          /\ \A w \in Pages : pte'[s][w].frame # call[a].frame
      BY <1>0 DEF CallsOwn
    <2>1. \A s \in Tasks : /\ call[s].frame = call[a].frame => s = a
                           /\ \A w \in Pages : pte[s][w].frame # call[a].frame
      BY <1>1 DEF CallsOwn
    <2>2. ASSUME NEW s \in Tasks, NEW w \in Pages
          PROVE  pte'[s][w].frame # call[a].frame
      <3>1. CASE s = u  BY <1>4, <2>1, <3>1
      <3>2. CASE s # u  BY <1>5, <2>1, <3>2
      <3> QED  BY <3>1, <3>2
    <2> QED  BY <2>1, <2>2
  <1>15. Blank' /\ CallsBlank'  BY <1>0, <1>1, <1>9 DEF Blank, CallsBlank
  <1>16. ASSUME NEW a \in Tasks PROVE Held(a)'
    <2>1. CASE a = u
      <3>1. \A w \in Pages : Present(u, w)' => Table[w] \in dir'[u]
        BY <1>1, <1>3, <1>4, SMTT(30) DEF Held, Present
      <3> QED  BY <1>0, <1>2, <1>3, <2>1, <3>1, UserType DEF Held, InWrite
    <2>2. CASE a # u
      <3>1. call[a].page \in Pages  BY <1>1 DEF TypeOK, CallType
      <3>2. pte'[a] = pte[a] \/ life[a] = "alive"  BY <1>0, <1>4, <2>2
      <3> QED  BY <1>0, <1>1, <1>3, <1>5, <2>2, <3>1, <3>2, OtherHeld
    <2> QED  BY <2>1, <2>2
  <1> QED  BY <1>11, <1>12, <1>13, <1>14, <1>15, <1>16, Assembled

(* do_execve frees the old image; the arguments' page is the first of the  *)
(* new one.                                                                *)
LEMMA ExecEndStep ==
    ASSUME IInv, NEW t \in Tasks, ExecEnd(t)
    PROVE  IInv'
  <1>0. /\ call[t].op = "exec"
        /\ dir' = [dir EXCEPT ![t] = {Table[Stack]}]
        /\ taken' = taken - Cardinality(dir[t]) + 1
        /\ call' = [call EXCEPT ![t] = User]
        /\ life' = life /\ executable' = executable
        /\ \A f \in Frames : memory_map'[f] =
              memory_map[f] - Uses(t, f) - (IF f = NoFrame THEN 1 ELSE 0)
        /\ DOMAIN memory_map' = Frames
        /\ page' = Cleared(memory_map')
    BY DEF ExecEnd, free_pages
  <1>1. /\ TypeOK /\ Accounted /\ EntriesOwn /\ CallsOwn /\ Blank /\ CallsBlank
        /\ \A u \in Tasks : Held(u)
    BY Parts
  <1>2. PICK new \in Frames : new = call[t].frame
    BY <1>0, <1>1 DEF Held, TypeOK, CallType
  <1>3. life[t] = "alive" /\ dir[t] # {} /\ memory_map[new] = 1
    <2>1. new # NoFrame  BY MemoryAssumption
    <2>2. memory_map[new] = 1  BY <1>2, <2>1 DEF IInv, Reserved
    <2>3. life[t] = "alive"  BY <1>0, <1>1, UserType DEF Held
    <2> QED  BY <1>1, <2>2, <2>3 DEF Held
  <1>4. \A u \in Tasks : /\ call[u].frame = new => u = t
                         /\ \A w \in Pages : pte[u][w].frame # new
    BY <1>1, <1>2, <1>3, OneCall
  <1>5. /\ pte' \in [Tasks -> [Pages -> EntryType]]
        /\ \A u \in Tasks \ {t} : pte'[u] = pte[u]
        /\ \A w \in Pages \ {Stack} : /\ pte'[t][w].frame = NoFrame
                                      /\ pte'[t][w].rw = FALSE
        /\ pte'[t][Stack].frame = new
    <2> DEFINE row == change_ldt(new)
    <2>1. pte \in [Tasks -> [Pages -> EntryType]]  BY <1>1 DEF TypeOK
    <2>2. PICK y \in EntryType : y = Entry(new, TRUE)  BY DEF Entry, EntryType
    <2>3. y.frame = new  BY <2>2 DEF Entry
    <2>4. row = [NoPages EXCEPT ![Stack] = y]  BY <2>2 DEF change_ldt
    <2>5. /\ row \in [Pages -> EntryType] /\ row[Stack] = y
          /\ \A w \in Pages \ {Stack} : row[w] = NoPages[w]
      BY <2>4, UserType, MemoryAssumption
    <2>6. pte' = [pte EXCEPT ![t] = row]  BY <1>2 DEF ExecEnd
    <2> HIDE DEF row
    <2>7. /\ pte' \in [Tasks -> [Pages -> EntryType]]
          /\ \A u \in Tasks \ {t} : pte'[u] = pte[u]
          /\ pte'[t] = row
      BY <2>1, <2>5, <2>6
    <2> QED  BY <2>3, <2>5, <2>7, UserType
  <1>6. /\ dir \in [Tasks -> SUBSET Tables] /\ dir' \in [Tasks -> SUBSET Tables]
        /\ dir'[t] = {Table[Stack]}
        /\ \A u \in Tasks \ {t} : dir'[u] = dir[u]
        /\ call' \in [Tasks -> CallType] /\ call'[t] = User
        /\ \A u \in Tasks \ {t} : call'[u] = call[u]
    BY <1>0, <1>1, UserType, MemoryAssumption DEF TypeOK
  <1>7. /\ \A f \in Frames : Uses(t, f) \in Nat /\ memory_map[f] \in Nat
        /\ Cardinality(dir[t]) \in Nat /\ taken \in Nat
        /\ IsFiniteSet(dir[t])
    BY <1>1, CountsFinite DEF Finite, TypeOK
  <1>8. \A f \in Frames : Uses(t, f)' = IF f = new THEN 1 ELSE 0
    <2> TAKE f \in Frames
    <2>1. f # NoFrame /\ Stack \in Pages  BY MemoryAssumption
    <2>2. CASE f = new
      <3>1. {v \in Pages : pte'[t][v].frame = f} = {Stack}
        BY <1>5, <2>1, <2>2
      <3>2. Cardinality({Stack}) = 1  BY FS_Singleton
      <3> QED  BY <2>2, <3>1, <3>2 DEF Uses
    <2>3. CASE f # new
      <3>1. {v \in Pages : pte'[t][v].frame = f} = {}
        BY <1>5, <2>1, <2>3
      <3> QED  BY <2>3, <3>1, FS_EmptySet DEF Uses
    <2> QED  BY <2>2, <2>3
  <1>9. Cardinality(dir'[t]) = 1  BY <1>6, FS_Singleton
  <1>10. /\ \A f \in Frames : memory_map'[f] =
                 Cardinality(Refs(f)') + Cardinality(Callers(f)')
         /\ \A f \in Frames : memory_map'[f] \in Nat
         /\ taken' = Cardinality({u \in Tasks : life'[u] # "none"})
                         + Cardinality(AllTables')
         /\ taken' \in Nat
    <2>1. \A f \in Frames : memory_map'[f] = memory_map[f]
              - Uses(t, f) + Uses(t, f)'
              - (IF call[t].frame = f THEN 1 ELSE 0)
              + (IF call'[t].frame = f THEN 1 ELSE 0)
      <3> TAKE f \in Frames
      <3>1. f # NoFrame /\ call'[t].frame # f
        BY <1>6, UserType, MemoryAssumption
      <3>2. memory_map'[f] = memory_map[f] - Uses(t, f)  BY <1>0, <1>7, <3>1
      <3>3. Uses(t, f)' = IF call[t].frame = f THEN 1 ELSE 0  BY <1>2, <1>8
      <3> QED  BY <1>7, <3>1, <3>2, <3>3
    <2>2. taken' = taken - Cardinality(dir[t]) + Cardinality(dir'[t])
              - (IF life[t] # "none" THEN 1 ELSE 0)
              + (IF life'[t] # "none" THEN 1 ELSE 0)
      BY <1>0, <1>7, <1>9
    <2>3. \A u \in Tasks \ {t} :
              /\ \A v \in Pages : pte'[u][v].frame = pte[u][v].frame
              /\ call'[u].frame = call[u].frame /\ dir'[u] = dir[u]
              /\ life'[u] = life[u]
      BY <1>0, <1>5, <1>6
    <2> QED  BY <1>1, <1>6, <2>1, <2>2, <2>3, BooksKept
  <1>11. \A f \in Frames : memory_map[f] = 0 => memory_map'[f] = 0
    <2> SUFFICES ASSUME NEW f \in Frames, memory_map[f] = 0
                 PROVE  memory_map'[f] = 0
      OBVIOUS
    <2>1. f # NoFrame  BY MemoryAssumption
    <2> QED  BY <1>0, <1>7, <1>10, <2>1
  <1>12. InUse' <= NR_FRAMES
    <2>1. InUse <= NR_FRAMES /\ NR_FRAMES \in Nat
      BY <1>1, MemoryAssumption DEF Accounted
    <2>2. /\ Cardinality((Frames \ Unused)') <= Cardinality(Frames \ Unused)
          /\ Cardinality((Frames \ Unused)') \in Nat
      BY <1>11, UsedLess
    <2>3. Cardinality(Frames \ Unused) \in Nat  BY CountsFinite DEF Finite
    <2>4. Cardinality(dir[t]) # 0  BY <1>3, <1>7, FS_EmptySet
    <2>5. taken' <= taken /\ taken' \in Nat  BY <1>0, <1>7, <1>10, <2>4
    <2> QED  BY <1>7, <2>1, <2>2, <2>3, <2>5 DEF InUse
  <1>13. Accounted'  BY <1>10, <1>12 DEF Accounted
  <1>14. /\ page' \in [Frames \cup {Low} -> Contents] /\ Blank'
         /\ \A f \in Frames \cup {Low} : page[f] = 0 => page'[f] = 0
    <2>1. page \in [Frames \cup {Low} -> Contents] /\ 0 \in Contents
      BY <1>1 DEF TypeOK, Contents
    <2> QED  BY <1>0, <2>1, MemoryAssumption DEF Cleared, Blank
  <1>15. TypeOK'
    <2>1. memory_map' \in [Frames -> Nat]
      <3>1. memory_map' = [f \in Frames |-> memory_map'[f]]
        BY DEF ExecEnd, free_pages
      <3> QED  BY <1>10, <3>1
    <2> QED  BY <1>0, <1>1, <1>5, <1>6, <1>10, <1>14, <2>1 DEF TypeOK
  <1>16. EntriesOwn'
    <2> SUFFICES ASSUME NEW a \in Tasks, NEW b \in Pages, pte'[a][b].rw
                 PROVE  /\ pte'[a][b].frame \in Frames
                        /\ \A u \in Tasks :
                             /\ call'[u].frame # pte'[a][b].frame
                             /\ \A w \in Pages : pte'[u][w].frame = pte'[a][b].frame
                                                   => u = a /\ w = b
      BY DEF EntriesOwn
    <2>0. new # NoFrame  BY MemoryAssumption
    <2>1. CASE a = t
      <3>1. b = Stack  BY <1>5, <2>1
      <3>2. pte'[a][b].frame = new  BY <1>5, <2>1, <3>1
      <3>3. ASSUME NEW u \in Tasks
            PROVE  /\ call'[u].frame # new
                   /\ \A w \in Pages : pte'[u][w].frame = new => u = a /\ w = b
        <4>1. CASE u = t  BY <1>5, <1>6, <2>0, <2>1, <3>1, <4>1, UserType
        <4>2. CASE u # t  BY <1>4, <1>5, <1>6, <4>2
        <4> QED  BY <4>1, <4>2
      <3> QED  BY <3>2, <3>3
    <2>2. CASE a # t
      <3>1. pte'[a][b] = pte[a][b]  BY <1>5, <2>2
      <3>2. /\ pte[a][b].frame # new /\ pte[a][b].frame # NoFrame
            /\ pte[a][b].frame \in Frames
        BY <1>1, <1>4, <3>1, MemoryAssumption DEF EntriesOwn
      <3>3. ASSUME NEW u \in Tasks
            PROVE  /\ call'[u].frame # pte[a][b].frame
                   /\ \A w \in Pages : pte'[u][w].frame = pte[a][b].frame
                                         => u = a /\ w = b
        <4>1. CASE u = t  BY <1>5, <1>6, <3>2, <4>1, UserType
        <4>2. CASE u # t  BY <1>1, <1>5, <1>6, <3>1, <4>2 DEF EntriesOwn
        <4> QED  BY <4>1, <4>2
      <3> QED  BY <3>1, <3>2, <3>3
    <2> QED  BY <2>1, <2>2
  <1>17. CallsOwn'
    <2> SUFFICES ASSUME NEW a \in Tasks, call'[a].frame # NoFrame
                 PROVE  \A u \in Tasks :
                          /\ call'[u].frame = call'[a].frame => u = a
                          /\ \A w \in Pages : pte'[u][w].frame # call'[a].frame
      BY DEF CallsOwn
    <2>1. a # t /\ call'[a] = call[a] /\ call[a].frame # new
      BY <1>4, <1>6, UserType
    <2>2. \A u \in Tasks : /\ call[u].frame = call[a].frame => u = a
                          /\ \A w \in Pages : pte[u][w].frame # call[a].frame
      BY <1>1, <2>1 DEF CallsOwn
    <2>3. ASSUME NEW u \in Tasks
          PROVE  /\ call'[u].frame = call'[a].frame => u = a
                 /\ \A w \in Pages : pte'[u][w].frame # call'[a].frame
      <3>1. CASE u = t  BY <1>5, <1>6, <2>1, <2>2, <3>1, UserType
      <3>2. CASE u # t  BY <1>5, <1>6, <2>1, <2>2, <3>2
      <3> QED  BY <3>1, <3>2
    <2> QED  BY <2>3
  <1>18. CallsBlank'
    <2> SUFFICES ASSUME NEW u \in Tasks, call'[u].frame # NoFrame
                 PROVE  page'[call'[u].frame] = 0
      BY DEF CallsBlank
    <2>1. call'[u] = call[u]  BY <1>6, UserType
    <2>2. page[call[u].frame] = 0 /\ call[u].frame \in Frames
      BY <1>1, <2>1 DEF CallsBlank, TypeOK, CallType
    <2> QED  BY <1>14, <2>1, <2>2
  <1>19. ASSUME NEW u \in Tasks PROVE Held(u)'
    <2>1. CASE u = t
      <3>1. \A w \in Pages : Present(t, w)' => Table[w] \in dir'[t]
        BY <1>5, <1>6 DEF Present
      <3>2. dir'[t] # {}  BY <1>6
      <3> QED  BY <1>0, <1>3, <1>6, <2>1, <3>1, <3>2, UserType DEF Held, InWrite
    <2>2. CASE u # t
      <3>1. call[u].page \in Pages  BY <1>1 DEF TypeOK, CallType
      <3> QED  BY <1>0, <1>1, <1>5, <1>6, <2>2, <3>1, OtherHeld
    <2> QED  BY <2>1, <2>2
  <1> QED
    BY <1>13, <1>14, <1>15, <1>16, <1>17, <1>18, <1>19, Assembled

-----------------------------------------------------------------------------
(* un_wp_page, called by do_wp_page or by verify_area *)
LEMMA UnWpStep ==
    ASSUME IInv, NEW t \in Tasks, NEW v \in Pages, Running(t),
           ReadOnlyPage(t, v), un_wp_page(t, v), Enters(t, v),
           UNCHANGED <<life, executable, dir, taken>>
    PROVE  IInv'
  <1>1. CASE ShouldCopy(pte[t][v].frame)  BY <1>1, CopyPageStep
  <1>2. CASE ~ShouldCopy(pte[t][v].frame)
    <2>1. /\ pte' = [pte EXCEPT ![t][v].rw = TRUE]
          /\ memory_map' = memory_map /\ page' = page
      BY <1>2, Zenon DEF un_wp_page
    <2> QED  BY <1>2, <2>1, UnprotectStep
  <1> QED  BY <1>1, <1>2

(* do_wp_page *)
LEMMA WpStep ==
    ASSUME IInv, NEW t \in Tasks, NEW v \in Pages, do_wp_page(t, v)
    PROVE  IInv'
  <1>1. Running(t) /\ ReadOnlyPage(t, v) /\ life[t] = "alive"
    BY DEF do_wp_page, Running
  <1>2. CASE do_exit(t)  BY <1>1, <1>2, ExitStep
  <1>3. CASE un_wp_page(t, v) /\ UNCHANGED <<life, executable, dir, taken, call>>
    <2>1. Enters(t, v)  BY <1>3 DEF Enters
    <2> QED  BY <1>1, <1>3, <2>1, UnWpStep
  <1> QED  BY <1>2, <1>3 DEF do_wp_page

(* verify_area *)
LEMMA VerifyStep ==
    ASSUME IInv, NEW t \in Tasks, NEW v \in Pages, verify_area(t, v)
    PROVE  IInv'
  <1>1. Running(t) /\ life[t] = "alive" /\ call[t] = User
    BY DEF verify_area, Running
  <1>2. CASE do_exit(t)  BY <1>1, <1>2, ExitStep
  <1>3. CASE ~do_exit(t)
    <2>1. /\ IF ReadOnlyPage(t, v) THEN un_wp_page(t, v)
             ELSE UNCHANGED <<pte, memory_map, page>>
          /\ call' = [call EXCEPT ![t] = Call("write", v, NoFrame, "user")]
          /\ UNCHANGED <<life, executable, dir, taken>>
      BY <1>3 DEF verify_area
    <2>2. Enters(t, v)  BY <2>1 DEF Enters
    <2>3. CASE ReadOnlyPage(t, v)  BY <1>1, <2>1, <2>2, <2>3, UnWpStep
    <2>4. CASE ~ReadOnlyPage(t, v)
      <3>1. /\ pte' = pte /\ memory_map' = memory_map /\ page' = page
            /\ life' = life /\ executable' = executable /\ dir' = dir
            /\ taken' = taken
        BY <2>1, <2>4
      <3>2. /\ TypeOK /\ Accounted /\ EntriesOwn /\ CallsOwn /\ Blank
            /\ CallsBlank /\ \A u \in Tasks : Held(u)
        BY Parts
      <3>3. /\ call' \in [Tasks -> CallType]
            /\ \A u \in Tasks \ {t} : call'[u] = call[u]
            /\ \A u \in Tasks : call'[u].frame = call[u].frame
            /\ call[t].frame = NoFrame
            /\ \/ call'[t] = User
               \/ call'[t].op = "write" /\ call'[t].page = v
        BY <1>1, <2>2, <3>2, EntersFacts
      <3>4. TypeOK'  BY <3>1, <3>2, <3>3 DEF TypeOK
      <3>5. Accounted'  BY <3>1, <3>2, <3>3, SameBooks
      <3>6. EntriesOwn' /\ CallsOwn' /\ Blank' /\ CallsBlank'
        BY <3>1, <3>2, <3>3 DEF EntriesOwn, CallsOwn, Blank, CallsBlank
      <3>7. ASSUME NEW u \in Tasks PROVE Held(u)'
        <4>1. CASE u = t
          <5>1. \A w \in Pages : Present(t, w)' => Table[w] \in dir'[t]
            BY <3>1, <3>2 DEF Held, Present
          <5>2. pte'[t][v].frame # Low
            <6>1. pte[t][v].frame = Low => pte[t][v].rw
              BY <2>4, MemoryAssumption DEF ReadOnlyPage, Present
            <6> QED  BY <3>1, <3>2, <6>1, MemoryAssumption DEF EntriesOwn
          <5>3. dir'[t] # {} /\ life'[t] = "alive" /\ call'[t].frame = NoFrame
            BY <1>1, <3>1, <3>2, <3>3 DEF Held
          <5> QED  BY <3>3, <4>1, <5>1, <5>2, <5>3, EntersHeld
        <4>2. CASE u # t
          <5>1. call[u].page \in Pages  BY <3>2 DEF TypeOK, CallType
          <5> QED  BY <3>1, <3>2, <3>3, <4>2, <5>1, OtherHeld
        <4> QED  BY <4>1, <4>2
      <3> QED  BY <3>4, <3>5, <3>6, <3>7, Assembled
    <2> QED  BY <2>3, <2>4
  <1> QED  BY <1>2, <1>3

(* do_no_page *)
LEMMA NoPageStep ==
    ASSUME IInv, NEW t \in Tasks, NEW v \in Pages, do_no_page(t, v)
    PROVE  IInv'
  <1>1. Faults(t, v) /\ life[t] = "alive"  BY DEF do_no_page, Faults
  <1>2. TypeOK /\ Held(t)  BY Parts
  <1>3. /\ call[t].op \in {"user", "write"} /\ call[t].frame = NoFrame
        /\ pte[t][v].frame = NoFrame /\ dir[t] # {}
    BY <1>1, <1>2, FaultsFacts
  <1>4. CASE do_exit(t)  BY <1>1, <1>4, ExitStep
  <1>5. ASSUME ~do_exit(t), Image(executable[t], v) = 0
        PROVE  IInv'
    <2>1. get_empty_page(t, v)  BY <1>5 DEF do_no_page
    <2>2. \E new \in Frames : EmptyPage(t, v, new)
      BY <1>5, <2>1 DEF get_empty_page, EmptyPage
    <2> QED  BY <1>1, <2>2, EmptyPageStep
  <1>6. ASSUME ~do_exit(t), Image(executable[t], v) # 0
        PROVE  IInv'
    <2>1. \/ \E u \in Tasks : Sharable(t, u, v) /\ try_to_share(t, u, v)
          \/ LoadStart(t, v)
      BY <1>6 DEF do_no_page
    <2>2. ASSUME NEW u \in Tasks, Sharable(t, u, v), try_to_share(t, u, v)
          PROVE  IInv'
      <3>1. Share(t, u, v)  BY <1>6, <2>2, Zenon DEF try_to_share, Share
      <3>2. u # t /\ pte[u][v].frame \notin {NoFrame, Low}
        BY <2>2 DEF Sharable
      <3> QED  BY <1>1, <3>1, <3>2, ShareStep
    <2>3. CASE LoadStart(t, v)
      <3>1. PICK new \in Frames :
              /\ get_free_page(new)
              /\ memory_map' = [memory_map EXCEPT ![new] = 1]
              /\ call' = [call EXCEPT ![t] = Call("load", v, new, call[t].op)]
              /\ UNCHANGED <<life, executable, dir, pte, taken, page>>
        BY <1>6, <2>3, Zenon DEF LoadStart
      <3>2. PICK c \in CallType : c = Call("load", v, new, call[t].op)
        BY <1>3 DEF Call, CallType
      <3>3. c.frame = new /\ c.op = "load" /\ c.page = v  BY <3>2 DEF Call
      <3>4. PICK e \in Programs \cup {NoProgram} : e = executable[t]
        BY <1>2 DEF TypeOK
      <3>5. executable' = [executable EXCEPT ![t] = e]
        BY <1>2, <3>1, <3>4 DEF TypeOK
      <3>6. Reserve(t, c, new, e)  BY <3>1, <3>2, <3>5 DEF Reserve
      <3>7. ~Present(t, c.page) /\ Image(e, c.page) # 0
        BY <1>3, <1>6, <3>3, <3>4 DEF Present
      <3> QED  BY <1>1, <1>3, <3>3, <3>6, <3>7, ReserveStep
    <2> QED  BY <2>1, <2>2, <2>3
  <1> QED  BY <1>4, <1>5, <1>6

(* put_page, after do_no_page has slept *)
LEMMA LoadEndStep ==
    ASSUME IInv, NEW t \in Tasks, LoadEnd(t)
    PROVE  IInv'
  <1>1. TypeOK /\ Held(t)  BY Parts
  <1>2. call[t].op = "load"  BY DEF LoadEnd
  <1>3. life[t] = "alive"  BY <1>1, <1>2, UserType DEF Held
  <1>4. CASE do_exit(t)  BY <1>3, <1>4, ExitStep
  <1>5. CASE ~do_exit(t)
    <2> DEFINE back == IF call[t].then = "user" THEN User
                       ELSE Call("write", call[t].page, NoFrame, "user")
    <2>1. PICK v \in Pages : v = call[t].page  BY <1>1 DEF TypeOK, CallType
    <2>2. PICK new \in Frames : new = call[t].frame
      BY <1>1, <1>2 DEF Held, TypeOK, CallType
    <2>3. PICK c \in CallType : c = back
      BY <2>1, UserType DEF Call, CallType
    <2>4. c.frame = NoFrame /\ (c.op = "user" \/ (c.op = "write" /\ c.page = v))
      BY <2>1, <2>3, UserType DEF Call
    <2>5. /\ Left >= Cardinality(NewTables(t, call[t].page))
          /\ pte' = [pte EXCEPT ![t][call[t].page] = Entry(call[t].frame, TRUE)]
          /\ AddTable(t, call[t].page)
          /\ page' = [page EXCEPT ![call[t].frame] = executable[t]]
          /\ call' = [call EXCEPT ![t] = back]
          /\ UNCHANGED <<life, executable, memory_map>>
      BY <1>5 DEF LoadEnd
    <2> HIDE DEF back
    <2>6. Load(t, v, new, c)  BY <2>1, <2>2, <2>3, <2>5 DEF Load
    <2> QED  BY <1>2, <2>1, <2>2, <2>4, <2>6, LoadStep
  <1> QED  BY <1>4, <1>5

(* A process or a system call writes. *)
LEMMA WritesStep ==
    ASSUME IInv, NEW t \in Tasks,
           KernelWrite(t) \/ \E v \in Pages : UserWrite(t, v)
    PROVE  IInv'
  <1>1. TypeOK /\ EntriesOwn /\ Held(t)  BY Parts
  <1>2. ASSUME NEW v \in Pages, UserWrite(t, v) PROVE IInv'
    <2>1. pte[t][v].frame \in Frames  BY <1>1, <1>2 DEF UserWrite, EntriesOwn
    <2> QED  BY <1>2, <2>1, WriteStep DEF UserWrite, Running
  <1>3. ASSUME KernelWrite(t) PROVE IInv'
    <2>1. InWrite(t) /\ Present(t, call[t].page)  BY <1>3 DEF KernelWrite
    <2>2. PICK v \in Pages : v = call[t].page  BY <1>1 DEF TypeOK, CallType
    <2>3. life[t] = "alive"  BY <1>1, <2>1, UserType DEF Held, InWrite
    <2>4. pte[t][v].frame \in Frames
      BY <1>1, <2>1, <2>2 DEF Held, Present, TypeOK, EntryType
    <2>5. /\ page' = [page EXCEPT ![pte[t][v].frame] = t]
          /\ pte' = [pte EXCEPT ![t][v].dirty = TRUE]
          /\ call' = [call EXCEPT ![t] = User]
          /\ UNCHANGED <<life, executable, dir, memory_map, taken>>
      BY <1>3, <2>2 DEF KernelWrite
    <2> QED  BY <2>1, <2>3, <2>4, <2>5, WriteStep
  <1> QED  BY <1>2, <1>3

(* do_execve takes a frame for the arguments. *)
LEMMA ExecCommitStep ==
    ASSUME IInv, NEW t \in Tasks, NEW e \in Programs, ExecCommit(t, e)
    PROVE  IInv'
  <1>1. life[t] = "alive" /\ call[t].frame = NoFrame
    BY UserType DEF ExecCommit, Running
  <1>2. PICK new \in Frames :
          /\ copy_strings(new)
          /\ call' = [call EXCEPT ![t] = Call("exec", Stack, new, "user")]
    BY DEF ExecCommit
  <1>3. PICK c \in CallType : c = Call("exec", Stack, new, "user")
    BY MemoryAssumption DEF Call, CallType
  <1>4. c.frame = new /\ c.op = "exec"  BY <1>3 DEF Call
  <1>5. Reserve(t, c, new, e)
    BY <1>2, <1>3 DEF Reserve, ExecCommit, copy_strings
  <1>6. e \in Programs \cup {NoProgram} /\ e # NoProgram
    BY MemoryAssumption DEF NoProgram
  <1> QED  BY <1>1, <1>4, <1>5, <1>6, ReserveStep

(* In the beginning one process uses the pages below LOW_MEM. *)
LEMMA InitIInv == Init => IInv
  <1> SUFFICES ASSUME Init PROVE IInv
    OBVIOUS
  <1>1. /\ life = [t \in Tasks |-> IF t = First THEN "alive" ELSE "none"]
        /\ executable = [t \in Tasks |-> NoProgram]
        /\ dir = [t \in Tasks |-> IF t = First THEN Tables ELSE {}]
        /\ pte = [t \in Tasks |-> [v \in Pages |->
                     IF t = First THEN Entry(Low, FALSE) ELSE Absent]]
        /\ memory_map = [f \in Frames |-> 0]
        /\ taken = 1 + Cardinality(Tables)
        /\ page = [f \in Frames \cup {Low} |-> 0]
        /\ call = [t \in Tasks |-> User]
    BY DEF Init
  <1>2. /\ Entry(Low, FALSE) \in EntryType /\ Absent \in EntryType
        /\ Entry(Low, FALSE).frame = Low /\ Entry(Low, FALSE).rw = FALSE
        /\ Absent.frame = NoFrame /\ Absent.rw = FALSE
    BY DEF Entry, Absent, EntryType
  <1>3. \A D \in SUBSET Tables : IsFiniteSet(D) /\ Cardinality(D) \in Nat
    BY CountsFinite DEF Finite
  <1>4. Cardinality(Tables) \in Nat  BY <1>3
  <1>5. TypeOK
    <2>1. /\ life \in [Tasks -> {"none", "alive", "zombie"}]
          /\ executable \in [Tasks -> Programs \cup {NoProgram}]
          /\ dir \in [Tasks -> SUBSET Tables]
      BY <1>1
    <2>2. pte \in [Tasks -> [Pages -> EntryType]]  BY <1>1, <1>2
    <2>3. memory_map \in [Frames -> Nat] /\ taken \in Nat  BY <1>1, <1>4
    <2>4. page \in [Frames \cup {Low} -> Contents]  BY <1>1 DEF Contents
    <2>5. call \in [Tasks -> CallType]  BY <1>1, UserType
    <2> QED  BY <2>1, <2>2, <2>3, <2>4, <2>5 DEF TypeOK
  <1>6. \A t \in Tasks : \A v \in Pages :
           /\ pte[t][v].rw = FALSE /\ pte[t][v].frame \in {Low, NoFrame}
           /\ t # First => pte[t][v].frame = NoFrame
    BY <1>1, <1>2
  <1>7. \A t \in Tasks : call[t].op = "user" /\ call[t].frame = NoFrame
    BY <1>1, UserType
  <1>8. Accounted
    <2>1. \A f \in Frames : Refs(f) = {} /\ Callers(f) = {}
      BY <1>6, <1>7, MemoryAssumption DEF Refs, Callers
    <2>2. \A f \in Frames : memory_map[f] = Cardinality(Refs(f)) + Cardinality(Callers(f))
      BY <1>1, <2>1, FS_EmptySet, SMTT(30)
    <2>3. {t \in Tasks : life[t] # "none"} = {First}  BY <1>1, MemoryAssumption
    <2>4. Cardinality({First}) = 1  BY FS_Singleton
    <2>5. AllTables = {First} \X Tables
      BY <1>1, MemoryAssumption DEF AllTables
    <2>6. Cardinality({First} \X Tables) = Cardinality(Tables)
      <3>1. IsFiniteSet({First}) /\ IsFiniteSet(Tables)
        BY FS_Singleton, MemoryAssumption
      <3>2. Cardinality({First} \X Tables) = Cardinality({First}) * Cardinality(Tables)
        BY <3>1, FS_Product
      <3> QED  BY <1>4, <2>4, <3>2
    <2>7. taken = Cardinality({t \in Tasks : life[t] # "none"})
                    + Cardinality(AllTables)
      BY <1>1, <1>4, <2>3, <2>4, <2>5, <2>6
    <2>8. InUse <= NR_FRAMES
      <3>1. Frames \ Unused = {}  BY <1>1 DEF Unused
      <3>2. Cardinality(Frames \ Unused) = 0  BY <3>1, FS_EmptySet
      <3> QED  BY <1>1, <1>4, <3>2, MemoryAssumption DEF InUse
    <2> QED  BY <2>2, <2>7, <2>8 DEF Accounted
  <1>9. WritableIsOwn  BY <1>6 DEF WritableIsOwn
  <1>10. Owned
    <2> SUFFICES ASSUME NEW t \in Tasks
                 PROVE  /\ life[t] # "alive" =>
                             pte[t] = NoPages /\ dir[t] = {} /\ call[t] = User
                        /\ life[t] = "alive" => dir[t] # {}
                        /\ \A v \in Pages : Present(t, v) => Table[v] \in dir[t]
      BY DEF Owned
    <2>1. \A v \in Pages : Table[v] \in Tables  BY MemoryAssumption
    <2>2. CASE t = First  BY <1>1, <2>1, <2>2, MemoryAssumption
    <2>3. CASE t # First  BY <1>1, <1>6, <2>3 DEF NoPages, Present
    <2> QED  BY <2>2, <2>3
  <1>11. LowIsSafe  BY <1>6, <1>7 DEF LowIsSafe, InWrite
  <1>12. Reserved  BY <1>7 DEF Reserved
  <1>13. Blank  BY <1>1 DEF Blank
  <1> QED  BY <1>5, <1>8, <1>9, <1>10, <1>11, <1>12, <1>13 DEF IInv

(* Every step keeps it. *)
LEMMA StepIInv == IInv /\ [Next]_vars => IInv'
  <1> SUFFICES ASSUME IInv, [Next]_vars PROVE IInv'
    OBVIOUS
  <1>1. CASE UNCHANGED vars
    <2>1. /\ life' = life /\ executable' = executable /\ dir' = dir /\ pte' = pte
          /\ memory_map' = memory_map /\ taken' = taken /\ page' = page
          /\ call' = call
      BY <1>1 DEF vars
    <2>2. /\ TypeOK /\ Accounted /\ EntriesOwn /\ CallsOwn /\ Blank
          /\ CallsBlank /\ \A u \in Tasks : Held(u)
      BY Parts
    <2>3. Accounted'  BY <2>1, <2>2, SameBooks
    <2>4. \A u \in Tasks : Held(u)'
      BY <2>1, <2>2 DEF Held, Present, InWrite
    <2>5. TypeOK' /\ EntriesOwn' /\ CallsOwn' /\ Blank' /\ CallsBlank'
      BY <2>1, <2>2 DEF TypeOK, EntriesOwn, CallsOwn, Blank, CallsBlank
    <2> QED  BY <2>3, <2>4, <2>5, Assembled
  <1>2. CASE Next
    <2>1. PICK t \in Tasks :
            \/ sys_exit(t) \/ release(t) \/ ForkFails(t)
            \/ \E u \in Tasks : Fork(t, u)
            \/ \E v \in Pages : \/ do_wp_page(t, v) \/ do_no_page(t, v)
                                \/ verify_area(t, v) \/ UserWrite(t, v)
            \/ LoadEnd(t) \/ KernelWrite(t)
            \/ \E e \in Programs : ExecCommit(t, e)
            \/ ExecEnd(t)
      BY <1>2, Zenon DEF Next
    <2>2. CASE sys_exit(t)  BY <2>2, ExitStep DEF sys_exit, Running
    <2>3. CASE release(t)  BY <2>3, ReleaseStep
    <2>4. CASE ForkFails(t)  BY <2>4, ForkFailsStep
    <2>5. ASSUME NEW u \in Tasks, Fork(t, u) PROVE IInv'
      BY <2>5, ForkStep
    <2>6. ASSUME NEW v \in Pages, do_wp_page(t, v) PROVE IInv'
      BY <2>6, WpStep
    <2>7. ASSUME NEW v \in Pages, do_no_page(t, v) PROVE IInv'
      BY <2>7, NoPageStep
    <2>8. ASSUME NEW v \in Pages, verify_area(t, v) PROVE IInv'
      BY <2>8, VerifyStep
    <2>9. CASE KernelWrite(t) \/ \E v \in Pages : UserWrite(t, v)
      BY <2>9, WritesStep
    <2>10. CASE LoadEnd(t)  BY <2>10, LoadEndStep
    <2>11. ASSUME NEW e \in Programs, ExecCommit(t, e) PROVE IInv'
      BY <2>11, ExecCommitStep
    <2>12. CASE ExecEnd(t)  BY <2>12, ExecEndStep
    <2> QED
      BY <2>1, <2>2, <2>3, <2>4, <2>5, <2>6, <2>7, <2>8, <2>9, <2>10, <2>11,
         <2>12
  <1> QED  BY <1>1, <1>2

(* IInv is an invariant of the memory manager. *)
THEOREM Invariance == Spec => []IInv
  BY InitIInv, StepIInv, PTL DEF Spec

(* memory_map[] counts the users of every frame, and no more frames are    *)
(* used than there are, whatever ran out of memory before.                 *)
THEOREM NothingLeaks == Spec => []Accounted
  <1>1. IInv => Accounted  BY DEF IInv
  <1> QED  BY <1>1, Invariance, PTL

(* A page that a process may write to without a fault has no other user.   *)
THEOREM WritesAreOwn == Spec => []WritableIsOwn
  <1>1. IInv => WritableIsOwn  BY DEF IInv
  <1> QED  BY <1>1, Invariance, PTL

-----------------------------------------------------------------------------
(* The refinement of PrivateMemory.  What a process finds at page v, and   *)
(* the processes that have a memory at all:                                *)
At(t, v) == IF Present(t, v) THEN page[pte[t][v].frame]
            ELSE Image(executable[t], v)
Lives(t) == life[t] = "alive" /\ call[t].op # "exec"

(* The memory of a process, page by page, ... *)
LEMMA Sees ==
    \A t : /\ Lives(t) => Memory(t) = [v \in Pages |-> At(t, v)]
           /\ ~Lives(t) => Memory(t) = Private!Gone
  BY DEF Memory, Lives, At, Private!Gone

(* ... and after a step. *)
LEMMA SeesNext ==
    \A t : /\ Lives(t)' => Memory(t)' = [v \in Pages |-> At(t, v)']
           /\ ~Lives(t)' => Memory(t)' = Private!Gone
  BY DEF Memory, Lives, At, Private!Gone

(* A process whose frames and contents a step leaves alone *)
LEMMA SameMemory ==
    ASSUME NEW u \in Tasks, Lives(u)' <=> Lives(u),
           executable'[u] = executable[u],
           \A v \in Pages : /\ pte'[u][v].frame = pte[u][v].frame
                            /\ Present(u, v) => page'[pte[u][v].frame]
                                                  = page[pte[u][v].frame]
    PROVE  Memory(u)' = Memory(u)
  <1>1. \A v \in Pages : At(u, v)' = At(u, v)  BY DEF At, Present
  <1>2. CASE Lives(u)
    <2>1. Memory(u) = [v \in Pages |-> At(u, v)]  BY <1>2, Sees
    <2>2. Memory(u)' = [v \in Pages |-> At(u, v)']  BY <1>2, SeesNext
    <2> QED  BY <1>1, <2>1, <2>2
  <1>3. CASE ~Lives(u)  BY <1>3, Sees, SeesNext
  <1> QED  BY <1>2, <1>3

(* A step that no process sees, ... *)
LEMMA SameMem ==
    ASSUME \A u \in Tasks : Memory(u)' = Memory(u)
    PROVE  Mem' = Mem
  BY DEF Mem

(* ... and one that only t sees. *)
LEMMA OneMem ==
    ASSUME NEW t \in Tasks, NEW m, Memory(t)' = m,
           \A u \in Tasks \ {t} : Memory(u)' = Memory(u)
    PROVE  Mem' = [Mem EXCEPT ![t] = m]
  BY DEF Mem

(* Every frame in use has a count. *)
Counted == \A u \in Tasks : \A w \in Pages :
    pte[u][w].frame \in Frames => memory_map[pte[u][w].frame] # 0

(* It follows from the books. *)
LEMMA IsCounted == IInv => Counted
  BY UsedCounted DEF Counted

(* The same after a step. *)
LEMMA IsCountedNext == IInv' => Counted'
  BY IsCounted, PTL

(* free_page_tables clears no frame that somebody uses. *)
LEMMA KeepsUsed ==
    ASSUME TypeOK, Counted', page' = Cleared(memory_map'),
           NEW u \in Tasks, pte'[u] = pte[u]
    PROVE  \A v \in Pages : Present(u, v) => page'[pte[u][v].frame]
                                               = page[pte[u][v].frame]
  <1> SUFFICES ASSUME NEW v \in Pages, Present(u, v)
               PROVE  page'[pte[u][v].frame] = page[pte[u][v].frame]
    OBVIOUS
  <1>1. pte[u][v].frame \in Frames \cup {Low}
    BY DEF TypeOK, EntryType, Present
  <1>2. pte[u][v].frame \in Frames => memory_map'[pte[u][v].frame] # 0
    BY DEF Counted
  <1> QED  BY <1>1, <1>2 DEF Cleared

(* do_exit: the memory is gone. *)
LEMMA ExitMem ==
    ASSUME IInv, IInv', NEW t \in Tasks, do_exit(t)
    PROVE  Private!Next
  <1>1. TypeOK /\ Counted'  BY IsCountedNext DEF IInv
  <1>2. /\ life'[t] = "zombie" /\ page' = Cleared(memory_map')
        /\ \A u \in Tasks \ {t} :
              /\ life'[u] = life[u] /\ pte'[u] = pte[u]
              /\ call'[u] = call[u] /\ executable'[u] = executable[u]
    BY <1>1 DEF TypeOK, do_exit, free_pages
  <1>3. Memory(t)' = Private!Gone  BY <1>2, SeesNext DEF Lives
  <1>4. ASSUME NEW u \in Tasks \ {t} PROVE Memory(u)' = Memory(u)
    <2>1. Lives(u)' <=> Lives(u)  BY <1>2 DEF Lives
    <2>2. \A v \in Pages : Present(u, v) => page'[pte[u][v].frame]
                                              = page[pte[u][v].frame]
      BY <1>1, <1>2, KeepsUsed
    <2> QED  BY <1>2, <2>1, <2>2, SameMemory
  <1>5. Mem' = [Mem EXCEPT ![t] = Private!Gone]  BY <1>3, <1>4, OneMem
  <1> QED  BY <1>5 DEF Private!Next, Private!Leave

(* A process writes to a page that is its own. *)
LEMMA WriteMem ==
    ASSUME TypeOK, NEW t \in Tasks, NEW v \in Pages, NEW f \in Frames,
           pte[t][v].frame = f,
           \A u \in Tasks : \A w \in Pages : pte[u][w].frame = f => u = t /\ w = v,
           page' = [page EXCEPT ![f] = t], executable' = executable,
           \A u \in Tasks : \A w \in Pages : pte'[u][w].frame = pte[u][w].frame,
           Lives(t), \A u \in Tasks : Lives(u)' <=> Lives(u)
    PROVE  Private!Next
  <1>1. f # NoFrame  BY MemoryAssumption
  <1>2. page'[f] = t /\ \A g \in (Frames \cup {Low}) \ {f} : page'[g] = page[g]
    BY DEF TypeOK
  <1>3. \A u \in Tasks : \A w \in Pages :
           Present(u, w) => pte[u][w].frame \in Frames \cup {Low}
    BY DEF TypeOK, EntryType, Present
  <1>4. At(t, v)' = t /\ \A w \in Pages \ {v} : At(t, w)' = At(t, w)
    BY <1>1, <1>2, <1>3 DEF At, Present
  <1>5. ASSUME NEW u \in Tasks \ {t} PROVE Memory(u)' = Memory(u)
    <2>1. \A w \in Pages : /\ pte'[u][w].frame = pte[u][w].frame
                           /\ Present(u, w) => page'[pte[u][w].frame]
                                                 = page[pte[u][w].frame]
      BY <1>2, <1>3
    <2> QED  BY <2>1, SameMemory
  <1>6. Memory(t) = [w \in Pages |-> At(t, w)]  BY Sees
  <1>7. Memory(t)' = [w \in Pages |-> At(t, w)']  BY SeesNext
  <1>8. Memory(t)' = [Memory(t) EXCEPT ![v] = t]  BY <1>4, <1>6, <1>7
  <1>9. Mem' = [Mem EXCEPT ![t] = [Memory(t) EXCEPT ![v] = t]]
    BY <1>5, <1>8 DEF Mem
  <1>10. Mem[t] = Memory(t)  BY DEF Mem
  <1>11. Mem[t] # Private!Gone
    <2>1. DOMAIN Memory(t) = Pages /\ DOMAIN Private!Gone = {} /\ Pages # {}
      BY <1>6 DEF Private!Gone
    <2> QED  BY <1>10, <2>1
  <1>12. Mem' = [Mem EXCEPT ![t][v] = t]  BY <1>9, <1>10
  <1>13. Private!Write(t, v)  BY <1>11, <1>12 DEF Private!Write
  <1> QED  BY <1>13 DEF Private!Next

(* un_wp_page: the copy has the contents of the page. *)
LEMMA UnWpMem ==
    ASSUME IInv, NEW t \in Tasks, NEW v \in Pages, ReadOnlyPage(t, v),
           un_wp_page(t, v), executable' = executable,
           \A u \in Tasks : Lives(u)' <=> Lives(u)
    PROVE  Mem' = Mem
  <1>0. TypeOK /\ Accounted  BY DEF IInv
  <1>1. CASE ShouldCopy(pte[t][v].frame)
    <2>1. PICK new \in Frames :
            /\ get_free_page(new)
            /\ pte' = [pte EXCEPT ![t][v] = Entry(new, TRUE)]
            /\ page' = [page EXCEPT ![new] = page[pte[t][v].frame]]
      BY <1>1, Zenon DEF un_wp_page
    <2>2. memory_map[new] = 0  BY <2>1 DEF get_free_page, Unused
    <2>3. Nobodys(new) /\ new # NoFrame
      BY <1>0, <2>2, FreeFrame, MemoryAssumption
    <2>4. /\ \A u \in Tasks \ {t} : pte'[u] = pte[u]
          /\ \A w \in Pages \ {v} : pte'[t][w] = pte[t][w]
          /\ pte'[t][v].frame = new
      <3>1. PICK y \in EntryType : y = Entry(new, TRUE)  BY DEF Entry, EntryType
      <3>2. y.frame = new  BY <3>1 DEF Entry
      <3>3. Replace(t, v, y)  BY <1>0, <2>1, <3>1 DEF Replace, TypeOK
      <3> HIDE DEF un_wp_page
      <3> QED  BY <1>0, <3>2, <3>3, EntrySet
    <2>5. /\ page'[new] = page[pte[t][v].frame]
          /\ \A g \in (Frames \cup {Low}) \ {new} : page'[g] = page[g]
      BY <1>0, <2>1 DEF TypeOK
    <2>6. \A u \in Tasks : \A w \in Pages : Present(u, w) =>
             pte[u][w].frame \in (Frames \cup {Low}) \ {new}
      BY <1>0, <2>3 DEF TypeOK, EntryType, Present, Nobodys
    <2>7. ASSUME NEW u \in Tasks PROVE Memory(u)' = Memory(u)
      <3>1. \A w \in Pages : At(u, w)' = At(u, w)
        <4> TAKE w \in Pages
        <4>1. CASE u = t /\ w = v
          BY <2>3, <2>4, <2>5, <4>1 DEF At, Present, ReadOnlyPage
        <4>2. CASE ~(u = t /\ w = v)
          <5>1. pte'[u][w] = pte[u][w]  BY <2>4, <4>2
          <5> QED  BY <2>5, <2>6, <5>1 DEF At, Present
        <4> QED  BY <4>1, <4>2
      <3>2. CASE Lives(u)
        <4>1. Memory(u) = [w \in Pages |-> At(u, w)]  BY <3>2, Sees
        <4>2. Memory(u)' = [w \in Pages |-> At(u, w)']  BY <3>2, SeesNext
        <4> QED  BY <3>1, <4>1, <4>2
      <3>3. CASE ~Lives(u)  BY <3>3, Sees, SeesNext
      <3> QED  BY <3>2, <3>3
    <2> QED  BY <2>7, SameMem
  <1>2. CASE ~ShouldCopy(pte[t][v].frame)
    <2>1. pte' = [pte EXCEPT ![t][v].rw = TRUE] /\ page' = page
      BY <1>2, Zenon DEF un_wp_page
    <2>2. \A u \in Tasks : \A w \in Pages : pte'[u][w].frame = pte[u][w].frame
      BY <1>0, <2>1 DEF TypeOK, EntryType
    <2>3. \A u \in Tasks : Memory(u)' = Memory(u)  BY <2>1, <2>2, SameMemory
    <2> QED  BY <2>3, SameMem
  <1> QED  BY <1>1, <1>2

(* A page enters the address space of t with the contents that a fault     *)
(* would have found.                                                       *)
LEMMA EnterMem ==
    ASSUME TypeOK, NEW t \in Tasks, NEW v \in Pages, executable' = executable,
           \A u \in Tasks : Lives(u)' <=> Lives(u),
           \A u \in Tasks \ {t} : \A w \in Pages :
              pte'[u][w].frame = pte[u][w].frame,
           \A w \in Pages \ {v} : pte'[t][w].frame = pte[t][w].frame,
           \A u \in Tasks : \A w \in Pages : Present(u, w) =>
              page'[pte[u][w].frame] = page[pte[u][w].frame],
           ~Present(t, v), pte'[t][v].frame # NoFrame,
           page'[pte'[t][v].frame] = Image(executable[t], v)
    PROVE  Mem' = Mem
  <1>1. \A w \in Pages : At(t, w)' = At(t, w)
    <2> TAKE w \in Pages
    <2>1. CASE w = v  BY <2>1 DEF At, Present
    <2>2. CASE w # v  BY <2>2 DEF At, Present
    <2> QED  BY <2>1, <2>2
  <1>2. Memory(t)' = Memory(t)
    <2>1. CASE Lives(t)
      <3>1. Memory(t) = [w \in Pages |-> At(t, w)]  BY <2>1, Sees
      <3>2. Memory(t)' = [w \in Pages |-> At(t, w)']  BY <2>1, SeesNext
      <3> QED  BY <1>1, <3>1, <3>2
    <2>2. CASE ~Lives(t)  BY <2>2, Sees, SeesNext
    <2> QED  BY <2>1, <2>2
  <1>3. \A u \in Tasks \ {t} : Memory(u)' = Memory(u)  BY SameMemory
  <1> QED  BY <1>2, <1>3, SameMem

(* do_no_page: nothing is seen of it, unless the process is killed or the  *)
(* page that it shares is not what it looks like.                          *)
LEMMA NoPageMem ==
    ASSUME IInv, IInv', NEW t \in Tasks, NEW v \in Pages, do_no_page(t, v)
    PROVE  Private!Next \/ Leak \/ Mem' = Mem
  <1>1. Faults(t, v) /\ ~Present(t, v)  BY DEF do_no_page, Faults
  <1>2. TypeOK /\ Blank /\ Held(t)  BY Parts
  <1>3. /\ call[t].op \in {"user", "write"} /\ call[t].frame = NoFrame
        /\ pte[t][v].frame = NoFrame /\ dir[t] # {}
    BY <1>1, <1>2, FaultsFacts
  <1>4. CASE do_exit(t)  BY <1>4, ExitMem
  <1>5. ASSUME ~do_exit(t), Image(executable[t], v) = 0
        PROVE  Mem' = Mem
    <2>1. get_empty_page(t, v)  BY <1>5 DEF do_no_page
    <2>2. PICK new \in Frames :
             /\ get_free_page(new)
             /\ pte' = [pte EXCEPT ![t][v] = Entry(new, TRUE)]
             /\ UNCHANGED <<life, executable, page, call>>
      BY <1>5, <2>1 DEF get_empty_page
    <2>3. page[new] = 0 /\ new # NoFrame
      BY <1>2, <2>2, MemoryAssumption DEF Blank, get_free_page, Unused
    <2>4. /\ \A u \in Tasks \ {t} : pte'[u] = pte[u]
          /\ \A w \in Pages \ {v} : pte'[t][w] = pte[t][w]
          /\ pte'[t][v].frame = new
      <3>1. PICK y \in EntryType : y = Entry(new, TRUE)  BY DEF Entry, EntryType
      <3>2. y.frame = new  BY <3>1 DEF Entry
      <3>3. Replace(t, v, y)  BY <1>2, <2>2, <3>1 DEF Replace, TypeOK
      <3> QED  BY <1>2, <3>2, <3>3, EntrySet
    <2>5. executable' = executable /\ page' = page /\ life' = life /\ call' = call
      BY <2>2
    <2>6. \A u \in Tasks : Lives(u)' <=> Lives(u)  BY <2>5 DEF Lives
    <2> QED  BY <1>1, <1>2, <1>5, <2>3, <2>4, <2>5, <2>6, EnterMem
  <1>6. ASSUME ~do_exit(t), Image(executable[t], v) # 0
        PROVE  Leak \/ Mem' = Mem
    <2>1. \/ \E u \in Tasks : Sharable(t, u, v) /\ try_to_share(t, u, v)
          \/ LoadStart(t, v)
      BY <1>6 DEF do_no_page
    <2>2. ASSUME NEW u \in Tasks, Sharable(t, u, v), try_to_share(t, u, v)
          PROVE  Leak \/ Mem' = Mem
      <3>1. Share(t, u, v)  BY <1>6, <2>2, Zenon DEF try_to_share, Share
      <3>2. /\ u # t /\ pte[u][v].frame \notin {NoFrame, Low}
            /\ ~pte[u][v].dirty
        BY <2>2 DEF Sharable
      <3>3. CASE page[pte[u][v].frame] # Image(executable[t], v)
        <4>1. v \in FilePages  BY <1>6 DEF Image
        <4>2. Present(u, v)  BY <3>2 DEF Present
        <4>3. \E x \in Tasks, y \in FilePages :
                /\ x # t /\ Present(x, y) /\ ~pte[x][y].dirty
                /\ page[pte[x][y].frame] # Image(executable[t], y)
                /\ try_to_share(t, x, y)
          BY <2>2, <3>2, <3>3, <4>1, <4>2
        <4> QED  BY <4>3, Zenon DEF Leak
      <3>4. CASE page[pte[u][v].frame] = Image(executable[t], v)
        <4>0. executable' = executable /\ page' = page /\ life' = life /\ call' = call
          BY <3>1 DEF Share
        <4>1. /\ \A a \in Tasks \ {t} : \A w \in Pages :
                    pte'[a][w].frame = pte[a][w].frame
              /\ \A w \in Pages \ {v} : pte'[t][w].frame = pte[t][w].frame
              /\ pte'[t][v].frame = pte[u][v].frame
          <5>1. /\ pte \in [Tasks -> [Pages -> EntryType]]
                /\ pte[u][v] \in EntryType
                /\ pte[t] \in [Pages -> EntryType]
                /\ pte[u] \in [Pages -> EntryType]
            BY <1>2 DEF TypeOK
          <5>2. PICK y \in EntryType : y = ReadOnly(pte[u][v])
            BY <5>1 DEF EntryType, ReadOnly
          <5>3. y.frame = pte[u][v].frame  BY <5>1, <5>2 DEF EntryType, ReadOnly
          <5> DEFINE rowt == [pte[t] EXCEPT ![v] = y]
                     rowu == [pte[u] EXCEPT ![v] = y]
          <5>4. pte' = [pte EXCEPT ![u] = rowu, ![t] = rowt]
            BY <3>1, <3>2, <5>1, <5>2 DEF Share
          <5>5. /\ rowt[v] = y /\ rowu[v] = y
                /\ \A w \in Pages \ {v} : rowt[w] = pte[t][w] /\ rowu[w] = pte[u][w]
            BY <5>1
          <5> HIDE DEF rowt, rowu
          <5>6. /\ \A a \in Tasks \ {t, u} : pte'[a] = pte[a]
                /\ pte'[t] = rowt /\ pte'[u] = rowu
            BY <3>2, <5>1, <5>4
          <5> QED  BY <5>3, <5>5, <5>6
        <4>2. \A a \in Tasks : Lives(a)' <=> Lives(a)  BY <4>0 DEF Lives
        <4> QED  BY <1>1, <1>2, <3>2, <3>4, <4>0, <4>1, <4>2, EnterMem
      <3> QED  BY <3>3, <3>4
    <2>3. CASE LoadStart(t, v)
      <3>1. PICK new \in Frames :
              /\ call' = [call EXCEPT ![t] = Call("load", v, new, call[t].op)]
              /\ UNCHANGED <<life, executable, dir, pte, taken, page>>
        BY <1>6, <2>3, Zenon DEF LoadStart
      <3>2. /\ call'[t].op = "load"
            /\ \A u \in Tasks \ {t} : call'[u] = call[u]
        BY <1>2, <3>1 DEF TypeOK, Call
      <3>3. \A u \in Tasks : Lives(u)' <=> Lives(u)  BY <1>3, <3>1, <3>2 DEF Lives
      <3>4. \A u \in Tasks : Memory(u)' = Memory(u)  BY <3>1, <3>3, SameMemory
      <3> QED  BY <3>4, SameMem
    <2> QED  BY <2>1, <2>2, <2>3
  <1> QED  BY <1>4, <1>5, <1>6

(* The page that was read is what the program's file holds. *)
LEMMA LoadEndMem ==
    ASSUME IInv, IInv', NEW t \in Tasks, LoadEnd(t)
    PROVE  Private!Next \/ Mem' = Mem
  <1>1. TypeOK /\ Accounted /\ Held(t)  BY Parts
  <1>2. call[t].op = "load"  BY DEF LoadEnd
  <1>3. CASE do_exit(t)  BY <1>3, ExitMem
  <1>4. CASE ~do_exit(t)
    <2> DEFINE back == IF call[t].then = "user" THEN User
                       ELSE Call("write", call[t].page, NoFrame, "user")
    <2>1. PICK v \in Pages : v = call[t].page  BY <1>1 DEF TypeOK, CallType
    <2>2. PICK new \in Frames : new = call[t].frame
      BY <1>1, <1>2 DEF Held, TypeOK, CallType
    <2>3. back.op \in {"user", "write"}  BY UserType DEF Call
    <2>4. /\ pte' = [pte EXCEPT ![t][call[t].page] = Entry(call[t].frame, TRUE)]
          /\ page' = [page EXCEPT ![call[t].frame] = executable[t]]
          /\ call' = [call EXCEPT ![t] = back]
          /\ life' = life /\ executable' = executable
      BY <1>4 DEF LoadEnd
    <2> HIDE DEF back
    <2>5. memory_map[new] = 1 /\ new # NoFrame
      BY <2>2, MemoryAssumption DEF IInv, Reserved
    <2>6. \A u \in Tasks : /\ call[u].frame = new => u = t
                           /\ \A w \in Pages : pte[u][w].frame # new
      BY <1>1, <2>2, <2>5, OneCall
    <2>7. /\ \A u \in Tasks \ {t} : pte'[u] = pte[u]
          /\ \A w \in Pages \ {v} : pte'[t][w] = pte[t][w]
          /\ pte'[t][v].frame = new
      <3>1. PICK y \in EntryType : y = Entry(new, TRUE)  BY DEF Entry, EntryType
      <3>2. y.frame = new  BY <3>1 DEF Entry
      <3>3. Replace(t, v, y)
        BY <1>1, <2>1, <2>2, <2>4, <3>1 DEF Replace, TypeOK
      <3> QED  BY <1>1, <3>2, <3>3, EntrySet
    <2>8. /\ page'[new] = executable[t]
          /\ \A g \in (Frames \cup {Low}) \ {new} : page'[g] = page[g]
      BY <1>1, <2>2, <2>4 DEF TypeOK
    <2>9. \A u \in Tasks : \A w \in Pages : Present(u, w) =>
             page'[pte[u][w].frame] = page[pte[u][w].frame]
      <3>1. \A u \in Tasks : \A w \in Pages : Present(u, w) =>
               pte[u][w].frame \in (Frames \cup {Low}) \ {new}
        BY <1>1, <2>6 DEF TypeOK, EntryType, Present
      <3> QED  BY <2>8, <3>1
    <2>10. ~Present(t, v) /\ Image(executable[t], v) = executable[t]
      BY <1>1, <1>2, <2>1 DEF Held, Image
    <2>11. \A u \in Tasks : Lives(u)' <=> Lives(u)
      <3>1. call'[t].op # "exec" /\ \A u \in Tasks \ {t} : call'[u] = call[u]
        BY <1>1, <2>3, <2>4 DEF TypeOK
      <3> QED  BY <1>2, <2>4, <3>1 DEF Lives
    <2>12. /\ executable' = executable /\ pte'[t][v].frame # NoFrame
           /\ page'[pte'[t][v].frame] = Image(executable[t], v)
           /\ \A u \in Tasks \ {t} : \A w \in Pages :
                 pte'[u][w].frame = pte[u][w].frame
           /\ \A w \in Pages \ {v} : pte'[t][w].frame = pte[t][w].frame
      BY <2>4, <2>5, <2>7, <2>8, <2>10
    <2> QED  BY <1>1, <2>9, <2>10, <2>11, <2>12, EnterMem
  <1> QED  BY <1>3, <1>4

(* copy_process: the child sees what its parent sees. *)
LEMMA ForkMem ==
    ASSUME IInv, NEW t \in Tasks, NEW u \in Tasks, Fork(t, u)
    PROVE  Private!Next
  <1>0. /\ life[t] = "alive" /\ call[t] = User /\ life[u] = "none"
        /\ page' = page /\ call' = call
        /\ life' = [life EXCEPT ![u] = "alive"]
        /\ executable' = [executable EXCEPT ![u] = executable[t]]
        /\ t # u
    BY DEF Fork, Running
  <1>1. TypeOK /\ Held(u)  BY Parts
  <1>2. call[u] = User  BY <1>0, <1>1 DEF Held
  <1>3. /\ \A a \in Tasks \ {u} : /\ life'[a] = life[a]
                                  /\ executable'[a] = executable[a]
        /\ life'[u] = "alive" /\ executable'[u] = executable[t]
    BY <1>0, <1>1 DEF TypeOK
  <1>4. /\ \A a \in Tasks \ {u} : \A w \in Pages :
              pte'[a][w].frame = pte[a][w].frame
        /\ \A w \in Pages : pte'[u][w].frame = pte[t][w].frame
    <2> DEFINE rowt == Protected(t, dir[t])
               rowu == [v \in Pages |-> ReadOnly(pte[t][v])]
    <2>1. pte \in [Tasks -> [Pages -> EntryType]] /\ pte[t] \in [Pages -> EntryType]
      BY <1>1 DEF TypeOK
    <2>2. \A e \in EntryType : ReadOnly(e).frame = e.frame
      BY DEF ReadOnly, EntryType
    <2>3. \A w \in Pages : pte[t][w] \in EntryType  BY <2>1
    <2>4. \A w \in Pages : /\ rowu[w] = ReadOnly(pte[t][w])
                           /\ rowt[w] = pte[t][w] \/ rowt[w] = ReadOnly(pte[t][w])
      BY DEF Protected
    <2>5. \A w \in Pages : /\ rowt[w].frame = pte[t][w].frame
                           /\ rowu[w].frame = pte[t][w].frame
      BY <2>2, <2>3, <2>4
    <2>6. pte' = [pte EXCEPT ![t] = rowt, ![u] = rowu]  BY DEF Fork
    <2> HIDE DEF rowt, rowu
    <2>7. /\ \A a \in Tasks \ {t, u} : pte'[a] = pte[a]
          /\ pte'[t] = rowt /\ pte'[u] = rowu
      BY <1>0, <2>1, <2>6
    <2> QED  BY <2>5, <2>7
  <1>5. ASSUME NEW a \in Tasks \ {u} PROVE Memory(a)' = Memory(a)
    <2>1. Lives(a)' <=> Lives(a)  BY <1>0, <1>3 DEF Lives
    <2> QED  BY <1>0, <1>3, <1>4, <2>1, SameMemory
  <1>6. Lives(t) /\ ~Lives(u) /\ Lives(u)'
    BY <1>0, <1>2, <1>3, UserType DEF Lives
  <1>7. Memory(u)' = Memory(t)
    <2>1. \A w \in Pages : At(u, w)' = At(t, w)
      BY <1>0, <1>3, <1>4 DEF At, Present
    <2>2. Memory(t) = [w \in Pages |-> At(t, w)]  BY <1>6, Sees
    <2>3. Memory(u)' = [w \in Pages |-> At(u, w)']  BY <1>6, SeesNext
    <2> QED  BY <2>1, <2>2, <2>3
  <1>8. Mem' = [Mem EXCEPT ![u] = Memory(t)]  BY <1>5, <1>7 DEF Mem
  <1>9. Mem[t] = Memory(t) /\ Mem[u] = Private!Gone  BY <1>6, Sees DEF Mem
  <1>10. Mem[t] # Private!Gone
    <2>1. Memory(t) = [w \in Pages |-> At(t, w)]  BY <1>6, Sees
    <2>2. DOMAIN Memory(t) = Pages /\ DOMAIN Private!Gone = {} /\ Pages # {}
      BY <2>1, MemoryAssumption DEF Private!Gone
    <2> QED  BY <1>9, <2>2
  <1>11. Private!Fork(t, u)  BY <1>8, <1>9, <1>10 DEF Private!Fork
  <1> QED  BY <1>11 DEF Private!Next

(* do_execve: the old image is gone, ... *)
LEMMA ExecCommitMem ==
    ASSUME IInv, NEW t \in Tasks, NEW e \in Programs, ExecCommit(t, e)
    PROVE  Private!Next
  <1>1. TypeOK  BY DEF IInv
  <1>2. PICK new \in Frames :
          call' = [call EXCEPT ![t] = Call("exec", Stack, new, "user")]
    BY DEF ExecCommit
  <1>3. /\ call'[t].op = "exec" /\ life' = life /\ pte' = pte /\ page' = page
        /\ \A u \in Tasks \ {t} : /\ call'[u] = call[u]
                                  /\ executable'[u] = executable[u]
    BY <1>1, <1>2 DEF TypeOK, Call, ExecCommit
  <1>4. Memory(t)' = Private!Gone  BY <1>3, SeesNext DEF Lives
  <1>5. ASSUME NEW u \in Tasks \ {t} PROVE Memory(u)' = Memory(u)
    <2>1. Lives(u)' <=> Lives(u)  BY <1>3 DEF Lives
    <2> QED  BY <1>3, <2>1, SameMemory
  <1>6. Mem' = [Mem EXCEPT ![t] = Private!Gone]  BY <1>4, <1>5, OneMem
  <1> QED  BY <1>6 DEF Private!Next, Private!Leave

(* ... and the new one starts as the file has it. *)
LEMMA ExecEndMem ==
    ASSUME IInv, IInv', NEW t \in Tasks, ExecEnd(t)
    PROVE  Private!Next
  <1>1. TypeOK /\ CallsBlank /\ Held(t) /\ Counted'
    BY Parts, IsCountedNext
  <1>2. /\ call[t].op = "exec" /\ life' = life /\ executable' = executable
        /\ call' = [call EXCEPT ![t] = User]
        /\ pte' = [pte EXCEPT ![t] = change_ldt(call[t].frame)]
        /\ page' = Cleared(memory_map')
    BY DEF ExecEnd, free_pages
  <1>3. PICK new \in Frames : new = call[t].frame
    BY <1>1, <1>2 DEF Held, TypeOK, CallType
  <1>4. page[new] = 0 /\ new # NoFrame
    BY <1>1, <1>3, MemoryAssumption DEF CallsBlank
  <1>5. page'[new] = 0  BY <1>2, <1>4 DEF Cleared
  <1>6. life[t] = "alive" /\ executable[t] \in Programs
    BY <1>1, <1>2, UserType DEF Held, TypeOK
  <1>7. PICK e \in Programs : e = executable[t]  BY <1>6
  <1>8. /\ \A u \in Tasks \ {t} : pte'[u] = pte[u] /\ call'[u] = call[u]
        /\ call'[t] = User /\ pte'[t] = change_ldt(new)
    BY <1>1, <1>2, <1>3 DEF TypeOK
  <1>9. /\ pte'[t][Stack].frame = new
        /\ \A w \in Pages \ {Stack} : pte'[t][w].frame = NoFrame
    <2>1. NoPages \in [Pages -> EntryType] /\ Stack \in Pages
      BY UserType, MemoryAssumption
    <2>2. PICK y : y = Entry(new, TRUE)  OBVIOUS
    <2>3. y.frame = new  BY <2>2 DEF Entry
    <2>4. pte'[t] = [NoPages EXCEPT ![Stack] = y]
      BY <1>8, <2>2 DEF change_ldt
    <2>5. pte'[t][Stack] = y /\ \A w \in Pages \ {Stack} : pte'[t][w] = NoPages[w]
      BY <2>1, <2>4
    <2> QED  BY <2>3, <2>5, UserType
  <1>10. ~Lives(t) /\ Lives(t)'  BY <1>2, <1>6, <1>8, UserType DEF Lives
  <1>11. Memory(t)' = [v \in Pages |-> Image(e, v)]
    <2>1. Image(e, Stack) = 0  BY MemoryAssumption DEF Image
    <2>2. \A v \in Pages : At(t, v)' = Image(e, v)
      <3> TAKE v \in Pages
      <3>1. CASE v = Stack
        BY <1>4, <1>5, <1>9, <2>1, <3>1 DEF At, Present
      <3>2. CASE v # Stack
        <4>1. pte'[t][v].frame = NoFrame  BY <1>9, <3>2
        <4> QED  BY <1>2, <1>7, <4>1 DEF At, Present
      <3> QED  BY <3>1, <3>2
    <2>3. Memory(t)' = [v \in Pages |-> At(t, v)']  BY <1>10, SeesNext
    <2> QED  BY <2>2, <2>3
  <1>12. ASSUME NEW u \in Tasks \ {t} PROVE Memory(u)' = Memory(u)
    <2>1. Lives(u)' <=> Lives(u)  BY <1>2, <1>8 DEF Lives
    <2>2. \A v \in Pages : Present(u, v) => page'[pte[u][v].frame]
                                              = page[pte[u][v].frame]
      BY <1>1, <1>2, <1>8, KeepsUsed
    <2> QED  BY <1>2, <1>8, <2>1, <2>2, SameMemory
  <1>13. Mem' = [Mem EXCEPT ![t] = [v \in Pages |-> Image(e, v)]]
    BY <1>11, <1>12 DEF Mem
  <1>14. Mem[t] = Private!Gone  BY <1>10, Sees DEF Mem
  <1>15. Private!Start(t, e)  BY <1>13, <1>14 DEF Private!Start
  <1> QED  BY <1>15 DEF Private!Next

(* A write by the process itself *)
LEMMA UserWriteMem ==
    ASSUME IInv, NEW t \in Tasks, NEW v \in Pages, UserWrite(t, v)
    PROVE  Private!Next
  <1>1. TypeOK /\ EntriesOwn  BY Parts
  <1>2. /\ Running(t) /\ pte[t][v].rw
        /\ page' = [page EXCEPT ![pte[t][v].frame] = t]
        /\ pte' = [pte EXCEPT ![t][v].dirty = TRUE]
        /\ life' = life /\ executable' = executable /\ call' = call
    BY DEF UserWrite
  <1>3. PICK f \in Frames : f = pte[t][v].frame  BY <1>1, <1>2 DEF EntriesOwn
  <1>4. \A u \in Tasks : \A w \in Pages : pte[u][w].frame = f => u = t /\ w = v
    BY <1>1, <1>2, <1>3 DEF EntriesOwn
  <1>5. \A u \in Tasks : \A w \in Pages : pte'[u][w].frame = pte[u][w].frame
    BY <1>1, <1>2 DEF TypeOK, EntryType
  <1>6. Lives(t) /\ \A u \in Tasks : Lives(u)' <=> Lives(u)
    BY <1>2, UserType DEF Lives, Running
  <1>7. page' = [page EXCEPT ![f] = t]  BY <1>2, <1>3
  <1> QED  BY <1>1, <1>2, <1>3, <1>4, <1>5, <1>6, <1>7, WriteMem

(* A write by the kernel, which leaks if the page has another user by now. *)
LEMMA KernelWriteMem ==
    ASSUME IInv, NEW t \in Tasks, KernelWrite(t)
    PROVE  Private!Next \/ Leak
  <1>1. TypeOK /\ Accounted /\ Held(t)  BY Parts
  <1>2. PICK v \in Pages : v = call[t].page  BY <1>1 DEF TypeOK, CallType
  <1>3. /\ InWrite(t) /\ Present(t, v)
        /\ page' = [page EXCEPT ![pte[t][v].frame] = t]
        /\ pte' = [pte EXCEPT ![t][v].dirty = TRUE]
        /\ call' = [call EXCEPT ![t] = User]
        /\ life' = life /\ executable' = executable
    BY <1>2 DEF KernelWrite
  <1>4. PICK f \in Frames : f = pte[t][v].frame
    BY <1>1, <1>2, <1>3 DEF Held, Present, TypeOK, EntryType
  <1>5. CASE memory_map[f] = 1
    <2>1. \A u \in Tasks : \A w \in Pages : pte[u][w].frame = f => u = t /\ w = v
      BY <1>1, <1>4, <1>5, OneEntry
    <2>2. \A u \in Tasks : \A w \in Pages : pte'[u][w].frame = pte[u][w].frame
      BY <1>1, <1>3 DEF TypeOK, EntryType
    <2>3. call'[t].op # "exec" /\ \A u \in Tasks \ {t} : call'[u] = call[u]
      BY <1>1, <1>3, UserType DEF TypeOK
    <2>4. life[t] = "alive" /\ call[t].op # "exec"
      BY <1>1, <1>3, UserType DEF Held, InWrite
    <2>5. Lives(t) /\ \A u \in Tasks : Lives(u)' <=> Lives(u)
      BY <1>3, <2>3, <2>4 DEF Lives
    <2>6. page' = [page EXCEPT ![f] = t]  BY <1>3, <1>4
    <2>7. executable' = executable /\ pte[t][v].frame = f  BY <1>3, <1>4
    <2>8. Private!Next  BY <1>1, <1>4, <2>1, <2>2, <2>5, <2>6, <2>7, WriteMem, ZenonT(60)
    <2> QED  BY <2>8
  <1>6. CASE memory_map[f] # 1
    <2>1. memory_map[pte[t][call[t].page].frame] # 1  BY <1>2, <1>4, <1>6
    <2> QED  BY <2>1, Zenon DEF Leak
  <1> QED  BY <1>5, <1>6

(* Every step is a step of the abstract memory, a leak or not seen. *)
LEMMA StepMem ==
    IInv /\ IInv' /\ [Next]_vars => [Private!Next \/ Leak]_Mem
  <1> SUFFICES ASSUME IInv, IInv', [Next]_vars
               PROVE  Private!Next \/ Leak \/ Mem' = Mem
    OBVIOUS
  <1>0. TypeOK  BY DEF IInv
  <1>1. CASE UNCHANGED vars
    <2>1. /\ life' = life /\ executable' = executable /\ pte' = pte
          /\ page' = page /\ call' = call
      BY <1>1 DEF vars
    <2>2. \A u \in Tasks : Lives(u)' <=> Lives(u)  BY <2>1 DEF Lives
    <2>3. \A u \in Tasks : Memory(u)' = Memory(u)  BY <2>1, <2>2, SameMemory
    <2> QED  BY <2>3, SameMem
  <1>2. CASE Next
    <2>1. PICK t \in Tasks :
            \/ sys_exit(t) \/ release(t) \/ ForkFails(t)
            \/ \E u \in Tasks : Fork(t, u)
            \/ \E v \in Pages : \/ do_wp_page(t, v) \/ do_no_page(t, v)
                                \/ verify_area(t, v) \/ UserWrite(t, v)
            \/ LoadEnd(t) \/ KernelWrite(t)
            \/ \E e \in Programs : ExecCommit(t, e)
            \/ ExecEnd(t)
      BY <1>2, Zenon DEF Next
    <2>2. CASE sys_exit(t)  BY <2>2, ExitMem DEF sys_exit
    <2>3. CASE release(t)
      <3>1. /\ executable' = executable /\ pte' = pte /\ page' = page
            /\ call' = call /\ life[t] = "zombie" /\ life'[t] = "none"
            /\ \A u \in Tasks \ {t} : life'[u] = life[u]
        BY <1>0, <2>3 DEF release, TypeOK
      <3>2. \A u \in Tasks : Lives(u)' <=> Lives(u)  BY <3>1 DEF Lives
      <3>3. \A u \in Tasks : Memory(u)' = Memory(u)  BY <3>1, <3>2, SameMemory
      <3> QED  BY <3>3, SameMem
    <2>4. CASE ForkFails(t)
      <3>1. /\ executable' = executable /\ page' = page
            /\ call' = call /\ life' = life
            /\ \E D : pte' = [pte EXCEPT ![t] = Protected(t, D)]
        BY <2>4 DEF ForkFails
      <3>2. PICK D : pte' = [pte EXCEPT ![t] = Protected(t, D)]  BY <3>1
      <3>3. /\ \A u \in Tasks \ {t} : pte'[u] = pte[u]
            /\ pte'[t] = Protected(t, D)
        BY <1>0, <3>2 DEF TypeOK
      <3>4. \A w \in Pages : Protected(t, D)[w].frame = pte[t][w].frame
        <4>1. \A w \in Pages : pte[t][w] \in EntryType  BY <1>0 DEF TypeOK
        <4>2. \A e \in EntryType : ReadOnly(e).frame = e.frame
          BY DEF ReadOnly, EntryType
        <4>3. \A w \in Pages : \/ Protected(t, D)[w] = pte[t][w]
                               \/ Protected(t, D)[w] = ReadOnly(pte[t][w])
          BY DEF Protected
        <4> QED  BY <4>1, <4>2, <4>3
      <3>5. \A u \in Tasks : \A w \in Pages : pte'[u][w].frame = pte[u][w].frame
        BY <3>3, <3>4
      <3>6. \A u \in Tasks : Lives(u)' <=> Lives(u)  BY <3>1 DEF Lives
      <3>7. \A u \in Tasks : Memory(u)' = Memory(u)
        BY <3>1, <3>5, <3>6, SameMemory
      <3> QED  BY <3>7, SameMem
    <2>5. ASSUME NEW u \in Tasks, Fork(t, u) PROVE Private!Next
      BY <2>5, ForkMem
    <2>6. ASSUME NEW v \in Pages, do_wp_page(t, v)
          PROVE  Private!Next \/ Mem' = Mem
      <3>1. CASE do_exit(t)  BY <3>1, ExitMem
      <3>2. CASE un_wp_page(t, v) /\ UNCHANGED <<life, executable, dir, taken, call>>
        <4>1. ReadOnlyPage(t, v)  BY <2>6 DEF do_wp_page
        <4>2. \A u \in Tasks : Lives(u)' <=> Lives(u)  BY <3>2 DEF Lives
        <4> QED  BY <3>2, <4>1, <4>2, UnWpMem
      <3> QED  BY <2>6, <3>1, <3>2 DEF do_wp_page
    <2>7. ASSUME NEW v \in Pages, do_no_page(t, v)
          PROVE  Private!Next \/ Leak \/ Mem' = Mem
      BY <2>7, NoPageMem
    <2>8. ASSUME NEW v \in Pages, verify_area(t, v)
          PROVE  Private!Next \/ Mem' = Mem
      <3>1. CASE do_exit(t)  BY <3>1, ExitMem
      <3>2. CASE ~do_exit(t)
        <4>1. /\ IF ReadOnlyPage(t, v) THEN un_wp_page(t, v)
                 ELSE UNCHANGED <<pte, memory_map, page>>
              /\ call' = [call EXCEPT ![t] = Call("write", v, NoFrame, "user")]
              /\ life' = life /\ executable' = executable
          BY <2>8, <3>2 DEF verify_area
        <4>2. /\ call[t].op # "exec" /\ call'[t].op # "exec"
              /\ \A u \in Tasks \ {t} : call'[u] = call[u]
          BY <1>0, <2>8, <4>1, UserType DEF verify_area, Running, TypeOK, Call
        <4>3. \A u \in Tasks : Lives(u)' <=> Lives(u)  BY <4>1, <4>2 DEF Lives
        <4>4. CASE ReadOnlyPage(t, v)  BY <4>1, <4>3, <4>4, UnWpMem
        <4>5. CASE ~ReadOnlyPage(t, v)
          <5>1. pte' = pte /\ page' = page  BY <4>1, <4>5
          <5>2. \A u \in Tasks : Memory(u)' = Memory(u)
            BY <4>1, <4>3, <5>1, SameMemory
          <5> QED  BY <5>2, SameMem
        <4> QED  BY <4>4, <4>5
      <3> QED  BY <3>1, <3>2
    <2>9. ASSUME NEW v \in Pages, UserWrite(t, v) PROVE Private!Next
      BY <2>9, UserWriteMem
    <2>10. CASE KernelWrite(t)  BY <2>10, KernelWriteMem
    <2>11. CASE LoadEnd(t)  BY <2>11, LoadEndMem
    <2>12. ASSUME NEW e \in Programs, ExecCommit(t, e) PROVE Private!Next
      BY <2>12, ExecCommitMem
    <2>13. CASE ExecEnd(t)  BY <2>13, ExecEndMem
    <2> QED
      BY <2>1, <2>2, <2>3, <2>4, <2>5, <2>6, <2>7, <2>8, <2>9, <2>10, <2>11,
         <2>12, <2>13
  <1> QED  BY <1>1, <1>2

(* The first process has all the memory there is. *)
LEMMA InitMem == Init => Private!Init
  <1> SUFFICES ASSUME Init PROVE Private!Init
    OBVIOUS
  <1>1. First \in Tasks  BY MemoryAssumption
  <1>2. /\ \A t \in Tasks : life[t] = (IF t = First THEN "alive" ELSE "none")
        /\ \A v \in Pages : pte[First][v].frame = Low
        /\ page[Low] = 0 /\ call[First].op = "user"
    BY <1>1, UserType DEF Init, Entry
  <1>3. Memory(First) = [v \in Pages |-> 0]
    <2>1. \A v \in Pages : At(First, v) = 0
      BY <1>2, MemoryAssumption DEF At, Present
    <2>2. Lives(First)  BY <1>1, <1>2 DEF Lives
    <2>3. Memory(First) = [v \in Pages |-> At(First, v)]  BY <2>2, Sees
    <2> QED  BY <2>1, <2>3
  <1>4. \A u \in Tasks \ {First} : Memory(u) = Private!Gone
    BY <1>2, Sees DEF Lives
  <1>5. Mem = [u \in Tasks |-> IF u = First THEN [v \in Pages |-> 0]
                               ELSE Private!Gone]
    BY <1>3, <1>4 DEF Mem
  <1> QED  BY <1>1, <1>5 DEF Private!Init

(* The memory manager implements memory that is private to each process,   *)
(* but for the two leaks: fork's copy on write, demand loading, the        *)
(* sharing of program pages and running out of memory are not seen.        *)
THEOREM Refinement == Spec => MemoryIsPrivate
  <1>1. Spec => [][Private!Next \/ Leak]_Mem
    <2>1. IInv /\ IInv' /\ [Next]_vars => [Private!Next \/ Leak]_Mem  BY StepMem
    <2> QED  BY <2>1, Invariance, PTL DEF Spec
  <1>2. Spec => Private!Init  BY InitMem DEF Spec
  <1> QED  BY <1>1, <1>2 DEF MemoryIsPrivate

=============================================================================
