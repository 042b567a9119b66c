-------------------------- MODULE FileSystemProofs --------------------------
(***************************************************************************)
(* The inode table: for any number of processes, inodes, blocks and calls, *)
(* i_count is the number of references, until an unprotected sleep is hit. *)
(*                                                                         *)
(* A reference is in a file, in a field of a call or in the list of what a *)
(* call still has to do; a step of one process moves it from one to the    *)
(* other.  So the proof is about the lists: which there can be (Shapes),   *)
(* and what replacing one by another does to the references (Moves).       *)
(***************************************************************************)
EXTENDS FileSystem, SequenceTheorems, FiniteSetTheorems, WellFoundedInduction,
        TLAPS

(* The references a process holds, in its fields and in its list, and those *)
(* that all processes hold.                                                *)
Listed(p, n) == Cardinality(Pending(p.todo, n))
Holds(p, n) == Count(p.fd = n) + Count(p.dir = n) + Count(p.inode = n) + Listed(p, n)
Places(R, n) == UNION {{t} \X Pending(R[t].todo, n) : t \in Tasks}
Held(R, n) == Cardinality({t \in Tasks : R[t].fd = n})
              + Cardinality({t \in Tasks : R[t].dir = n})
              + Cardinality({t \in Tasks : R[t].inode = n})
              + Cardinality(Places(R, n))

(* Changing one element of a set of tasks. *)
LEMMA OneMember ==
    ASSUME NEW A, NEW B, A \subseteq Tasks, B \subseteq Tasks,
           NEW t \in Tasks, \A u \in Tasks \ {t} : u \in A <=> u \in B
    PROVE  /\ Cardinality(A) \in Nat /\ Cardinality(B) \in Nat
           /\ Cardinality(B) = Cardinality(A) - Count(t \in A) + Count(t \in B)
  <1>1. IsFiniteSet(A) /\ IsFiniteSet(B)
    BY FS_Subset, FsAssumption
  <1> DEFINE C == A \ {t}
  <1>2. IsFiniteSet(C) /\ C = B \ {t} /\ t \notin C
    BY <1>1, FS_Subset
  <1>3. Cardinality(C) \in Nat  BY <1>2, FS_CardinalityType
  <1> HIDE DEF C
  <1>4. Cardinality(A) = Cardinality(C) + Count(t \in A)
    <2>1. CASE t \in A
      <3>1. A = C \cup {t}  BY <2>1 DEF C
      <3> QED  BY <1>2, <1>3, <2>1, <3>1, FS_AddElement DEF Count
    <2>2. CASE t \notin A
      <3>1. A = C  BY <2>2 DEF C
      <3> QED  BY <1>3, <2>2, <3>1 DEF Count
    <2> QED  BY <2>1, <2>2
  <1>5. Cardinality(B) = Cardinality(C) + Count(t \in B)
    <2>1. CASE t \in B
      <3>1. B = C \cup {t}  BY <1>2, <2>1
      <3> QED  BY <1>2, <1>3, <2>1, <3>1, FS_AddElement DEF Count
    <2>2. CASE t \notin B
      <3>1. B = C  BY <1>2, <2>2
      <3> QED  BY <1>3, <2>2, <3>1 DEF Count
    <2> QED  BY <2>1, <2>2
  <1>6. Count(t \in A) \in 0 .. 1 /\ Count(t \in B) \in 0 .. 1  BY DEF Count
  <1> QED  BY <1>3, <1>4, <1>5, <1>6

LEMMA DisjointUnion ==
    ASSUME NEW A, NEW B, IsFiniteSet(A), IsFiniteSet(B), A \cap B = {}
    PROVE  Cardinality(A \cup B) = Cardinality(A) + Cardinality(B)
  <1>1. Cardinality(A \cup B) = Cardinality(A) + Cardinality(B) - Cardinality({})
    BY FS_Union
  <1>2. Cardinality({}) = 0 /\ Cardinality(A) \in Nat /\ Cardinality(B) \in Nat
    BY FS_EmptySet, FS_CardinalityType
  <1> QED  BY <1>1, <1>2

(* Pairs with the same first component are as many as the second ones. *)
LEMMA PairCount ==
    ASSUME NEW t, NEW S, IsFiniteSet(S)
    PROVE  IsFiniteSet({t} \X S) /\ Cardinality({t} \X S) = Cardinality(S)
  <1>1. IsFiniteSet({t}) /\ Cardinality({t}) = 1  BY FS_Singleton
  <1>2. Cardinality(S) \in Nat  BY FS_CardinalityType
  <1> QED  BY <1>1, <1>2, FS_Product

(* The references in a list of operations. *)
LEMMA PendingFinite ==
    ASSUME NEW q \in Seq(Operation), NEW n
    PROVE  IsFiniteSet(Pending(q, n)) /\ Cardinality(Pending(q, n)) \in Nat
  <1>1. Len(q) \in Nat /\ DOMAIN q = 1 .. Len(q)  OBVIOUS
  <1>2. IsFiniteSet(1 .. Len(q))  BY <1>1, FS_Interval
  <1>3. Pending(q, n) \subseteq 1 .. Len(q)  BY <1>1 DEF Pending
  <1> QED  BY <1>2, <1>3, FS_Subset, FS_CardinalityType

LEMMA PlacesFinite ==
    ASSUME NEW R \in [Tasks -> Process], NEW n, NEW T \in SUBSET Tasks
    PROVE  /\ IsFiniteSet(UNION {{t} \X Pending(R[t].todo, n) : t \in T})
           /\ Cardinality(UNION {{t} \X Pending(R[t].todo, n) : t \in T}) \in Nat
  <1> DEFINE S == {{t} \X Pending(R[t].todo, n) : t \in T}
  <1>1. IsFiniteSet(T)  BY FS_Subset, FsAssumption
  <1>2. IsFiniteSet(S)
    <2> DEFINE f == [t \in T |-> {t} \X Pending(R[t].todo, n)]
    <2>1. f \in Surjection(T, S)  BY DEF Surjection
    <2> QED  BY <1>1, <2>1, FS_Surjection
  <1>3. \A x \in S : IsFiniteSet(x)
    <2>1. SUFFICES ASSUME NEW t \in T PROVE IsFiniteSet({t} \X Pending(R[t].todo, n))
      OBVIOUS
    <2>2. R[t].todo \in Seq(Operation)  BY DEF Process
    <2> QED  BY <2>2, PendingFinite, PairCount
  <1>4. IsFiniteSet(UNION S)  BY <1>2, <1>3, FS_UNION
  <1> QED  BY <1>4, FS_CardinalityType

(* One process changes: so do the references, by what it took and gave. *)
LEMMA HeldChanges ==
    ASSUME NEW R \in [Tasks -> Process], NEW t \in Tasks,
           NEW S \in [Tasks -> Process], NEW n, \A u \in Tasks \ {t} : S[u] = R[u]
    PROVE  /\ Held(R, n) \in Nat /\ Held(S, n) \in Nat
           /\ Holds(R[t], n) \in Nat /\ Holds(S[t], n) \in Nat
           /\ Held(S, n) = Held(R, n) - Holds(R[t], n) + Holds(S[t], n)
  <1> DEFINE p == S[t]
  <1>1. p \in Process /\ S[t] = p
    OBVIOUS
  <1> HIDE DEF p
  <1> DEFINE A1 == {u \in Tasks : R[u].fd = n}
             B1 == {u \in Tasks : S[u].fd = n}
             A2 == {u \in Tasks : R[u].dir = n}
             B2 == {u \in Tasks : S[u].dir = n}
             A3 == {u \in Tasks : R[u].inode = n}
             B3 == {u \in Tasks : S[u].inode = n}
  <1>2. /\ Cardinality(A1) \in Nat /\ Cardinality(B1) \in Nat
        /\ Cardinality(B1) = Cardinality(A1) - Count(R[t].fd = n) + Count(p.fd = n)
    <2>1. A1 \subseteq Tasks /\ B1 \subseteq Tasks  OBVIOUS
    <2>2. \A u \in Tasks \ {t} : u \in A1 <=> u \in B1  BY <1>1
    <2>3. (t \in A1 <=> R[t].fd = n) /\ (t \in B1 <=> p.fd = n)  BY <1>1
    <2> HIDE DEF A1, B1
    <2>4. /\ Cardinality(A1) \in Nat /\ Cardinality(B1) \in Nat
          /\ Cardinality(B1) = Cardinality(A1) - Count(t \in A1) + Count(t \in B1)
      BY <2>1, <2>2, OneMember
    <2> QED  BY <2>3, <2>4 DEF Count
  <1>3. /\ Cardinality(A2) \in Nat /\ Cardinality(B2) \in Nat
        /\ Cardinality(B2) = Cardinality(A2) - Count(R[t].dir = n) + Count(p.dir = n)
    <2>1. A2 \subseteq Tasks /\ B2 \subseteq Tasks  OBVIOUS
    <2>2. \A u \in Tasks \ {t} : u \in A2 <=> u \in B2  BY <1>1
    <2>3. (t \in A2 <=> R[t].dir = n) /\ (t \in B2 <=> p.dir = n)  BY <1>1
    <2> HIDE DEF A2, B2
    <2>4. /\ Cardinality(A2) \in Nat /\ Cardinality(B2) \in Nat
          /\ Cardinality(B2) = Cardinality(A2) - Count(t \in A2) + Count(t \in B2)
      BY <2>1, <2>2, OneMember
    <2> QED  BY <2>3, <2>4 DEF Count
  <1>4. /\ Cardinality(A3) \in Nat /\ Cardinality(B3) \in Nat
        /\ Cardinality(B3) = Cardinality(A3) - Count(R[t].inode = n)
                             + Count(p.inode = n)
    <2>1. A3 \subseteq Tasks /\ B3 \subseteq Tasks  OBVIOUS
    <2>2. \A u \in Tasks \ {t} : u \in A3 <=> u \in B3  BY <1>1
    <2>3. (t \in A3 <=> R[t].inode = n) /\ (t \in B3 <=> p.inode = n)  BY <1>1
    <2> HIDE DEF A3, B3
    <2>4. /\ Cardinality(A3) \in Nat /\ Cardinality(B3) \in Nat
          /\ Cardinality(B3) = Cardinality(A3) - Count(t \in A3) + Count(t \in B3)
      BY <2>1, <2>2, OneMember
    <2> QED  BY <2>3, <2>4 DEF Count
  <1> DEFINE Others == UNION {{u} \X Pending(R[u].todo, n) : u \in Tasks \ {t}}
  <1>5. /\ IsFiniteSet(Others) /\ Cardinality(Others) \in Nat
    BY PlacesFinite
  <1>6. R[t].todo \in Seq(Operation) /\ p.todo \in Seq(Operation)  BY <1>1 DEF Process
  <1>7. /\ Cardinality(Places(R, n)) = Cardinality(Others) + Listed(R[t], n)
        /\ Listed(R[t], n) \in Nat
    <2> DEFINE Mine == {t} \X Pending(R[t].todo, n)
    <2>1. Places(R, n) = Others \cup Mine /\ Others \cap Mine = {}  BY DEF Places
    <2>2. IsFiniteSet(Mine) /\ Cardinality(Mine) = Listed(R[t], n) /\ Listed(R[t], n) \in Nat
      BY <1>6, PendingFinite, PairCount DEF Listed
    <2> HIDE DEF Mine, Others
    <2>3. Cardinality(Others \cup Mine) = Cardinality(Others) + Cardinality(Mine)
      BY <1>5, <2>1, <2>2, DisjointUnion
    <2> QED  BY <2>1, <2>2, <2>3
  <1>8. /\ Cardinality(Places(S, n)) = Cardinality(Others) + Listed(p, n)
        /\ Listed(p, n) \in Nat
    <2> DEFINE Mine == {t} \X Pending(p.todo, n)
    <2>1. Places(S, n) = Others \cup Mine /\ Others \cap Mine = {}
      BY <1>1 DEF Places
    <2>2. IsFiniteSet(Mine) /\ Cardinality(Mine) = Listed(p, n) /\ Listed(p, n) \in Nat
      BY <1>6, PendingFinite, PairCount DEF Listed
    <2> HIDE DEF Mine, Others
    <2>3. Cardinality(Others \cup Mine) = Cardinality(Others) + Cardinality(Mine)
      BY <1>5, <2>1, <2>2, DisjointUnion
    <2> QED  BY <2>1, <2>2, <2>3
  <1>9. \A b \in BOOLEAN : Count(b) \in 0 .. 1  BY DEF Count
  <1>10. Held(R, n) = Cardinality(A1) + Cardinality(A2) + Cardinality(A3)
                      + Cardinality(Places(R, n))
    BY DEF Held
  <1>11. Held(S, n) = Cardinality(B1) + Cardinality(B2) + Cardinality(B3)
                      + Cardinality(Places(S, n))
    BY DEF Held
  <1>12. /\ Count(R[t].fd = n) \in 0 .. 1 /\ Count(p.fd = n) \in 0 .. 1
         /\ Count(R[t].dir = n) \in 0 .. 1 /\ Count(p.dir = n) \in 0 .. 1
         /\ Count(R[t].inode = n) \in 0 .. 1 /\ Count(p.inode = n) \in 0 .. 1
    BY DEF Count
  <1> HIDE DEF A1, A2, A3, B1, B2, B3, Others
  <1> DEFINE a1 == Cardinality(A1)
             a2 == Cardinality(A2)
             a3 == Cardinality(A3)
             a4 == Cardinality(Places(R, n))
             b1 == Cardinality(B1)
             b2 == Cardinality(B2)
             b3 == Cardinality(B3)
             b4 == Cardinality(Places(S, n))
             x == Cardinality(Others)
             c1 == Count(R[t].fd = n)
             c2 == Count(R[t].dir = n)
             c3 == Count(R[t].inode = n)
             c4 == Listed(R[t], n)
             d1 == Count(p.fd = n)
             d2 == Count(p.dir = n)
             d3 == Count(p.inode = n)
             d4 == Listed(p, n)
             h == Holds(R[t], n)
             i == Holds(p, n)
             j == Held(R, n)
             k == Held(S, n)
  <1>13. h = c1 + c2 + c3 + c4 /\ i = d1 + d2 + d3 + d4
    BY DEF Holds
  <1>14. j = a1 + a2 + a3 + a4 /\ k = b1 + b2 + b3 + b4
    BY <1>10, <1>11
  <1>15. /\ a1 \in Nat /\ a2 \in Nat /\ a3 \in Nat /\ x \in Nat
         /\ b1 \in Nat /\ b2 \in Nat /\ b3 \in Nat
         /\ c4 \in Nat /\ d4 \in Nat
    BY <1>2, <1>3, <1>4, <1>5, <1>7, <1>8
  <1>16. /\ b1 = a1 - c1 + d1 /\ b2 = a2 - c2 + d2 /\ b3 = a3 - c3 + d3
         /\ a4 = x + c4 /\ b4 = x + d4
    BY <1>2, <1>3, <1>4, <1>7, <1>8
  <1>17. /\ c1 \in Nat /\ c2 \in Nat /\ c3 \in Nat
         /\ d1 \in Nat /\ d2 \in Nat /\ d3 \in Nat
    BY <1>12
  <1> HIDE DEF a1, a2, a3, a4, b1, b2, b3, b4, x, c1, c2, c3, c4, d1, d2, d3, d4,
               h, i, j, k
  <1>18. j \in Nat /\ k \in Nat /\ h \in Nat /\ i \in Nat
    BY <1>13, <1>14, <1>15, <1>16, <1>17
  <1>19. k = j - h + i
    BY <1>13, <1>14, <1>15, <1>16, <1>17
  <1> QED  BY <1>1, <1>18, <1>19 DEF h, i, j, k

-----------------------------------------------------------------------------
(* Lists of operations. *)
LEMMA ShiftCount ==
    ASSUME NEW S \in SUBSET Nat, IsFiniteSet(S), NEW m \in Nat
    PROVE  LET T == {i + m : i \in S}
           IN IsFiniteSet(T) /\ Cardinality(T) = Cardinality(S)
  <1> DEFINE T == {i + m : i \in S}
             f == [i \in S |-> i + m]
  <1>1. f \in Surjection(S, T)
    BY DEF Surjection
  <1>2. f \in Injection(S, T)
    <2>1. f \in [S -> T]  OBVIOUS
    <2>2. \A a, b \in S : f[a] = f[b] => a = b  OBVIOUS
    <2> QED  BY <2>1, <2>2 DEF Injection, IsInjective
  <1> QED  BY <1>1, <1>2, FS_Surjection

LEMMA OpTypes ==
    ASSUME NEW o \in Ops, NEW n \in Ino0
    PROVE  Op(o, n) \in Operation /\ Op(o, n).op = o /\ Op(o, n).n = n
  BY DEF Op, Operation, Zone0

(* A list is joined from two. *)
LEMMA JoinLists ==
    ASSUME NEW a \in Seq(Operation), NEW b \in Seq(Operation)
    PROVE  /\ a \o b \in Seq(Operation) /\ Len(a \o b) = Len(a) + Len(b)
           /\ \A i \in 1 .. Len(a) : (a \o b)[i] = a[i]
           /\ \A i \in 1 .. Len(b) : (a \o b)[Len(a) + i] = b[i]
  <1>1. /\ a \o b \in Seq(Operation) /\ Len(a \o b) = Len(a) + Len(b)
        /\ \A i \in 1 .. Len(a) + Len(b) :
              (a \o b)[i] = IF i <= Len(a) THEN a[i] ELSE b[i - Len(a)]
    BY ConcatProperties
  <1> DEFINE x == a \o b
             l == Len(a)
             m == Len(b)
  <1>2. l \in Nat /\ m \in Nat  OBVIOUS
  <1>3. \A i \in 1 .. l + m : x[i] = IF i <= l THEN a[i] ELSE b[i - l]
    BY <1>1
  <1> HIDE DEF x, l, m
  <1>4. \A i \in 1 .. l : x[i] = a[i]
    BY <1>2, <1>3
  <1>5. ASSUME NEW i \in 1 .. m PROVE x[l + i] = b[i]
    <2>1. l + i \in 1 .. l + m /\ ~(l + i <= l) /\ (l + i) - l = i
      BY <1>2
    <2>2. x[l + i] = b[(l + i) - l]
      BY <1>3, <2>1, Zenon
    <2> QED  BY <2>1, <2>2
  <1> QED  BY <1>1, <1>4, <1>5 DEF x, l, m

LEMMA PendingJoined ==
    ASSUME NEW a \in Seq(Operation), NEW b \in Seq(Operation), NEW n
    PROVE  Cardinality(Pending(a \o b, n)) =
             Cardinality(Pending(a, n)) + Cardinality(Pending(b, n))
  <1> DEFINE x == a \o b
             l == Len(a)
             m == Len(b)
             A == Pending(a, n)
             B == Pending(b, n)
             C == {i + l : i \in B}
  <1>1. /\ x \in Seq(Operation) /\ Len(x) = l + m /\ l \in Nat /\ m \in Nat
        /\ \A i \in 1 .. l : x[i] = a[i]
        /\ \A i \in 1 .. m : x[l + i] = b[i]
    BY JoinLists
  <1>2. DOMAIN x = 1 .. l + m /\ DOMAIN a = 1 .. l /\ DOMAIN b = 1 .. m
    BY <1>1
  <1> HIDE DEF x, l, m
  <1>3. A \subseteq 1 .. l /\ B \subseteq 1 .. m
    BY <1>2 DEF Pending
  <1>4. Pending(x, n) = A \cup C
    <2>1. ASSUME NEW i \in Pending(x, n) PROVE i \in A \cup C
      <3>1. i \in 1 .. l + m /\ Refers(x[i], n)  BY <1>2 DEF Pending
      <3>2. CASE i \in 1 .. l
        BY <1>1, <1>2, <3>1, <3>2 DEF Pending
      <3>3. CASE i \notin 1 .. l
        <4>1. i - l \in 1 .. m /\ i = l + (i - l) /\ i = (i - l) + l
          BY <1>1, <3>1, <3>3
        <4>2. x[i] = b[i - l]  BY <1>1, <4>1
        <4>3. i - l \in B  BY <1>2, <3>1, <4>1, <4>2 DEF Pending
        <4> QED  BY <4>1, <4>3
      <3> QED  BY <3>2, <3>3
    <2>2. ASSUME NEW i \in A PROVE i \in Pending(x, n)
      <3>1. i \in 1 .. l /\ i \in 1 .. l + m /\ Refers(a[i], n)
        BY <1>1, <1>2 DEF Pending
      <3> QED  BY <1>1, <1>2, <3>1 DEF Pending
    <2>3. ASSUME NEW i \in B PROVE i + l \in Pending(x, n)
      <3>1. i \in 1 .. m /\ Refers(b[i], n)  BY <1>2 DEF Pending
      <3>2. i + l = l + i /\ l + i \in 1 .. l + m  BY <1>1, <3>1
      <3>3. x[l + i] = b[i]  BY <1>1, <3>1
      <3> QED  BY <1>2, <3>1, <3>2, <3>3 DEF Pending
    <2> QED  BY <2>1, <2>2, <2>3
  <1>5. A \cap C = {}
    BY <1>1, <1>3
  <1>6. IsFiniteSet(A) /\ IsFiniteSet(B)
    BY PendingFinite
  <1>7. IsFiniteSet(C) /\ Cardinality(C) = Cardinality(B)
    <2>1. B \in SUBSET Nat  BY <1>1, <1>3
    <2> HIDE DEF B
    <2> QED  BY <1>1, <1>6, <2>1, ShiftCount
  <1> HIDE DEF A, B, C
  <1>8. Cardinality(Pending(x, n)) = Cardinality(A) + Cardinality(B)
    BY <1>4, <1>5, <1>6, <1>7, DisjointUnion
  <1> QED  BY <1>8 DEF A, B, x

LEMMA PendingOne ==
    ASSUME NEW o, NEW n
    PROVE  Cardinality(Pending(<<o>>, n)) = Count(Refers(o, n))
  <1>1. CASE Refers(o, n)
    <2>1. Pending(<<o>>, n) = {1}  BY <1>1 DEF Pending
    <2>2. Cardinality({1}) = 1  BY FS_Singleton
    <2> QED  BY <1>1, <2>1, <2>2 DEF Count
  <1>2. CASE ~Refers(o, n)
    <2>1. Pending(<<o>>, n) = {}  BY <1>2 DEF Pending
    <2>2. Cardinality({}) = 0  BY FS_EmptySet
    <2> QED  BY <1>2, <2>1, <2>2 DEF Count
  <1> QED  BY <1>1, <1>2

LEMMA PendingNone ==
    ASSUME NEW n PROVE Cardinality(Pending(<<>>, n)) = 0
  <1>1. Pending(<<>>, n) = {}  BY DEF Pending
  <1> QED  BY <1>1, FS_EmptySet

(* The head of a list and the rest. *)
LEMMA HeadAndRest ==
    ASSUME NEW q \in Seq(Operation), q # <<>>
    PROVE  /\ Head(q) \in Operation /\ Head(q) = q[1] /\ Tail(q) \in Seq(Operation)
           /\ Len(q) \in Nat /\ Len(q) >= 1 /\ Len(Tail(q)) = Len(q) - 1
           /\ \A i \in 1 .. Len(q) - 1 : Tail(q)[i] = q[i + 1]
           /\ \A n : Cardinality(Pending(q, n)) =
                         Count(Refers(Head(q), n)) + Cardinality(Pending(Tail(q), n))
  <1>1. /\ Head(q) \in Operation /\ Head(q) = q[1] /\ Tail(q) \in Seq(Operation)
        /\ Len(q) \in Nat /\ Len(q) >= 1 /\ Len(Tail(q)) = Len(q) - 1
        /\ \A i \in 1 .. Len(q) - 1 : Tail(q)[i] = q[i + 1]
    BY HeadTailProperties
  <1>2. ASSUME NEW n
        PROVE Cardinality(Pending(q, n)) =
                 Count(Refers(Head(q), n)) + Cardinality(Pending(Tail(q), n))
    <2>1. q = <<Head(q)>> \o Tail(q) /\ <<Head(q)>> \in Seq(Operation)
      <3> DEFINE a == <<Head(q)>>
                 x == a \o Tail(q)
      <3>1. a \in Seq(Operation) /\ Len(a) = 1 /\ a[1] = q[1]  BY <1>1
      <3>2. /\ x \in Seq(Operation) /\ Len(x) = Len(q)
            /\ \A i \in 1 .. 1 : x[i] = a[i]
            /\ \A i \in 1 .. Len(q) - 1 : x[1 + i] = Tail(q)[i]
        <4> HIDE DEF a
        <4>1. /\ x \in Seq(Operation) /\ Len(x) = Len(a) + Len(Tail(q))
              /\ \A i \in 1 .. Len(a) : x[i] = a[i]
              /\ \A i \in 1 .. Len(Tail(q)) : x[Len(a) + i] = Tail(q)[i]
          BY <1>1, <3>1, JoinLists
        <4>2. Len(x) = Len(q)  BY <1>1, <3>1, <4>1
        <4> QED  BY <1>1, <3>1, <4>1, <4>2
      <3> HIDE DEF a, x
      <3>3. ASSUME NEW i \in 1 .. Len(q) PROVE x[i] = q[i]
        <4>1. CASE i = 1  BY <3>1, <3>2, <4>1
        <4>2. CASE i # 1
          <5>1. i - 1 \in 1 .. Len(q) - 1 /\ 1 + (i - 1) = i /\ (i - 1) + 1 = i
            BY <1>1, <4>2
          <5>2. x[1 + (i - 1)] = Tail(q)[i - 1] /\ Tail(q)[i - 1] = q[(i - 1) + 1]
            BY <1>1, <3>2, <5>1, Zenon
          <5> QED  BY <5>1, <5>2
        <4> QED  BY <4>1, <4>2
      <3>4. x = q  BY <3>2, <3>3, SeqEqual
      <3> QED  BY <3>1, <3>4 DEF x, a
    <2>2. Cardinality(Pending(<<Head(q)>> \o Tail(q), n)) =
             Cardinality(Pending(<<Head(q)>>, n)) + Cardinality(Pending(Tail(q), n))
      BY <1>1, <2>1, PendingJoined
    <2> QED  BY <2>1, <2>2, PendingOne
  <1> QED  BY <1>1, <1>2

-----------------------------------------------------------------------------
(* Joining and shortening lists. *)
LEMMA RunOne ==
    ASSUME NEW o \in Operation, o.op \in Plain \ {"brelse"} => o.n # 0
    PROVE  Run(<<o>>) /\ <<o>> \in Seq(Operation) /\ <<o>> # <<>> /\ Len(<<o>>) = 1
           /\ <<o>>[1] = o
  <1> DEFINE q == <<o>>
  <1>1. q \in Seq(Operation) /\ q # <<>> /\ Len(q) = 1 /\ q[1] = o  OBVIOUS
  <1> HIDE DEF q
  <1>2. Run(q)
    <2>1. \A i \in 1 .. Len(q) : i = 1  BY <1>1
    <2>2. 1 .. Len(q) - 1 = {} /\ 2 .. Len(q) = {}  BY <1>1
    <2> QED  BY <1>1, <2>1, <2>2 DEF Run
  <1> QED  BY <1>1, <1>2 DEF q

LEMMA RunJoined ==
    ASSUME NEW a \in Seq(Operation), NEW b \in Seq(Operation), Run(a), Run(b),
           a # <<>>, b # <<>>, Follows(a[Len(a)], b[1]),
           b[1].op \notin {"write", "free_block", "read"},
           b[1].op = "free_inode" =>
             a[Len(a)].op \in {"truncate", "free_block"} /\ a[Len(a)].n = b[1].n
    PROVE  /\ Run(a \o b) /\ a \o b \in Seq(Operation) /\ a \o b # <<>>
           /\ Len(a \o b) = Len(a) + Len(b) /\ Len(a \o b) > 1
           /\ (a \o b)[1] = a[1] /\ (a \o b)[Len(a \o b)] = b[Len(b)]
  <1> DEFINE x == a \o b
             l == Len(a)
             m == Len(b)
  <1>1. /\ x \in Seq(Operation) /\ Len(x) = l + m /\ l \in Nat /\ m \in Nat
        /\ \A i \in 1 .. l : x[i] = a[i]
        /\ \A i \in 1 .. m : x[l + i] = b[i]
    BY JoinLists
  <1>2. l >= 1 /\ m >= 1  BY EmptySeq
  <1>3. /\ \A i \in 1 .. l : a[i].op \in Plain \ {"brelse"} => a[i].n # 0
        /\ \A i \in 1 .. l - 1 : Follows(a[i], a[i + 1])
        /\ \A i \in 2 .. l :
              /\ a[i].op \notin {"write", "free_block", "read"}
              /\ a[i].op = "free_inode" =>
                    a[i-1].op \in {"truncate", "free_block"} /\ a[i-1].n = a[i].n
    BY DEF Run
  <1>4. /\ \A i \in 1 .. m : b[i].op \in Plain \ {"brelse"} => b[i].n # 0
        /\ \A i \in 1 .. m - 1 : Follows(b[i], b[i + 1])
        /\ \A i \in 2 .. m :
              /\ b[i].op \notin {"write", "free_block", "read"}
              /\ b[i].op = "free_inode" =>
                    b[i-1].op \in {"truncate", "free_block"} /\ b[i-1].n = b[i].n
    BY DEF Run
  <1>5. /\ Follows(a[l], b[1]) /\ b[1].op \notin {"write", "free_block", "read"}
        /\ b[1].op = "free_inode" =>
             a[l].op \in {"truncate", "free_block"} /\ a[l].n = b[1].n
    OBVIOUS
  <1> HIDE DEF x, l, m
  <1>6. \A i \in 1 .. l + m : i \in 1 .. l \/ (i - l \in 1 .. m /\ i = l + (i - l))
    BY <1>1
  <1>7. ASSUME NEW i \in 1 .. l + m
        PROVE  (x[i] = a[i] /\ i \in 1 .. l) \/ (x[i] = b[i - l] /\ i - l \in 1 .. m)
    <2>1. CASE i \in 1 .. l  BY <1>1, <2>1
    <2>2. CASE i - l \in 1 .. m /\ i = l + (i - l)  BY <1>1, <2>2, Zenon
    <2> QED  BY <1>6, <2>1, <2>2
  <1>8. \A i \in 1 .. l + m : x[i].op \in Plain \ {"brelse"} => x[i].n # 0
    BY <1>3, <1>4, <1>7
  <1>9. ASSUME NEW i \in 1 .. (l + m) - 1 PROVE Follows(x[i], x[i + 1])
    <2>1. CASE i + 1 <= l
      <3>1. i \in 1 .. l /\ i + 1 \in 1 .. l /\ i \in 1 .. l - 1  BY <1>1, <2>1
      <3> QED  BY <1>1, <1>3, <3>1
    <2>2. CASE i = l
      <3>1. l \in 1 .. l /\ 1 \in 1 .. m  BY <1>1, <1>2
      <3>2. x[l] = a[l] /\ x[l + 1] = b[1]  BY <1>1, <3>1
      <3> QED  BY <1>5, <2>2, <3>2
    <2>3. CASE i > l
      <3>1. i - l \in 1 .. m - 1 /\ i - l \in 1 .. m /\ (i - l) + 1 \in 1 .. m
            /\ i = l + (i - l) /\ i + 1 = l + ((i - l) + 1)
        <4>1. l \in Nat /\ m \in Nat  BY <1>1
        <4> QED  BY <4>1, <2>3
      <3>2. x[i] = b[i - l] /\ x[i + 1] = b[(i - l) + 1]  BY <1>1, <3>1
      <3> QED  BY <1>4, <3>1, <3>2
    <2> QED  BY <1>1, <2>1, <2>2, <2>3
  <1>10. ASSUME NEW i \in 2 .. l + m
         PROVE  /\ x[i].op \notin {"write", "free_block", "read"}
                /\ x[i].op = "free_inode" =>
                      x[i-1].op \in {"truncate", "free_block"} /\ x[i-1].n = x[i].n
    <2>1. CASE i <= l
      <3>1. i \in 2 .. l /\ i \in 1 .. l /\ i - 1 \in 1 .. l  BY <1>1, <2>1
      <3> QED  BY <1>1, <1>3, <3>1
    <2>2. CASE i = l + 1
      <3>1. l \in 1 .. l /\ 1 \in 1 .. m /\ i - 1 = l  BY <1>1, <1>2, <2>2
      <3>2. x[i - 1] = a[l] /\ x[i] = b[1]  BY <1>1, <2>2, <3>1
      <3> QED  BY <1>5, <3>2
    <2>3. CASE i > l + 1
      <3>1. i - l \in 2 .. m /\ i - l \in 1 .. m /\ (i - l) - 1 \in 1 .. m
            /\ i = l + (i - l) /\ i - 1 = l + ((i - l) - 1)
        BY <1>1, <1>10, <2>3
      <3>2. x[i] = b[i - l] /\ x[i - 1] = b[(i - l) - 1]  BY <1>1, <3>1
      <3> QED  BY <1>4, <3>1, <3>2
    <2> QED  BY <1>1, <2>1, <2>2, <2>3
  <1>11. Run(x)
    BY <1>1, <1>8, <1>9, <1>10 DEF Run
  <1>12. x[1] = a[1] /\ x[l + m] = b[m] /\ l + m > 1 /\ x # <<>>
    <2>1. 1 \in 1 .. l /\ m \in 1 .. m  BY <1>1, <1>2
    <2>2. l + m > 1 /\ Len(x) # 0  BY <1>1, <1>2
    <2> QED  BY <1>1, <2>1, <2>2, EmptySeq
  <1> QED  BY <1>1, <1>11, <1>12 DEF x, l, m

LEMMA RunRest ==
    ASSUME NEW q \in Seq(Operation), q # <<>>, Run(q)
    PROVE  /\ Run(Tail(q)) /\ Tail(q) \in Seq(Operation)
           /\ Len(q) = 1 <=> Tail(q) = <<>>
           /\ Tail(q) # <<>> => /\ Tail(q)[Len(Tail(q))] = q[Len(q)]
                                /\ Tail(q)[1] = q[2] /\ Len(q) > 1
                                /\ Follows(q[1], Tail(q)[1])
                                /\ Tail(q)[1].op \notin {"write", "free_block", "read"}
                                /\ Tail(q)[1].op = "free_inode" =>
                                      /\ q[1].op \in {"truncate", "free_block"}
                                      /\ q[1].n = Tail(q)[1].n
  <1> DEFINE x == Tail(q)
             m == Len(q)
  <1>1. /\ x \in Seq(Operation) /\ m \in Nat /\ m >= 1 /\ Len(x) = m - 1
        /\ \A i \in 1 .. m - 1 : x[i] = q[i + 1]
    BY HeadAndRest
  <1>2. /\ \A i \in 1 .. m : q[i].op \in Plain \ {"brelse"} => q[i].n # 0
        /\ \A i \in 1 .. m - 1 : Follows(q[i], q[i + 1])
        /\ \A i \in 2 .. m :
              /\ q[i].op \notin {"write", "free_block", "read"}
              /\ q[i].op = "free_inode" =>
                    q[i-1].op \in {"truncate", "free_block"} /\ q[i-1].n = q[i].n
    BY DEF Run
  <1> HIDE DEF x, m
  <1>3. \A i \in 1 .. Len(x) : x[i].op \in Plain \ {"brelse"} => x[i].n # 0
    <2> SUFFICES ASSUME NEW i \in 1 .. Len(x)
                 PROVE  x[i].op \in Plain \ {"brelse"} => x[i].n # 0
      OBVIOUS
    <2>1. i \in 1 .. m - 1 /\ i + 1 \in 1 .. m  BY <1>1
    <2> QED  BY <1>1, <1>2, <2>1
  <1>4. ASSUME NEW i \in 1 .. Len(x) - 1 PROVE Follows(x[i], x[i + 1])
    <2>1. i \in 1 .. m - 1 /\ i + 1 \in 1 .. m - 1  BY <1>1
    <2> QED  BY <1>1, <1>2, <2>1
  <1>5. ASSUME NEW i \in 2 .. Len(x)
        PROVE  /\ x[i].op \notin {"write", "free_block", "read"}
               /\ x[i].op = "free_inode" =>
                     x[i-1].op \in {"truncate", "free_block"} /\ x[i-1].n = x[i].n
    <2>1. i \in 1 .. m - 1 /\ i - 1 \in 1 .. m - 1 /\ i + 1 \in 2 .. m
          /\ (i - 1) + 1 = i /\ (i + 1) - 1 = i
      BY <1>1
    <2>2. x[i] = q[i + 1] /\ x[i - 1] = q[i]  BY <1>1, <2>1
    <2> QED  BY <1>2, <2>1, <2>2
  <1>6. Run(x)  BY <1>3, <1>4, <1>5 DEF Run
  <1>7. m = 1 <=> x = <<>>  BY <1>1, EmptySeq
  <1>8. ASSUME x # <<>>
        PROVE  /\ x[Len(x)] = q[m] /\ x[1] = q[2] /\ m > 1 /\ Follows(q[1], x[1])
               /\ x[1].op \notin {"write", "free_block", "read"}
               /\ x[1].op = "free_inode" =>
                     q[1].op \in {"truncate", "free_block"} /\ q[1].n = x[1].n
    <2>1. m > 1 /\ m - 1 \in 1 .. m - 1 /\ (m - 1) + 1 = m /\ 1 \in 1 .. m - 1
          /\ 2 \in 2 .. m /\ 1 + 1 = 2 /\ 2 - 1 = 1
      BY <1>1, <1>7, <1>8
    <2>2. x[Len(x)] = q[m] /\ x[1] = q[2]  BY <1>1, <2>1
    <2>3. Follows(q[1], q[2])  BY <1>2, <2>1
    <2>4. /\ q[2].op \notin {"write", "free_block", "read"}
          /\ q[2].op = "free_inode" =>
                q[1].op \in {"truncate", "free_block"} /\ q[1].n = q[2].n
      BY <1>2, <2>1
    <2> QED  BY <2>1, <2>2, <2>3, <2>4
  <1> QED  BY <1>1, <1>6, <1>7, <1>8 DEF x, m

-----------------------------------------------------------------------------
(* The invariant before the first flaw, and what one process does to it. *)
Counts == \A n \in Inodes : core[n].count = Count(n = ROOT_INO) + Held(r, n)
Base   == TypeOK /\ Shapes /\ Table /\ LockHeld /\ Counts

(* An operation that only the last user of an inode has in its list. *)
Sole(q, n) == \E i \in DOMAIN q : q[i].op \in {"free_inode", "read"} /\ q[i].n = n

LEMMA Numbers == 0 \notin Inodes /\ 0 \notin Zones /\ ROOT_INO \in Inodes
  <1> DEFINE a == Cardinality(Inodes)
             b == Cardinality(Zones)
  <1>1. Inodes = 1 .. a /\ Zones = 1 .. b /\ ROOT_INO \in Inodes
    BY FsAssumption DEF ROOT_INO
  <1>2. a \in Nat /\ b \in Nat  BY FS_CardinalityType, FsAssumption
  <1> HIDE DEF a, b
  <1> QED  BY <1>1, <1>2

LEMMA CountType == ASSUME NEW b PROVE Count(b) \in 0 .. 1
  BY DEF Count

LEMMA HoldsType ==
    ASSUME NEW p \in Process, NEW n
    PROVE  Holds(p, n) \in Nat /\ Listed(p, n) \in Nat /\ Listed(p, n) <= Holds(p, n)
           /\ p.todo \in Seq(Operation)
           /\ (p.fd = n \/ p.dir = n \/ p.inode = n => Holds(p, n) >= 1)
  <1>1. p.todo \in Seq(Operation)  BY DEF Process
  <1>2. Listed(p, n) \in Nat  BY <1>1, PendingFinite DEF Listed
  <1>3. /\ Count(p.fd = n) \in 0 .. 1 /\ Count(p.dir = n) \in 0 .. 1
        /\ Count(p.inode = n) \in 0 .. 1
    BY CountType
  <1>4. /\ p.fd = n => Count(p.fd = n) = 1
        /\ p.dir = n => Count(p.dir = n) = 1
        /\ p.inode = n => Count(p.inode = n) = 1
    BY DEF Count
  <1> DEFINE a == Count(p.fd = n)
             b == Count(p.dir = n)
             c == Count(p.inode = n)
             d == Listed(p, n)
  <1>5. Holds(p, n) = a + b + c + d  BY DEF Holds
  <1>6. a \in 0 .. 1 /\ b \in 0 .. 1 /\ c \in 0 .. 1 /\ d \in Nat  BY <1>2, <1>3
  <1>7. p.fd = n \/ p.dir = n \/ p.inode = n => a = 1 \/ b = 1 \/ c = 1  BY <1>4
  <1> HIDE DEF a, b, c, d
  <1>8. Holds(p, n) \in Nat /\ d <= Holds(p, n)
        /\ (a = 1 \/ b = 1 \/ c = 1 => Holds(p, n) >= 1)
    BY <1>5, <1>6
  <1> QED  BY <1>1, <1>6, <1>7, <1>8 DEF d

(* A process in user mode holds its file only. *)
LEMMA UserHolds ==
    ASSUME NEW fd \in Ino0, NEW n \in Inodes
    PROVE  User(fd) \in Process /\ Holds(User(fd), n) = Count(fd = n)
  <1>1. User(fd) \in Process
    <2>1. <<>> \in Seq(Operation) /\ <<>> \in Seq(STRING)  OBVIOUS
    <2>2. {} \in SUBSET Flags /\ 0 \in Ino0 /\ 0 \in Zone0 /\ 0 \in 0 .. Slots
      BY FsAssumption DEF Ino0, Zone0
    <2> QED  BY <2>1, <2>2 DEF User, Process
  <1>2. /\ User(fd).todo = <<>> /\ User(fd).dir = 0 /\ User(fd).inode = 0
        /\ User(fd).fd = fd
    BY DEF User
  <1>3. Listed(User(fd), n) = 0  BY <1>2, PendingNone DEF Listed
  <1>4. Count(0 = n) = 0  BY Numbers DEF Count
  <1>5. Count(fd = n) \in 0 .. 1  BY CountType
  <1> QED  BY <1>1, <1>2, <1>3, <1>4, <1>5 DEF Holds

LEMMA ReturnHolds ==
    ASSUME NEW p \in Process, NEW n \in Inodes,
           p.todo = <<>> => p.dir = 0 /\ p.inode = 0
    PROVE  Return(p) \in Process /\ Holds(Return(p), n) = Holds(p, n)
  <1>1. CASE p.todo # <<>>  BY <1>1 DEF Return
  <1>2. CASE p.todo = <<>>
    <2>1. p.fd \in Ino0 /\ Return(p) = User(p.fd)  BY <1>2 DEF Process, Return
    <2>2. Listed(p, n) = 0  BY <1>2, PendingNone DEF Listed
    <2>3. Count(0 = n) = 0  BY Numbers DEF Count
    <2>4. Count(p.fd = n) \in 0 .. 1  BY CountType
    <2>5. Holds(p, n) = Count(p.fd = n)  BY <1>2, <2>2, <2>3, <2>4 DEF Holds
    <2> QED  BY <2>1, <2>5, UserHolds
  <1> QED  BY <1>1, <1>2

(* Two processes hold at least what each of them holds. *)
LEMMA HeldByTwo ==
    ASSUME NEW R \in [Tasks -> Process], NEW n \in Inodes,
           NEW t \in Tasks, NEW u \in Tasks, t # u
    PROVE  /\ Held(R, n) \in Nat /\ Holds(R[t], n) \in Nat /\ Holds(R[u], n) \in Nat
           /\ Held(R, n) >= Holds(R[t], n) + Holds(R[u], n)
  <1> DEFINE v == User(0)
             S == [R EXCEPT ![t] = v]
             T == [S EXCEPT ![u] = v]
  <1>1. v \in Process /\ Holds(v, n) = 0
    <2>1. 0 \in Ino0  BY DEF Ino0
    <2>2. Count(0 = n) = 0  BY Numbers DEF Count
    <2> QED  BY <2>1, <2>2, UserHolds
  <1> HIDE DEF v
  <1>2. S \in [Tasks -> Process] /\ S[u] = R[u] /\ S[t] = v
        /\ \A w \in Tasks \ {t} : S[w] = R[w]
    BY <1>1
  <1> HIDE DEF S
  <1>3. T \in [Tasks -> Process] /\ T[u] = v /\ \A w \in Tasks \ {u} : T[w] = S[w]
    BY <1>1, <1>2
  <1> HIDE DEF T
  <1>4. /\ Held(R, n) \in Nat /\ Held(S, n) \in Nat /\ Holds(R[t], n) \in Nat
        /\ Held(S, n) = Held(R, n) - Holds(R[t], n) + Holds(S[t], n)
    BY <1>2, HeldChanges
  <1>5. /\ Held(T, n) \in Nat /\ Holds(S[u], n) \in Nat
        /\ Held(T, n) = Held(S, n) - Holds(S[u], n) + Holds(T[u], n)
    BY <1>2, <1>3, HeldChanges
  <1> DEFINE a == Held(R, n)
             b == Held(S, n)
             c == Held(T, n)
             x == Holds(R[t], n)
             y == Holds(R[u], n)
  <1>6. a \in Nat /\ b \in Nat /\ c \in Nat /\ x \in Nat /\ y \in Nat
        /\ b = a - x + 0 /\ c = b - y + 0
    BY <1>1, <1>2, <1>3, <1>4, <1>5
  <1> HIDE DEF a, b, c, x, y
  <1>7. a >= x + y  BY <1>6
  <1> QED  BY <1>6, <1>7 DEF a, x, y

LEMMA HeldByOne ==
    ASSUME NEW R \in [Tasks -> Process], NEW n \in Inodes,
           NEW t \in Tasks
    PROVE  /\ Held(R, n) \in Nat /\ Holds(R[t], n) \in Nat
           /\ Held(R, n) >= Holds(R[t], n)
  <1> DEFINE v == User(0)
             S == [R EXCEPT ![t] = v]
  <1>1. v \in Process /\ Holds(v, n) = 0
    <2>1. 0 \in Ino0  BY DEF Ino0
    <2>2. Count(0 = n) = 0  BY Numbers DEF Count
    <2> QED  BY <2>1, <2>2, UserHolds
  <1> HIDE DEF v
  <1>2. S \in [Tasks -> Process] /\ S[t] = v /\ \A w \in Tasks \ {t} : S[w] = R[w]
    BY <1>1
  <1> HIDE DEF S
  <1>3. /\ Held(R, n) \in Nat /\ Held(S, n) \in Nat /\ Holds(R[t], n) \in Nat
        /\ Held(S, n) = Held(R, n) - Holds(R[t], n) + Holds(S[t], n)
    BY <1>2, HeldChanges
  <1> DEFINE a == Held(R, n)
             b == Held(S, n)
             x == Holds(R[t], n)
  <1>4. a \in Nat /\ b \in Nat /\ x \in Nat /\ b = a - x + 0
    BY <1>1, <1>2, <1>3
  <1> HIDE DEF a, b, x
  <1>5. a >= x  BY <1>4
  <1> QED  BY <1>4, <1>5 DEF a, x

(* Whoever holds an inode finds it in the table; with one user, nobody     *)
(* else holds it, and it is not the root.                                  *)
LEMMA HeldIsIn ==
    ASSUME TypeOK, Table, Counts, NEW t \in Tasks, NEW n \in Inodes,
           Holds(r[t], n) >= 1
    PROVE  core[n].count \in Nat /\ core[n].count >= 1 /\ core[n].in
           /\ (n = ROOT_INO => core[n].count >= 2)
  <1>1. r \in [Tasks -> Process] /\ core[n].count \in Nat
    BY DEF TypeOK, Minode
  <1>2. Held(r, n) \in Nat /\ Held(r, n) >= 1
    <2>1. /\ Held(r, n) \in Nat /\ Holds(r[t], n) \in Nat
          /\ Held(r, n) >= Holds(r[t], n)
      BY <1>1, HeldByOne
    <2> QED  BY <2>1
  <1>3. core[n].count = Count(n = ROOT_INO) + Held(r, n)  BY DEF Counts
  <1>4. Count(n = ROOT_INO) \in 0 .. 1 /\ (n = ROOT_INO => Count(n = ROOT_INO) = 1)
    BY CountType DEF Count
  <1>5. core[n].count >= 1 /\ (n = ROOT_INO => core[n].count >= 2)
    BY <1>2, <1>3, <1>4
  <1>6. core[n].in
    <2>1. ~core[n].in => core[n] = Unused  BY DEF Table
    <2>2. Unused.count = 0  BY DEF Unused
    <2> QED  BY <1>5, <2>1, <2>2
  <1> QED  BY <1>1, <1>5, <1>6

LEMMA Alone ==
    ASSUME TypeOK, Table, Counts, NEW t \in Tasks, NEW n \in Inodes,
           Holds(r[t], n) >= 1, core[n].count = 1
    PROVE  /\ n # ROOT_INO /\ Holds(r[t], n) = 1
           /\ \A u \in Tasks : u # t => Holds(r[u], n) = 0
  <1>0. r \in [Tasks -> Process]  BY DEF TypeOK
  <1>1. n # ROOT_INO  BY HeldIsIn
  <1>2. Count(n = ROOT_INO) = 0  BY <1>1 DEF Count
  <1>3. Held(r, n) \in Nat /\ Held(r, n) = 1
    <2>1. Held(r, n) \in Nat  BY <1>0, HeldByOne
    <2>2. 1 = 0 + Held(r, n)  BY <1>2 DEF Counts
    <2> QED  BY <2>1, <2>2
  <1>4. Holds(r[t], n) = 1
    <2>1. Holds(r[t], n) \in Nat /\ Held(r, n) >= Holds(r[t], n)
      BY <1>0, HeldByOne
    <2> QED  BY <1>3, <2>1
  <1>5. ASSUME NEW u \in Tasks, u # t PROVE Holds(r[u], n) = 0
    <2>1. /\ Holds(r[t], n) \in Nat /\ Holds(r[u], n) \in Nat
          /\ Held(r, n) >= Holds(r[t], n) + Holds(r[u], n)
      BY <1>0, <1>5, HeldByTwo
    <2> QED  BY <1>3, <1>4, <2>1
  <1> QED  BY <1>1, <1>4, <1>5

(* A process with another list. *)
With(p, q) == [p EXCEPT !.todo = q]

LEMMA NewList ==
    ASSUME NEW p \in Process, NEW q \in Seq(Operation),
           NEW s, s = With(p, q)
    PROVE  /\ s \in Process /\ s.todo = q /\ s.fd = p.fd /\ s.call = p.call
           /\ s.path = p.path /\ s.new = p.new /\ s.dir = p.dir /\ s.inode = p.inode
           /\ s.nr = p.nr /\ s.slot = p.slot /\ s.zone = p.zone
           /\ \A n : Holds(s, n) = Count(p.fd = n) + Count(p.dir = n)
                         + Count(p.inode = n) + Cardinality(Pending(q, n))
  <1>1. /\ s \in Process /\ s.todo = q /\ s.fd = p.fd /\ s.call = p.call
        /\ s.path = p.path /\ s.new = p.new /\ s.dir = p.dir /\ s.inode = p.inode
        /\ s.nr = p.nr /\ s.slot = p.slot /\ s.zone = p.zone
    BY DEF Process, With
  <1> QED  BY <1>1 DEF Holds, Listed

LEMMA UserShape == ASSUME NEW fd PROVE Shape(User(fd))
  <1>1. User(fd).todo = <<>> /\ User(fd).fd = fd  BY DEF User
  <1> QED  BY <1>1 DEF Shape

(* The list of a process grows or shrinks at its head. *)
LEMMA Relisted ==
    ASSUME NEW p \in Process, Shape(p), p.todo # <<>>, p.todo[1].op \in Plain,
           NEW q \in Seq(Operation), q # <<>>, Run(q), q[1].op # "read",
           \/ /\ q[Len(q)].op = p.todo[Len(p.todo)].op
              /\ p.todo[Len(p.todo)].op \in Plain \/ Len(q) > 1
           \/ /\ p.todo[Len(p.todo)].op \in Plain
              /\ q[Len(q)].op \in Plain \ (Open \cup {"fd"})
    PROVE  Shape(With(p, q))
  <1> DEFINE s == With(p, q)
             m == Len(p.todo)
             l == Len(q)
             last == p.todo[m].op
  <1>1. /\ s \in Process /\ s.todo = q /\ s.fd = p.fd /\ s.call = p.call
        /\ s.path = p.path /\ s.new = p.new /\ s.dir = p.dir /\ s.inode = p.inode
        /\ s.nr = p.nr /\ s.slot = p.slot /\ s.zone = p.zone
    BY NewList
  <1>2. Run(p.todo) /\ last \notin Open /\ Holding(p, last, m > 1)
    BY DEF Shape
  <1>3. m \in Nat /\ m >= 1 /\ l \in Nat /\ l >= 1
    <2>1. p.todo \in Seq(Operation)  BY DEF Process
    <2> QED  BY <2>1, EmptySeq
  <1>4. last \notin Plain => m > 1
    BY <1>3
  <1>5. last \notin Copying
    <2>1. last \in Copying => m > 1  BY <1>4 DEF Plain, Copying
    <2>2. m > 1 => Follows(p.todo[m - 1], p.todo[m])
      <3>1. m > 1 => m - 1 \in 1 .. m - 1 /\ (m - 1) + 1 = m  BY <1>3
      <3> QED  BY <1>2, <3>1 DEF Run
    <2>3. ~Follows(p.todo[m - 1], p.todo[m]) \/ last \notin Copying
      BY DEF Follows, Copying, Plain, LooksUp
    <2> QED  BY <2>1, <2>2, <2>3
  <1> HIDE DEF s
  <1>6. CASE q[l].op = last /\ (last \in Plain \/ l > 1)
    <2>1. Holding(s, last, l > 1)
      <3>1. last \in Plain => last \notin LooksUp  BY DEF Plain, LooksUp
      <3> HIDE DEF last, l, m
      <3>2. CASE last \in Plain
        BY <1>1, <1>2, <1>5, <3>1, <3>2 DEF Holding, Plain, LooksUp
      <3>3. CASE last \notin Plain
        <4>1. (m > 1) = TRUE /\ (l > 1) = TRUE  BY <1>4, <1>6, <3>3
        <4>2. Holding(p, last, TRUE)  BY <1>2, <4>1
        <4>3. Holding(s, last, TRUE)  BY <1>1, <1>5, <3>3, <4>2 DEF Holding
        <4> QED  BY <4>1, <4>3
      <3> QED  BY <3>2, <3>3
    <2> QED  BY <1>1, <1>2, <1>6, <2>1 DEF Shape, s
  <1>7. CASE last \in Plain /\ q[l].op \in Plain \ (Open \cup {"fd"})
    <2> DEFINE x == q[l].op
    <2>1. Holding(s, x, l > 1)
      <3>1. last \notin LooksUp /\ x \notin LooksUp /\ x \in Plain /\ x # "fd"
            /\ x \notin Copying
        BY <1>7 DEF Plain, LooksUp, Copying
      <3> HIDE DEF last, l, m, x
      <3>2. p.call = "open" => p.fd = 0  BY <1>2 DEF Holding
      <3>3. p.nr = 0 /\ p.dir = 0 /\ p.inode = 0  BY <1>2, <1>7, <3>1 DEF Holding
      <3> QED  BY <1>1, <3>1, <3>2, <3>3 DEF Holding, Plain
    <2> QED  BY <1>1, <1>7, <2>1 DEF Shape, s
  <1> QED  BY <1>6, <1>7

(* The first operation of a list is done. *)
LEMMA Popped ==
    ASSUME NEW p \in Process, Shape(p), p.todo # <<>>,
           p.todo[1].op \in Plain,
           NEW s, s = With(p, Tail(p.todo))
    PROVE  /\ s \in Process /\ Shape(Return(s)) /\ s.todo = Tail(p.todo)
           /\ s.todo = <<>> => s.dir = 0 /\ s.inode = 0
           /\ s.todo # <<>> => s.todo[1].op \notin {"read", "write"}
           /\ \A n : Holds(s, n) = Holds(p, n) - Count(Refers(p.todo[1], n))
           /\ \A n : Sole(s.todo, n) => Sole(p.todo, n)
  <1> DEFINE q == p.todo
             x == Tail(q)
  <1>1. q \in Seq(Operation) /\ q # <<>>  BY DEF Process
  <1>2. /\ Run(q) /\ q[Len(q)].op \notin Open
        /\ Holding(p, q[Len(q)].op, Len(q) > 1)
    BY DEF Shape
  <1>3. /\ Run(x) /\ x \in Seq(Operation) /\ (Len(q) = 1 <=> x = <<>>)
        /\ x # <<>> => /\ x[Len(x)] = q[Len(q)] /\ x[1] = q[2] /\ Len(q) > 1
                       /\ Follows(q[1], x[1])
                       /\ x[1].op \notin {"write", "free_block", "read"}
    BY <1>1, <1>2, RunRest
  <1>s. s = With(p, x)  OBVIOUS
  <1> HIDE DEF x
  <1>4. /\ s \in Process /\ s.todo = x /\ s.dir = p.dir /\ s.inode = p.inode
        /\ s.fd = p.fd
        /\ \A n : Holds(s, n) = Count(p.fd = n) + Count(p.dir = n)
                                + Count(p.inode = n) + Cardinality(Pending(x, n))
    BY <1>s, <1>3, NewList
  <1>5. /\ Len(q) \in Nat /\ Len(q) >= 1 /\ Len(x) = Len(q) - 1 /\ q[1] = Head(q)
        /\ \A i \in 1 .. Len(q) - 1 : x[i] = q[i + 1]
        /\ \A n : Cardinality(Pending(q, n)) =
                         Count(Refers(q[1], n)) + Cardinality(Pending(x, n))
    BY <1>1, HeadAndRest DEF x
  <1> HIDE DEF q
  <1>6. x = <<>> => p.dir = 0 /\ p.inode = 0
    <2>1. x = <<>> => q[Len(q)].op \in Plain  BY <1>3 DEF q
    <2> QED  BY <1>2, <2>1 DEF Holding
  <1>7. ASSUME NEW n PROVE Holds(s, n) = Holds(p, n) - Count(Refers(q[1], n))
    <2> DEFINE a == Count(p.fd = n)
               b == Count(p.dir = n)
               c == Count(p.inode = n)
               d == Cardinality(Pending(x, n))
               e == Count(Refers(q[1], n))
    <2>1. Holds(s, n) = a + b + c + d  BY <1>4
    <2>2. Holds(p, n) = a + b + c + (e + d)  BY <1>5 DEF Holds, Listed, q
    <2>3. a \in 0 .. 1 /\ b \in 0 .. 1 /\ c \in 0 .. 1 /\ e \in 0 .. 1  BY CountType
    <2>4. d \in Nat  BY <1>3, PendingFinite
    <2> HIDE DEF a, b, c, d, e
    <2>5. Holds(s, n) = Holds(p, n) - e  BY <2>1, <2>2, <2>3, <2>4
    <2> QED  BY <2>5 DEF e
  <1>8. ASSUME NEW n, Sole(x, n) PROVE Sole(q, n)
    <2>1. PICK i \in DOMAIN x : x[i].op \in {"free_inode", "read"} /\ x[i].n = n
      BY <1>8 DEF Sole
    <2>2. i \in 1 .. Len(q) - 1 /\ i + 1 \in 1 .. Len(q)
      <3>1. DOMAIN x = 1 .. Len(x)  BY <1>3
      <3> QED  BY <1>5, <3>1
    <2>3. x[i] = q[i + 1] /\ i + 1 \in DOMAIN q  BY <1>1, <1>5, <2>2
    <2> QED  BY <2>1, <2>3 DEF Sole
  <1>9. Shape(Return(s))
    <2>1. CASE x = <<>>
      <3>1. Return(s) = User(s.fd)  BY <1>4, <2>1 DEF Return
      <3> QED  BY <3>1, UserShape
    <2>2. CASE x # <<>>
      <3>1. x[1].op # "read"  BY <1>3, <2>2
      <3>2. q[Len(q)].op \in Plain \/ Len(x) > 1
        <4>1. CASE Len(x) = 1
          <5>1. q[Len(q)].op \in Plain \cup {"iget"}
            <6>1. (q[1].op # "brelse" /\ x[1] = q[Len(q)]) \/ x[1].op = "iput"
              BY <1>3, <2>2, <4>1 DEF Follows, Plain, q
            <6> QED  BY <1>3, <2>2, <4>1, <6>1 DEF Follows, Plain, q
          <5> QED  BY <1>2, <5>1 DEF Open
        <4>2. CASE Len(x) > 1  BY <4>2
        <4>3. Len(x) = 1 \/ Len(x) > 1
          <5> DEFINE m == Len(x)
          <5>1. m \in Nat /\ m # 0  BY <1>3, <2>2, EmptySeq
          <5> HIDE DEF m
          <5>2. m = 1 \/ m > 1  BY <5>1
          <5> QED  BY <5>2 DEF m
        <4> QED  BY <4>1, <4>2, <4>3, Zenon
      <3>3. Shape(With(p, x))
        BY <1>1, <1>3, <2>2, <3>1, <3>2, Relisted DEF q
      <3> QED  BY <1>s, <1>4, <2>2, <3>3 DEF Return
    <2> QED  BY <2>1, <2>2
  <1> QED  BY <1>3, <1>4, <1>6, <1>7, <1>8, <1>9 DEF q, x

-----------------------------------------------------------------------------
(* What a step of one process must do for the invariant. *)
Store == /\ disk \in [Inodes -> [nlinks : Int, mode : Modes, zone : Zone0]]
         /\ core \in [Inodes -> Minode]
         /\ dirs \in [Zones -> [1 .. Slots -> [ino : Ino0, name : STRING \cup {"none"}]]]
         /\ imap \subseteq Inodes /\ zmap \subseteq Zones /\ panic \in BOOLEAN
Balanced(t, p, n) ==
    /\ core'[n].count = core[n].count - Holds(r[t], n) + Holds(p, n)
    /\ ~core'[n].in => core'[n] = Unused
    /\ Sole(p.todo, n) => core'[n].count = 1
    /\ Holds(p, n) > Holds(r[t], n) => ~Freeing(n) /\ ~Reading(n)

LEMMA SoleUse ==
    ASSUME NEW n
    PROVE  Freeing(n) \/ Reading(n) <=> \E u \in Tasks : Sole(r[u].todo, n)
  BY DEF Freeing, Reading, Has, Sole

LEMMA SoleUseNext ==
    ASSUME NEW n
    PROVE  (Freeing(n) \/ Reading(n))' <=> \E u \in Tasks : Sole(r'[u].todo, n)
  BY DEF Freeing, Reading, Has, Sole

(* Who is about to free or reads an inode holds it. *)
LEMMA SoleHolds ==
    ASSUME NEW p \in Process, NEW n, Sole(p.todo, n)
    PROVE  Listed(p, n) \in Nat /\ Listed(p, n) >= 1 /\ Holds(p, n) >= 1
  <1>1. p.todo \in Seq(Operation)  BY DEF Process
  <1>2. PICK i \in DOMAIN p.todo : p.todo[i].op \in {"free_inode", "read"} /\ p.todo[i].n = n
    BY DEF Sole
  <1>3. i \in Pending(p.todo, n)  BY <1>2 DEF Pending, Refers
  <1>4. IsFiniteSet(Pending(p.todo, n)) /\ Cardinality(Pending(p.todo, n)) \in Nat
    BY <1>1, PendingFinite
  <1>5. Cardinality(Pending(p.todo, n)) # 0  BY <1>3, <1>4, FS_EmptySet
  <1>6. Listed(p, n) \in Nat /\ Listed(p, n) >= 1  BY <1>4, <1>5 DEF Listed
  <1>7. Holds(p, n) \in Nat /\ Listed(p, n) <= Holds(p, n)  BY HoldsType
  <1> QED  BY <1>6, <1>7

LEMMA GoStep ==
    ASSUME TypeOK, NEW t \in Tasks, NEW p \in Process, Go(t, p),
           p.todo = <<>> => p.dir = 0 /\ p.inode = 0
    PROVE  /\ r' \in [Tasks -> Process] /\ r'[t] = Return(p)
           /\ \A u \in Tasks \ {t} : r'[u] = r[u]
           /\ cur' \in Tasks \cup {Null}
           /\ \A n \in Inodes : Holds(r'[t], n) = Holds(p, n)
           /\ \A n : Sole(r'[t].todo, n) <=> Sole(p.todo, n)
  <1> DEFINE v == Return(p)
  <1>1. 1 \in Inodes /\ v \in Process /\ \A n \in Inodes : Holds(v, n) = Holds(p, n)
    BY ReturnHolds, FsAssumption
  <1>2. v.todo = p.todo  BY DEF Return, User
  <1>3. r' = [r EXCEPT ![t] = v] /\ cur' \in {t, Null}  BY DEF Go
  <1> HIDE DEF v
  <1>4. r \in [Tasks -> Process]  BY DEF TypeOK
  <1>5. r' \in [Tasks -> Process] /\ r'[t] = v /\ \A u \in Tasks \ {t} : r'[u] = r[u]
    BY <1>1, <1>3, <1>4
  <1> QED  BY <1>1, <1>2, <1>3, <1>5 DEF v

LEMMA Moves ==
    ASSUME Base, NEW t \in Tasks, NEW p \in Process, Go(t, p),
           p.todo = <<>> => p.dir = 0 /\ p.inode = 0, Shape(Return(p)),
           Store', LockHeld', \A n \in Inodes : Balanced(t, p, n)
    PROVE  Base'
  <1>1. /\ r' \in [Tasks -> Process] /\ r'[t] = Return(p)
        /\ \A u \in Tasks \ {t} : r'[u] = r[u]
        /\ cur' \in Tasks \cup {Null}
        /\ \A n \in Inodes : Holds(r'[t], n) = Holds(p, n)
        /\ \A n : Sole(r'[t].todo, n) <=> Sole(p.todo, n)
    BY GoStep DEF Base
  <1>2. TypeOK'  BY <1>1 DEF TypeOK, Store
  <1>3. Shapes'  BY <1>1 DEF Base, Shapes
  <1>4. r \in [Tasks -> Process] /\ core \in [Inodes -> Minode]  BY DEF Base, TypeOK
  <1>5. Counts'
    <2> SUFFICES ASSUME NEW n \in Inodes
                 PROVE  core'[n].count = Count(n = ROOT_INO) + Held(r', n)
      BY DEF Counts, Held, Places
    <2>1. /\ Held(r, n) \in Nat /\ Held(r', n) \in Nat /\ Holds(r[t], n) \in Nat
          /\ Holds(r'[t], n) \in Nat
          /\ Held(r', n) = Held(r, n) - Holds(r[t], n) + Holds(r'[t], n)
      <3> DEFINE S == r'
      <3>1. S \in [Tasks -> Process] /\ r \in [Tasks -> Process]  BY <1>1, <1>4
      <3>2. \A u \in Tasks \ {t} : S[u] = r[u]  BY <1>1
      <3> HIDE DEF S
      <3>3. /\ Held(r, n) \in Nat /\ Held(S, n) \in Nat
            /\ Holds(r[t], n) \in Nat /\ Holds(S[t], n) \in Nat
            /\ Held(S, n) = Held(r, n) - Holds(r[t], n) + Holds(S[t], n)
        BY <3>1, <3>2, HeldChanges, SMTT(30)
      <3> QED  BY <3>3 DEF S
    <2>2. core[n].count = Count(n = ROOT_INO) + Held(r, n)  BY DEF Base, Counts
    <2>3. core'[n].count = core[n].count - Holds(r[t], n) + Holds(r'[t], n)
      BY <1>1 DEF Balanced
    <2>4. Count(n = ROOT_INO) \in 0 .. 1  BY CountType
    <2> QED  BY <2>1, <2>2, <2>3, <2>4
  <1>6. Table'
    <2>1. ASSUME NEW n \in Inodes PROVE ~core'[n].in => core'[n] = Unused
      BY DEF Balanced
    <2>2. ASSUME NEW n \in Inodes, NEW u \in Tasks, Sole(r'[u].todo, n)
          PROVE  core'[n].count = 1
      <3>1. CASE u = t  BY <1>1, <2>2, <3>1 DEF Balanced
      <3>2. CASE u # t
        <4>1. r'[u] = r[u] /\ Sole(r[u].todo, n)  BY <1>1, <2>2, <3>2
        <4>2. core[n].count = 1 /\ (Freeing(n) \/ Reading(n))
          BY <4>1, SoleUse DEF Base, Table
        <4>3. Holds(r[u], n) >= 1  BY <1>4, <4>1, SoleHolds
        <4>4. Holds(r[t], n) = 0
          <5>1. TypeOK /\ Table /\ Counts  BY DEF Base
          <5> QED  BY <3>2, <4>2, <4>3, <5>1, Alone
        <4>5. Holds(p, n) \in Nat /\ ~(Holds(p, n) > Holds(r[t], n))
          BY <4>2, HoldsType DEF Balanced
        <4>6. core'[n].count = core[n].count - Holds(r[t], n) + Holds(p, n)
          BY DEF Balanced
        <4> QED  BY <4>2, <4>4, <4>5, <4>6
      <3> QED  BY <3>1, <3>2
    <2>3. ASSUME NEW n \in Inodes, (Freeing(n) \/ Reading(n))' PROVE core'[n].count = 1
      BY <2>2, <2>3, SoleUseNext
    <2> QED  BY <2>1, <2>3 DEF Table
  <1> QED  BY <1>2, <1>3, <1>5, <1>6 DEF Base

(* The lock of an inode follows the operation at the head of a list. *)
Takes(q, n) == q # <<>> /\ Head(q).op \in {"read", "write"} /\ Head(q).n = n
LockMoves(t, p, n) ==
    /\ core'[n].lock <=> (core[n].lock /\ ~Takes(r[t].todo, n)) \/ Takes(p.todo, n)
    /\ Takes(p.todo, n) /\ ~Takes(r[t].todo, n) => ~core[n].lock

LEMMA LockStep ==
    ASSUME TypeOK, LockHeld, NEW t \in Tasks, NEW p \in Process, Go(t, p),
           p.todo = <<>> => p.dir = 0 /\ p.inode = 0,
           \A n \in Inodes : LockMoves(t, p, n)
    PROVE  LockHeld'
  <1>1. r'[t] = Return(p) /\ \A u \in Tasks \ {t} : r'[u] = r[u]
    BY GoStep
  <1>2. r'[t].todo = p.todo  BY <1>1 DEF Return, User
  <1>3. ASSUME NEW n \in Inodes
        PROVE  /\ core'[n].lock <=> \E u \in Tasks : Locking(u, n)'
               /\ \A u, v \in Tasks : Locking(u, n)' /\ Locking(v, n)' => u = v
    <2>1. \A u \in Tasks : Locking(u, n) <=> Takes(r[u].todo, n)
      BY DEF Locking, At, Arg, Takes
    <2>2. /\ Locking(t, n)' <=> Takes(p.todo, n)
          /\ \A u \in Tasks \ {t} : Locking(u, n)' <=> Takes(r[u].todo, n)
      BY <1>1, <1>2 DEF Locking, At, Arg, Takes
    <2>3. /\ core[n].lock <=> \E u \in Tasks : Takes(r[u].todo, n)
          /\ \A u, v \in Tasks : Takes(r[u].todo, n) /\ Takes(r[v].todo, n) => u = v
      BY <2>1 DEF LockHeld
    <2>4. /\ core'[n].lock <=> (core[n].lock /\ ~Takes(r[t].todo, n)) \/ Takes(p.todo, n)
          /\ Takes(p.todo, n) /\ ~Takes(r[t].todo, n) => ~core[n].lock
      BY DEF LockMoves
    <2> QED  BY <2>2, <2>3, <2>4, Zenon
  <1> QED  BY <1>3 DEF LockHeld

(* A step that gives and takes nothing. *)
Same(n) == /\ core'[n].count = core[n].count /\ core'[n].in = core[n].in
           /\ core'[n].lock = core[n].lock
           /\ ~core[n].in => core'[n] = core[n]
NoTransfer(q) == q # <<>> => Head(q).op \notin {"read", "write"}

LEMMA QuietStep ==
    ASSUME Base, NEW t \in Tasks, NEW p \in Process, Go(t, p),
           p.todo = <<>> => p.dir = 0 /\ p.inode = 0, Shape(Return(p)),
           Store', \A n \in Inodes : Same(n),
           \A n \in Inodes : Holds(p, n) = Holds(r[t], n),
           \A n \in Inodes : Sole(p.todo, n) => Sole(r[t].todo, n),
           NoTransfer(r[t].todo), NoTransfer(p.todo)
    PROVE  Base'
  <1>1. TypeOK /\ Shapes /\ Table /\ LockHeld /\ Counts  BY DEF Base
  <1>2. LockHeld'
    <2>1. \A n \in Inodes : LockMoves(t, p, n)
      BY DEF LockMoves, Same, Takes, NoTransfer
    <2> QED  BY <1>1, <2>1, LockStep
  <1>3. ASSUME NEW n \in Inodes PROVE Balanced(t, p, n)
    <2>1. Holds(p, n) \in Nat /\ Holds(p, n) = Holds(r[t], n)  BY HoldsType
    <2>2. core'[n].count = core[n].count /\ core[n].count \in Nat
      BY <1>1 DEF Same, TypeOK, Minode
    <2>3. core'[n].count = core[n].count - Holds(r[t], n) + Holds(p, n)
      BY <2>1, <2>2
    <2>4. ~core'[n].in => core'[n] = Unused
      BY <1>1 DEF Same, Table
    <2>5. Sole(p.todo, n) => core'[n].count = 1
      <3>1. Sole(r[t].todo, n) => core[n].count = 1
        BY <1>1, SoleUse DEF Table
      <3> QED  BY <2>2, <3>1
    <2>6. ~(Holds(p, n) > Holds(r[t], n))  BY <2>1
    <2> QED  BY <2>3, <2>4, <2>5, <2>6 DEF Balanced
  <1> QED  BY <1>2, <1>3, Moves

-----------------------------------------------------------------------------
(* The operations on one inode. *)
LEMMA AtHead ==
    ASSUME Base, NEW t \in Tasks, NEW op, Now(t, op)
    PROVE  /\ r[t] \in Process /\ Shape(r[t]) /\ r[t].todo \in Seq(Operation)
           /\ r[t].todo # <<>> /\ Run(r[t].todo) /\ r[t].todo[1] = Head(r[t].todo)
           /\ r[t].todo[1].op = op /\ r[t].todo[1].n = Arg(t) /\ op \in Ops
           /\ Arg(t) \in Ino0 /\ (op \in Plain \ {"brelse"} => Arg(t) \in Inodes)
           /\ r[t].todo[Len(r[t].todo)].op \notin Open
           /\ Holding(r[t], r[t].todo[Len(r[t].todo)].op, Len(r[t].todo) > 1)
           /\ Len(r[t].todo) \in Nat /\ Len(r[t].todo) >= 1
           /\ Rest(t) = Tail(r[t].todo)
  <1> DEFINE q == r[t].todo
  <1>1. r[t] \in Process /\ Shape(r[t])  BY DEF Base, TypeOK, Shapes
  <1>2. q \in Seq(Operation)  BY <1>1 DEF Process
  <1>3. q # <<>> /\ Head(q).op = op  BY DEF Now
  <1>4. Run(q) /\ q[Len(q)].op \notin Open /\ Holding(r[t], q[Len(q)].op, Len(q) > 1)
    BY <1>1, <1>3 DEF Shape
  <1>5. Head(q) \in Operation /\ Head(q) = q[1] /\ Len(q) \in Nat /\ Len(q) >= 1
    BY <1>2, <1>3, HeadAndRest
  <1>6. Arg(t) = q[1].n /\ op \in Ops /\ Arg(t) \in Ino0 /\ q[1].op = op
    BY <1>3, <1>5 DEF Operation, Arg
  <1>7. op \in Plain \ {"brelse"} => Arg(t) # 0
    <2>1. 1 \in 1 .. Len(q)  BY <1>5
    <2> QED  BY <1>4, <1>6, <2>1 DEF Run
  <1> QED  BY <1>1, <1>2, <1>3, <1>4, <1>5, <1>6, <1>7 DEF Ino0, Rest

(* The operation behind the first one holds the inode. *)
LEMMA NextHolds ==
    ASSUME Base, NEW t \in Tasks, NEW op, Now(t, op),
           op \in {"truncate", "free_block", "nlinks--", "nlinks=0", "nlinks++"}
    PROVE  Holds(r[t], Arg(t)) >= 1 /\ core[Arg(t)].in
  <1> DEFINE q == r[t].todo
             n == Arg(t)
  <1>1. /\ r[t] \in Process /\ q \in Seq(Operation) /\ q # <<>> /\ Run(q)
        /\ q[1].op = op /\ q[1].n = n /\ n \in Inodes
        /\ q[Len(q)].op \notin Open /\ Len(q) \in Nat /\ Len(q) >= 1
    BY AtHead DEF Plain
  <1>2. Len(q) > 1  BY <1>1 DEF Open
  <1>3. 1 \in 1 .. Len(q) - 1 /\ 2 \in DOMAIN q /\ 1 + 1 = 2  BY <1>1, <1>2
  <1>4. Follows(q[1], q[2])  BY <1>1, <1>3 DEF Run
  <1>5. q[2].n = n /\ q[2].op \in {"iput", "fd", "free_inode"}
    BY <1>1, <1>4 DEF Follows
  <1>6. 2 \in Pending(q, n)  BY <1>3, <1>5 DEF Pending, Refers
  <1>7. Holds(r[t], n) >= 1
    <2>1. IsFiniteSet(Pending(q, n)) /\ Cardinality(Pending(q, n)) \in Nat
      BY <1>1, PendingFinite
    <2>2. Cardinality(Pending(q, n)) # 0  BY <1>6, <2>1, FS_EmptySet
    <2>3. Listed(r[t], n) >= 1  BY <2>1, <2>2 DEF Listed
    <2>4. Holds(r[t], n) \in Nat /\ Listed(r[t], n) \in Nat /\ Listed(r[t], n) <= Holds(r[t], n)
      BY <1>1, HoldsType
    <2> QED  BY <2>3, <2>4
  <1>8. core[n].in
    <2>1. TypeOK /\ Table /\ Counts  BY DEF Base
    <2> HIDE DEF n
    <2> QED  BY <1>1, <1>7, <2>1, HeldIsIn
  <1> QED  BY <1>7, <1>8

(* One inode of the table changes, and not in what counts here. *)
LEMMA OneChange ==
    ASSUME NEW n \in Inodes, NEW m \in Minode, core \in [Inodes -> Minode],
           core' = [core EXCEPT ![n] = m], core[n].in,
           m.count = core[n].count, m.in = core[n].in, m.lock = core[n].lock
    PROVE  core' \in [Inodes -> Minode] /\ \A k \in Inodes : Same(k)
  BY DEF Same

LEMMA PopStep ==
    ASSUME Base, NEW t \in Tasks, NEW op, Now(t, op), Do(t, Rest(t)),
           op \in Plain \ {"iput", "fd", "free_inode", "write"},
           Store', \A n \in Inodes : Same(n)
    PROVE  Base'
  <1> DEFINE p == r[t]
             s == With(p, Tail(p.todo))
  <1>1. /\ p \in Process /\ Shape(p) /\ p.todo # <<>> /\ p.todo[1].op = op
        /\ p.todo[1] = Head(p.todo)
    BY AtHead
  <1>2. Go(t, s)  BY DEF Do, Rest, With
  <1> HIDE DEF p
  <1>3. s = With(p, Tail(p.todo))  OBVIOUS
  <1> HIDE DEF s
  <1>4. /\ s \in Process /\ Shape(Return(s)) /\ s.todo = Tail(p.todo)
        /\ s.todo = <<>> => s.dir = 0 /\ s.inode = 0
        /\ s.todo # <<>> => s.todo[1].op \notin {"read", "write"}
        /\ \A n : Holds(s, n) = Holds(p, n) - Count(Refers(p.todo[1], n))
        /\ \A n : Sole(s.todo, n) => Sole(p.todo, n)
    BY <1>1, <1>3, Popped
  <1>5. ASSUME NEW n \in Inodes PROVE Holds(s, n) = Holds(p, n)
    <2>1. Count(Refers(p.todo[1], n)) = 0  BY <1>1 DEF Refers, Count, Plain
    <2>2. Holds(p, n) \in Nat  BY <1>1, HoldsType
    <2> QED  BY <1>4, <2>1, <2>2
  <1>6. NoTransfer(p.todo)  BY <1>1 DEF NoTransfer, Plain
  <1>7. NoTransfer(s.todo)
    <2>1. s.todo \in Seq(Operation)  BY <1>4 DEF Process
    <2>2. s.todo # <<>> => Head(s.todo) = s.todo[1]  BY <2>1, HeadAndRest
    <2> QED  BY <1>4, <2>2 DEF NoTransfer
  <1>8. p = r[t]  BY DEF p
  <1> QED  BY <1>2, <1>4, <1>5, <1>6, <1>7, <1>8, QuietStep

LEMMA BrelseStep ==
    ASSUME Base, NEW t \in Tasks, Brelse(t)
    PROVE  Base'
  <1>1. Now(t, "brelse") /\ Do(t, Rest(t))  BY DEF Brelse
  <1>2. Store' /\ \A n \in Inodes : Same(n)
    BY DEF Brelse, Base, TypeOK, Store, Same
  <1> QED  BY <1>1, <1>2, PopStep DEF Plain

LEMMA WaitStep ==
    ASSUME Base, NEW t \in Tasks, wait_on_inode(t)
    PROVE  Base'
  <1>1. /\ disk' = disk /\ core' = core /\ dirs' = dirs /\ imap' = imap
        /\ zmap' = zmap /\ r' = r /\ panic' = panic /\ cur' = Null
    BY DEF wait_on_inode
  <1>2. TypeOK'  BY <1>1 DEF Base, TypeOK
  <1>3. Shapes'  BY <1>1 DEF Base, Shapes
  <1>4. Table'   BY <1>1 DEF Base, Table, Freeing, Reading, Has
  <1>5. LockHeld'  BY <1>1 DEF Base, LockHeld, Locking, At, Arg
  <1>6. Counts'  BY <1>1 DEF Base, Counts, Held, Places
  <1> QED  BY <1>2, <1>3, <1>4, <1>5, <1>6 DEF Base

LEMMA SetLinksStep ==
    ASSUME Base, NEW t \in Tasks, SetLinks(t)
    PROVE  Base'
  <1> DEFINE n == Arg(t)
  <1>1. PICK op \in {"nlinks--", "nlinks=0", "nlinks++"} :
          /\ Now(t, op)
          /\ core' = [core EXCEPT ![n].nlinks = LinkChange(op, @),
                                  ![n].dirt = @ \/ op = "nlinks++"]
          /\ Do(t, Rest(t))
          /\ UNCHANGED <<disk, dirs, imap, zmap, panic, flaws>>
    BY DEF SetLinks
  <1>2. n \in Inodes /\ core[n].in /\ op \in Plain
    BY <1>1, AtHead, NextHolds DEF Plain
  <1> DEFINE a == LinkChange(op, core[n].nlinks)
             b == core[n].dirt \/ op = "nlinks++"
             m == [core[n] EXCEPT !.nlinks = a, !.dirt = b]
  <1>3. core' = [core EXCEPT ![n] = m]  BY <1>1
  <1>4. core \in [Inodes -> Minode] /\ core[n] \in Minode  BY <1>2 DEF Base, TypeOK
  <1>5. a \in Int /\ b \in BOOLEAN  BY <1>4 DEF Minode, LinkChange
  <1> HIDE DEF a, b, n
  <1>6. /\ m \in Minode /\ m.count = core[n].count /\ m.in = core[n].in
        /\ m.lock = core[n].lock
    BY <1>4, <1>5 DEF Minode
  <1> HIDE DEF m
  <1>7. core' \in [Inodes -> Minode] /\ \A k \in Inodes : Same(k)
    BY <1>2, <1>3, <1>4, <1>6, OneChange
  <1>8. Store'  BY <1>1, <1>7 DEF Base, TypeOK, Store
  <1> QED  BY <1>1, <1>2, <1>7, <1>8, PopStep

(* Operations are put in front of what is left of a list. *)
LEMMA Pushed ==
    ASSUME NEW p \in Process, Shape(p), p.todo # <<>>,
           p.todo[1].op \in Plain,
           NEW a \in Seq(Operation), NEW b \in Seq(Operation), Run(a), Run(b),
           a # <<>>, a[1].op # "read",
           b # <<>> => /\ b[Len(b)] = p.todo[Len(p.todo)]
                       /\ Follows(a[Len(a)], b[1])
                       /\ b[1].op \notin {"write", "free_block", "read"}
                       /\ b[1].op = "free_inode" =>
                            /\ a[Len(a)].op \in {"truncate", "free_block"}
                            /\ a[Len(a)].n = b[1].n,
           b = <<>> => /\ p.todo[Len(p.todo)].op \in Plain
                       /\ a[Len(a)].op \in Plain \ (Open \cup {"fd"}),
           NEW s, s = With(p, a \o b)
    PROVE  /\ s \in Process /\ Shape(Return(s)) /\ s.todo \in Seq(Operation)
           /\ s.todo # <<>> /\ s.todo[1] = a[1] /\ Head(s.todo) = a[1]
           /\ \A n : Holds(s, n) = Holds(p, n) - Listed(p, n)
                        + Cardinality(Pending(a, n)) + Cardinality(Pending(b, n))
           /\ \A n : Sole(s.todo, n) => Sole(a, n) \/ Sole(b, n)
  <1> DEFINE x == a \o b
  <1>1. /\ x \in Seq(Operation) /\ Len(x) = Len(a) + Len(b)
        /\ \A i \in 1 .. Len(a) : x[i] = a[i]
        /\ \A i \in 1 .. Len(b) : x[Len(a) + i] = b[i]
    BY JoinLists
  <1>2. Len(a) \in Nat /\ Len(b) \in Nat /\ Len(a) >= 1  BY EmptySeq
  <1>3. s = With(p, x)  OBVIOUS
  <1>4. \A n : Cardinality(Pending(x, n)) =
                  Cardinality(Pending(a, n)) + Cardinality(Pending(b, n))
    BY PendingJoined
  <1>5. b = <<>> => x = a
    BY ConcatEmptySeq
  <1>6. b # <<>> => /\ Run(x) /\ x # <<>> /\ Len(x) > 1 /\ x[1] = a[1]
                    /\ x[Len(x)] = b[Len(b)]
    BY RunJoined
  <1> HIDE DEF x
  <1>7. x # <<>> /\ Run(x) /\ x[1] = a[1]
    BY <1>5, <1>6
  <1>8. Shape(With(p, x))
    <2>1. CASE b = <<>>
      BY <1>1, <1>5, <1>7, <2>1, Relisted
    <2>2. CASE b # <<>>
      <3>1. /\ x[Len(x)].op = p.todo[Len(p.todo)].op /\ Len(x) > 1
        BY <1>6, <2>2
      <3> QED  BY <1>1, <1>7, <3>1, Relisted
    <2> QED  BY <2>1, <2>2
  <1>9. /\ s \in Process /\ s.todo = x
        /\ \A n : Holds(s, n) = Count(p.fd = n) + Count(p.dir = n)
                         + Count(p.inode = n) + Cardinality(Pending(x, n))
    BY <1>1, <1>3, NewList
  <1>10. ASSUME NEW n
         PROVE  Holds(s, n) = Holds(p, n) - Listed(p, n)
                        + Cardinality(Pending(a, n)) + Cardinality(Pending(b, n))
    <2> DEFINE c1 == Count(p.fd = n)
               c2 == Count(p.dir = n)
               c3 == Count(p.inode = n)
               c4 == Listed(p, n)
               d1 == Cardinality(Pending(a, n))
               d2 == Cardinality(Pending(b, n))
               h == Holds(s, n)
               k == Holds(p, n)
    <2>1. h = c1 + c2 + c3 + (d1 + d2)  BY <1>4, <1>9
    <2>2. k = c1 + c2 + c3 + c4  BY DEF Holds
    <2>3. c1 \in 0 .. 1 /\ c2 \in 0 .. 1 /\ c3 \in 0 .. 1  BY CountType
    <2>4. c4 \in Nat /\ d1 \in Nat /\ d2 \in Nat  BY HoldsType, PendingFinite
    <2> HIDE DEF c1, c2, c3, c4, d1, d2, h, k
    <2>5. h = k - c4 + d1 + d2  BY <2>1, <2>2, <2>3, <2>4
    <2> QED  BY <2>5 DEF c4, d1, d2, h, k
  <1>11. ASSUME NEW n, Sole(x, n) PROVE Sole(a, n) \/ Sole(b, n)
    <2>1. PICK i \in DOMAIN x : x[i].op \in {"free_inode", "read"} /\ x[i].n = n
      BY <1>11 DEF Sole
    <2>2. i \in 1 .. Len(a) + Len(b)  BY <1>1
    <2>3. CASE i \in 1 .. Len(a)
      <3>1. x[i] = a[i] /\ i \in DOMAIN a  BY <1>1, <2>3
      <3> QED  BY <2>1, <3>1 DEF Sole
    <2>4. CASE i \notin 1 .. Len(a)
      <3>1. i - Len(a) \in 1 .. Len(b) /\ i = Len(a) + (i - Len(a))
        BY <1>2, <2>2, <2>4
      <3>2. x[i] = b[i - Len(a)] /\ i - Len(a) \in DOMAIN b  BY <1>1, <3>1
      <3> QED  BY <2>1, <3>2 DEF Sole
    <2> QED  BY <2>3, <2>4
  <1>12. Return(s) = s  BY <1>7, <1>9 DEF Return
  <1>13. Head(x) = x[1]  BY <1>1, <1>7, HeadAndRest
  <1> QED  BY <1>1, <1>3, <1>7, <1>8, <1>9, <1>10, <1>11, <1>12, <1>13

(* The first operation of a list is replaced by others. *)
LEMMA Replaced ==
    ASSUME Base, NEW t \in Tasks, NEW op \in Plain, Now(t, op),
           NEW a \in Seq(Operation), Run(a), a # <<>>, a[1].op # "read",
           \A o : Follows(r[t].todo[1], o) => Follows(a[Len(a)], o),
           op \in {"truncate", "free_block"} =>
              a[Len(a)].op \in {"truncate", "free_block"} /\ a[Len(a)].n = Arg(t),
           op \notin Open => a[Len(a)].op \in Plain \ (Open \cup {"fd"}),
           NEW s, s = With(r[t], a \o Rest(t))
    PROVE  /\ s \in Process /\ Shape(Return(s)) /\ s.todo # <<>>
           /\ Head(s.todo) = a[1] /\ (Go(t, s) <=> Do(t, a \o Rest(t)))
           /\ \A n : Holds(s, n) = Holds(r[t], n) - Count(Refers(r[t].todo[1], n))
                                   + Cardinality(Pending(a, n))
           /\ \A n : Sole(s.todo, n) => Sole(r[t].todo, n) \/ Sole(a, n)
  <1> DEFINE p == r[t]
             b == Tail(p.todo)
  <1>1. /\ p \in Process /\ Shape(p) /\ p.todo \in Seq(Operation) /\ p.todo # <<>>
        /\ Run(p.todo) /\ p.todo[1] = Head(p.todo) /\ p.todo[1].op = op
        /\ p.todo[1].n = Arg(t) /\ p.todo[Len(p.todo)].op \notin Open
        /\ Rest(t) = b
    BY AtHead
  <1>2. Go(t, s) <=> Do(t, a \o Rest(t))  BY DEF Do, With
  <1>3. /\ Run(b) /\ b \in Seq(Operation) /\ (Len(p.todo) = 1 <=> b = <<>>)
        /\ b # <<>> => /\ b[Len(b)] = p.todo[Len(p.todo)]
                       /\ Follows(p.todo[1], b[1])
                       /\ b[1].op \notin {"write", "free_block", "read"}
                       /\ b[1].op = "free_inode" =>
                             /\ p.todo[1].op \in {"truncate", "free_block"}
                             /\ p.todo[1].n = b[1].n
    BY <1>1, RunRest
  <1>4. \A n : Cardinality(Pending(p.todo, n)) =
                      Count(Refers(p.todo[1], n)) + Cardinality(Pending(b, n))
    BY <1>1, HeadAndRest
  <1>5. \A n : Sole(b, n) => Sole(p.todo, n)
    <2> DEFINE v == With(p, b)
    <2>1. v = With(p, Tail(p.todo))  OBVIOUS
    <2>2. v.todo = Tail(p.todo) /\ \A n : Sole(v.todo, n) => Sole(p.todo, n)
      <3> HIDE DEF v, p, b
      <3>1. p \in Process /\ Shape(p) /\ p.todo # <<>> /\ p.todo[1].op \in Plain
        BY <1>1
      <3> QED  BY <2>1, <3>1, Popped
    <2> QED  BY <2>2
  <1>6. p = r[t]  OBVIOUS
  <1> HIDE DEF b, p
  <1>7. s = With(p, a \o b)  BY <1>1, <1>6
  <1>8. /\ s \in Process /\ Shape(Return(s)) /\ s.todo # <<>> /\ Head(s.todo) = a[1]
        /\ \A n : Holds(s, n) = Holds(p, n) - Listed(p, n)
                        + Cardinality(Pending(a, n)) + Cardinality(Pending(b, n))
        /\ \A n : Sole(s.todo, n) => Sole(a, n) \/ Sole(b, n)
    <2>1. b # <<>> => Follows(a[Len(a)], b[1])
      BY <1>3, <1>6
    <2>2. b # <<>> /\ b[1].op = "free_inode" =>
            a[Len(a)].op \in {"truncate", "free_block"} /\ a[Len(a)].n = b[1].n
      BY <1>1, <1>3
    <2>3. b = <<>> => /\ p.todo[Len(p.todo)].op \in Plain
                      /\ a[Len(a)].op \in Plain \ (Open \cup {"fd"})
      BY <1>1, <1>3
    <2>4. p.todo[1].op \in Plain  BY <1>1
    <2> QED  BY <1>1, <1>3, <1>7, <2>1, <2>2, <2>3, <2>4, Pushed
  <1>9. ASSUME NEW n
        PROVE  Holds(s, n) = Holds(p, n) - Count(Refers(p.todo[1], n))
                             + Cardinality(Pending(a, n))
    <2> DEFINE h == Holds(s, n)
               k == Holds(p, n)
               l == Listed(p, n)
               c == Count(Refers(p.todo[1], n))
               d == Cardinality(Pending(a, n))
               e == Cardinality(Pending(b, n))
    <2>1. h = k - l + d + e  BY <1>8
    <2>2. l = c + e  BY <1>4 DEF Listed
    <2>3. k \in Nat /\ d \in Nat /\ e \in Nat /\ c \in 0 .. 1
      BY <1>1, <1>3, HoldsType, PendingFinite, CountType
    <2> HIDE DEF h, k, l, c, d, e
    <2>4. h = k - c + d  BY <2>1, <2>2, <2>3
    <2> QED  BY <2>4 DEF h, k, c, d
  <1> QED  BY <1>2, <1>5, <1>6, <1>8, <1>9

(* A list of one operation. *)
LEMMA SoleOne ==
    ASSUME NEW o, NEW n
    PROVE  Sole(<<o>>, n) <=> o.op \in {"free_inode", "read"} /\ o.n = n
  BY DEF Sole

(* The same for an inode operation in place of one that refers as much. *)
LEMMA ReplacedOne ==
    ASSUME Base, NEW t \in Tasks, NEW op, Now(t, op),
           NEW o \in Operation, o.n = Arg(t), Do(t, <<o>> \o Rest(t)),
           \/ op = "lock" /\ o.op = "write"
           \/ op = "truncate" /\ o.op = "free_block"
    PROVE  \E s \in Process :
           /\ Go(t, s) /\ Shape(Return(s)) /\ s.todo # <<>> /\ Head(s.todo) = o
           /\ \A n \in Inodes : Holds(s, n) = Holds(r[t], n)
           /\ \A n : Sole(s.todo, n) => Sole(r[t].todo, n)
  <1> DEFINE a == <<o>>
             s == With(r[t], a \o Rest(t))
  <1>1. op \in Plain /\ o.op \in Plain \ {"brelse"}  BY DEF Plain
  <1>2. r[t] \in Process /\ r[t].todo[1].op = op /\ r[t].todo[1].n = Arg(t)
        /\ Arg(t) \in Inodes
    BY <1>1, AtHead DEF Plain
  <1>3. o.n # 0  BY <1>2, Numbers
  <1>4. Run(a) /\ a \in Seq(Operation) /\ a # <<>> /\ Len(a) = 1 /\ a[1] = o
    BY <1>1, <1>3, RunOne
  <1>5. \A n : Cardinality(Pending(a, n)) = 0 /\ ~Sole(a, n)
    BY PendingOne, SoleOne DEF Refers, Count
  <1>6. \A x : Follows(r[t].todo[1], x) => Follows(o, x)
    BY <1>2 DEF Follows
  <1>7. Do(t, a \o Rest(t))  OBVIOUS
  <1> HIDE DEF a
  <1>8. s = With(r[t], a \o Rest(t))  OBVIOUS
  <1> HIDE DEF s
  <1>9. /\ s \in Process /\ Shape(Return(s)) /\ s.todo # <<>>
        /\ Head(s.todo) = a[1] /\ (Go(t, s) <=> Do(t, a \o Rest(t)))
        /\ \A n : Holds(s, n) = Holds(r[t], n) - Count(Refers(r[t].todo[1], n))
                                + Cardinality(Pending(a, n))
        /\ \A n : Sole(s.todo, n) => Sole(r[t].todo, n) \/ Sole(a, n)
    <2>1. \A x : Follows(r[t].todo[1], x) => Follows(a[Len(a)], x)
      BY <1>4, <1>6
    <2>2. op \in {"truncate", "free_block"} =>
              a[Len(a)].op \in {"truncate", "free_block"} /\ a[Len(a)].n = Arg(t)
      BY <1>4
    <2>3. op \notin Open => a[Len(a)].op \in Plain \ (Open \cup {"fd"})
      BY <1>4 DEF Open, Plain
    <2>4. a[1].op # "read"  BY <1>4
    <2> QED  BY <1>1, <1>4, <1>8, <2>1, <2>2, <2>3, <2>4, Replaced
  <1>10. ASSUME NEW n \in Inodes PROVE Holds(s, n) = Holds(r[t], n)
    <2>1. Count(Refers(r[t].todo[1], n)) = 0  BY <1>2 DEF Refers, Count
    <2>2. Holds(r[t], n) \in Nat  BY <1>2, HoldsType
    <2> QED  BY <1>5, <1>9, <2>1, <2>2
  <1> QED  BY <1>4, <1>5, <1>7, <1>9, <1>10

LEMMA lock_inodeStep ==
    ASSUME Base, NEW t \in Tasks, lock_inode(t)
    PROVE  Base'
  <1> DEFINE n == Arg(t)
  <1>1. Now(t, "lock") /\ ~Locked(n) /\ UNCHANGED <<disk, dirs, imap, zmap, panic, flaws>>
    BY DEF lock_inode
  <1>2. CASE ~core[n].dirt
    <2>1. Do(t, Rest(t)) /\ core' = core  BY <1>2 DEF lock_inode
    <2>2. Store' /\ \A k \in Inodes : Same(k)
      BY <1>1, <2>1 DEF Base, TypeOK, Store, Same
    <2> QED  BY <1>1, <2>1, <2>2, PopStep DEF Plain
  <1>3. CASE core[n].dirt
    <2> DEFINE o == Op("write", n)
    <2>1. core' = [core EXCEPT ![n].lock = TRUE] /\ Do(t, <<o>> \o Rest(t))
      BY <1>3 DEF lock_inode
    <2>2. n \in Inodes /\ r[t].todo # <<>> /\ r[t].todo[1] = Head(r[t].todo)
          /\ r[t].todo[1].op = "lock"
      BY <1>1, AtHead DEF Plain
    <2>3. o \in Operation /\ o.op = "write" /\ o.n = n
      BY <2>2, OpTypes DEF Ops, Ino0
    <2> HIDE DEF o
    <2>4. PICK s \in Process :
            /\ Go(t, s) /\ Shape(Return(s)) /\ s.todo # <<>> /\ Head(s.todo) = o
            /\ \A k \in Inodes : Holds(s, k) = Holds(r[t], k)
            /\ \A k : Sole(s.todo, k) => Sole(r[t].todo, k)
      BY <1>1, <2>1, <2>3, ReplacedOne
    <2> HIDE DEF n
    <2>5. core \in [Inodes -> Minode] /\ core[n].lock = FALSE /\ core[n].in
      <3>1. core \in [Inodes -> Minode] /\ core[n] \in Minode
        BY <2>2 DEF Base, TypeOK
      <3>2. core[n].in
        <4>1. ~core[n].in => core[n] = Unused  BY <2>2 DEF Base, Table
        <4>2. Unused.dirt = FALSE  BY DEF Unused
        <4> QED  BY <1>3, <4>1, <4>2
      <3> QED  BY <1>1, <3>1, <3>2 DEF Minode, Locked
    <2>6. /\ core' \in [Inodes -> Minode] /\ core'[n].lock = TRUE
          /\ core'[n].count = core[n].count /\ core'[n].in = core[n].in
          /\ \A k \in Inodes \ {n} : core'[k] = core[k]
      BY <2>1, <2>2, <2>5 DEF Minode
    <2>7. Store'  BY <1>1, <2>6 DEF Base, TypeOK, Store
    <2>8. LockHeld'
      <3>1. \A k \in Inodes : (Takes(s.todo, k) <=> k = n) /\ ~Takes(r[t].todo, k)
        BY <2>2, <2>3, <2>4 DEF Takes
      <3>2. \A k \in Inodes : LockMoves(t, s, k)
        BY <2>2, <2>5, <2>6, <3>1 DEF LockMoves
      <3> QED  BY <2>4, <3>2, LockStep DEF Base
    <2>9. ASSUME NEW k \in Inodes PROVE Balanced(t, s, k)
      <3>1. core'[k].count = core[k].count /\ core[k].count \in Nat
        BY <2>5, <2>6 DEF Minode
      <3>2. ~core'[k].in => core'[k] = Unused
        BY <2>5, <2>6 DEF Base, Table
      <3>3. Holds(s, k) = Holds(r[t], k) /\ Holds(s, k) \in Nat
        BY <2>4, HoldsType
      <3>4. Sole(s.todo, k) => core[k].count = 1
        BY <2>4, SoleUse DEF Base, Table
      <3>5. core'[k].count = core[k].count - Holds(r[t], k) + Holds(s, k)
            /\ ~(Holds(s, k) > Holds(r[t], k))
        BY <3>1, <3>3
      <3> QED  BY <3>1, <3>2, <3>4, <3>5 DEF Balanced
    <2> QED  BY <2>4, <2>7, <2>8, <2>9, Moves
  <1> QED  BY <1>2, <1>3

(* write_inode gives the lock back. *)
LEMMA write_inodeStep ==
    ASSUME Base, NEW t \in Tasks, write_inode(t)
    PROVE  Base'
  <1> DEFINE n == Arg(t)
             p == r[t]
             s == With(p, Tail(p.todo))
  <1>1. /\ Now(t, "write") /\ disk' = [disk EXCEPT ![n] = d_inode(core[n])]
        /\ core' = [core EXCEPT ![n].dirt = FALSE, ![n].lock = FALSE]
        /\ Go(t, s) /\ UNCHANGED <<dirs, imap, zmap, panic, flaws>>
    BY DEF write_inode, Do, Rest, With
  <1>2. /\ p \in Process /\ Shape(p) /\ p.todo # <<>> /\ p.todo[1].op = "write"
        /\ p.todo[1] = Head(p.todo) /\ p.todo[1].n = n /\ n \in Inodes
        /\ p.todo[1].op \in Plain
    BY <1>1, AtHead DEF Plain
  <1>p. p = r[t]  OBVIOUS
  <1> HIDE DEF p, n
  <1>s. s = With(p, Tail(p.todo))  OBVIOUS
  <1> HIDE DEF s
  <1>3. /\ s \in Process /\ Shape(Return(s)) /\ s.todo = Tail(p.todo)
        /\ s.todo = <<>> => s.dir = 0 /\ s.inode = 0
        /\ s.todo # <<>> => s.todo[1].op \notin {"read", "write"}
        /\ \A k : Holds(s, k) = Holds(p, k) - Count(Refers(p.todo[1], k))
        /\ \A k : Sole(s.todo, k) => Sole(p.todo, k)
    BY <1>2, <1>s, Popped
  <1>4. s.todo # <<>> => Head(s.todo) = s.todo[1]
    <2>1. s.todo \in Seq(Operation)  BY <1>3 DEF Process
    <2> QED  BY <2>1, HeadAndRest
  <1>5. /\ core \in [Inodes -> Minode] /\ core[n] \in Minode
        /\ disk \in [Inodes -> [nlinks : Int, mode : Modes, zone : Zone0]]
    BY <1>2 DEF Base, TypeOK
  <1>6. core[n].lock
    <2>1. Locking(t, n)  BY <1>2, <1>p DEF Locking, At, Arg
    <2> QED  BY <1>2, <2>1 DEF Base, LockHeld
  <1>7. core[n].in
    <2>1. ~core[n].in => core[n] = Unused  BY <1>2 DEF Base, Table
    <2>2. Unused.lock = FALSE  BY DEF Unused
    <2> QED  BY <1>6, <2>1, <2>2
  <1>8. /\ core' \in [Inodes -> Minode] /\ core'[n].lock = FALSE
        /\ core'[n].count = core[n].count /\ core'[n].in = core[n].in
        /\ \A k \in Inodes \ {n} : core'[k] = core[k]
    BY <1>1, <1>2, <1>5 DEF Minode
  <1>9. Store'
    <2>1. d_inode(core[n]) \in [nlinks : Int, mode : Modes, zone : Zone0]
      BY <1>5 DEF d_inode, Minode
    <2>2. disk' \in [Inodes -> [nlinks : Int, mode : Modes, zone : Zone0]]
      BY <1>1, <1>5, <2>1
    <2> QED  BY <1>1, <1>8, <2>2 DEF Base, TypeOK, Store
  <1>10. LockHeld'
    <2>1. \A k \in Inodes : (Takes(p.todo, k) <=> k = n) /\ ~Takes(s.todo, k)
      BY <1>2, <1>3, <1>4 DEF Takes
    <2>2. \A k \in Inodes : LockMoves(t, s, k)
      BY <1>p, <1>8, <2>1 DEF LockMoves
    <2> QED  BY <1>1, <1>3, <2>2, LockStep DEF Base
  <1>11. ASSUME NEW k \in Inodes PROVE Balanced(t, s, k)
    <2>1. core'[k].count = core[k].count /\ core[k].count \in Nat
      BY <1>5, <1>8 DEF Minode
    <2>2. ~core'[k].in => core'[k] = Unused
      BY <1>7, <1>8 DEF Base, Table
    <2>3. Holds(s, k) = Holds(p, k) /\ Holds(s, k) \in Nat
      <3>1. Count(Refers(p.todo[1], k)) = 0  BY <1>2 DEF Refers, Count
      <3>2. Holds(p, k) \in Nat  BY <1>2, HoldsType
      <3> QED  BY <1>3, <3>1, <3>2
    <2>4. Sole(s.todo, k) => core[k].count = 1
      BY <1>3, <1>p, SoleUse DEF Base, Table
    <2>5. core'[k].count = core[k].count - Holds(p, k) + Holds(s, k)
          /\ ~(Holds(s, k) > Holds(p, k))
      BY <2>1, <2>3
    <2> QED  BY <1>p, <2>1, <2>2, <2>4, <2>5 DEF Balanced
  <1> QED  BY <1>1, <1>3, <1>9, <1>10, <1>11, Moves

(* A step that concerns one inode is balanced for the others. *)
LEMMA BalancedElsewhere ==
    ASSUME Base, NEW t \in Tasks, NEW s \in Process, NEW k \in Inodes,
           core'[k] = core[k], Holds(s, k) = Holds(r[t], k),
           Sole(s.todo, k) => Sole(r[t].todo, k)
    PROVE  Balanced(t, s, k)
  <1>1. core'[k].count = core[k].count /\ core[k].count \in Nat
    BY DEF Base, TypeOK, Minode
  <1>2. ~core'[k].in => core'[k] = Unused  BY DEF Base, Table
  <1>3. Holds(s, k) \in Nat  BY HoldsType
  <1>4. Sole(s.todo, k) => core[k].count = 1
    BY SoleUse DEF Base, Table
  <1>5. core'[k].count = core[k].count - Holds(r[t], k) + Holds(s, k)
        /\ ~(Holds(s, k) > Holds(r[t], k))
    BY <1>1, <1>3
  <1> QED  BY <1>1, <1>2, <1>4, <1>5 DEF Balanced

(* Two operations in a list. *)
LEMMA TwoOps ==
    ASSUME NEW x \in Operation, NEW y \in Operation
    PROVE  /\ <<x, y>> = <<x>> \o <<y>> /\ <<x, y>> \in Seq(Operation)
           /\ \A n : Cardinality(Pending(<<x, y>>, n)) = Count(Refers(x, n)) + Count(Refers(y, n))
           /\ \A n : Sole(<<x, y>>, n) <=> \/ x.op \in {"free_inode", "read"} /\ x.n = n
                                           \/ y.op \in {"free_inode", "read"} /\ y.n = n
  <1>1. <<x, y>> = <<x>> \o <<y>> /\ <<x, y>> \in Seq(Operation)
    <2> DEFINE a == <<x>>
               b == <<y>>
               q == <<x, y>>
               z == a \o b
    <2>1. /\ a \in Seq(Operation) /\ Len(a) = 1 /\ a[1] = x
          /\ b \in Seq(Operation) /\ Len(b) = 1 /\ b[1] = y
      OBVIOUS
    <2>2. q \in Seq(Operation) /\ Len(q) = 2 /\ q[1] = x /\ q[2] = y  OBVIOUS
    <2> HIDE DEF a, b, q
    <2>3. /\ z \in Seq(Operation) /\ Len(z) = Len(a) + Len(b)
          /\ \A i \in 1 .. Len(a) : z[i] = a[i]
          /\ \A i \in 1 .. Len(b) : z[Len(a) + i] = b[i]
      BY <2>1, JoinLists
    <2> HIDE DEF z
    <2>4. Len(z) = 2 /\ z[1] = x /\ z[1 + 1] = y  BY <2>1, <2>3
    <2>5. \A i \in 1 .. Len(q) : q[i] = z[i]  BY <2>2, <2>4
    <2>6. q = z  BY <2>2, <2>3, <2>4, <2>5, SeqEqual
    <2> QED  BY <2>2, <2>6 DEF a, b, q, z
  <1>2. ASSUME NEW n
        PROVE  Cardinality(Pending(<<x, y>>, n)) = Count(Refers(x, n)) + Count(Refers(y, n))
    <2> DEFINE a == <<x>>
               b == <<y>>
    <2>1. a \in Seq(Operation) /\ b \in Seq(Operation)  OBVIOUS
    <2>2. Cardinality(Pending(a, n)) = Count(Refers(x, n))
          /\ Cardinality(Pending(b, n)) = Count(Refers(y, n))
      BY PendingOne
    <2> HIDE DEF a, b
    <2>3. Cardinality(Pending(a \o b, n)) =
             Cardinality(Pending(a, n)) + Cardinality(Pending(b, n))
      BY <2>1, PendingJoined
    <2> QED  BY <1>1, <2>2, <2>3 DEF a, b
  <1>3. ASSUME NEW n
        PROVE  Sole(<<x, y>>, n) <=> \/ x.op \in {"free_inode", "read"} /\ x.n = n
                                     \/ y.op \in {"free_inode", "read"} /\ y.n = n
    <2> DEFINE q == <<x, y>>
    <2>1. DOMAIN q = {1, 2} /\ q[1] = x /\ q[2] = y  OBVIOUS
    <2> HIDE DEF q
    <2>2. Sole(q, n) <=> \/ q[1].op \in {"free_inode", "read"} /\ q[1].n = n
                         \/ q[2].op \in {"free_inode", "read"} /\ q[2].n = n
      BY <2>1 DEF Sole
    <2> QED  BY <2>1, <2>2 DEF q
  <1> QED  BY <1>1, <1>2, <1>3

LEMMA RunTwo ==
    ASSUME NEW x \in Operation, NEW y \in Operation,
           x.op \in Plain \ {"brelse"} => x.n # 0,
           y.op \in Plain \ {"brelse"} => y.n # 0,
           Follows(x, y), y.op \notin {"write", "free_block", "read"},
           y.op = "free_inode" => x.op \in {"truncate", "free_block"} /\ x.n = y.n
    PROVE  /\ Run(<<x, y>>) /\ <<x, y>> \in Seq(Operation) /\ <<x, y>> # <<>>
           /\ Len(<<x, y>>) = 2 /\ <<x, y>>[1] = x /\ <<x, y>>[2] = y
  <1> DEFINE a == <<x>>
             b == <<y>>
  <1>1. Run(a) /\ a \in Seq(Operation) /\ a # <<>> /\ Len(a) = 1 /\ a[1] = x
    BY RunOne
  <1>2. Run(b) /\ b \in Seq(Operation) /\ b # <<>> /\ Len(b) = 1 /\ b[1] = y
    BY RunOne
  <1>3. <<x, y>> = a \o b  BY TwoOps
  <1> HIDE DEF a, b
  <1>4. Run(a \o b)  BY <1>1, <1>2, RunJoined
  <1>5. /\ <<x, y>> \in Seq(Operation) /\ <<x, y>> # <<>>
        /\ Len(<<x, y>>) = 2 /\ <<x, y>>[1] = x /\ <<x, y>>[2] = y
    OBVIOUS
  <1>6. Run(<<x, y>>)  BY <1>3, <1>4, Zenon
  <1> QED  BY <1>5, <1>6

(* Whoever has an operation at the head that refers to an inode holds it. *)
LEMMA HeadHolds ==
    ASSUME Base, NEW t \in Tasks, NEW op \in {"iput", "free_inode"},
           Now(t, op)
    PROVE  /\ Arg(t) \in Inodes /\ Holds(r[t], Arg(t)) \in Nat
           /\ Holds(r[t], Arg(t)) >= 1 /\ core[Arg(t)].in
           /\ core[Arg(t)].count \in Nat /\ core[Arg(t)].count >= 1
  <1> DEFINE n == Arg(t)
             p == r[t]
  <1>1. /\ p \in Process /\ p.todo \in Seq(Operation) /\ p.todo # <<>>
        /\ p.todo[1] = Head(p.todo) /\ p.todo[1].op = op /\ p.todo[1].n = n
        /\ n \in Inodes
    BY AtHead DEF Plain
  <1>p. p = r[t]  OBVIOUS
  <1> HIDE DEF n, p
  <1>2. Holds(p, n) \in Nat /\ Listed(p, n) \in Nat /\ Listed(p, n) <= Holds(p, n)
    BY <1>1, HoldsType
  <1>3. Listed(p, n) >= 1
    <2>1. Cardinality(Pending(p.todo, n)) =
             Count(Refers(p.todo[1], n)) + Cardinality(Pending(Tail(p.todo), n))
      BY <1>1, HeadAndRest
    <2>2. Tail(p.todo) \in Seq(Operation)  BY <1>1, HeadAndRest
    <2>3. Cardinality(Pending(Tail(p.todo), n)) \in Nat  BY <2>2, PendingFinite
    <2>4. Count(Refers(p.todo[1], n)) = 1  BY <1>1 DEF Refers, Count
    <2> QED  BY <2>1, <2>3, <2>4 DEF Listed
  <1>4. Holds(p, n) >= 1  BY <1>2, <1>3
  <1>5. core[n].count \in Nat /\ core[n].count >= 1 /\ core[n].in
    BY <1>1, <1>p, <1>4, HeldIsIn DEF Base
  <1> QED  BY <1>1, <1>2, <1>4, <1>5, <1>p DEF n

(* iput gives one reference back. *)
LEMMA IputGives ==
    ASSUME Base, NEW t \in Tasks, Now(t, "iput"),
           core' \in [Inodes -> Minode], core'[Arg(t)].count = core[Arg(t)].count - 1,
           core'[Arg(t)].in = core[Arg(t)].in, core'[Arg(t)].lock = core[Arg(t)].lock,
           \A k \in Inodes \ {Arg(t)} : core'[k] = core[k],
           Do(t, Rest(t)), disk' = disk, dirs' = dirs, imap' = imap, zmap' = zmap,
           panic' \in BOOLEAN
    PROVE  Base'
  <1> DEFINE n == Arg(t)
             p == r[t]
             s == With(p, Tail(p.todo))
  <1>1. Go(t, s)  BY DEF Do, Rest, With
  <1>2. /\ p \in Process /\ Shape(p) /\ p.todo # <<>> /\ p.todo[1].op = "iput"
        /\ p.todo[1] = Head(p.todo) /\ p.todo[1].n = n /\ n \in Inodes
        /\ p.todo[1].op \in Plain
    BY AtHead DEF Plain
  <1>3. /\ Holds(p, n) \in Nat /\ Holds(p, n) >= 1 /\ core[n].in
        /\ core[n].count \in Nat /\ core[n].count >= 1
    BY HeadHolds
  <1>p. p = r[t]  OBVIOUS
  <1> HIDE DEF p, n
  <1>s. s = With(p, Tail(p.todo))  OBVIOUS
  <1> HIDE DEF s
  <1>7. /\ s \in Process /\ Shape(Return(s)) /\ s.todo = Tail(p.todo)
        /\ s.todo = <<>> => s.dir = 0 /\ s.inode = 0
        /\ s.todo # <<>> => s.todo[1].op \notin {"read", "write"}
        /\ \A k : Holds(s, k) = Holds(p, k) - Count(Refers(p.todo[1], k))
        /\ \A k : Sole(s.todo, k) => Sole(p.todo, k)
    BY <1>2, <1>s, Popped
  <1>8. s.todo # <<>> => Head(s.todo) = s.todo[1]
    <2>1. s.todo \in Seq(Operation)  BY <1>7 DEF Process
    <2> QED  BY <2>1, HeadAndRest
  <1>9. /\ core' \in [Inodes -> Minode] /\ core'[n].count = core[n].count - 1
        /\ core'[n].in = core[n].in /\ core'[n].lock = core[n].lock
        /\ \A k \in Inodes \ {n} : core'[k] = core[k]
    BY DEF n
  <1>10. Store'  BY <1>9 DEF Base, TypeOK, Store
  <1>11. LockHeld'
    <2>1. \A k \in Inodes : ~Takes(p.todo, k) /\ ~Takes(s.todo, k)
      BY <1>2, <1>7, <1>8 DEF Takes
    <2>2. \A k \in Inodes : LockMoves(t, s, k)
      BY <1>p, <1>9, <2>1 DEF LockMoves
    <2> QED  BY <1>1, <1>7, <2>2, LockStep DEF Base
  <1>12. ASSUME NEW k \in Inodes PROVE Balanced(t, s, k)
    <2>1. CASE k # n
      <3>1. Count(Refers(p.todo[1], k)) = 0  BY <1>2, <2>1 DEF Refers, Count
      <3>2. Holds(p, k) \in Nat  BY <1>2, HoldsType
      <3>3. Holds(s, k) = Holds(p, k)  BY <1>7, <3>1, <3>2
      <3> QED  BY <1>7, <1>9, <1>p, <2>1, <3>3, BalancedElsewhere
    <2>2. CASE k = n
      <3>1. Count(Refers(p.todo[1], n)) = 1  BY <1>2 DEF Refers, Count
      <3>2. Holds(s, n) = Holds(p, n) - 1  BY <1>7, <3>1
      <3>3. core'[n].count = core[n].count - Holds(p, n) + Holds(s, n)
            /\ ~(Holds(s, n) > Holds(p, n))
        BY <1>3, <1>9, <3>2
      <3>4. ~Sole(s.todo, n)
        <4> SUFFICES ASSUME Sole(s.todo, n) PROVE FALSE  OBVIOUS
        <4>1. Sole(p.todo, n)  BY <1>7
        <4>2. core[n].count = 1  BY <1>2, <1>p, <4>1, SoleUse DEF Base, Table
        <4>3. Holds(p, n) = 1  BY <1>2, <1>3, <1>p, <4>2, Alone DEF Base
        <4>4. Holds(s, n) >= 1  BY <1>7, SoleHolds
        <4> QED  BY <3>2, <4>3, <4>4
      <3> QED  BY <1>3, <1>9, <1>p, <2>2, <3>3, <3>4 DEF Balanced
    <2> QED  BY <2>1, <2>2
  <1> QED  BY <1>1, <1>7, <1>10, <1>11, <1>12, Moves

(* The last iput of an inode without links goes on to free it. *)
LEMMA IputFrees ==
    ASSUME Base, NEW t \in Tasks, Now(t, "iput"), core[Arg(t)].count = 1,
           Do(t, <<Op("truncate", Arg(t)), Op("free_inode", Arg(t))>> \o Rest(t)),
           core' = core, disk' = disk, dirs' = dirs, imap' = imap, zmap' = zmap,
           panic' \in BOOLEAN
    PROVE  Base'
  <1> DEFINE n == Arg(t)
             p == r[t]
             x == Op("truncate", n)
             y == Op("free_inode", n)
             a == <<x, y>>
             s == With(r[t], a \o Rest(t))
  <1>1. /\ p \in Process /\ p.todo # <<>> /\ p.todo[1].op = "iput"
        /\ p.todo[1] = Head(p.todo) /\ p.todo[1].n = n /\ n \in Inodes /\ n # 0
    BY AtHead, Numbers DEF Plain
  <1>2. /\ x \in Operation /\ x.op = "truncate" /\ x.n = n
        /\ y \in Operation /\ y.op = "free_inode" /\ y.n = n
    BY <1>1, OpTypes DEF Ops, Ino0
  <1>3. Do(t, a \o Rest(t)) /\ core[n].count = 1  OBVIOUS
  <1>p. p = r[t] /\ n = Arg(t) OBVIOUS
  <1> HIDE DEF x, y, p, n
  <1>4. /\ Run(a) /\ a \in Seq(Operation) /\ a # <<>> /\ Len(a) = 2
        /\ a[1] = x /\ a[2] = y
    <2>1. Follows(x, y)  BY <1>2 DEF Follows
    <2> QED  BY <1>1, <1>2, <2>1, RunTwo
  <1>5. /\ \A k : Cardinality(Pending(a, k)) = Count(Refers(x, k)) + Count(Refers(y, k))
        /\ \A k : Sole(a, k) <=> \/ x.op \in {"free_inode", "read"} /\ x.n = k
                                 \/ y.op \in {"free_inode", "read"} /\ y.n = k
    BY <1>2, TwoOps
  <1> HIDE DEF a
  <1>s. s = With(r[t], a \o Rest(t))  OBVIOUS
  <1> HIDE DEF s
  <1>6. /\ s \in Process /\ Shape(Return(s)) /\ s.todo # <<>>
        /\ Head(s.todo) = a[1] /\ (Go(t, s) <=> Do(t, a \o Rest(t)))
        /\ \A k : Holds(s, k) = Holds(r[t], k) - Count(Refers(r[t].todo[1], k))
                                + Cardinality(Pending(a, k))
        /\ \A k : Sole(s.todo, k) => Sole(r[t].todo, k) \/ Sole(a, k)
    <2>1. \A o : Follows(r[t].todo[1], o) => Follows(a[Len(a)], o)
      BY <1>1, <1>2, <1>4, <1>p DEF Follows, Plain
    <2>2. a[Len(a)].op \in Plain \ (Open \cup {"fd"}) /\ a[1].op # "read"
      BY <1>2, <1>4 DEF Open, Plain
    <2> DEFINE op == "iput"
    <2>3. op \in Plain /\ Now(t, op) /\ op \notin {"truncate", "free_block"}
      BY DEF Plain
    <2> HIDE DEF op
    <2>4. op \in {"truncate", "free_block"} =>
              a[Len(a)].op \in {"truncate", "free_block"} /\ a[Len(a)].n = Arg(t)
      BY <2>3
    <2>5. op \notin Open => a[Len(a)].op \in Plain \ (Open \cup {"fd"})
      BY <2>2
    <2>6. /\ op \in Plain /\ Now(t, op) /\ a \in Seq(Operation) /\ Run(a)
          /\ a # <<>> /\ a[1].op # "read"
      BY <1>4, <2>2, <2>3
    <2> QED  BY <1>s, <2>1, <2>4, <2>5, <2>6, Replaced
  <1>7. ASSUME NEW k \in Inodes PROVE Holds(s, k) = Holds(p, k)
    <2>1. Count(Refers(x, k)) = 0 /\ Count(Refers(y, k)) = Count(Refers(p.todo[1], k))
      BY <1>1, <1>2 DEF Refers, Count
    <2>2. Holds(p, k) \in Nat /\ Count(Refers(y, k)) \in 0 .. 1
      BY <1>1, HoldsType, CountType
    <2> QED  BY <1>5, <1>6, <1>p, <2>1, <2>2
  <1>8. Store'  BY DEF Base, TypeOK, Store
  <1>9. LockHeld'
    <2>1. \A k \in Inodes : ~Takes(p.todo, k) /\ ~Takes(s.todo, k)
      BY <1>1, <1>2, <1>4, <1>6 DEF Takes
    <2>2. \A k \in Inodes : LockMoves(t, s, k)
      BY <1>p, <2>1 DEF LockMoves
    <2> QED  BY <1>3, <1>6, <2>2, LockStep DEF Base
  <1>10. ASSUME NEW k \in Inodes PROVE Balanced(t, s, k)
    <2>1. CASE k # n
      <3>1. Sole(s.todo, k) => Sole(r[t].todo, k)
        BY <1>2, <1>5, <1>6, <2>1
      <3> QED  BY <1>6, <1>7, <1>p, <3>1, BalancedElsewhere
    <2>2. CASE k = n
      <3>1. Holds(s, n) = Holds(p, n) /\ Holds(p, n) \in Nat
        BY <1>1, <1>7, HoldsType
      <3>2. core'[n].count = core[n].count - Holds(p, n) + Holds(s, n)
            /\ ~(Holds(s, n) > Holds(p, n))
        BY <1>3, <3>1
      <3>3. core'[n].in
        BY <1>p, HeadHolds
      <3> QED  BY <1>3, <1>p, <2>2, <3>2, <3>3 DEF Balanced
    <2> QED  BY <2>1, <2>2
  <1> QED  BY <1>3, <1>6, <1>8, <1>9, <1>10, Moves

(* The last iput of a changed inode first writes it. *)
LEMMA IputWrites ==
    ASSUME Base, NEW t \in Tasks, Now(t, "iput"),
           Do(t, <<Op("lock", Arg(t))>> \o r[t].todo),
           core' = core, disk' = disk, dirs' = dirs, imap' = imap, zmap' = zmap,
           panic' \in BOOLEAN
    PROVE  Base'
  <1> DEFINE n == Arg(t)
             p == r[t]
             x == Op("lock", n)
             a == <<x>>
             s == With(p, a \o p.todo)
  <1>1. /\ p \in Process /\ Shape(p) /\ p.todo \in Seq(Operation) /\ p.todo # <<>>
        /\ Run(p.todo) /\ p.todo[1].op = "iput" /\ p.todo[1].op \in Plain
        /\ p.todo[1] = Head(p.todo) /\ p.todo[1].n = n /\ n \in Inodes /\ n # 0
    BY AtHead, Numbers DEF Plain
  <1>2. x \in Operation /\ x.op = "lock" /\ x.n = n
    BY <1>1, OpTypes DEF Ops, Ino0
  <1>3. Go(t, s)  BY DEF Do, With
  <1>p. p = r[t]  OBVIOUS
  <1> HIDE DEF x, p, n
  <1>4. Run(a) /\ a \in Seq(Operation) /\ a # <<>> /\ Len(a) = 1 /\ a[1] = x
    BY <1>1, <1>2, RunOne
  <1>5. \A k : Cardinality(Pending(a, k)) = 0 /\ ~Sole(a, k)
    BY <1>2, PendingOne, SoleOne DEF Refers, Count
  <1> HIDE DEF a
  <1>s. s = With(p, a \o p.todo)  OBVIOUS
  <1> HIDE DEF s
  <1>6. /\ s \in Process /\ Shape(Return(s)) /\ s.todo # <<>> /\ Head(s.todo) = a[1]
        /\ \A k : Holds(s, k) = Holds(p, k) - Listed(p, k)
                        + Cardinality(Pending(a, k)) + Cardinality(Pending(p.todo, k))
        /\ \A k : Sole(s.todo, k) => Sole(a, k) \/ Sole(p.todo, k)
    <2>1. Follows(a[Len(a)], p.todo[1])  BY <1>1, <1>2, <1>4 DEF Follows
    <2>2. a[1].op # "read"  BY <1>2, <1>4
    <2>3. p.todo[1].op \notin {"write", "free_block", "read", "free_inode"}  BY <1>1
    <2> QED  BY <1>1, <1>4, <1>s, <2>1, <2>2, <2>3, Pushed, SMTT(30)
  <1>7. ASSUME NEW k \in Inodes PROVE Holds(s, k) = Holds(p, k)
    <2>1. Holds(p, k) \in Nat /\ Listed(p, k) \in Nat  BY <1>1, HoldsType
    <2>2. Holds(s, k) = Holds(p, k) - Listed(p, k) + 0 + Listed(p, k)
      BY <1>5, <1>6 DEF Listed
    <2> QED  BY <2>1, <2>2
  <1>8. Store' /\ \A k \in Inodes : Same(k)  BY DEF Base, TypeOK, Store, Same
  <1>9. NoTransfer(p.todo) /\ NoTransfer(s.todo)
    BY <1>1, <1>2, <1>4, <1>6 DEF NoTransfer
  <1> QED  BY <1>3, <1>5, <1>6, <1>7, <1>8, <1>9, <1>p, QuietStep

LEMMA IputStep ==
    ASSUME Base, NEW t \in Tasks, Iput(t)
    PROVE  Base'
  <1>1. /\ Now(t, "iput") /\ disk' = disk /\ dirs' = dirs /\ imap' = imap
        /\ zmap' = zmap
    BY DEF Iput
  <1>2. panic' \in BOOLEAN  BY DEF Iput, Base, TypeOK
  <1>3. CASE /\ core' = [core EXCEPT ![Arg(t)].count = IF @ = 0 THEN 0 ELSE @ - 1]
             /\ Do(t, Rest(t))
    <2> DEFINE n == Arg(t)
               c == IF core[n].count = 0 THEN 0 ELSE core[n].count - 1
    <2>1. n \in Inodes /\ core[n].count \in Nat /\ core[n].count >= 1
      BY <1>1, HeadHolds
    <2>2. core \in [Inodes -> Minode]  BY DEF Base, TypeOK
    <2>3. core' = [core EXCEPT ![n].count = c] /\ c = core[n].count - 1 /\ c \in Nat
      BY <1>3, <2>1
    <2> HIDE DEF n, c
    <2>4. /\ core' \in [Inodes -> Minode] /\ core'[n].count = c
          /\ core'[n].in = core[n].in /\ core'[n].lock = core[n].lock
          /\ \A k \in Inodes \ {n} : core'[k] = core[k]
      BY <2>1, <2>2, <2>3 DEF Minode
    <2> QED  BY <1>1, <1>2, <1>3, <2>3, <2>4, IputGives DEF n
  <1>4. CASE /\ core[Arg(t)].count = 1 /\ core' = core
             /\ Do(t, <<Op("truncate", Arg(t)), Op("free_inode", Arg(t))>> \o Rest(t))
    BY <1>1, <1>2, <1>4, IputFrees
  <1>5. CASE Do(t, <<Op("lock", Arg(t))>> \o r[t].todo) /\ core' = core
    BY <1>1, <1>2, <1>5, IputWrites
  <1> QED  BY <1>3, <1>4, <1>5 DEF Iput, Last

LEMMA truncateStep ==
    ASSUME Base, NEW t \in Tasks, truncate(t)
    PROVE  Base'
  <1> DEFINE n == Arg(t)
             z == core[n].zone
             o == [op |-> "free_block", n |-> n, z |-> z]
  <1>1. Now(t, "truncate") /\ UNCHANGED <<disk, dirs, imap, zmap, panic, flaws>>
    BY DEF truncate
  <1>2. n \in Inodes /\ core[n].in  BY <1>1, AtHead, NextHolds DEF Plain
  <1>3. core \in [Inodes -> Minode] /\ core[n] \in Minode /\ z \in Zone0
    BY <1>2 DEF Base, TypeOK, Minode
  <1>4. CASE Do(t, Rest(t)) /\ core' = core
    <2>1. Store' /\ \A k \in Inodes : Same(k)
      BY <1>1, <1>4 DEF Base, TypeOK, Store, Same
    <2> QED  BY <1>1, <1>4, <2>1, PopStep DEF Plain
  <1>5. CASE Do(t, Rest(t)) /\ core' = [core EXCEPT ![n].dirt = TRUE]
    <2> DEFINE m == [core[n] EXCEPT !.dirt = TRUE]
    <2>1. core' = [core EXCEPT ![n] = m]  BY <1>5
    <2> HIDE DEF n
    <2>2. /\ m \in Minode /\ m.count = core[n].count /\ m.in = core[n].in
          /\ m.lock = core[n].lock
      BY <1>3 DEF Minode
    <2> HIDE DEF m
    <2>3. core' \in [Inodes -> Minode] /\ \A k \in Inodes : Same(k)
      BY <1>2, <1>3, <2>1, <2>2, OneChange
    <2>4. Store'  BY <1>1, <2>3 DEF Base, TypeOK, Store
    <2> QED  BY <1>1, <1>5, <2>3, <2>4, PopStep DEF Plain
  <1>6. CASE Do(t, <<o>> \o Rest(t)) /\ core' = core
    <2>1. r[t].todo[1] = Head(r[t].todo) /\ r[t].todo[1].op = "truncate"
      BY <1>1, AtHead
    <2>2. o \in Operation /\ o.op = "free_block" /\ o.n = Arg(t)
      BY <1>2, <1>3 DEF Operation, Ops, Ino0
    <2> HIDE DEF o, n, z
    <2>3. PICK s \in Process :
            /\ Go(t, s) /\ Shape(Return(s)) /\ s.todo # <<>> /\ Head(s.todo) = o
            /\ \A k \in Inodes : Holds(s, k) = Holds(r[t], k)
            /\ \A k : Sole(s.todo, k) => Sole(r[t].todo, k)
      BY <1>1, <1>6, <2>2, ReplacedOne
    <2>4. Store' /\ \A k \in Inodes : Same(k)
      BY <1>1, <1>6 DEF Base, TypeOK, Store, Same
    <2>5. NoTransfer(r[t].todo) /\ NoTransfer(s.todo)
      BY <2>1, <2>2, <2>3 DEF NoTransfer
    <2> QED  BY <2>3, <2>4, <2>5, QuietStep
  <1> QED  BY <1>4, <1>5, <1>6 DEF truncate

LEMMA free_blockStep ==
    ASSUME Base, NEW t \in Tasks, free_block(t)
    PROVE  Base'
  <1> DEFINE n == Arg(t)
  <1>1. /\ Now(t, "free_block") /\ Do(t, Rest(t)) /\ UNCHANGED <<disk, dirs, imap>>
        /\ core' = [core EXCEPT ![n].zone = 0, ![n].dirt = TRUE]
    BY DEF free_block
  <1>2. n \in Inodes /\ core[n].in  BY <1>1, AtHead, NextHolds DEF Plain
  <1>3. core \in [Inodes -> Minode] /\ core[n] \in Minode
    BY <1>2 DEF Base, TypeOK
  <1> DEFINE m == [core[n] EXCEPT !.zone = 0, !.dirt = TRUE]
  <1>4. core' = [core EXCEPT ![n] = m]  BY <1>1
  <1> HIDE DEF n
  <1>5. /\ m \in Minode /\ m.count = core[n].count /\ m.in = core[n].in
        /\ m.lock = core[n].lock
    BY <1>3 DEF Minode, Zone0
  <1> HIDE DEF m
  <1>6. core' \in [Inodes -> Minode] /\ \A k \in Inodes : Same(k)
    BY <1>2, <1>3, <1>4, <1>5, OneChange
  <1>7. zmap' \subseteq Zones /\ panic' \in BOOLEAN
    BY DEF free_block, Base, TypeOK
  <1>8. Store'  BY <1>1, <1>6, <1>7 DEF Base, TypeOK, Store
  <1> QED  BY <1>1, <1>6, <1>8, PopStep DEF Plain

(* free_inode gives the last reference back and empties the place. *)
LEMMA free_inodeStep ==
    ASSUME Base, NEW t \in Tasks, free_inode(t), flaws' = {}
    PROVE  Base'
  <1> DEFINE n == Arg(t)
             p == r[t]
             s == With(p, Tail(p.todo))
  <1>1. /\ Now(t, "free_inode") /\ Go(t, s) /\ UNCHANGED <<disk, dirs, zmap>>
        /\ core' = [core EXCEPT ![n] = Unused]
    BY DEF free_inode, Do, Rest, With
  <1>2. /\ p \in Process /\ Shape(p) /\ p.todo \in Seq(Operation) /\ p.todo # <<>>
        /\ p.todo[1].op = "free_inode"
        /\ p.todo[1] = Head(p.todo) /\ p.todo[1].n = n /\ n \in Inodes
        /\ p.todo[1].op \in Plain
    BY <1>1, AtHead DEF Plain
  <1>3. Holds(p, n) \in Nat /\ Holds(p, n) >= 1  BY <1>1, HeadHolds
  <1>4. ~core[n].lock
    BY DEF free_inode, Locked
  <1>5. core \in [Inodes -> Minode] /\ core[n].lock = FALSE
    BY <1>2, <1>4 DEF Base, TypeOK, Minode
  <1>6. imap' \subseteq Inodes /\ panic' \in BOOLEAN
    BY DEF free_inode, InodeFreed, Base, TypeOK
  <1>p. p = r[t]  OBVIOUS
  <1> HIDE DEF p, n
  <1>7. Sole(p.todo, n)
    <2>1. 1 \in DOMAIN p.todo  BY <1>2, HeadAndRest
    <2> QED  BY <1>2, <2>1 DEF Sole
  <1>8. core[n].count = 1  BY <1>2, <1>7, <1>p, SoleUse DEF Base, Table
  <1>9. Holds(p, n) = 1  BY <1>2, <1>3, <1>8, <1>p, Alone DEF Base
  <1>s. s = With(p, Tail(p.todo))  OBVIOUS
  <1> HIDE DEF s
  <1>10. /\ s \in Process /\ Shape(Return(s)) /\ s.todo = Tail(p.todo)
         /\ s.todo = <<>> => s.dir = 0 /\ s.inode = 0
         /\ s.todo # <<>> => s.todo[1].op \notin {"read", "write"}
         /\ \A k : Holds(s, k) = Holds(p, k) - Count(Refers(p.todo[1], k))
         /\ \A k : Sole(s.todo, k) => Sole(p.todo, k)
    BY <1>2, <1>s, Popped
  <1>11. s.todo # <<>> => Head(s.todo) = s.todo[1]
    <2>1. s.todo \in Seq(Operation)  BY <1>10 DEF Process
    <2> QED  BY <2>1, HeadAndRest
  <1>12. Unused \in Minode /\ Unused.count = 0 /\ Unused.lock = FALSE
    BY DEF Unused, Minode, Modes, Zone0
  <1>13. /\ core' \in [Inodes -> Minode] /\ core'[n] = Unused
         /\ \A k \in Inodes \ {n} : core'[k] = core[k]
    BY <1>1, <1>2, <1>5, <1>12
  <1>14. Store'  BY <1>1, <1>6, <1>13 DEF Base, TypeOK, Store
  <1>15. LockHeld'
    <2>1. \A k \in Inodes : ~Takes(p.todo, k) /\ ~Takes(s.todo, k)
      BY <1>2, <1>10, <1>11 DEF Takes
    <2>2. \A k \in Inodes : LockMoves(t, s, k)
      BY <1>5, <1>12, <1>p, <1>13, <2>1 DEF LockMoves
    <2> QED  BY <1>1, <1>10, <2>2, LockStep DEF Base
  <1>16. ASSUME NEW k \in Inodes PROVE Balanced(t, s, k)
    <2>1. CASE k # n
      <3>1. Count(Refers(p.todo[1], k)) = 0  BY <1>2, <2>1 DEF Refers, Count
      <3>2. Holds(p, k) \in Nat  BY <1>2, HoldsType
      <3>3. Holds(s, k) = Holds(p, k)  BY <1>10, <3>1, <3>2
      <3> QED  BY <1>10, <1>13, <1>p, <2>1, <3>3, BalancedElsewhere
    <2>2. CASE k = n
      <3>1. Count(Refers(p.todo[1], n)) = 1  BY <1>2 DEF Refers, Count
      <3>2. Holds(s, n) = 0  BY <1>9, <1>10, <3>1
      <3>3. core'[n].count = core[n].count - Holds(p, n) + Holds(s, n)
            /\ ~(Holds(s, n) > Holds(p, n))
        BY <1>8, <1>9, <1>12, <1>13, <3>2
      <3>4. ~Sole(s.todo, n)
        <4>1. Sole(s.todo, n) => Holds(s, n) >= 1  BY <1>10, SoleHolds
        <4> QED  BY <3>2, <4>1
      <3> QED  BY <1>13, <1>p, <2>2, <3>3, <3>4 DEF Balanced
    <2> QED  BY <2>1, <2>2
  <1> QED  BY <1>1, <1>10, <1>14, <1>15, <1>16, Moves

-----------------------------------------------------------------------------
(* The steps of a system call, which has one operation in its list. *)
Single == LooksUp \cup Copying
          \cup {"find", "add", "mkdir", "unlink2", "empty_dir", "rmdir2"}

LEMMA EndOp ==
    ASSUME Base, NEW t \in Tasks, NEW op \in Single, Now(t, op)
    PROVE  /\ r[t] \in Process /\ r[t].todo # <<>> /\ r[t].todo[1] = Head(r[t].todo)
           /\ r[t].todo[1].op = op /\ r[t].todo[1].n = Arg(t) /\ Len(r[t].todo) = 1
           /\ Arg(t) \in Ino0
           /\ Holding(r[t], op, FALSE) /\ NoTransfer(r[t].todo)
           /\ \A n : Listed(r[t], n) = 0 /\ ~Sole(r[t].todo, n)
           /\ \A n : Holds(r[t], n) = Count(r[t].fd = n) + Count(r[t].dir = n)
                                      + Count(r[t].inode = n)
  <1> DEFINE p == r[t]
             q == p.todo
  <1>1. /\ p \in Process /\ Shape(p) /\ q \in Seq(Operation) /\ q # <<>> /\ Run(q)
        /\ q[1] = Head(q) /\ q[1].op = op /\ q[1].n = Arg(t) /\ Arg(t) \in Ino0
        /\ Holding(p, q[Len(q)].op, Len(q) > 1)
        /\ Len(q) \in Nat /\ Len(q) >= 1
    BY AtHead
  <1>2. Len(q) = 1
    <2> DEFINE m == Len(q)
    <2>1. ASSUME m > 1 PROVE FALSE
      <3>1. 1 \in 1 .. m - 1 /\ 1 + 1 = 2  BY <1>1, <2>1
      <3>2. Follows(q[1], q[2])  BY <1>1, <3>1 DEF Run
      <3> QED  BY <1>1, <3>2 DEF Follows, Single, LooksUp, Copying
    <2>2. m \in Nat /\ m >= 1  BY <1>1
    <2> HIDE DEF m
    <2>3. m = 1  BY <2>1, <2>2
    <2> QED  BY <2>3 DEF m
  <1>3. Holding(p, op, FALSE)
    <2>1. (Len(q) > 1) = FALSE /\ q[Len(q)].op = op  BY <1>1, <1>2
    <2> QED  BY <1>1, <2>1
  <1>4. NoTransfer(q)  BY <1>1 DEF NoTransfer, Single, LooksUp, Copying
  <1> HIDE DEF q
  <1>5. DOMAIN q = {1}  BY <1>1, <1>2
  <1>6. op \notin {"iput", "fd", "free_inode", "read"}
    BY DEF Single, LooksUp, Copying
  <1>7. ASSUME NEW n PROVE Listed(p, n) = 0 /\ ~Sole(q, n)
    <2>1. Pending(q, n) = {}  BY <1>1, <1>5, <1>6 DEF Pending, Refers
    <2>2. ~Sole(q, n)  BY <1>1, <1>5, <1>6 DEF Sole
    <2> QED  BY <2>1, <2>2, FS_EmptySet DEF Listed, q
  <1>8. ASSUME NEW n
        PROVE  Holds(p, n) = Count(p.fd = n) + Count(p.dir = n) + Count(p.inode = n)
    <2>1. /\ Count(p.fd = n) \in 0 .. 1 /\ Count(p.dir = n) \in 0 .. 1
          /\ Count(p.inode = n) \in 0 .. 1
      BY CountType
    <2> QED  BY <1>7, <2>1 DEF Holds
  <1> QED  BY <1>1, <1>2, <1>3, <1>4, <1>7, <1>8 DEF q

(* Lists that put back what a call holds. *)
Tidy(ops) == /\ ops \in Seq(Operation) /\ ops # <<>> /\ Run(ops)
             /\ ops[1].op \in Plain \ {"write", "free_block", "free_inode"}
             /\ ops[Len(ops)].op \in Plain \ Open
             /\ \A n : ~Sole(ops, n)

LEMMA TidyOne ==
    ASSUME NEW op \in {"iput", "fd"}, NEW n \in Inodes
    PROVE  /\ Tidy(<<Op(op, n)>>) /\ Len(<<Op(op, n)>>) = 1
           /\ <<Op(op, n)>>[1].op = op
           /\ \A k : Cardinality(Pending(<<Op(op, n)>>, k)) = Count(n = k)
  <1> DEFINE o == Op(op, n)
             a == <<o>>
  <1>1. o \in Operation /\ o.op = op /\ o.n = n
    BY OpTypes DEF Ops, Ino0
  <1>2. n # 0  BY Numbers
  <1> HIDE DEF o
  <1>3. Run(a) /\ a \in Seq(Operation) /\ a # <<>> /\ Len(a) = 1 /\ a[1] = o
    BY <1>1, <1>2, RunOne
  <1>4. \A k : ~Sole(a, k)  BY <1>1, SoleOne
  <1>5. \A k : Cardinality(Pending(a, k)) = Count(n = k)
    <2>1. \A k : Refers(o, k) <=> n = k  BY <1>1 DEF Refers
    <2> QED  BY <2>1, PendingOne DEF Count
  <1> HIDE DEF a
  <1>6. Tidy(a)  BY <1>1, <1>3, <1>4 DEF Tidy, Plain, Open
  <1> QED  BY <1>1, <1>3, <1>5, <1>6 DEF a, o

LEMMA TidyTwo ==
    ASSUME NEW op, NEW op2, NEW n \in Inodes,
           \/ op \in {"nlinks--", "nlinks=0", "nlinks++"} /\ op2 = "iput"
           \/ op = "truncate" /\ op2 = "fd"
    PROVE  /\ Tidy(<<Op(op, n), Op(op2, n)>>) /\ Len(<<Op(op, n), Op(op2, n)>>) = 2
           /\ <<Op(op, n), Op(op2, n)>>[2].op = op2
           /\ \A k : Cardinality(Pending(<<Op(op, n), Op(op2, n)>>, k)) = Count(n = k)
  <1> DEFINE x == Op(op, n)
             y == Op(op2, n)
             a == <<x, y>>
  <1>1. /\ x \in Operation /\ x.op = op /\ x.n = n
        /\ y \in Operation /\ y.op = op2 /\ y.n = n
    BY OpTypes DEF Ops, Ino0
  <1>2. n # 0  BY Numbers
  <1> HIDE DEF x, y
  <1>3. Follows(x, y)  BY <1>1 DEF Follows
  <1>4. /\ Run(a) /\ a \in Seq(Operation) /\ a # <<>> /\ Len(a) = 2
        /\ a[1] = x /\ a[2] = y
    BY <1>1, <1>2, <1>3, RunTwo
  <1>5. /\ \A k : Cardinality(Pending(a, k)) = Count(Refers(x, k)) + Count(Refers(y, k))
        /\ \A k : Sole(a, k) <=> \/ x.op \in {"free_inode", "read"} /\ x.n = k
                                 \/ y.op \in {"free_inode", "read"} /\ y.n = k
    BY <1>1, TwoOps
  <1>6. \A k : ~Sole(a, k)  BY <1>1, <1>5
  <1>7. ASSUME NEW k PROVE Cardinality(Pending(a, k)) = Count(n = k)
    <2>1. ~Refers(x, k) /\ (Refers(y, k) <=> n = k)  BY <1>1 DEF Refers
    <2> QED  BY <1>5, <2>1 DEF Count
  <1> HIDE DEF a
  <1>8. Tidy(a)  BY <1>1, <1>4, <1>6 DEF Tidy, Plain, Open
  <1> QED  BY <1>1, <1>4, <1>7, <1>8 DEF a, x, y

LEMMA TidyJoined ==
    ASSUME NEW a, NEW b, Tidy(a), Tidy(b), a[Len(a)].op = "iput"
    PROVE  /\ Tidy(a \o b) /\ Len(a \o b) = Len(a) + Len(b)
           /\ (a \o b)[1] = a[1] /\ (a \o b)[Len(a \o b)] = b[Len(b)]
           /\ \A k : Cardinality(Pending(a \o b, k)) =
                Cardinality(Pending(a, k)) + Cardinality(Pending(b, k))
  <1>1. /\ a \in Seq(Operation) /\ a # <<>> /\ Run(a)
        /\ a[1].op \in Plain \ {"write", "free_block", "free_inode"}
        /\ \A n : ~Sole(a, n)
    BY DEF Tidy
  <1>2. /\ b \in Seq(Operation) /\ b # <<>> /\ Run(b)
        /\ b[1].op \in Plain \ {"write", "free_block", "free_inode"}
        /\ b[Len(b)].op \in Plain \ Open /\ \A n : ~Sole(b, n)
    BY DEF Tidy
  <1>3. Follows(a[Len(a)], b[1])  BY <1>2 DEF Follows
  <1>4. b[1].op \notin {"write", "free_block", "read", "free_inode"}
    BY <1>2 DEF Plain
  <1> DEFINE x == a \o b
  <1>5. /\ Run(x) /\ x \in Seq(Operation) /\ x # <<>>
        /\ Len(x) = Len(a) + Len(b) /\ x[1] = a[1] /\ x[Len(x)] = b[Len(b)]
    BY <1>1, <1>2, <1>3, <1>4, RunJoined
  <1>6. /\ Len(a) \in Nat /\ Len(b) \in Nat
        /\ \A i \in 1 .. Len(a) : x[i] = a[i]
        /\ \A i \in 1 .. Len(b) : x[Len(a) + i] = b[i]
    BY <1>1, <1>2, JoinLists
  <1>7. \A k : Cardinality(Pending(x, k)) =
                Cardinality(Pending(a, k)) + Cardinality(Pending(b, k))
    BY <1>1, <1>2, PendingJoined
  <1> HIDE DEF x
  <1>8. ASSUME NEW n, Sole(x, n) PROVE FALSE
    <2>1. PICK i \in DOMAIN x : x[i].op \in {"free_inode", "read"} /\ x[i].n = n
      BY <1>8 DEF Sole
    <2>2. i \in 1 .. Len(a) + Len(b)  BY <1>5, <2>1
    <2>3. CASE i \in 1 .. Len(a)
      <3>1. x[i] = a[i] /\ i \in DOMAIN a  BY <1>1, <1>6, <2>3
      <3> QED  BY <1>1, <2>1, <3>1 DEF Sole
    <2>4. CASE i \notin 1 .. Len(a)
      <3>1. i - Len(a) \in 1 .. Len(b) /\ i = Len(a) + (i - Len(a))
        BY <1>6, <2>2, <2>4
      <3>2. x[i] = b[i - Len(a)] /\ i - Len(a) \in DOMAIN b  BY <1>2, <1>6, <3>1
      <3> QED  BY <1>2, <2>1, <3>2 DEF Sole
    <2> QED  BY <2>3, <2>4
  <1>9. Tidy(x)  BY <1>1, <1>2, <1>5, <1>8 DEF Tidy
  <1> QED  BY <1>5, <1>7, <1>9 DEF x

(* A call puts what it holds, and its list is that of the calls to iput. *)
Putting(p, ops) == [p EXCEPT !.todo = ops, !.dir = 0, !.inode = 0]

LastOp(ops) == ops[Len(ops)].op

LEMMA PutRecord ==
    ASSUME NEW p \in Process, p.nr = 0, p.call = "open" => p.fd = 0,
           NEW ops, Tidy(ops), LastOp(ops) = "fd" => p.fd = 0,
           NEW s, s = Putting(p, ops)
    PROVE  /\ s \in Process /\ Shape(Return(s)) /\ s.todo = ops /\ s.todo # <<>>
           /\ NoTransfer(s.todo) /\ \A n : ~Sole(s.todo, n)
           /\ \A n \in Inodes : Holds(s, n) = Count(p.fd = n) + Cardinality(Pending(ops, n))
  <1>1. /\ ops \in Seq(Operation) /\ ops # <<>> /\ Run(ops)
        /\ ops[1].op \in Plain \ {"write", "free_block", "free_inode"}
        /\ ops[Len(ops)].op \in Plain \ Open /\ \A n : ~Sole(ops, n)
    BY DEF Tidy
  <1>2. 0 \in Ino0  BY DEF Ino0
  <1>3. /\ s \in Process /\ s.todo = ops /\ s.dir = 0 /\ s.inode = 0 /\ s.fd = p.fd
        /\ s.call = p.call /\ s.nr = p.nr
    BY <1>1, <1>2 DEF Process, Putting
  <1>4. p.nr = 0 /\ (p.call = "open" => p.fd = 0)  OBVIOUS
  <1> DEFINE last == ops[Len(ops)].op
             many == Len(ops) > 1
  <1>5. last \in Plain /\ last \notin Copying /\ last \notin LooksUp
    BY <1>1 DEF Plain, LooksUp, Copying
  <1>6. last = "fd" => p.fd = 0  BY DEF LastOp
  <1> HIDE DEF last, many
  <1>7. Holding(s, last, many)
    BY <1>3, <1>4, <1>5, <1>6 DEF Holding, Plain
  <1>8. Shape(s)  BY <1>1, <1>3, <1>7 DEF Shape, last, many
  <1>9. Return(s) = s  BY <1>1, <1>3 DEF Return
  <1>10. Head(ops) = ops[1]  BY <1>1, HeadAndRest
  <1>11. NoTransfer(ops)  BY <1>1, <1>10 DEF NoTransfer, Plain
  <1>12. ASSUME NEW n \in Inodes
         PROVE  Holds(s, n) = Count(p.fd = n) + Cardinality(Pending(ops, n))
    <2>1. Count(0 = n) = 0  BY Numbers DEF Count
    <2>2. Count(p.fd = n) \in 0 .. 1 /\ Cardinality(Pending(ops, n)) \in Nat
      BY <1>1, CountType, PendingFinite
    <2>3. Holds(s, n) = Count(p.fd = n) + 0 + 0 + Cardinality(Pending(ops, n))
      BY <1>3, <2>1 DEF Holds, Listed
    <2> QED  BY <2>2, <2>3
  <1> QED  BY <1>1, <1>3, <1>8, <1>9, <1>11, <1>12

LEMMA PutStep ==
    ASSUME Base, NEW t \in Tasks, NEW op \in Single, Now(t, op), NEW ops, Put(t, ops),
           Tidy(ops), ops[Len(ops)].op = "fd" => r[t].fd = 0,
           \A n \in Inodes : Cardinality(Pending(ops, n)) =
                                Count(r[t].dir = n) + Count(r[t].inode = n),
           Store', \A n \in Inodes : Same(n)
    PROVE  Base'
  <1> DEFINE p == r[t]
             s == Putting(p, ops)
  <1>1. /\ p \in Process /\ Holding(p, op, FALSE) /\ NoTransfer(p.todo)
        /\ \A n : Holds(p, n) = Count(p.fd = n) + Count(p.dir = n) + Count(p.inode = n)
    BY EndOp
  <1>o. p.nr = 0 /\ (p.call = "open" => p.fd = 0)  BY <1>1 DEF Holding
  <1>2. Go(t, s)  BY DEF Put, Putting
  <1>p. p = r[t] /\ (ops[Len(ops)].op = "fd" => p.fd = 0)  OBVIOUS
  <1> HIDE DEF p
  <1>s. s = Putting(p, ops)  OBVIOUS
  <1> HIDE DEF s
  <1>3. /\ s \in Process /\ Shape(Return(s)) /\ s.todo = ops /\ s.todo # <<>>
        /\ NoTransfer(s.todo) /\ \A n : ~Sole(s.todo, n)
        /\ \A n \in Inodes : Holds(s, n) = Count(p.fd = n) + Cardinality(Pending(ops, n))
    <2>1. LastOp(ops) = "fd" => p.fd = 0  BY <1>p DEF LastOp
    <2>2. s \in Process BY <1>1, <1>o, <1>s, <2>1, PutRecord
    <2>3. Shape(Return(s)) BY <1>1, <1>o, <1>s, <2>1, PutRecord
    <2>4. NoTransfer(s.todo) BY <1>1, <1>o, <1>s, <2>1, PutRecord
    <2>5. \A n : ~Sole(s.todo, n) BY <1>1, <1>o, <1>s, <2>1, PutRecord
    <2>6. \A n \in Inodes : Holds(s, n) = Count(p.fd = n) + Cardinality(Pending(ops, n))
      BY <1>1, <1>o, <1>s, <2>1, PutRecord
    <2>7. s.todo = ops /\ s.todo # <<>> BY <1>1, <1>o, <1>s, <2>1, PutRecord
    <2> QED  BY <2>2, <2>3, <2>4, <2>5, <2>6, <2>7
  <1>4. ASSUME NEW n \in Inodes PROVE Holds(s, n) = Holds(p, n)
    <2>1. /\ Count(p.fd = n) \in 0 .. 1 /\ Count(p.dir = n) \in 0 .. 1
          /\ Count(p.inode = n) \in 0 .. 1
      BY CountType
    <2>2. Cardinality(Pending(ops, n)) = Count(p.dir = n) + Count(p.inode = n)
      BY <1>p
    <2> QED  BY <1>1, <1>3, <2>1, <2>2
  <1> QED  BY <1>1, <1>2, <1>3, <1>4, <1>p, QuietStep

(* The four orders in which the directory and the inode are put. *)
LEMMA PutLists ==
    ASSUME NEW t \in Tasks, r[t] \in Process
    PROVE  /\ r[t].dir # 0 => /\ Tidy(PutDir(t)) /\ Len(PutDir(t)) = 1
                              /\ PutDir(t)[1].op = "iput"
                              /\ \A n : Cardinality(Pending(PutDir(t), n)) = Count(r[t].dir = n)
           /\ r[t].inode # 0 => /\ Tidy(PutInode(t)) /\ Len(PutInode(t)) = 1
                                /\ PutInode(t)[1].op = "iput"
                                /\ \A n : Cardinality(Pending(PutInode(t), n)) =
                                             Count(r[t].inode = n)
  <1>1. r[t].dir # 0 => r[t].dir \in Inodes  BY DEF Process, Ino0
  <1>2. r[t].inode # 0 => r[t].inode \in Inodes  BY DEF Process, Ino0
  <1>3. ASSUME r[t].dir # 0
        PROVE  /\ Tidy(PutDir(t)) /\ Len(PutDir(t)) = 1 /\ PutDir(t)[1].op = "iput"
               /\ \A n : Cardinality(Pending(PutDir(t), n)) = Count(r[t].dir = n)
    BY <1>1, <1>3, TidyOne DEF PutDir, iput
  <1>4. ASSUME r[t].inode # 0
        PROVE  /\ Tidy(PutInode(t)) /\ Len(PutInode(t)) = 1 /\ PutInode(t)[1].op = "iput"
               /\ \A n : Cardinality(Pending(PutInode(t), n)) = Count(r[t].inode = n)
    BY <1>2, <1>4, TidyOne DEF PutInode, iput
  <1> QED  BY <1>3, <1>4

(* What is put of a directory and an inode, of which one may be missing. *)
Puts(t, ops) == /\ Tidy(ops) /\ ops[Len(ops)].op = "iput"
                /\ \A n \in Inodes : Cardinality(Pending(ops, n)) =
                                Count(r[t].dir = n) + Count(r[t].inode = n)

LEMMA PutsAll ==
    ASSUME NEW t \in Tasks, r[t] \in Process
    PROVE  /\ r[t].dir # 0 => Puts(t, PutAll(t))
           /\ r[t].dir # 0 /\ r[t].inode = 0 => Puts(t, PutDir(t))
           /\ r[t].dir = 0 /\ r[t].inode # 0 => Puts(t, PutInode(t))
           /\ r[t].dir # 0 /\ r[t].inode # 0 =>
                 Puts(t, PutDir(t) \o PutInode(t)) /\ Puts(t, PutInode(t) \o PutDir(t))
  <1> DEFINE a == PutDir(t)
             b == PutInode(t)
             d == r[t].dir
             i == r[t].inode
  <1>1. /\ d # 0 => /\ Tidy(a) /\ Len(a) = 1 /\ a[1].op = "iput"
                    /\ \A n : Cardinality(Pending(a, n)) = Count(d = n)
        /\ i # 0 => /\ Tidy(b) /\ Len(b) = 1 /\ b[1].op = "iput"
                    /\ \A n : Cardinality(Pending(b, n)) = Count(i = n)
    BY PutLists
  <1>2. \A n \in Inodes : Count(0 = n) = 0  BY Numbers DEF Count
  <1>3. \A n : Count(d = n) \in 0 .. 1 /\ Count(i = n) \in 0 .. 1  BY CountType
  <1> HIDE DEF a, b
  <1>4. ASSUME d # 0, i = 0 PROVE Puts(t, a)
    BY <1>1, <1>2, <1>3, <1>4 DEF Puts
  <1>5. ASSUME d = 0, i # 0 PROVE Puts(t, b)
    BY <1>1, <1>2, <1>3, <1>5, SMTT(30) DEF Puts
  <1>6. ASSUME d # 0, i # 0 PROVE Puts(t, a \o b)
    <2>1. /\ Tidy(a \o b) /\ Len(a \o b) = Len(a) + Len(b)
          /\ (a \o b)[Len(a \o b)] = b[Len(b)]
          /\ \A k : Cardinality(Pending(a \o b, k)) =
                Cardinality(Pending(a, k)) + Cardinality(Pending(b, k))
      BY <1>1, <1>6, TidyJoined
    <2> QED  BY <1>1, <1>6, <2>1 DEF Puts
  <1>7. ASSUME d # 0, i # 0 PROVE Puts(t, b \o a)
    <2>1. /\ Tidy(b \o a) /\ Len(b \o a) = Len(b) + Len(a)
          /\ (b \o a)[Len(b \o a)] = a[Len(a)]
          /\ \A k : Cardinality(Pending(b \o a, k)) =
                Cardinality(Pending(b, k)) + Cardinality(Pending(a, k))
      BY <1>1, <1>7, TidyJoined
    <2>2. \A n : Count(i = n) + Count(d = n) = Count(d = n) + Count(i = n)  BY <1>3
    <2>3. \A n : Cardinality(Pending(b \o a, n)) = Count(d = n) + Count(i = n)
      <3> HIDE DEF d, i
      <3> QED  BY <1>1, <1>7, <2>1, <2>2
    <2> QED  BY <1>1, <1>7, <2>1, <2>3 DEF Puts
  <1> QED  BY <1>4, <1>5, <1>6, <1>7 DEF a, b, PutAll

LEMMA PutsStep ==
    ASSUME Base, NEW t \in Tasks, NEW op \in Single, Now(t, op), NEW ops, Put(t, ops),
           Puts(t, ops), Store', \A n \in Inodes : Same(n)
    PROVE  Base'
  <1>1. Tidy(ops) /\ ops[Len(ops)].op # "fd"
        /\ \A n \in Inodes : Cardinality(Pending(ops, n)) =
                                Count(r[t].dir = n) + Count(r[t].inode = n)
    BY DEF Puts
  <1> QED  BY <1>1, PutStep

(* Nothing but the process changes. *)
LEMMA StoreSame ==
    ASSUME Base, UNCHANGED <<disk, core, dirs, imap, zmap, panic>>
    PROVE  Store' /\ \A n \in Inodes : Same(n)
  BY DEF Base, TypeOK, Store, Same

(* A process finds the inodes it has in its fields in the table. *)
LEMMA InUse ==
    ASSUME Base, NEW t \in Tasks, NEW n \in Inodes,
           r[t].fd = n \/ r[t].dir = n \/ r[t].inode = n
    PROVE  core[n].in /\ core[n].count \in Nat /\ core[n].count >= 1
           /\ (n = ROOT_INO => core[n].count >= 2)
  <1>1. TypeOK /\ Table /\ Counts /\ r[t] \in Process  BY DEF Base, TypeOK
  <1>2. Holds(r[t], n) >= 1  BY <1>1, HoldsType
  <1> QED  BY <1>1, <1>2, HeldIsIn

(* A list with one operation of a system call. *)
LEMMA OneOp ==
    ASSUME NEW s \in Process, NEW o, o.op \in Single, s.todo = <<o>>,
           Holding(s, o.op, FALSE)
    PROVE  /\ Shape(Return(s)) /\ s.todo # <<>> /\ NoTransfer(s.todo)
           /\ \A n : ~Sole(s.todo, n)
           /\ \A n : Holds(s, n) = Count(s.fd = n) + Count(s.dir = n) + Count(s.inode = n)
  <1>1. s.todo # <<>> /\ Len(s.todo) = 1 /\ s.todo[1] = o /\ Head(s.todo) = o
        /\ (Len(s.todo) > 1) = FALSE
    OBVIOUS
  <1>2. /\ o.op \notin Plain /\ o.op \notin Open
        /\ o.op \notin {"iput", "fd", "free_inode", "read", "write"}
    BY DEF Single, LooksUp, Copying, Plain, Open
  <1>3. Run(s.todo)
    <2>1. 1 .. Len(s.todo) = {1} /\ 1 .. Len(s.todo) - 1 = {} /\ 2 .. Len(s.todo) = {}
      BY <1>1
    <2> QED  BY <1>1, <1>2, <2>1 DEF Run
  <1>4. Holding(s, s.todo[Len(s.todo)].op, Len(s.todo) > 1)
    BY <1>1, Zenon
  <1>5. Return(s) = s  BY <1>1 DEF Return
  <1>6. Shape(Return(s))  BY <1>1, <1>2, <1>3, <1>4, <1>5 DEF Shape
  <1>7. NoTransfer(s.todo)  BY <1>1, <1>2 DEF NoTransfer
  <1>8. ASSUME NEW n PROVE ~Sole(s.todo, n)  BY <1>2, SoleOne
  <1>9. ASSUME NEW n
        PROVE  Holds(s, n) = Count(s.fd = n) + Count(s.dir = n) + Count(s.inode = n)
    <2>1. Listed(s, n) = Count(Refers(o, n))  BY PendingOne DEF Listed
    <2>2. Count(Refers(o, n)) = 0  BY <1>2 DEF Refers, Count
    <2>3. /\ Count(s.fd = n) \in 0 .. 1 /\ Count(s.dir = n) \in 0 .. 1
          /\ Count(s.inode = n) \in 0 .. 1
      BY CountType
    <2> QED  BY <2>1, <2>2, <2>3 DEF Holds
  <1> QED  BY <1>1, <1>6, <1>7, <1>8, <1>9

(* The call goes on with one operation and what it has. *)
LEMMA SingleStep ==
    ASSUME Base, NEW t \in Tasks, NEW op \in Single, Now(t, op),
           NEW s \in Process, Go(t, s), NEW o, o.op \in Single, s.todo = <<o>>,
           Holding(s, o.op, FALSE), s.fd = r[t].fd, s.dir = r[t].dir, s.inode = r[t].inode,
           Store', \A n \in Inodes : Same(n)
    PROVE  Base'
  <1>1. /\ NoTransfer(r[t].todo)
        /\ \A n : Holds(r[t], n) = Count(r[t].fd = n) + Count(r[t].dir = n)
                                   + Count(r[t].inode = n)
    BY EndOp
  <1>2. /\ Shape(Return(s)) /\ s.todo # <<>> /\ NoTransfer(s.todo)
        /\ \A n : ~Sole(s.todo, n)
        /\ \A n : Holds(s, n) = Count(s.fd = n) + Count(s.dir = n) + Count(s.inode = n)
    BY OneOp
  <1>3. \A n \in Inodes : Holds(s, n) = Holds(r[t], n)  BY <1>1, <1>2
  <1> QED  BY <1>1, <1>2, <1>3, QuietStep

(* The same with only a new list. *)
LEMMA DoSingle ==
    ASSUME Base, NEW t \in Tasks, NEW op \in Single, Now(t, op),
           NEW op2 \in Single, NEW n \in Ino0, Do(t, <<Op(op2, n)>>),
           \A s \in Process : /\ s.todo = <<Op(op2, n)>> /\ s.fd = r[t].fd
                              /\ s.call = r[t].call /\ s.path = r[t].path /\ s.new = r[t].new
                              /\ s.dir = r[t].dir /\ s.inode = r[t].inode /\ s.nr = r[t].nr
                              /\ s.slot = r[t].slot /\ s.zone = r[t].zone
                              => Holding(s, op2, FALSE),
           Store', \A k \in Inodes : Same(k)
    PROVE  Base'
  <1> DEFINE o == Op(op2, n)
             p == r[t]
             s == With(p, <<o>>)
  <1>1. p \in Process  BY DEF Base, TypeOK
  <1>2. o \in Operation /\ o.op = op2
    <2>1. op2 \in Ops  BY DEF Single, LooksUp, Copying, Ops
    <2> QED  BY <2>1, OpTypes
  <1>3. Go(t, s)  BY DEF Do, With
  <1> HIDE DEF o
  <1>4. <<o>> \in Seq(Operation)  BY <1>2
  <1>5. s = With(p, <<o>>)  OBVIOUS
  <1> HIDE DEF s, p
  <1>6. /\ s \in Process /\ s.todo = <<o>> /\ s.fd = p.fd /\ s.call = p.call
        /\ s.path = p.path /\ s.new = p.new /\ s.dir = p.dir /\ s.inode = p.inode
        /\ s.nr = p.nr /\ s.slot = p.slot /\ s.zone = p.zone
    BY <1>1, <1>4, <1>5 DEF With, Process
  <1>7. Holding(s, o.op, FALSE)
    BY <1>2, <1>6 DEF o, p
  <1> QED  BY <1>2, <1>3, <1>6, <1>7, SingleStep DEF p

(* get_dir, dir_namei *)
LEMMA get_dirStep ==
    ASSUME Base, NEW t \in Tasks, get_dir(t)
    PROVE  Base'
  <1> DEFINE op == "walk"
  <1>1. Now(t, op) /\ UNCHANGED <<disk, core, dirs, imap, zmap, panic>>
    BY DEF get_dir
  <1>2. Put(t, PutAll(t)) \/ Do(t, <<Op("find", 0)>>)  BY DEF get_dir
  <1>3. op \in Single /\ "find" \in Single  BY DEF Single, LooksUp
  <1>4. r[t] \in Process /\ Holding(r[t], op, FALSE)  BY <1>1, <1>3, EndOp
  <1>5. Store' /\ \A n \in Inodes : Same(n)  BY <1>1, StoreSame
  <1>6. CASE Put(t, PutAll(t))
    <2>1. r[t].dir # 0  BY <1>4 DEF Holding, Plain, Copying
    <2>2. Puts(t, PutAll(t))  BY <1>4, <2>1, PutsAll
    <2> HIDE DEF op
    <2> QED  BY <1>1, <1>3, <1>5, <1>6, <2>2, PutsStep
  <1>7. CASE Do(t, <<Op("find", 0)>>)
    <2>1. ASSUME NEW s \in Process, s.todo = <<Op("find", 0)>>, s.fd = r[t].fd,
                 s.call = r[t].call, s.path = r[t].path, s.new = r[t].new,
                 s.dir = r[t].dir, s.inode = r[t].inode, s.nr = r[t].nr
          PROVE  Holding(s, "find", FALSE)
      <3>1. s.todo[1].op = "find"  BY <2>1 DEF Op
      <3> QED  BY <1>4, <2>1, <3>1 DEF Holding, Plain, Copying, LooksUp
    <2>2. 0 \in Ino0  BY DEF Ino0
    <2> HIDE DEF op
    <2> QED  BY <1>1, <1>3, <1>5, <1>7, <2>1, <2>2, DoSingle
  <1> QED  BY <1>2, <1>6, <1>7

(* open_namei after iget *)
LEMMA open_nameiStep ==
    ASSUME Base, NEW t \in Tasks, open_namei(t)
    PROVE  Base'
  <1> DEFINE op == "open"
             n == r[t].inode
  <1>1. Now(t, op) /\ UNCHANGED <<disk, core, dirs, imap, zmap, panic>>
    BY DEF open_namei
  <1>2. \/ Put(t, PutInode(t)) \/ Put(t, <<Op("truncate", n), Op("fd", n)>>)
        \/ Put(t, <<Op("fd", n)>>)
    BY DEF open_namei
  <1>3. op \in Single  BY DEF Single, LooksUp
  <1>4. r[t] \in Process /\ Holding(r[t], op, FALSE)  BY <1>1, <1>3, EndOp
  <1>5. Store' /\ \A k \in Inodes : Same(k)  BY <1>1, StoreSame
  <1>6. r[t].dir = 0 /\ n # 0 /\ r[t].fd = 0
    BY <1>4 DEF Holding, Plain, Copying
  <1>7. n \in Inodes  BY <1>4, <1>6 DEF Process, Ino0
  <1>8. \A k \in Inodes : Count(r[t].dir = k) + Count(n = k) = Count(n = k)
    <2>1. \A k \in Inodes : Count(0 = k) = 0  BY Numbers DEF Count
    <2>2. \A k : Count(n = k) \in 0 .. 1  BY CountType
    <2> QED  BY <1>6, <2>1, <2>2
  <1> HIDE DEF op, n
  <1>9. CASE Put(t, PutInode(t))
    <2>1. Puts(t, PutInode(t))  BY <1>4, <1>6, PutsAll DEF n
    <2> QED  BY <1>1, <1>3, <1>5, <1>9, <2>1, PutsStep
  <1>10. ASSUME NEW ops, Put(t, ops), Tidy(ops),
                \A k : Cardinality(Pending(ops, k)) = Count(n = k)
         PROVE  Base'
    <2>1. \A k \in Inodes : Cardinality(Pending(ops, k)) =
                               Count(r[t].dir = k) + Count(r[t].inode = k)
      BY <1>8, <1>10 DEF n
    <2> QED  BY <1>1, <1>3, <1>5, <1>6, <1>10, <2>1, PutStep
  <1>11. CASE Put(t, <<Op("truncate", n), Op("fd", n)>>)
    <2> DEFINE ops == <<Op("truncate", n), Op("fd", n)>>
    <2>1. Tidy(ops) /\ \A k : Cardinality(Pending(ops, k)) = Count(n = k)
      BY <1>7, TidyTwo
    <2>2. Put(t, ops)  BY <1>11
    <2> HIDE DEF ops
    <2> QED  BY <1>10, <2>1, <2>2
  <1>12. CASE Put(t, <<Op("fd", n)>>)
    <2> DEFINE ops == <<Op("fd", n)>>
    <2>1. Tidy(ops) /\ \A k : Cardinality(Pending(ops, k)) = Count(n = k)
      BY <1>7, TidyOne
    <2>2. Put(t, ops)  BY <1>12
    <2> HIDE DEF ops
    <2> QED  BY <1>10, <2>1, <2>2
  <1> QED  BY <1>2, <1>9, <1>11, <1>12 DEF n

(* An inode the process has changes, and not in what counts here. *)
LEMMA StoreOne ==
    ASSUME Base, NEW t \in Tasks, NEW n \in Inodes, NEW m \in Minode,
           r[t].fd = n \/ r[t].dir = n \/ r[t].inode = n,
           core' = [core EXCEPT ![n] = m],
           m.count = core[n].count, m.in = core[n].in, m.lock = core[n].lock,
           disk' = disk, imap' = imap, zmap' \subseteq Zones, panic' = panic,
           dirs' \in [Zones -> [1 .. Slots -> [ino : Ino0, name : STRING \cup {"none"}]]]
    PROVE  Store' /\ \A k \in Inodes : Same(k)
  <1>1. core[n].in  BY InUse
  <1>2. core \in [Inodes -> Minode]  BY DEF Base, TypeOK
  <1>3. core' \in [Inodes -> Minode] /\ \A k \in Inodes : Same(k)
    BY <1>1, <1>2, OneChange
  <1> QED  BY <1>3 DEF Base, TypeOK, Store

LEMMA DirsType ==
    ASSUME Base, NEW z, NEW i, NEW e \in [ino : Ino0, name : STRING \cup {"none"}]
    PROVE  [dirs EXCEPT ![z][i] = e]
             \in [Zones -> [1 .. Slots -> [ino : Ino0, name : STRING \cup {"none"}]]]
  BY DEF Base, TypeOK

LEMMA BlockType ==
    ASSUME Base, NEW z
    PROVE  [dirs EXCEPT ![z] = [i \in 1 .. Slots |-> Free]]
             \in [Zones -> [1 .. Slots -> [ino : Ino0, name : STRING \cup {"none"}]]]
  <1>1. Free \in [ino : Ino0, name : STRING \cup {"none"}]  BY DEF Free, Ino0
  <1> QED  BY <1>1 DEF Base, TypeOK

LEMMA ClearedType ==
    ASSUME Base, NEW t
    PROVE  Cleared(t) \in [Zones -> [1 .. Slots -> [ino : Ino0, name : STRING \cup {"none"}]]]
  <1>1. Free \in [ino : Ino0, name : STRING \cup {"none"}]  BY DEF Free, Ino0
  <1> QED  BY <1>1, DirsType DEF Cleared

(* What a call has while it uses an inode it looked up. *)
LEMMA HasInode ==
    ASSUME Base, NEW t \in Tasks, NEW op \in Single \ (Copying \cup {"walk", "find"}),
           Now(t, op)
    PROVE  /\ r[t] \in Process /\ r[t].inode \in Inodes /\ r[t].nr = 0
           /\ IF op \in {"open", "namei", "chmod"} THEN r[t].dir = 0 ELSE r[t].dir \in Inodes
           /\ core[r[t].inode] \in Minode
  <1>1. r[t] \in Process /\ Holding(r[t], op, FALSE)  BY EndOp
  <1>2. op \notin Plain /\ op \notin Copying  BY DEF Single, LooksUp, Copying, Plain
  <1>3. r[t].inode # 0 /\ r[t].nr = 0  BY <1>1, <1>2 DEF Holding
  <1>4. r[t].dir = 0 <=> op \in {"open", "namei", "chmod"}  BY <1>1, <1>2 DEF Holding
  <1>5. r[t].inode \in Ino0 /\ r[t].dir \in Ino0  BY <1>1 DEF Process
  <1>6. r[t].inode \in Inodes  BY <1>3, <1>5 DEF Ino0
  <1> QED  BY <1>1, <1>3, <1>4, <1>5, <1>6 DEF Ino0, Base, TypeOK

(* namei for chmod *)
LEMMA nameiStep ==
    ASSUME Base, NEW t \in Tasks, namei(t)
    PROVE  Base'
  <1> DEFINE op == "chmod"
             n == r[t].inode
             m == [core[n] EXCEPT !.dirt = TRUE]
  <1>1. Now(t, op) /\ Put(t, PutInode(t)) /\ UNCHANGED <<disk, dirs, imap, zmap, panic>>
        /\ core' = [core EXCEPT ![n] = m]
    BY DEF namei
  <1>2. op \in Single \ (Copying \cup {"walk", "find"})  BY DEF Single, LooksUp, Copying
  <1>3. r[t] \in Process /\ n \in Inodes /\ r[t].dir = 0 /\ core[n] \in Minode
    BY <1>1, <1>2, HasInode
  <1>4. m \in Minode /\ m.count = core[n].count /\ m.in = core[n].in /\ m.lock = core[n].lock
    BY <1>3 DEF Minode
  <1>5. dirs' \in [Zones -> [1 .. Slots -> [ino : Ino0, name : STRING \cup {"none"}]]]
        /\ zmap' \subseteq Zones
    BY <1>1 DEF Base, TypeOK
  <1> HIDE DEF op, m
  <1>6. Store' /\ \A k \in Inodes : Same(k)  BY <1>1, <1>3, <1>4, <1>5, StoreOne
  <1>7. Puts(t, PutInode(t))  BY <1>3, PutsAll, Numbers
  <1> QED  BY <1>1, <1>2, <1>6, <1>7, PutsStep

(* sys_unlink before and after it has cleared the entry *)
LEMMA sys_unlinkStep ==
    ASSUME Base, NEW t \in Tasks, sys_unlink(t)
    PROVE  Base'
  <1> DEFINE op == "unlink"
             n == r[t].inode
             m == [core[n] EXCEPT !.nlinks = IF @ = 0 THEN 1 ELSE @]
  <1>1. Now(t, op) /\ UNCHANGED <<disk, imap, zmap, panic>>
    BY DEF sys_unlink
  <1>2. op \in Single \ (Copying \cup {"walk", "find"}) /\ "unlink2" \in Single
    BY DEF Single, LooksUp, Copying
  <1>3. /\ r[t] \in Process /\ n \in Inodes /\ r[t].dir \in Inodes /\ core[n] \in Minode
    BY <1>1, <1>2, HasInode
  <1>4. CASE core[n].mode = "dir"
    <2>1. Put(t, PutInode(t) \o PutDir(t)) /\ UNCHANGED <<core, dirs>>
      BY <1>4 DEF sys_unlink
    <2>2. Store' /\ \A k \in Inodes : Same(k)  BY <1>1, <2>1, StoreSame
    <2>3. Puts(t, PutInode(t) \o PutDir(t))  BY <1>3, PutsAll, Numbers
    <2> HIDE DEF op
    <2> QED  BY <1>1, <1>2, <2>1, <2>2, <2>3, PutsStep
  <1>5. CASE core[n].mode # "dir"
    <2>1. core' = [core EXCEPT ![n] = m] /\ dirs' = Cleared(t) /\ Do(t, <<Op("unlink2", 0)>>)
      BY <1>5 DEF sys_unlink
    <2>2. m \in Minode /\ m.count = core[n].count /\ m.in = core[n].in /\ m.lock = core[n].lock
      BY <1>3 DEF Minode
    <2>3. dirs' \in [Zones -> [1 .. Slots -> [ino : Ino0, name : STRING \cup {"none"}]]]
          /\ zmap' \subseteq Zones
      BY <1>1, <2>1, ClearedType DEF Base, TypeOK
    <2> HIDE DEF m
    <2>4. Store' /\ \A k \in Inodes : Same(k)  BY <1>1, <1>3, <2>1, <2>2, <2>3, StoreOne
    <2>5. Holding(r[t], op, FALSE)  BY <1>1, <1>2, EndOp
    <2>6. ASSUME NEW s \in Process, s.todo = <<Op("unlink2", 0)>>, s.fd = r[t].fd,
                 s.call = r[t].call, s.path = r[t].path, s.new = r[t].new,
                 s.dir = r[t].dir, s.inode = r[t].inode, s.nr = r[t].nr, s.slot = r[t].slot
          PROVE  Holding(s, "unlink2", FALSE)
      <3>1. s.todo[1].op = "unlink2"  BY <2>6 DEF Op
      <3> QED  BY <2>5, <2>6, <3>1 DEF Holding, Plain, Copying, LooksUp
    <2>7. 0 \in Ino0  BY DEF Ino0
    <2> HIDE DEF op
    <2> QED  BY <1>1, <1>2, <2>1, <2>4, <2>6, <2>7, DoSingle
  <1> QED  BY <1>4, <1>5

LEMMA Unlink2Step ==
    ASSUME Base, NEW t \in Tasks, Unlink2(t)
    PROVE  Base'
  <1> DEFINE op == "unlink2"
             n == r[t].inode
             c == core[n]
             m == [c EXCEPT !.nlinks = c.nlinks - 1, !.dirt = TRUE]
  <1>1. Now(t, op) /\ Put(t, PutInode(t) \o PutDir(t))
        /\ UNCHANGED <<disk, dirs, imap, zmap, panic>> /\ core' = Unlinked(n)
    BY DEF Unlink2
  <1>2. op \in Single \ (Copying \cup {"walk", "find"})
    BY DEF Single, LooksUp, Copying
  <1>3. /\ r[t] \in Process /\ n \in Inodes /\ r[t].dir \in Inodes /\ core[n] \in Minode
    BY <1>1, <1>2, HasInode
  <1>4. core' = [core EXCEPT ![n] = m]
    BY <1>1, <1>3 DEF Unlinked, Base, TypeOK
  <1>5. m \in Minode /\ m.count = core[n].count /\ m.in = core[n].in /\ m.lock = core[n].lock
    <2>1. c.nlinks - 1 \in Int  BY <1>3 DEF Minode
    <2> HIDE DEF c
    <2>2. c \in Minode  BY <1>3 DEF c
    <2>3. m \in Minode /\ m.count = c.count /\ m.in = c.in /\ m.lock = c.lock
      BY <2>1, <2>2 DEF Minode
    <2> QED  BY <2>3 DEF c
  <1>6. dirs' \in [Zones -> [1 .. Slots -> [ino : Ino0, name : STRING \cup {"none"}]]]
        /\ zmap' \subseteq Zones
    BY <1>1 DEF Base, TypeOK
  <1> HIDE DEF op, m, c
  <1>7. Store' /\ \A k \in Inodes : Same(k)
    <2>1. r[t].inode = n /\ disk' = disk /\ imap' = imap /\ panic' = panic  BY <1>1
    <2> HIDE DEF n
    <2> QED  BY <1>3, <1>4, <1>5, <1>6, <2>1, StoreOne
  <1>8. Puts(t, PutInode(t) \o PutDir(t))  BY <1>3, PutsAll, Numbers
  <1> QED  BY <1>1, <1>2, <1>7, <1>8, PutsStep

(* sys_rmdir looks at the directory *)
LEMMA sys_rmdirStep ==
    ASSUME Base, NEW t \in Tasks, sys_rmdir(t)
    PROVE  Base'
  <1> DEFINE op == "rmdir"
  <1>1. Now(t, op) /\ UNCHANGED <<disk, core, dirs, imap, zmap, panic>>
    BY DEF sys_rmdir
  <1>2. \/ Put(t, PutAll(t)) \/ Put(t, PutInode(t) \o PutDir(t))
        \/ Do(t, <<Op("empty_dir", 0)>>)
    BY DEF sys_rmdir
  <1>3. op \in Single \ (Copying \cup {"walk", "find"}) /\ "empty_dir" \in Single
    BY DEF Single, LooksUp, Copying
  <1>4. /\ r[t] \in Process /\ r[t].inode \in Inodes /\ r[t].dir \in Inodes
    BY <1>1, <1>3, HasInode
  <1>5. Store' /\ \A n \in Inodes : Same(n)  BY <1>1, StoreSame
  <1>6. Puts(t, PutAll(t)) /\ Puts(t, PutInode(t) \o PutDir(t))
    BY <1>4, PutsAll, Numbers
  <1>7. Holding(r[t], op, FALSE)  BY <1>1, <1>3, EndOp
  <1>8. CASE Do(t, <<Op("empty_dir", 0)>>)
    <2>1. ASSUME NEW s \in Process, s.todo = <<Op("empty_dir", 0)>>, s.fd = r[t].fd,
                 s.call = r[t].call, s.path = r[t].path, s.new = r[t].new,
                 s.dir = r[t].dir, s.inode = r[t].inode, s.nr = r[t].nr, s.slot = r[t].slot
          PROVE  Holding(s, "empty_dir", FALSE)
      <3>1. s.todo[1].op = "empty_dir"  BY <2>1 DEF Op
      <3> QED  BY <1>7, <2>1, <3>1 DEF Holding, Plain, Copying, LooksUp
    <2>2. 0 \in Ino0  BY DEF Ino0
    <2> HIDE DEF op
    <2> QED  BY <1>1, <1>3, <1>5, <1>8, <2>1, <2>2, DoSingle
  <1> HIDE DEF op
  <1>9. CASE Put(t, PutAll(t))  BY <1>1, <1>3, <1>5, <1>6, <1>9, PutsStep
  <1>10. CASE Put(t, PutInode(t) \o PutDir(t))
    BY <1>1, <1>3, <1>5, <1>6, <1>10, PutsStep
  <1> QED  BY <1>2, <1>8, <1>9, <1>10

LEMMA empty_dirStep ==
    ASSUME Base, NEW t \in Tasks, empty_dir(t)
    PROVE  Base'
  <1> DEFINE op == "empty_dir"
             full == \E i \in DOMAIN Entries(r[t].inode) : Entries(r[t].inode)[i].ino # 0
  <1>1. Now(t, op) /\ UNCHANGED <<disk, core, imap, zmap, panic>>
    BY DEF empty_dir
  <1>2. op \in Single \ (Copying \cup {"walk", "find"}) /\ "rmdir2" \in Single
    BY DEF Single, LooksUp, Copying
  <1>3. /\ r[t] \in Process /\ r[t].inode \in Inodes /\ r[t].dir \in Inodes
    BY <1>1, <1>2, HasInode
  <1>4. CASE full
    <2>1. Put(t, PutInode(t) \o PutDir(t)) /\ UNCHANGED dirs
      BY <1>4 DEF empty_dir
    <2>2. Store' /\ \A k \in Inodes : Same(k)  BY <1>1, <2>1, StoreSame
    <2>3. Puts(t, PutInode(t) \o PutDir(t))  BY <1>3, PutsAll, Numbers
    <2> HIDE DEF op
    <2> QED  BY <1>1, <1>2, <2>1, <2>2, <2>3, PutsStep
  <1>5. CASE ~full
    <2>1. dirs' = Cleared(t) /\ Do(t, <<Op("rmdir2", 0)>>)
      BY <1>5 DEF empty_dir
    <2>2. Store' /\ \A k \in Inodes : Same(k)
      BY <1>1, <2>1, ClearedType DEF Base, TypeOK, Store, Same
    <2>3. Holding(r[t], op, FALSE)  BY <1>1, <1>2, EndOp
    <2>4. ASSUME NEW s \in Process, s.todo = <<Op("rmdir2", 0)>>, s.fd = r[t].fd,
                 s.call = r[t].call, s.path = r[t].path, s.new = r[t].new,
                 s.dir = r[t].dir, s.inode = r[t].inode, s.nr = r[t].nr, s.slot = r[t].slot
          PROVE  Holding(s, "rmdir2", FALSE)
      <3>1. s.todo[1].op = "rmdir2"  BY <2>4 DEF Op
      <3> QED  BY <2>3, <2>4, <3>1 DEF Holding, Plain, Copying, LooksUp
    <2>5. 0 \in Ino0  BY DEF Ino0
    <2> HIDE DEF op
    <2> QED  BY <1>1, <1>2, <2>1, <2>2, <2>4, <2>5, DoSingle
  <1> QED  BY <1>4, <1>5

(* The link counts of the directory and of its parent change. *)
LEMMA Rmdir2Step ==
    ASSUME Base, NEW t \in Tasks, Rmdir2(t)
    PROVE  Base'
  <1> DEFINE op == "rmdir2"
             n == r[t].inode
             d == r[t].dir
             a == [core[n] EXCEPT !.nlinks = 0, !.dirt = TRUE]
             mid == [core EXCEPT ![n] = a]
             b == [mid[d] EXCEPT !.nlinks = @ - 1, !.dirt = TRUE]
  <1>1. Now(t, op) /\ Put(t, PutAll(t)) /\ UNCHANGED <<disk, dirs, imap, zmap, panic>>
    BY DEF Rmdir2
  <1>2. op \in Single \ (Copying \cup {"walk", "find"})
    BY DEF Single, LooksUp, Copying
  <1>3. /\ r[t] \in Process /\ n \in Inodes /\ d \in Inodes /\ core[n] \in Minode
    BY <1>1, <1>2, HasInode
  <1>4. core[n].in /\ core[d].in /\ core \in [Inodes -> Minode]
    BY <1>3, InUse DEF Base, TypeOK
  <1>5. core' = [mid EXCEPT ![d] = b]
    BY <1>3, <1>4 DEF Rmdir2
  <1> HIDE DEF n, d
  <1>6. a \in Minode /\ a.count = core[n].count /\ a.in = core[n].in /\ a.lock = core[n].lock
    <2> DEFINE c == core[n]
    <2>1. 0 \in Int /\ c \in Minode  BY <1>3
    <2> HIDE DEF c
    <2>2. LET x == [c EXCEPT !.nlinks = 0, !.dirt = TRUE]
          IN x \in Minode /\ x.count = c.count /\ x.in = c.in /\ x.lock = c.lock
      BY <2>1 DEF Minode
    <2> QED  BY <2>2 DEF c
  <1> HIDE DEF a
  <1>7. /\ mid \in [Inodes -> Minode]
        /\ \A k \in Inodes : /\ mid[k].count = core[k].count /\ mid[k].in = core[k].in
                             /\ mid[k].lock = core[k].lock
                             /\ ~core[k].in => mid[k] = core[k]
    BY <1>3, <1>4, <1>6
  <1> HIDE DEF mid
  <1>8. b \in Minode /\ b.count = mid[d].count /\ b.in = mid[d].in /\ b.lock = mid[d].lock
    <2> DEFINE c == mid[d]
    <2>1. c \in Minode  BY <1>3, <1>7
    <2> HIDE DEF c
    <2>2. c.nlinks - 1 \in Int  BY <2>1 DEF Minode
    <2>3. LET x == [c EXCEPT !.nlinks = @ - 1, !.dirt = TRUE]
          IN x \in Minode /\ x.count = c.count /\ x.in = c.in /\ x.lock = c.lock
      BY <2>1, <2>2 DEF Minode
    <2> QED  BY <2>3 DEF c
  <1> HIDE DEF b
  <1>9. core' \in [Inodes -> Minode] /\ core'[d] = b
        /\ \A k \in Inodes \ {d} : core'[k] = mid[k]
    BY <1>3, <1>5, <1>7, <1>8
  <1>10. Store' /\ \A k \in Inodes : Same(k)
    <2>1. ASSUME NEW k \in Inodes PROVE Same(k)
      <3>1. CASE k = d  BY <1>4, <1>7, <1>8, <1>9, <3>1 DEF Same
      <3>2. CASE k # d  BY <1>7, <1>9, <3>2 DEF Same
      <3> QED  BY <3>1, <3>2
    <2>2. Store'  BY <1>1, <1>9 DEF Base, TypeOK, Store
    <2> QED  BY <2>1, <2>2
  <1>11. Puts(t, PutAll(t))  BY <1>3, PutsAll, Numbers DEF d
  <1> HIDE DEF op
  <1> QED  BY <1>1, <1>2, <1>10, <1>11, PutsStep

(* sys_mkdir has its block. *)
LEMMA sys_mkdirStep ==
    ASSUME Base, NEW t \in Tasks, sys_mkdir(t)
    PROVE  Base'
  <1> DEFINE op == "mkdir"
             n == r[t].inode
             m == [core[n] EXCEPT !.zone = r[t].zone, !.nlinks = 2, !.mode = "dir",
                                  !.dirt = TRUE]
             o == Op("add", 0)
             s == [r[t] EXCEPT !.zone = 0, !.todo = <<o>>]
  <1>1. Now(t, op) /\ UNCHANGED <<disk, imap, zmap, panic>> /\ Go(t, s)
        /\ core' = [core EXCEPT ![n] = m]
        /\ dirs' = [dirs EXCEPT ![r[t].zone] = [i \in 1 .. Slots |-> Free]]
    BY DEF sys_mkdir
  <1>2. op \in Single \ (Copying \cup {"walk", "find"}) /\ "add" \in Single
    BY DEF Single, LooksUp, Copying
  <1>3. /\ r[t] \in Process /\ n \in Inodes /\ core[n] \in Minode
    BY <1>1, <1>2, HasInode
  <1>4. m \in Minode /\ m.count = core[n].count /\ m.in = core[n].in /\ m.lock = core[n].lock
    <2> DEFINE c == core[n]
               z == r[t].zone
    <2>1. c \in Minode /\ z \in Zone0 /\ 2 \in Int /\ "dir" \in Modes
      BY <1>3 DEF Process, Modes
    <2> HIDE DEF c, z
    <2>2. LET x == [c EXCEPT !.zone = z, !.nlinks = 2, !.mode = "dir", !.dirt = TRUE]
          IN x \in Minode /\ x.count = c.count /\ x.in = c.in /\ x.lock = c.lock
      BY <2>1 DEF Minode
    <2> QED  BY <2>2 DEF c, z
  <1> HIDE DEF m
  <1>5. dirs' \in [Zones -> [1 .. Slots -> [ino : Ino0, name : STRING \cup {"none"}]]]
        /\ zmap' \subseteq Zones
    BY <1>1, BlockType DEF Base, TypeOK
  <1>6. Store' /\ \A k \in Inodes : Same(k)
    <2>1. r[t].inode = n /\ disk' = disk /\ imap' = imap /\ panic' = panic
          /\ core' = [core EXCEPT ![n] = m]
      BY <1>1
    <2> HIDE DEF n
    <2> QED  BY <1>3, <1>4, <1>5, <2>1, StoreOne
  <1>7. o.op = "add" /\ o \in Operation /\ <<o>> \in Seq(Operation)
    <2>1. o.op = "add" /\ o \in Operation  BY OpTypes DEF Ops, Ino0
    <2> HIDE DEF o
    <2> QED  BY <2>1
  <1> HIDE DEF o
  <1>8. /\ s \in Process /\ s.todo = <<o>> /\ s.fd = r[t].fd /\ s.call = r[t].call
        /\ s.path = r[t].path /\ s.new = r[t].new /\ s.dir = r[t].dir
        /\ s.inode = r[t].inode /\ s.nr = r[t].nr
    BY <1>3, <1>7 DEF Process, Zone0
  <1> HIDE DEF s
  <1>9. Holding(s, "add", FALSE)
    <2>1. Holding(r[t], op, FALSE)  BY <1>1, <1>2, EndOp
    <2>2. s.todo[1].op = "add"  BY <1>7, <1>8
    <2> QED  BY <1>8, <2>1, <2>2 DEF Holding, Plain, Copying, LooksUp
  <1>10. o.op \in Single /\ Holding(s, o.op, FALSE)  BY <1>2, <1>7, <1>9
  <1> HIDE DEF op
  <1> QED  BY <1>1, <1>2, <1>6, <1>8, <1>10, SingleStep

(* add_entry, and what each caller does then *)
LEMMA AddStep ==
    ASSUME Base, NEW t \in Tasks, Add(t)
    PROVE  Base'
  <1> DEFINE op == "add"
             d == r[t].dir
             n == r[t].inode
             S == {i \in DOMAIN Entries(d) : Entries(d)[i].ino = 0}
             c == core[d]
             m == [c EXCEPT !.nlinks = c.nlinks + ParentLinks(n),
                            !.dirt = c.dirt \/ core[n].mode = "dir"]
             e == [ino |-> n, name |-> Head(r[t].path)]
             opened == PutDir(t) \o <<Op("fd", n)>>
             linked == <<Op("brelse", 0)>> \o PutDir(t) \o <<Op("nlinks++", n), iput(n)>>
  <1>1. /\ Now(t, op) /\ UNCHANGED <<disk, imap, zmap, panic>>
        /\ dirs' = [dirs EXCEPT ![c.zone][Min(S)] = e]
    BY DEF Add
  <1>2. /\ r[t].call = "open" => Put(t, opened)
        /\ r[t].call = "link" => Put(t, linked)
        /\ r[t].call \notin {"open", "link"} => Put(t, PutDir(t) \o PutInode(t))
    BY DEF Add
  <1>3. op \in Single \ (Copying \cup {"walk", "find"})
    BY DEF Single, LooksUp, Copying
  <1>4. /\ r[t] \in Process /\ n \in Inodes /\ d \in Inodes /\ core[n] \in Minode
    BY <1>1, <1>3, HasInode
  <1>5. core \in [Inodes -> Minode] /\ c \in Minode  BY <1>4 DEF Base, TypeOK
  <1>6. core' = [core EXCEPT ![d] = m]
    BY <1>4, <1>5 DEF Add
  <1>7. m \in Minode /\ m.count = c.count /\ m.in = c.in /\ m.lock = c.lock
    <2> DEFINE x == c.nlinks + ParentLinks(n)
               y == c.dirt \/ core[n].mode = "dir"
    <2>1. x \in Int
      <3>1. c.nlinks \in Int  BY <1>5 DEF Minode
      <3>2. ParentLinks(n) \in Int  BY DEF ParentLinks
      <3> QED  BY <3>1, <3>2
    <2>2. y \in BOOLEAN  OBVIOUS
    <2> HIDE DEF x, y, c
    <2>3. LET z == [c EXCEPT !.nlinks = x, !.dirt = y]
          IN z \in Minode /\ z.count = c.count /\ z.in = c.in /\ z.lock = c.lock
      BY <1>5, <2>1, <2>2 DEF Minode
    <2> QED  BY <2>3 DEF x, y
  <1>8. dirs' \in [Zones -> [1 .. Slots -> [ino : Ino0, name : STRING \cup {"none"}]]]
        /\ zmap' \subseteq Zones
    <2>1. Holding(r[t], op, FALSE)  BY <1>1, <1>3, EndOp
    <2>2. r[t].path # <<>> /\ r[t].path \in Seq(STRING)
      BY <1>4, <2>1 DEF Holding, Plain, Copying, Process
    <2>3. Head(r[t].path) \in STRING  BY <2>2
    <2>4. e \in [ino : Ino0, name : STRING \cup {"none"}]  BY <1>4, <2>3 DEF Ino0
    <2> HIDE DEF e, S, c
    <2> QED  BY <1>1, <2>4, DirsType DEF Base, TypeOK
  <1>9. Store' /\ \A k \in Inodes : Same(k)
    <2>1. r[t].dir = d /\ disk' = disk /\ imap' = imap /\ panic' = panic  BY <1>1
    <2>2. m.count = core[d].count /\ m.in = core[d].in /\ m.lock = core[d].lock
      BY <1>7
    <2> HIDE DEF d, m
    <2> QED  BY <1>4, <1>6, <1>7, <1>8, <2>1, <2>2, StoreOne
  <1> HIDE DEF m, c, S, e
  <1>10. /\ Tidy(PutDir(t)) /\ Len(PutDir(t)) = 1 /\ PutDir(t)[1].op = "iput"
         /\ \A k : Cardinality(Pending(PutDir(t), k)) = Count(d = k)
    BY <1>4, PutLists, Numbers
  <1>11. Puts(t, PutDir(t) \o PutInode(t))  BY <1>4, PutsAll, Numbers
  <1>12. CASE r[t].call = "open"
    <2> DEFINE a == PutDir(t)
               b == <<Op("fd", n)>>
    <2>1. Tidy(b) /\ Len(b) = 1 /\ b[1].op = "fd"
          /\ \A k : Cardinality(Pending(b, k)) = Count(n = k)
      BY <1>4, TidyOne
    <2>2. Put(t, a \o b)  BY <1>2, <1>12
    <2>3. Holding(r[t], op, FALSE)  BY <1>1, <1>3, EndOp
    <2>4. r[t].fd = 0  BY <1>12, <2>3 DEF Holding
    <2> HIDE DEF a, b, op
    <2>5. Tidy(a) /\ a[Len(a)].op = "iput" /\ \A k : Cardinality(Pending(a, k)) = Count(d = k)
      BY <1>10 DEF a
    <2>6. Tidy(a \o b) /\ \A k : Cardinality(Pending(a \o b, k)) =
             Cardinality(Pending(a, k)) + Cardinality(Pending(b, k))
      BY <2>1, <2>5, TidyJoined
    <2>7. \A k \in Inodes : Cardinality(Pending(a \o b, k)) =
                                Count(r[t].dir = k) + Count(r[t].inode = k)
      BY <2>1, <2>5, <2>6
    <2> DEFINE ops == a \o b
    <2> HIDE DEF ops
    <2>8. Tidy(ops) /\ Put(t, ops) /\ \A k \in Inodes : Cardinality(Pending(ops, k)) =
                                Count(r[t].dir = k) + Count(r[t].inode = k)
      BY <2>2, <2>6, <2>7 DEF ops
    <2> QED  BY <1>1, <1>3, <1>9, <2>4, <2>8, PutStep
  <1>14. CASE r[t].call \notin {"open", "link"}
    <2>1. Put(t, PutDir(t) \o PutInode(t))  BY <1>2, <1>14
    <2> HIDE DEF op
    <2> QED  BY <1>1, <1>3, <1>9, <1>11, <2>1, PutsStep
  <1>13. CASE r[t].call = "link"
    <2> DEFINE x == Op("brelse", 0)
               y == iput(d)
               b == <<Op("nlinks++", n), Op("iput", n)>>
               a == <<x, y>>
    <2>1. Tidy(b) /\ Len(b) = 2 /\ b[2].op = "iput"
          /\ \A k : Cardinality(Pending(b, k)) = Count(n = k)
      BY <1>4, TidyTwo
    <2>2. x \in Operation /\ x.op = "brelse" /\ x.n = 0  BY OpTypes DEF Ops, Ino0
    <2>3. y \in Operation /\ y.op = "iput" /\ y.n = d  BY <1>4, OpTypes DEF Ops, Ino0, iput
    <2>4. Put(t, a \o b)
      <3>1. linked = (<<x>> \o <<y>>) \o b  BY DEF PutDir, iput
      <3>2. <<x>> \o <<y>> = <<x, y>>  BY <2>2, <2>3, TwoOps
      <3> QED  BY <1>2, <1>13, <3>1, <3>2
    <2> HIDE DEF x, y, b
    <2>5. Run(a) /\ a \in Seq(Operation) /\ a # <<>> /\ Len(a) = 2 /\ a[1] = x /\ a[2] = y
      <3>1. y.n # 0  BY <1>4, <2>3, Numbers
      <3>2. Follows(x, y)  BY <2>2, <2>3 DEF Follows
      <3> QED  BY <2>2, <2>3, <3>1, <3>2, RunTwo
    <2>6. \A k : Cardinality(Pending(a, k)) = Count(d = k) /\ ~Sole(a, k)
      <3>1. ASSUME NEW k PROVE Cardinality(Pending(a, k)) = Count(d = k) /\ ~Sole(a, k)
        <4>1. Cardinality(Pending(a, k)) = Count(Refers(x, k)) + Count(Refers(y, k))
              /\ ~Sole(a, k)
          BY <2>2, <2>3, TwoOps
        <4>2. Count(Refers(x, k)) = 0  BY <2>2 DEF Refers, Count
        <4>3. Count(Refers(y, k)) = Count(d = k)  BY <2>3 DEF Refers, Count
        <4>4. Count(d = k) \in 0 .. 1  BY CountType
        <4> QED  BY <4>1, <4>2, <4>3, <4>4
      <3> QED  BY <3>1
    <2> HIDE DEF a, op
    <2>7. Tidy(a)  BY <2>2, <2>3, <2>5, <2>6 DEF Tidy, Plain, Open
    <2>8. a[Len(a)].op = "iput"  BY <2>3, <2>5
    <2>9. Tidy(a \o b) /\ \A k : Cardinality(Pending(a \o b, k)) =
                                     Cardinality(Pending(a, k)) + Cardinality(Pending(b, k))
      BY <2>1, <2>7, <2>8, TidyJoined
    <2>l. (a \o b)[Len(a \o b)] = b[Len(b)]
      BY <2>1, <2>7, <2>8, TidyJoined
    <2>10. \A k \in Inodes : Cardinality(Pending(a \o b, k)) =
                                Count(r[t].dir = k) + Count(r[t].inode = k)
      BY <2>1, <2>6, <2>9
    <2> DEFINE ops == a \o b
    <2> HIDE DEF ops
    <2>11. Puts(t, ops) /\ Put(t, ops)
      BY <2>1, <2>4, <2>9, <2>l, <2>10 DEF ops, Puts
    <2> QED  BY <1>1, <1>3, <1>9, <2>11, PutsStep
  <1> QED  BY <1>12, <1>13, <1>14

(* no entry for more *)
LEMMA AddFailsStep ==
    ASSUME Base, NEW t \in Tasks, AddFails(t)
    PROVE  Base'
  <1> DEFINE op == "add"
             n == r[t].inode
             d == r[t].dir
             c == core[n]
             m == [c EXCEPT !.nlinks = c.nlinks - 1]
             undone == PutDir(t) \o <<Op("nlinks=0", n), iput(n)>>
  <1>1. Now(t, op) /\ UNCHANGED <<disk, dirs, imap, zmap, panic>>
    BY DEF AddFails
  <1>2. /\ r[t].call = "open" => Put(t, PutInode(t) \o PutDir(t))
        /\ r[t].call = "link" => Put(t, PutDir(t) \o PutInode(t))
        /\ r[t].call \notin {"open", "link"} => Put(t, undone)
    BY DEF AddFails
  <1>3. op \in Single \ (Copying \cup {"walk", "find"})
    BY DEF Single, LooksUp, Copying
  <1>4. /\ r[t] \in Process /\ n \in Inodes /\ d \in Inodes /\ core[n] \in Minode
    BY <1>1, <1>3, HasInode
  <1>5. m \in Minode /\ m.count = c.count /\ m.in = c.in /\ m.lock = c.lock
    <2>1. c.nlinks - 1 \in Int  BY <1>4 DEF Minode
    <2> HIDE DEF c
    <2> QED  BY <1>4, <2>1 DEF Minode, c
  <1>6. Store' /\ \A k \in Inodes : Same(k)
    <2>1. CASE r[t].call = "open"
      <3>1. core' = [core EXCEPT ![n] = m]  BY <2>1 DEF AddFails
      <3>2. r[t].inode = n /\ disk' = disk /\ imap' = imap /\ panic' = panic  BY <1>1
      <3>3. m.count = core[n].count /\ m.in = core[n].in /\ m.lock = core[n].lock
        BY <1>5
      <3>4. dirs' \in [Zones -> [1 .. Slots -> [ino : Ino0, name : STRING \cup {"none"}]]]
            /\ zmap' \subseteq Zones
        BY <1>1 DEF Base, TypeOK
      <3> HIDE DEF n, m
      <3> QED  BY <1>4, <1>5, <3>1, <3>2, <3>3, <3>4, StoreOne
    <2>2. CASE r[t].call # "open"
      <3>1. core' = core  BY <2>2 DEF AddFails
      <3> QED  BY <1>1, <3>1, StoreSame
    <2> QED  BY <2>1, <2>2
  <1> HIDE DEF m, c
  <1>7. Puts(t, PutDir(t) \o PutInode(t)) /\ Puts(t, PutInode(t) \o PutDir(t))
    BY <1>4, PutsAll, Numbers
  <1>8. Puts(t, undone)
    <2> DEFINE a == PutDir(t)
               b == <<Op("nlinks=0", n), Op("iput", n)>>
    <2>1. Tidy(b) /\ Len(b) = 2 /\ b[2].op = "iput"
          /\ \A k : Cardinality(Pending(b, k)) = Count(n = k)
      BY <1>4, TidyTwo
    <2>2. undone = a \o b  BY DEF iput
    <2>3. /\ Tidy(a) /\ Len(a) = 1 /\ a[1].op = "iput"
          /\ \A k : Cardinality(Pending(a, k)) = Count(d = k)
      BY <1>4, PutLists, Numbers
    <2> HIDE DEF a, b, undone
    <2>4. Tidy(a) /\ a[Len(a)].op = "iput"  BY <2>3
    <2>5. Tidy(a \o b) /\ \A k : Cardinality(Pending(a \o b, k)) =
                                    Cardinality(Pending(a, k)) + Cardinality(Pending(b, k))
      BY <2>1, <2>4, TidyJoined
    <2>6. (a \o b)[Len(a \o b)] = b[Len(b)]
      BY <2>1, <2>4, TidyJoined
    <2>7. \A k \in Inodes : Cardinality(Pending(a \o b, k)) =
                                Count(r[t].dir = k) + Count(r[t].inode = k)
      BY <2>1, <2>3, <2>5
    <2> DEFINE ops == a \o b
    <2> HIDE DEF ops
    <2>8. Puts(t, ops)  BY <2>1, <2>5, <2>6, <2>7 DEF ops, Puts
    <2> QED  BY <2>2, <2>8 DEF ops
  <1> HIDE DEF op, undone
  <1>9. \E ops : Put(t, ops) /\ Puts(t, ops)  BY <1>2, <1>7, <1>8
  <1> QED  BY <1>1, <1>3, <1>6, <1>9, PutsStep

(* A process in user mode. *)
LEMMA Idle ==
    ASSUME Base, NEW t \in Tasks, r[t].todo = <<>>
    PROVE  /\ r[t] \in Process /\ r[t] = User(r[t].fd) /\ NoTransfer(r[t].todo)
           /\ r[t].fd \in Ino0 /\ r[t].dir = 0 /\ r[t].inode = 0 /\ r[t].nr = 0
           /\ r[t].call = "none" /\ r[t].zone = 0
           /\ \A n \in Inodes : Holds(r[t], n) = Count(r[t].fd = n)
           /\ \A n : ~Sole(r[t].todo, n)
  <1>1. r[t] \in Process /\ r[t] = User(r[t].fd)
    BY DEF Base, TypeOK, Shapes, Shape
  <1>2. r[t].fd \in Ino0  BY <1>1 DEF Process
  <1>3. /\ r[t].dir = 0 /\ r[t].inode = 0 /\ r[t].nr = 0 /\ r[t].call = "none"
        /\ r[t].zone = 0
    BY <1>1 DEF User
  <1>4. \A n \in Inodes : Holds(r[t], n) = Count(r[t].fd = n)
    BY <1>1, <1>2, UserHolds
  <1>5. NoTransfer(r[t].todo) /\ \A n : ~Sole(r[t].todo, n)
    BY DEF NoTransfer, Sole
  <1> QED  BY <1>1, <1>2, <1>3, <1>4, <1>5

(* file_write takes the block the file has, or a new one. *)
LEMMA WriteBegins ==
    ASSUME Base, NEW t \in Tasks, r[t].todo = <<>>, r[t].fd # 0,
           NEW z \in Zones, NEW op \in {"bread", "create_block"},
           NEW s, s = [r[t] EXCEPT !.zone = z, !.todo = <<Op(op, r[t].fd)>>],
           Go(t, s), Store', \A n \in Inodes : Same(n)
    PROVE  Base'
  <1> DEFINE p == r[t]
             o == Op(op, p.fd)
  <1>1. /\ p \in Process /\ NoTransfer(p.todo) /\ p.fd \in Ino0 /\ p.dir = 0 /\ p.inode = 0
        /\ p.nr = 0 /\ p.call = "none"
    BY Idle
  <1>2. /\ \A n \in Inodes : Holds(p, n) = Count(p.fd = n)
    BY Idle
  <1>3. o \in Operation /\ o.op = op /\ o.n = p.fd  BY <1>1, OpTypes DEF Ops
  <1>4. s = [p EXCEPT !.zone = z, !.todo = <<o>>]  OBVIOUS
  <1>5. op \in Single /\ op \in Copying  BY DEF Single, Copying
  <1> HIDE DEF o, p
  <1>6. <<o>> \in Seq(Operation)  BY <1>3
  <1>7. /\ s \in Process /\ s.todo = <<o>> /\ s.fd = p.fd /\ s.dir = p.dir /\ s.inode = p.inode
        /\ s.nr = p.nr /\ s.call = p.call /\ s.zone = z
    BY <1>1, <1>4, <1>6 DEF Process, Zone0
  <1>8. z # 0 /\ p.fd # 0  BY Numbers DEF p
  <1>9. Holding(s, op, FALSE)
    <2>1. s.todo[1] = o  BY <1>7
    <2>2. op \notin Plain /\ op \notin LooksUp  BY DEF Plain, LooksUp
    <2> QED  BY <1>1, <1>3, <1>5, <1>7, <1>8, <2>1, <2>2 DEF Holding
  <1>10. o.op \in Single /\ Holding(s, o.op, FALSE)  BY <1>3, <1>5, <1>9
  <1>11. /\ Shape(Return(s)) /\ s.todo # <<>> /\ NoTransfer(s.todo)
         /\ \A n : ~Sole(s.todo, n)
         /\ \A n : Holds(s, n) = Count(s.fd = n) + Count(s.dir = n) + Count(s.inode = n)
    BY <1>7, <1>10, OneOp
  <1>12. ASSUME NEW n \in Inodes PROVE Holds(s, n) = Holds(p, n)
    <2>1. Count(0 = n) = 0  BY Numbers DEF Count
    <2>2. Count(p.fd = n) \in 0 .. 1  BY CountType
    <2> QED  BY <1>1, <1>2, <1>7, <1>11, <2>1, <2>2
  <1>13. p = r[t]  BY DEF p
  <1> QED  BY <1>1, <1>7, <1>11, <1>12, <1>13, QuietStep

(* The least element of a set of numbers. *)
LEMMA MinIn ==
    ASSUME NEW S, S # {}, S \subseteq Nat
    PROVE  Min(S) \in S
  <1> DEFINE R == OpToRel(<, Nat)
  <1>1. IsWellFoundedOn(R, Nat)  BY NatLessThanWellFounded
  <1> HIDE DEF R
  <1>2. PICK x \in S : \A y \in S : ~(<<y, x>> \in R)
    BY <1>1, WFMin
  <1>3. \A y \in Nat : y < x => <<y, x>> \in R
    BY DEF R, OpToRel
  <1>4. \A y \in S : ~(y < x)  BY <1>2, <1>3
  <1>5. \A y \in S : x <= y  BY <1>4
  <1> QED  BY <1>5 DEF Min

LEMMA Natural == Inodes \subseteq Nat /\ Zones \subseteq Nat
  <1> DEFINE a == Cardinality(Inodes)
             b == Cardinality(Zones)
  <1>1. Inodes = 1 .. a /\ Zones = 1 .. b  BY FsAssumption
  <1>2. a \in Nat /\ b \in Nat  BY FS_CardinalityType, FsAssumption
  <1> HIDE DEF a, b
  <1> QED  BY <1>1, <1>2

LEMMA file_writeStep ==
    ASSUME Base, NEW t \in Tasks, file_write(t)
    PROVE  Base'
  <1> DEFINE n == r[t].fd
             z == new_block
  <1>1. r[t].todo = <<>> /\ n # 0 /\ UNCHANGED <<disk, core, dirs, imap, panic>>
    BY DEF file_write
  <1>2. n \in Inodes /\ core[n] \in Minode
    <2>1. n \in Ino0  BY <1>1, Idle
    <2> QED  BY <1>1, <2>1 DEF Ino0, Base, TypeOK
  <1>3. CASE core[n].zone # 0
    <2> DEFINE y == core[n].zone
               op == "bread"
               s == [r[t] EXCEPT !.zone = y, !.todo = <<Op(op, r[t].fd)>>]
    <2>1. Go(t, s) /\ UNCHANGED zmap  BY <1>3 DEF file_write
    <2>2. y \in Zones  BY <1>2, <1>3 DEF Minode, Zone0
    <2>3. Store' /\ \A k \in Inodes : Same(k)  BY <1>1, <2>1, StoreSame
    <2>4. op \in {"bread", "create_block"}  OBVIOUS
    <2>5. s = [r[t] EXCEPT !.zone = y, !.todo = <<Op(op, r[t].fd)>>]  OBVIOUS
    <2> HIDE DEF y, op, s
    <2> QED  BY <1>1, <2>1, <2>2, <2>3, <2>4, <2>5, WriteBegins
  <1>4. CASE core[n].zone = 0
    <2> DEFINE op == "create_block"
               s == [r[t] EXCEPT !.zone = z, !.todo = <<Op(op, r[t].fd)>>]
    <2>1. Go(t, s) /\ zmap' = zmap \cup {z} /\ zmap # Zones  BY <1>4 DEF file_write
    <2>2. z \in Zones
      <3>1. zmap \subseteq Zones  BY DEF Base, TypeOK
      <3> QED  BY <2>1, <3>1, MinIn, Natural DEF new_block
    <2>3. Store' /\ \A k \in Inodes : Same(k)
      BY <1>1, <2>1, <2>2 DEF Base, TypeOK, Store, Same
    <2>4. op \in {"bread", "create_block"}  OBVIOUS
    <2>5. s = [r[t] EXCEPT !.zone = z, !.todo = <<Op(op, r[t].fd)>>]  OBVIOUS
    <2> HIDE DEF z, op, s
    <2> QED  BY <1>1, <2>1, <2>2, <2>3, <2>4, <2>5, WriteBegins
  <1> QED  BY <1>3, <1>4

(* The file a process writes is its open file. *)
LEMMA Writing ==
    ASSUME Base, NEW t \in Tasks, NEW op \in Copying, Now(t, op)
    PROVE  /\ op \in Single /\ r[t] \in Process /\ Arg(t) = r[t].fd /\ r[t].fd \in Inodes
           /\ r[t].dir = 0 /\ r[t].inode = 0 /\ r[t].zone \in Zones
           /\ core[r[t].fd] \in Minode
           /\ \A op2 \in Copying, s \in Process :
                 /\ s.todo = <<Op(op2, Arg(t))>> /\ s.fd = r[t].fd
                 /\ s.call = r[t].call /\ s.dir = r[t].dir /\ s.inode = r[t].inode
                 /\ s.nr = r[t].nr /\ s.zone = r[t].zone
                 => Holding(s, op2, FALSE)
  <1>1. op \in Single  BY DEF Single
  <1>2. r[t] \in Process /\ Holding(r[t], op, FALSE) /\ r[t].todo[1].n = Arg(t)
    BY <1>1, EndOp
  <1>3. /\ r[t].dir = 0 /\ r[t].inode = 0 /\ r[t].fd # 0 /\ r[t].zone # 0
        /\ r[t].todo[1].n = r[t].fd /\ r[t].nr = 0 /\ r[t].call # "open"
    BY <1>2 DEF Holding
  <1>4. r[t].fd \in Inodes /\ r[t].zone \in Zones  BY <1>2, <1>3 DEF Process, Ino0, Zone0
  <1>5. core[r[t].fd] \in Minode  BY <1>4 DEF Base, TypeOK
  <1>6. ASSUME NEW op2 \in Copying, NEW s \in Process,
               s.todo = <<Op(op2, Arg(t))>>, s.fd = r[t].fd, s.call = r[t].call,
               s.dir = r[t].dir, s.inode = r[t].inode, s.nr = r[t].nr, s.zone = r[t].zone
        PROVE  Holding(s, op2, FALSE)
    <2>1. s.todo[1].n = Arg(t)  BY <1>6 DEF Op
    <2>2. op2 \notin Plain /\ op2 \notin LooksUp
          /\ op2 \notin {"open", "namei", "chmod", "mkdir", "unlink", "unlink2", "rmdir",
                         "empty_dir", "rmdir2", "add", "mkdir", "fd"}
      BY DEF Copying, Plain, LooksUp
    <2> QED  BY <1>2, <1>3, <1>6, <2>1, <2>2 DEF Holding
  <1> QED  BY <1>1, <1>2, <1>3, <1>4, <1>5, <1>6

LEMMA create_blockStep ==
    ASSUME Base, NEW t \in Tasks, create_block(t)
    PROVE  Base'
  <1> DEFINE op == "create_block"
             op2 == "bread"
             n == Arg(t)
             m == [core[n] EXCEPT !.zone = r[t].zone, !.dirt = TRUE]
  <1>1. Now(t, op) /\ Do(t, <<Op(op2, n)>>) /\ UNCHANGED <<disk, imap, zmap, panic>>
    BY DEF create_block
  <1>2. op \in Copying /\ op2 \in Copying /\ op2 \in Single  BY DEF Copying, Single
  <1>3. /\ op \in Single /\ r[t] \in Process /\ n = r[t].fd /\ n \in Inodes
        /\ r[t].zone \in Zones /\ core[n] \in Minode
    BY <1>1, <1>2, Writing
  <1>4. ASSUME NEW s \in Process, s.todo = <<Op(op2, n)>>, s.fd = r[t].fd,
               s.call = r[t].call, s.dir = r[t].dir, s.inode = r[t].inode,
               s.nr = r[t].nr, s.zone = r[t].zone
        PROVE  Holding(s, op2, FALSE)
    BY <1>1, <1>2, <1>4, Writing
  <1>5. core' = [core EXCEPT ![n] = m]
    BY <1>3 DEF create_block, Base, TypeOK
  <1>6. m \in Minode /\ m.count = core[n].count /\ m.in = core[n].in /\ m.lock = core[n].lock
    <2> DEFINE c == core[n]
               z == r[t].zone
    <2>1. c \in Minode /\ z \in Zone0  BY <1>3 DEF Process
    <2> HIDE DEF c, z
    <2>2. LET x == [c EXCEPT !.zone = z, !.dirt = TRUE]
          IN x \in Minode /\ x.count = c.count /\ x.in = c.in /\ x.lock = c.lock
      BY <2>1 DEF Minode
    <2> QED  BY <2>2 DEF c, z
  <1>7. dirs' \in [Zones -> [1 .. Slots -> [ino : Ino0, name : STRING \cup {"none"}]]]
        /\ zmap' \subseteq Zones
    <2>1. dirs' = [dirs EXCEPT ![r[t].zone] = [i \in 1 .. Slots |-> Free]]
      BY DEF create_block
    <2> QED  BY <1>1, <2>1, BlockType DEF Base, TypeOK
  <1>8. Store' /\ \A k \in Inodes : Same(k)
    <2>1. r[t].fd = n /\ disk' = disk /\ imap' = imap /\ panic' = panic  BY <1>1, <1>3
    <2> HIDE DEF n, m
    <2> QED  BY <1>3, <1>5, <1>6, <1>7, <2>1, StoreOne
  <1>9. n \in Ino0  BY <1>3 DEF Ino0
  <1> HIDE DEF op, op2, n
  <1> QED  BY <1>1, <1>2, <1>3, <1>4, <1>8, <1>9, DoSingle

LEMMA BreadStep ==
    ASSUME Base, NEW t \in Tasks, Bread(t)
    PROVE  Base'
  <1> DEFINE op == "bread"
             op2 == "copy"
             n == Arg(t)
  <1>1. Now(t, op) /\ Do(t, <<Op(op2, n)>>) /\ UNCHANGED <<disk, core, dirs, imap, zmap, panic>>
    BY DEF Bread
  <1>2. op \in Copying /\ op2 \in Copying /\ op2 \in Single  BY DEF Copying, Single
  <1>3. op \in Single /\ n = r[t].fd /\ n \in Inodes
    BY <1>1, <1>2, Writing
  <1>4. ASSUME NEW s \in Process, s.todo = <<Op(op2, n)>>, s.fd = r[t].fd,
               s.call = r[t].call, s.dir = r[t].dir, s.inode = r[t].inode,
               s.nr = r[t].nr, s.zone = r[t].zone
        PROVE  Holding(s, op2, FALSE)
    BY <1>1, <1>2, <1>4, Writing
  <1>5. Store' /\ \A k \in Inodes : Same(k)  BY <1>1, StoreSame
  <1>6. n \in Ino0  BY <1>3 DEF Ino0
  <1> HIDE DEF op, op2, n
  <1> QED  BY <1>1, <1>2, <1>3, <1>4, <1>5, <1>6, DoSingle

(* A call returns to user mode. *)
LEMMA CopiedStep ==
    ASSUME Base, NEW t \in Tasks, Copied(t)
    PROVE  Base'
  <1> DEFINE op == "copy"
             p == r[t]
             s == With(p, <<>>)
  <1>1. Now(t, op) /\ UNCHANGED <<disk, core, dirs, imap, zmap, panic>> /\ Go(t, s)
    BY DEF Copied, Do, With
  <1>2. op \in Copying  BY DEF Copying
  <1>3. op \in Single /\ p \in Process /\ p.dir = 0 /\ p.inode = 0
    BY <1>1, <1>2, Writing
  <1>4. /\ NoTransfer(p.todo)
        /\ \A n : Holds(p, n) = Count(p.fd = n) + Count(p.dir = n) + Count(p.inode = n)
    BY <1>1, <1>3, EndOp
  <1>5. Store' /\ \A k \in Inodes : Same(k)  BY <1>1, StoreSame
  <1> HIDE DEF op, p
  <1>6. s \in Process /\ s.todo = <<>> /\ s.fd = p.fd /\ s.dir = p.dir /\ s.inode = p.inode
    <2>1. <<>> \in Seq(Operation)  OBVIOUS
    <2> QED  BY <1>3, <2>1 DEF With, Process
  <1>7. Return(s) = User(s.fd)  BY <1>6 DEF Return
  <1> HIDE DEF s
  <1>8. Shape(Return(s))  BY <1>7, UserShape
  <1>9. ASSUME NEW n \in Inodes PROVE Holds(s, n) = Holds(p, n)
    <2>1. Listed(s, n) = 0  BY <1>6, PendingNone DEF Listed
    <2>2. /\ Count(p.fd = n) \in 0 .. 1 /\ Count(p.dir = n) \in 0 .. 1
          /\ Count(p.inode = n) \in 0 .. 1
      BY CountType
    <2> QED  BY <1>4, <1>6, <2>1, <2>2 DEF Holds
  <1>10. NoTransfer(s.todo) /\ \A n : ~Sole(s.todo, n)
    BY <1>6 DEF NoTransfer, Sole
  <1> QED  BY <1>1, <1>3, <1>4, <1>5, <1>6, <1>8, <1>9, <1>10, QuietStep DEF p

(* sys_open stores the inode in the file. *)
LEMMA sys_openStep ==
    ASSUME Base, NEW t \in Tasks, sys_open(t)
    PROVE  Base'
  <1> DEFINE p == r[t]
             q == p.todo
             n == Arg(t)
             s == [p EXCEPT !.fd = n, !.todo = <<>>]
  <1>1. Now(t, "fd") /\ Go(t, s) /\ UNCHANGED <<disk, core, dirs, imap, zmap, panic>>
    BY DEF sys_open
  <1>2. /\ p \in Process /\ q \in Seq(Operation) /\ q # <<>> /\ Run(q) /\ q[1] = Head(q)
        /\ q[1].op = "fd" /\ q[1].n = n /\ n \in Inodes
        /\ Holding(p, q[Len(q)].op, Len(q) > 1)
    BY <1>1, AtHead DEF Plain
  <1>3. Tail(q) = <<>>
    <2>1. Tail(q) # <<>> => Follows(q[1], Tail(q)[1])  BY <1>2, RunRest
    <2> QED  BY <1>2, <2>1 DEF Follows
  <1>4. Len(q) = 1  BY <1>2, <1>3, RunRest
  <1>5. p.fd = 0 /\ p.dir = 0 /\ p.inode = 0
    <2>1. q[Len(q)].op = "fd"  BY <1>2, <1>4
    <2> QED  BY <1>2, <2>1 DEF Holding, Plain
  <1>6. NoTransfer(q)  BY <1>2 DEF NoTransfer
  <1>7. Store' /\ \A k \in Inodes : Same(k)  BY <1>1, StoreSame
  <1>8. \A k : Listed(p, k) = Count(n = k)
    <2>1. ASSUME NEW k PROVE Listed(p, k) = Count(n = k)
      <3>1. Cardinality(Pending(q, k)) =
              Count(Refers(Head(q), k)) + Cardinality(Pending(Tail(q), k))
        BY <1>2, HeadAndRest
      <3>2. Count(Refers(Head(q), k)) = Count(n = k)  BY <1>2 DEF Refers, Count
      <3>3. Cardinality(Pending(Tail(q), k)) = 0  BY <1>3, PendingNone
      <3>4. Count(n = k) \in 0 .. 1  BY CountType
      <3> QED  BY <3>1, <3>2, <3>3, <3>4 DEF Listed
    <2> QED  BY <2>1
  <1> HIDE DEF q, n, p
  <1>9. s \in Process /\ s.todo = <<>> /\ s.fd = n /\ s.dir = p.dir /\ s.inode = p.inode
    <2>1. <<>> \in Seq(Operation) /\ n \in Ino0  BY <1>2 DEF Ino0
    <2> QED  BY <1>2, <2>1 DEF Process
  <1>10. Return(s) = User(s.fd)  BY <1>9 DEF Return
  <1> HIDE DEF s
  <1>11. Shape(Return(s))  BY <1>10, UserShape
  <1>12. ASSUME NEW k \in Inodes PROVE Holds(s, k) = Holds(p, k)
    <2>1. Listed(s, k) = 0  BY <1>9, PendingNone DEF Listed
    <2>2. Count(0 = k) = 0  BY Numbers DEF Count
    <2>3. Count(n = k) \in 0 .. 1  BY CountType
    <2>4. Holds(s, k) = Count(n = k)  BY <1>5, <1>9, <2>1, <2>2, <2>3 DEF Holds
    <2>5. Holds(p, k) = Count(n = k)  BY <1>5, <1>8, <2>2, <2>3 DEF Holds
    <2> QED  BY <2>4, <2>5
  <1>13. NoTransfer(s.todo) /\ \A k : ~Sole(s.todo, k)
    BY <1>9 DEF NoTransfer, Sole
  <1> QED  BY <1>1, <1>5, <1>6, <1>7, <1>9, <1>11, <1>12, <1>13, QuietStep DEF p, q

(* sys_close puts the inode of the file. *)
LEMMA sys_closeStep ==
    ASSUME Base, NEW t \in Tasks, sys_close(t)
    PROVE  Base'
  <1> DEFINE p == r[t]
             n == p.fd
             ops == <<iput(n)>>
             s == [User(0) EXCEPT !.todo = ops]
  <1>1. p.todo = <<>> /\ n # 0 /\ Go(t, s) /\ UNCHANGED <<disk, core, dirs, imap, zmap, panic>>
    BY DEF sys_close
  <1>2. n \in Inodes /\ NoTransfer(p.todo)
    BY <1>1, Idle DEF Ino0
  <1>3. \A k \in Inodes : Holds(p, k) = Count(n = k)  BY <1>1, Idle
  <1>4. Tidy(ops) /\ Len(ops) = 1 /\ ops[1].op = "iput"
        /\ \A k : Cardinality(Pending(ops, k)) = Count(n = k)
    BY <1>2, TidyOne DEF iput
  <1>5. Store' /\ \A k \in Inodes : Same(k)  BY <1>1, StoreSame
  <1> HIDE DEF ops, n, p
  <1>6. /\ ops \in Seq(Operation) /\ ops # <<>> /\ Run(ops)
        /\ ops[1].op \in Plain /\ ops[Len(ops)].op \notin Open /\ \A k : ~Sole(ops, k)
    BY <1>4 DEF Tidy
  <1>7. User(0) \in Process  BY UserHolds, Numbers DEF Ino0
  <1>8. s \in Process /\ s.todo = ops /\ s.fd = 0 /\ s.dir = 0 /\ s.inode = 0 /\ s.nr = 0
    BY <1>6, <1>7 DEF User, Process
  <1> HIDE DEF s
  <1>9. Holding(s, ops[Len(ops)].op, Len(ops) > 1)
    <2> DEFINE last == ops[Len(ops)].op
               many == Len(ops) > 1
    <2>1. last = "iput"  BY <1>4
    <2> HIDE DEF last, many
    <2> QED  BY <1>8, <2>1 DEF Holding, Plain, Copying, LooksUp, last, many
  <1>10. Return(s) = s /\ s.todo # <<>>  BY <1>6, <1>8 DEF Return
  <1>11. Shape(Return(s))  BY <1>6, <1>8, <1>9, <1>10 DEF Shape
  <1>12. ASSUME NEW k \in Inodes PROVE Holds(s, k) = Holds(p, k)
    <2>1. Listed(s, k) = Count(n = k)  BY <1>4, <1>8 DEF Listed
    <2>2. Count(0 = k) = 0  BY Numbers DEF Count
    <2>3. Count(n = k) \in 0 .. 1  BY CountType
    <2>4. Holds(s, k) = Count(n = k)  BY <1>8, <2>1, <2>2, <2>3 DEF Holds
    <2> QED  BY <1>3, <2>4
  <1>13. NoTransfer(s.todo)
    <2>1. Head(ops) = ops[1]  BY <1>6, HeadAndRest
    <2> QED  BY <1>4, <1>8, <2>1 DEF NoTransfer
  <1>14. \A k : ~Sole(s.todo, k)  BY <1>6, <1>8
  <1> QED  BY <1>1, <1>2, <1>5, <1>8, <1>10, <1>11, <1>12, <1>13, <1>14, QuietStep DEF p

(* sys_sync locks and writes one inode after the other. *)
LEMMA sync_inodesStep ==
    ASSUME Base, NEW t \in Tasks, sync_inodes(t)
    PROVE  Base'
  <1> DEFINE p == r[t]
             ops == [n \in Inodes |-> Op("lock", n)]
             s == With(p, ops)
             m == Cardinality(Inodes)
  <1>1. p.todo = <<>> /\ Go(t, s) /\ UNCHANGED <<disk, core, dirs, imap, zmap, panic>>
    BY DEF sync_inodes, Do, With
  <1>2. /\ p \in Process /\ NoTransfer(p.todo) /\ p.dir = 0 /\ p.inode = 0 /\ p.nr = 0
        /\ p.call = "none"
    BY <1>1, Idle
  <1>3. \A k \in Inodes : Holds(p, k) = Count(p.fd = k)  BY <1>1, Idle
  <1>4. Inodes = 1 .. m /\ 1 \in Inodes  BY FsAssumption
  <1>5. m \in Nat  BY FS_CardinalityType, FsAssumption
  <1>6. Store' /\ \A k \in Inodes : Same(k)  BY <1>1, StoreSame
  <1>7. \A n \in Inodes : ops[n] \in Operation /\ ops[n].op = "lock" /\ ops[n].n = n
    BY OpTypes DEF Ops, Ino0
  <1>8. ops \in [Inodes -> Operation]
    <2>1. \A n \in Inodes : Op("lock", n) \in Operation  BY <1>7
    <2> QED  BY <2>1
  <1> HIDE DEF ops, m, p
  <1>9. ops \in Seq(Operation) /\ Len(ops) = m /\ DOMAIN ops = 1 .. m
    BY <1>4, <1>5, <1>8
  <1>10. m >= 1  BY <1>4, <1>5
  <1>11. ops # <<>> /\ Head(ops) = ops[1] /\ ops[1].op = "lock" /\ ops[Len(ops)].op = "lock"
    <2>1. ops # <<>>  BY <1>9, <1>10
    <2>2. m \in Inodes  BY <1>4, <1>5, <1>10
    <2> QED  BY <1>4, <1>7, <1>9, <2>1, <2>2, HeadAndRest
  <1>12. Run(ops)
    <2>1. \A i \in 1 .. Len(ops) : ops[i].n # 0 /\ ops[i].op = "lock"
      BY <1>4, <1>7, <1>9, Numbers
    <2>2. \A i \in 1 .. Len(ops) - 1 : i \in 1 .. Len(ops) /\ i + 1 \in 1 .. Len(ops)
      BY <1>5, <1>9
    <2>3. \A i \in 2 .. Len(ops) : i \in 1 .. Len(ops)
      BY <1>5, <1>9
    <2>4. \A i \in 1 .. Len(ops) - 1 : Follows(ops[i], ops[i + 1])
      BY <2>1, <2>2 DEF Follows
    <2>5. \A i \in 2 .. Len(ops) : ops[i].op = "lock"  BY <2>1, <2>3
    <2> QED  BY <2>1, <2>4, <2>5 DEF Run
  <1>13. \A k : Cardinality(Pending(ops, k)) = 0 /\ ~Sole(ops, k)
    <2>1. ASSUME NEW k PROVE Cardinality(Pending(ops, k)) = 0 /\ ~Sole(ops, k)
      <3>1. Pending(ops, k) = {}  BY <1>4, <1>7, <1>9 DEF Pending, Refers
      <3>2. ~Sole(ops, k)  BY <1>4, <1>7, <1>9 DEF Sole
      <3> QED  BY <3>1, <3>2, FS_EmptySet
    <2> QED  BY <2>1
  <1>14. /\ s \in Process /\ s.todo = ops /\ s.fd = p.fd /\ s.dir = p.dir
         /\ s.inode = p.inode /\ s.nr = p.nr /\ s.call = p.call
    BY <1>2, <1>9 DEF With, Process
  <1> HIDE DEF s
  <1>15. Holding(s, ops[Len(ops)].op, Len(ops) > 1)
    <2> DEFINE last == ops[Len(ops)].op
               many == Len(ops) > 1
    <2>1. last = "lock"  BY <1>11
    <2> HIDE DEF last, many
    <2> QED  BY <1>2, <1>14, <2>1 DEF Holding, Plain, Copying, LooksUp, last, many
  <1>16. Return(s) = s /\ s.todo # <<>>  BY <1>11, <1>14 DEF Return
  <1>17. Shape(Return(s))
    BY <1>11, <1>12, <1>14, <1>15, <1>16 DEF Shape, Open
  <1>18. ASSUME NEW k \in Inodes PROVE Holds(s, k) = Holds(p, k)
    <2>1. Listed(s, k) = 0  BY <1>13, <1>14 DEF Listed
    <2>2. Count(0 = k) = 0  BY Numbers DEF Count
    <2>3. Count(p.fd = k) \in 0 .. 1  BY CountType
    <2>4. Holds(s, k) = Count(p.fd = k)  BY <1>2, <1>14, <2>1, <2>2, <2>3 DEF Holds
    <2> QED  BY <1>3, <2>4
  <1>19. NoTransfer(s.todo) /\ \A k : ~Sole(s.todo, k)
    BY <1>11, <1>13, <1>14 DEF NoTransfer
  <1> QED  BY <1>1, <1>2, <1>6, <1>14, <1>16, <1>17, <1>18, <1>19, QuietStep DEF p

-----------------------------------------------------------------------------
(* A call takes one more reference to an inode. *)
LEMMA RaiseStep ==
    ASSUME Base, NEW t \in Tasks, NEW s \in Process, Go(t, s), s.todo # <<>>,
           Shape(Return(s)), Store', NEW n \in Inodes,
           NoTransfer(r[t].todo), NoTransfer(s.todo), \A k : ~Sole(s.todo, k),
           \A k \in Inodes \ {n} : Holds(s, k) = Holds(r[t], k),
           Holds(s, n) = Holds(r[t], n) + 1,
           \A k \in Inodes \ {n} : /\ core'[k].count = core[k].count
                                   /\ core'[k].lock = core[k].lock
                                   /\ ~core'[k].in => core'[k] = Unused,
           core'[n].count = core[n].count + 1, core'[n].in, core'[n].lock = core[n].lock,
           ~Freeing(n), ~Reading(n)
    PROVE  Base'
  <1>1. LockHeld'
    <2>1. ASSUME NEW k \in Inodes PROVE LockMoves(t, s, k)
      <3>1. core'[k].lock = core[k].lock  OBVIOUS
      <3>2. core[k].lock \in BOOLEAN  BY DEF Base, TypeOK, Minode
      <3>3. ~Takes(r[t].todo, k) /\ ~Takes(s.todo, k)  BY DEF Takes, NoTransfer
      <3> QED  BY <3>1, <3>2, <3>3 DEF LockMoves
    <2> QED  BY <2>1, LockStep DEF Base
  <1>2. ASSUME NEW k \in Inodes PROVE Balanced(t, s, k)
    <2>1. Holds(s, k) \in Nat /\ Holds(r[t], k) \in Nat
      BY HoldsType DEF Base, TypeOK
    <2>2. core[k].count \in Nat  BY DEF Base, TypeOK, Minode
    <2>3. CASE k = n
      <3>1. core'[k].count = core[k].count - Holds(r[t], k) + Holds(s, k)
        BY <2>1, <2>2, <2>3
      <3> QED  BY <2>3, <3>1 DEF Balanced
    <2>4. CASE k # n
      <3>1. core'[k].count = core[k].count /\ Holds(s, k) = Holds(r[t], k)
        BY <2>4
      <3>2. core'[k].count = core[k].count - Holds(r[t], k) + Holds(s, k)
        BY <2>1, <2>2, <3>1
      <3>3. ~(Holds(s, k) > Holds(r[t], k))  BY <2>1, <3>1
      <3> QED  BY <2>4, <3>2, <3>3 DEF Balanced
    <2> QED  BY <2>3, <2>4
  <1> QED  BY <1>1, <1>2, Moves

(* The root is never freed nor read: the system holds it too. *)
LEMMA RootKept ==
    ASSUME Base
    PROVE  ~Freeing(ROOT_INO) /\ ~Reading(ROOT_INO) /\ core[ROOT_INO].in
  <1> DEFINE n == ROOT_INO
  <1>1. n \in Inodes  BY Numbers
  <1>2. TypeOK /\ Table /\ Counts  BY DEF Base
  <1>3. ASSUME NEW u \in Tasks, Sole(r[u].todo, n) PROVE FALSE
    <2>1. r[u] \in Process  BY <1>2 DEF TypeOK
    <2>2. Holds(r[u], n) >= 1  BY <1>3, <2>1, SoleHolds
    <2>3. core[n].count \in Nat /\ core[n].count >= 2  BY <1>1, <1>2, <2>2, HeldIsIn
    <2>4. Freeing(n) \/ Reading(n)  BY <1>3, SoleUse
    <2>5. core[n].count = 1  BY <1>1, <1>2, <2>4 DEF Table
    <2> QED  BY <2>3, <2>5
  <1>4. ~Freeing(n) /\ ~Reading(n)  BY <1>3, SoleUse
  <1>5. core[n].in
    <2>1. Held(r, n) \in Nat
      <3>1. CASE Tasks = {}
        <4>1. Held(r, n) = 0
          <5>1. Places(r, n) = {}  BY <3>1 DEF Places
          <5>2. {t \in Tasks : r[t].fd = n} = {} /\ {t \in Tasks : r[t].dir = n} = {}
                /\ {t \in Tasks : r[t].inode = n} = {}
            BY <3>1
          <5> QED  BY <5>1, <5>2, FS_EmptySet DEF Held
        <4> QED  BY <4>1
      <3>2. CASE Tasks # {}
        <4>1. PICK t \in Tasks : TRUE  BY <3>2
        <4> QED  BY <1>1, <1>2, <4>1, HeldByOne DEF TypeOK
      <3> QED  BY <3>1, <3>2
    <2>2. core[n].count = Count(n = ROOT_INO) + Held(r, n)  BY <1>1, <1>2 DEF Counts
    <2>3. Count(n = ROOT_INO) = 1  BY DEF Count
    <2>4. core[n].count # 0  BY <2>1, <2>2, <2>3
    <2>5. Unused.count = 0  BY DEF Unused
    <2> QED  BY <1>1, <1>2, <2>4, <2>5 DEF Table
  <1> QED  BY <1>4, <1>5

(* One more reference to the root, and nothing else. *)
LEMMA RootStep ==
    ASSUME Base, NEW t \in Tasks, NEW s \in Process, Go(t, s), s.todo # <<>>,
           Shape(Return(s)), NoTransfer(r[t].todo), NoTransfer(s.todo),
           \A k : ~Sole(s.todo, k),
           \A k \in Inodes : Holds(s, k) = Holds(r[t], k) + Count(k = ROOT_INO),
           NEW f, f \in [Inodes -> Minode], core' = [f EXCEPT ![ROOT_INO].count = @ + 1],
           \A k \in Inodes : /\ f[k].count = core[k].count /\ f[k].in = core[k].in
                             /\ f[k].lock = core[k].lock
                             /\ ~core[k].in => f[k] = core[k],
           UNCHANGED <<disk, dirs, imap, zmap, panic>>
    PROVE  Base'
  <1> DEFINE n == ROOT_INO
             c == f[n]
             m == [c EXCEPT !.count = c.count + 1]
  <1>1. n \in Inodes /\ ~Freeing(n) /\ ~Reading(n) /\ core[n].in  BY Numbers, RootKept
  <1>2. core' = [f EXCEPT ![n] = m]  BY <1>1
  <1>3. m \in Minode /\ m.count = c.count + 1 /\ m.in = c.in /\ m.lock = c.lock
    <2>1. c \in Minode  BY <1>1
    <2> HIDE DEF c
    <2>2. c.count \in Nat  BY <2>1 DEF Minode
    <2>3. c.count + 1 \in Nat  BY <2>2
    <2> QED  BY <2>1, <2>3 DEF Minode
  <1> HIDE DEF m
  <1>4. /\ core' \in [Inodes -> Minode] /\ core'[n] = m
        /\ \A k \in Inodes \ {n} : core'[k] = f[k]
    BY <1>1, <1>2, <1>3
  <1>5. Store'  BY <1>4 DEF Base, TypeOK, Store
  <1>6. \A k \in Inodes \ {n} : /\ core'[k].count = core[k].count
                                /\ core'[k].lock = core[k].lock
                                /\ ~core'[k].in => core'[k] = Unused
    <2>1. \A k \in Inodes : ~core[k].in => core[k] = Unused  BY DEF Base, Table
    <2> QED  BY <1>4, <2>1
  <1>7. core'[n].count = core[n].count + 1 /\ core'[n].in /\ core'[n].lock = core[n].lock
    BY <1>1, <1>3, <1>4
  <1>8. Holds(s, n) = Holds(r[t], n) + 1
        /\ \A k \in Inodes \ {n} : Holds(s, k) = Holds(r[t], k)
    <2>1. \A k \in Inodes : Holds(r[t], k) \in Nat  BY HoldsType DEF Base, TypeOK
    <2>2. Count(n = ROOT_INO) = 1 /\ \A k \in Inodes \ {n} : Count(k = ROOT_INO) = 0
      BY DEF Count
    <2> HIDE DEF n
    <2> QED  BY <1>1, <2>1, <2>2
  <1> HIDE DEF n
  <1> QED  BY <1>1, <1>5, <1>6, <1>7, <1>8, RaiseStep

(* A system call with a path name starts at the root. *)
LEMMA CallStep ==
    ASSUME Base, NEW t \in Tasks, NEW q \in Requests[t], Call(t, q)
    PROVE  Base'
  <1> DEFINE p == r[t]
             o == Op("walk", 0)
             call == IF q.call = "link" THEN "namei" ELSE q.call
             s == [User(p.fd) EXCEPT !.call = call, !.path = q.path, !.new = q.new,
                                     !.flags = q.flags, !.dir = ROOT_INO, !.todo = <<o>>]
  <1>1. /\ p.todo = <<>> /\ q.call # "sync" /\ (q.call = "open" => p.fd = 0) /\ Go(t, s)
        /\ UNCHANGED <<disk, dirs, imap, zmap, panic>>
        /\ core' = [core EXCEPT ![ROOT_INO].count = @ + 1]
    BY DEF Call
  <1>2. /\ q.call \in Calls /\ q.path \in Seq(STRING) /\ q.new \in Seq(STRING)
        /\ q.flags \subseteq Flags /\ q.path # <<>> /\ (q.call = "link" => q.new # <<>>)
    BY <1>1, FsAssumption DEF Request
  <1>3. p \in Process /\ NoTransfer(p.todo) /\ p.fd \in Ino0 /\ User(p.fd) \in Process
    BY <1>1, Idle, UserHolds, Numbers
  <1>4. \A k \in Inodes : Holds(p, k) = Count(p.fd = k)  BY <1>1, Idle
  <1>5. o \in Operation /\ o.op = "walk"  BY OpTypes DEF Ops, Ino0
  <1>6. call \in Calls \cup {"none", "namei"} /\ call \notin {"none", "sync", "link"}
        /\ (call = "open" => p.fd = 0) /\ (call = "namei" => q.new # <<>>)
    BY <1>1, <1>2 DEF Calls
  <1>7. ROOT_INO \in Ino0 /\ ROOT_INO # 0  BY Numbers DEF Ino0
  <1> HIDE DEF o, call, p
  <1>8. <<o>> \in Seq(Operation)  BY <1>5
  <1>9. /\ s \in Process /\ s.todo = <<o>> /\ s.call = call /\ s.path = q.path
        /\ s.new = q.new /\ s.dir = ROOT_INO /\ s.inode = 0 /\ s.nr = 0 /\ s.fd = p.fd
    BY <1>2, <1>3, <1>6, <1>7, <1>8 DEF Process, User
  <1> HIDE DEF s
  <1>10. Holding(s, o.op, FALSE)
    <2>1. s.todo[1] = o  BY <1>9
    <2>2. Holding(s, "walk", FALSE)
      BY <1>2, <1>5, <1>6, <1>7, <1>9, <2>1 DEF Holding, Plain, Copying, LooksUp
    <2> QED  BY <1>5, <2>2
  <1>11. o.op \in Single  BY <1>5 DEF Single, LooksUp
  <1>12. /\ Shape(Return(s)) /\ s.todo # <<>> /\ NoTransfer(s.todo)
         /\ \A n : ~Sole(s.todo, n)
    BY <1>9, <1>10, <1>11, OneOp
  <1>13. \A n : Holds(s, n) = Count(s.fd = n) + Count(s.dir = n) + Count(s.inode = n)
    BY <1>9, <1>10, <1>11, OneOp
  <1>14. ASSUME NEW k \in Inodes PROVE Holds(s, k) = Holds(p, k) + Count(k = ROOT_INO)
    <2>1. Count(0 = k) = 0  BY Numbers DEF Count
    <2>2. Count(p.fd = k) \in 0 .. 1 /\ Count(ROOT_INO = k) \in 0 .. 1  BY CountType
    <2>3. Count(k = ROOT_INO) = Count(ROOT_INO = k)  BY DEF Count
    <2> QED  BY <1>4, <1>9, <1>13, <2>1, <2>2, <2>3
  <1>15. core \in [Inodes -> Minode]  BY DEF Base, TypeOK
  <1> QED  BY <1>1, <1>3, <1>9, <1>12, <1>14, <1>15, RootStep DEF p

(* link starts again with the new name. *)
LEMMA sys_linkStep ==
    ASSUME Base, NEW t \in Tasks, sys_link(t)
    PROVE  Base'
  <1> DEFINE op == "namei"
             p == r[t]
             n == p.inode
             m == [core[n] EXCEPT !.dirt = TRUE]
             changed == [core EXCEPT ![n] = m]
             o == Op("walk", 0)
             s == [p EXCEPT !.call = "link", !.path = p.new, !.dir = ROOT_INO, !.todo = <<o>>]
  <1>1. Now(t, op) /\ UNCHANGED <<disk, dirs, imap, zmap, panic>>
    BY DEF sys_link
  <1>2. op \in Single \ (Copying \cup {"walk", "find"})  BY DEF Single, LooksUp, Copying
  <1>3. p \in Process /\ n \in Inodes /\ p.dir = 0 /\ p.nr = 0 /\ core[n] \in Minode
    BY <1>1, <1>2, HasInode
  <1>4. m \in Minode /\ m.count = core[n].count /\ m.in = core[n].in /\ m.lock = core[n].lock
    BY <1>3 DEF Minode
  <1>5. CASE core[n].mode = "dir"
    <2>1. core' = [core EXCEPT ![n] = m] /\ Put(t, PutInode(t))
      BY <1>5 DEF sys_link
    <2>2. dirs' \in [Zones -> [1 .. Slots -> [ino : Ino0, name : STRING \cup {"none"}]]]
          /\ zmap' \subseteq Zones
      BY <1>1 DEF Base, TypeOK
    <2>3. Puts(t, PutInode(t))  BY <1>3, PutsAll, Numbers
    <2> HIDE DEF op, m
    <2>4. Store' /\ \A k \in Inodes : Same(k)  BY <1>1, <1>3, <1>4, <2>1, <2>2, StoreOne
    <2> QED  BY <1>1, <1>2, <2>1, <2>3, <2>4, PutsStep
  <1>6. CASE core[n].mode # "dir"
    <2>1. core' = [changed EXCEPT ![ROOT_INO].count = @ + 1] /\ Go(t, s)
      BY <1>6 DEF sys_link
    <2>2. /\ changed \in [Inodes -> Minode]
          /\ \A k \in Inodes : /\ changed[k].count = core[k].count /\ changed[k].in = core[k].in
                               /\ changed[k].lock = core[k].lock
                               /\ ~core[k].in => changed[k] = core[k]
      <3>1. core[n].in  BY <1>3, InUse
      <3>2. core \in [Inodes -> Minode]  BY DEF Base, TypeOK
      <3> HIDE DEF m, n
      <3> QED  BY <1>3, <1>4, <3>1, <3>2
    <2>3. Holding(p, op, FALSE)  BY <1>1, <1>2, EndOp
    <2>4. NoTransfer(p.todo)  BY <1>1, <1>2, EndOp
    <2>5. \A k : Holds(p, k) = Count(p.fd = k) + Count(p.dir = k) + Count(p.inode = k)
      BY <1>1, <1>2, EndOp
    <2>6. p.call = "namei" /\ p.new # <<>>  BY <2>3 DEF Holding, Plain, Copying
    <2>7. o \in Operation /\ o.op = "walk"  BY OpTypes DEF Ops, Ino0
    <2>8. ROOT_INO \in Ino0 /\ ROOT_INO # 0 /\ n # 0  BY <1>3, Numbers DEF Ino0
    <2> HIDE DEF o, p, changed, m
    <2>9. <<o>> \in Seq(Operation)  BY <2>7
    <2>10. /\ s \in Process /\ s.todo = <<o>> /\ s.call = "link" /\ s.path = p.new
           /\ s.new = p.new /\ s.dir = ROOT_INO /\ s.inode = p.inode /\ s.nr = p.nr
           /\ s.fd = p.fd
      BY <1>3, <2>8, <2>9 DEF Process, Calls
    <2> HIDE DEF s
    <2>11. Holding(s, o.op, FALSE)
      <3>1. s.todo[1] = o  BY <2>10
      <3>2. Holding(s, "walk", FALSE)
        BY <1>3, <2>6, <2>7, <2>8, <2>10, <3>1 DEF Holding, Plain, Copying, LooksUp
      <3> QED  BY <2>7, <3>2
    <2>12. o.op \in Single  BY <2>7 DEF Single, LooksUp
    <2>13. /\ Shape(Return(s)) /\ s.todo # <<>> /\ NoTransfer(s.todo)
           /\ \A k : ~Sole(s.todo, k)
      BY <2>10, <2>11, <2>12, OneOp
    <2>14. \A k : Holds(s, k) = Count(s.fd = k) + Count(s.dir = k) + Count(s.inode = k)
      BY <2>10, <2>11, <2>12, OneOp
    <2>15. ASSUME NEW k \in Inodes PROVE Holds(s, k) = Holds(p, k) + Count(k = ROOT_INO)
      <3>1. Count(0 = k) = 0  BY Numbers DEF Count
      <3>2. Count(p.fd = k) \in 0 .. 1 /\ Count(ROOT_INO = k) \in 0 .. 1
            /\ Count(p.inode = k) \in 0 .. 1
        BY CountType
      <3>3. Count(k = ROOT_INO) = Count(ROOT_INO = k)  BY DEF Count
      <3> QED  BY <1>3, <2>5, <2>10, <2>14, <3>1, <3>2, <3>3
    <2> QED  BY <1>1, <2>1, <2>2, <2>4, <2>10, <2>13, <2>15, RootStep, ZenonT(60) DEF p
  <1> QED  BY <1>5, <1>6

-----------------------------------------------------------------------------
(* A list of two: iget or read_inode, and what the caller does then. *)
LEMMA Getting ==
    ASSUME Base, NEW t \in Tasks, NEW op \in {"iget", "read"}, Now(t, op)
    PROVE  /\ r[t] \in Process /\ r[t].todo # <<>> /\ Head(r[t].todo).op = op
           /\ Rest(t) \in Seq(Operation) /\ Len(Rest(t)) = 1 /\ Rest(t) # <<>>
           /\ Head(Rest(t)) = Rest(t)[1] /\ Rest(t)[1] \in Operation
           /\ Rest(t)[1].op \in LooksUp /\ r[t].nr \in Inodes
           /\ Holding(r[t], Rest(t)[1].op, TRUE)
           /\ op = "read" => Arg(t) = r[t].nr
           /\ \A n \in Inodes : Holds(r[t], n) =
                 Count(r[t].fd = n) + Count(r[t].dir = n) + Count(r[t].inode = n)
                 + Count(op = "read" /\ r[t].nr = n)
  <1> DEFINE p == r[t]
             q == p.todo
             rest == Tail(q)
             o == rest[1]
  <1>1. /\ p \in Process /\ Shape(p) /\ q \in Seq(Operation) /\ q # <<>> /\ Run(q)
        /\ q[1] = Head(q) /\ q[1].op = op /\ q[1].n = Arg(t)
        /\ q[Len(q)].op \notin Open
        /\ Holding(p, q[Len(q)].op, Len(q) > 1) /\ Rest(t) = rest
        /\ Len(q) \in Nat /\ Len(q) >= 1
    BY AtHead
  <1> HIDE DEF q
  <1>2. /\ rest \in Seq(Operation) /\ (Len(q) = 1 <=> rest = <<>>)
        /\ (rest # <<>> => /\ rest[Len(rest)] = q[Len(q)] /\ Len(q) > 1
                           /\ Follows(q[1], rest[1]))
        /\ Run(rest)
    BY <1>1, RunRest
  <1>3. Len(q) # 1  BY <1>1 DEF Open
  <1>4. rest # <<>> /\ Len(q) > 1  BY <1>2, <1>3
  <1>5. o.op \in LooksUp  BY <1>1, <1>2, <1>4 DEF Follows
  <1> HIDE DEF rest
  <1>6. /\ Head(rest) = o /\ o \in Operation /\ (Len(rest) = 1 <=> Tail(rest) = <<>>)
        /\ (Tail(rest) # <<>> => Follows(o, Tail(rest)[1]))
    <2>1. Head(rest) \in Operation /\ Head(rest) = rest[1]
      BY <1>2, <1>4, HeadAndRest
    <2>2. /\ (Len(rest) = 1 <=> Tail(rest) = <<>>)
          /\ (Tail(rest) # <<>> => Follows(rest[1], Tail(rest)[1]))
      BY <1>2, <1>4, RunRest
    <2> QED  BY <2>1, <2>2
  <1>7. Tail(rest) = <<>> /\ Len(rest) = 1
    BY <1>5, <1>6 DEF Follows, LooksUp
  <1>8. q[Len(q)] = o  BY <1>2, <1>4, <1>7
  <1>9. Holding(p, o.op, TRUE)
    <2>1. (Len(q) > 1) = TRUE  BY <1>4
    <2> QED  BY <1>1, <1>8, <2>1
  <1>10. p.nr # 0  BY <1>5, <1>9 DEF Holding
  <1>11. p.nr \in Inodes  BY <1>1, <1>10 DEF Process, Ino0
  <1>12. op = "read" => Arg(t) = p.nr
    <2>1. o.op \notin Plain \cup Copying  BY <1>5 DEF LooksUp, Plain, Copying
    <2>2. p.todo[1].op = "read" => p.todo[1].n = p.nr  BY <1>9, <2>1 DEF Holding
    <2> QED  BY <1>1, <2>2 DEF q
  <1>13. ASSUME NEW n \in Inodes
         PROVE  Holds(p, n) = Count(p.fd = n) + Count(p.dir = n) + Count(p.inode = n)
                                + Count(op = "read" /\ p.nr = n)
    <2>1. Cardinality(Pending(q, n)) =
            Count(Refers(Head(q), n)) + Cardinality(Pending(rest, n))
      BY <1>1, HeadAndRest DEF rest
    <2>2. Cardinality(Pending(rest, n)) =
            Count(Refers(Head(rest), n)) + Cardinality(Pending(Tail(rest), n))
      BY <1>2, <1>4, HeadAndRest
    <2>3. Cardinality(Pending(Tail(rest), n)) = 0  BY <1>7, PendingNone
    <2>4. Count(Refers(Head(rest), n)) = 0  BY <1>5, <1>6 DEF Refers, Count, LooksUp
    <2>5. Count(Refers(Head(q), n)) = Count(op = "read" /\ p.nr = n)
      BY <1>1, <1>12 DEF Refers, Count
    <2>6. Count(op = "read" /\ p.nr = n) \in 0 .. 1  BY CountType
    <2>7. Cardinality(Pending(q, n)) = Count(op = "read" /\ p.nr = n)
      BY <2>1, <2>2, <2>3, <2>4, <2>5, <2>6
    <2> QED  BY <2>7 DEF Holds, Listed, q
  <1> QED  BY <1>1, <1>2, <1>4, <1>5, <1>6, <1>7, <1>9, <1>11, <1>12, <1>13 DEF q

(* iget has returned: the inode is the caller's. *)
LEMMA GottenShape ==
    ASSUME Base, NEW t \in Tasks, NEW op \in {"iget", "read"}, Now(t, op),
           NEW s, s = Gotten(t)
    PROVE  /\ s \in Process /\ Shape(Return(s)) /\ s.todo # <<>> /\ NoTransfer(s.todo)
           /\ \A n : ~Sole(s.todo, n)
           /\ \A n \in Inodes : Holds(s, n) = Holds(r[t], n)
                                  + Count(op = "iget" /\ r[t].nr = n)
  <1> DEFINE p == r[t]
             rest == Rest(t)
             o == rest[1]
  <1>1. /\ p \in Process /\ rest \in Seq(Operation) /\ Len(rest) = 1 /\ rest # <<>>
        /\ Head(rest) = o /\ o \in Operation /\ o.op \in LooksUp /\ p.nr \in Inodes
    BY Getting, ZenonT(60)
  <1>2. Holding(p, o.op, TRUE)  BY Getting
  <1>3. \A n \in Inodes : Holds(p, n) =
                 Count(p.fd = n) + Count(p.dir = n) + Count(p.inode = n)
                 + Count(op = "read" /\ p.nr = n)
    BY Getting
  <1>4. s = IF o.op = "walk" THEN [p EXCEPT !.todo = rest, !.dir = p.nr, !.nr = 0]
            ELSE [p EXCEPT !.todo = rest, !.inode = p.nr, !.nr = 0]
    BY <1>1 DEF Gotten
  <1>5. 0 \in Ino0 /\ p.nr \in Ino0 /\ p.nr # 0  BY <1>1, Numbers DEF Ino0
  <1>6. rest = <<o>>  BY <1>1
  <1> HIDE DEF p, rest, o
  <1>7. /\ s \in Process /\ s.todo = rest /\ s.nr = 0 /\ s.fd = p.fd /\ s.call = p.call
        /\ s.path = p.path /\ s.new = p.new /\ s.slot = p.slot /\ s.zone = p.zone
        /\ s.dir = (IF o.op = "walk" THEN p.nr ELSE p.dir)
        /\ s.inode = (IF o.op = "walk" THEN p.inode ELSE p.nr)
    <2>1. CASE o.op = "walk"
      <3>1. s = [p EXCEPT !.todo = rest, !.dir = p.nr, !.nr = 0]  BY <1>4, <2>1
      <3> QED  BY <1>1, <1>5, <2>1, <3>1 DEF Process
    <2>2. CASE o.op # "walk"
      <3>1. s = [p EXCEPT !.todo = rest, !.inode = p.nr, !.nr = 0]  BY <1>4, <2>2
      <3> QED  BY <1>1, <1>5, <2>2, <3>1 DEF Process
    <2> QED  BY <2>1, <2>2
  <1>8. o.op = "walk" => p.dir = 0
    BY <1>2 DEF Holding, Plain, Copying
  <1>9. o.op # "walk" => p.inode = 0
    BY <1>1, <1>2 DEF Holding, Plain, Copying, LooksUp
  <1>10. Holding(s, o.op, FALSE)
    <2>1. s.todo[1] = o  BY <1>6, <1>7
    <2>2. o.op \notin Plain \cup Copying /\ o.op # "read" /\ o.op \notin {"find", "fd"}
      BY <1>1 DEF LooksUp, Plain, Copying
    <2>3. /\ p.path # <<>> /\ p.call \notin {"none", "sync"}
          /\ (p.call = "namei" => p.new # <<>>) /\ (p.call = "open" => p.fd = 0)
          /\ (p.dir = 0 <=> o.op = "walk" \/ o.op \in {"open", "namei", "chmod"})
          /\ (p.inode = 0 <=> (IF o.op = "walk" THEN p.call # "link" ELSE TRUE))
          /\ (o.op \in {"open", "namei", "chmod", "mkdir"} => p.call = o.op)
          /\ (o.op \in {"unlink", "unlink2"} => p.call = "unlink" /\ p.slot # 0)
          /\ (o.op \in {"rmdir", "empty_dir", "rmdir2"} => p.call = "rmdir" /\ p.slot # 0)
          /\ o.op # "add" /\ o.op # "mkdir"
      BY <1>1, <1>2, <2>2 DEF Holding, LooksUp
    <2> QED  BY <1>1, <1>5, <1>7, <2>1, <2>2, <2>3 DEF Holding
  <1>11. o.op \in Single /\ s.todo = <<o>> /\ s \in Process
    BY <1>1, <1>6, <1>7 DEF Single
  <1>12. /\ Shape(Return(s)) /\ s.todo # <<>> /\ NoTransfer(s.todo)
         /\ \A n : ~Sole(s.todo, n)
    BY <1>10, <1>11, OneOp
  <1>13. \A n : Holds(s, n) = Count(s.fd = n) + Count(s.dir = n) + Count(s.inode = n)
    BY <1>10, <1>11, OneOp
  <1>14. ASSUME NEW n \in Inodes
         PROVE  Holds(s, n) = Holds(p, n) + Count(op = "iget" /\ p.nr = n)
    <2>1. Count(0 = n) = 0  BY Numbers DEF Count
    <2>2. Count(op = "read" /\ p.nr = n) + Count(op = "iget" /\ p.nr = n) = Count(p.nr = n)
      BY DEF Count
    <2>3. /\ Count(p.fd = n) \in 0 .. 1 /\ Count(p.dir = n) \in 0 .. 1
          /\ Count(p.inode = n) \in 0 .. 1 /\ Count(p.nr = n) \in 0 .. 1
          /\ Count(op = "read" /\ p.nr = n) \in 0 .. 1
          /\ Count(op = "iget" /\ p.nr = n) \in 0 .. 1
      BY CountType
    <2>4. Holds(p, n) = Count(p.fd = n) + Count(p.dir = n) + Count(p.inode = n)
                          + Count(op = "read" /\ p.nr = n)
      BY <1>3
    <2>5. Holds(s, n) = Count(s.fd = n) + Count(s.dir = n) + Count(s.inode = n)  BY <1>13
    <2>6. Count(s.dir = n) + Count(s.inode = n) =
            Count(p.dir = n) + Count(p.inode = n) + Count(p.nr = n)
      BY <1>7, <1>8, <1>9, <2>1, <2>3
    <2>7. s.fd = p.fd /\ Count(s.dir = n) \in 0 .. 1 /\ Count(s.inode = n) \in 0 .. 1
      BY <1>7, CountType
    <2> QED  BY <2>2, <2>3, <2>4, <2>5, <2>6, <2>7
  <1> QED  BY <1>7, <1>12, <1>14 DEF p

(* read_inode gives the lock back. *)
LEMMA read_inodeStep ==
    ASSUME Base, NEW t \in Tasks, read_inode(t)
    PROVE  Base'
  <1> DEFINE n == Arg(t)
             p == r[t]
             s == Gotten(t)
             c == core[n]
             d == disk[n]
             m == [c EXCEPT !.nlinks = d.nlinks, !.mode = d.mode, !.zone = d.zone,
                            !.lock = FALSE]
             op == "read"
  <1>1. /\ Now(t, op) /\ core' = [core EXCEPT ![n] = m] /\ Go(t, s)
        /\ UNCHANGED <<disk, dirs, imap, zmap, panic>>
    BY DEF read_inode
  <1>2. op \in {"iget", "read"} /\ op # "iget"  OBVIOUS
  <1>3. /\ p \in Process /\ p.todo # <<>> /\ Head(p.todo).op = op /\ n = p.nr /\ n \in Inodes
    BY <1>1, <1>2, Getting
  <1>4. s = Gotten(t)  OBVIOUS
  <1> HIDE DEF s
  <1>5. /\ s \in Process /\ Shape(Return(s)) /\ s.todo # <<>> /\ NoTransfer(s.todo)
        /\ \A k : ~Sole(s.todo, k)
    BY <1>1, <1>2, <1>4, GottenShape
  <1>6. \A k \in Inodes : Holds(s, k) = Holds(p, k)
    <2>1. \A k \in Inodes : Holds(s, k) = Holds(p, k) + Count(op = "iget" /\ p.nr = k)
      BY <1>1, <1>2, <1>4, GottenShape
    <2>2. \A k : Count(op = "iget" /\ p.nr = k) = 0  BY <1>2 DEF Count
    <2>3. \A k \in Inodes : Holds(p, k) \in Nat  BY <1>3, HoldsType
    <2> QED  BY <2>1, <2>2, <2>3
  <1>7. Head(p.todo).n = n  BY DEF Arg
  <1>p. p = r[t]  OBVIOUS
  <1>8. c.lock
    <2>1. Locking(t, n)  BY <1>3 DEF Locking, At
    <2> QED  BY <1>3, <2>1 DEF Base, LockHeld
  <1>9. /\ core \in [Inodes -> Minode] /\ c \in Minode
        /\ d.nlinks \in Int /\ d.mode \in Modes /\ d.zone \in Zone0
    BY <1>3 DEF Base, TypeOK
  <1>10. c.in
    <2>1. ~c.in => c = Unused  BY <1>3 DEF Base, Table
    <2>2. Unused.lock = FALSE  BY DEF Unused
    <2> QED  BY <1>8, <2>1, <2>2
  <1>11. m \in Minode /\ m.count = c.count /\ m.in = c.in /\ m.lock = FALSE
    <2> HIDE DEF c, d
    <2> QED  BY <1>9 DEF Minode
  <1> HIDE DEF m, n, p, d
  <1>12. /\ core' \in [Inodes -> Minode] /\ core'[n].lock = FALSE
         /\ core'[n].count = core[n].count /\ core'[n].in = core[n].in
         /\ \A k \in Inodes \ {n} : core'[k] = core[k]
    BY <1>1, <1>3, <1>9, <1>11
  <1>13. Store'  BY <1>1, <1>12 DEF Base, TypeOK, Store
  <1>14. LockHeld'
    <2>1. \A k \in Inodes : (Takes(p.todo, k) <=> k = n) /\ ~Takes(s.todo, k)
      BY <1>3, <1>5, <1>7 DEF Takes, NoTransfer
    <2>2. \A k \in Inodes : LockMoves(t, s, k)
      BY <1>p, <1>12, <2>1 DEF LockMoves
    <2> QED  BY <1>1, <1>5, <2>2, LockStep DEF Base
  <1>15. ASSUME NEW k \in Inodes PROVE Balanced(t, s, k)
    <2>1. core'[k].count = core[k].count /\ core[k].count \in Nat
      BY <1>9, <1>12 DEF Minode
    <2>2. ~core'[k].in => core'[k] = Unused
      BY <1>10, <1>12 DEF Base, Table
    <2>3. Holds(s, k) = Holds(p, k) /\ Holds(s, k) \in Nat
      BY <1>5, <1>6, HoldsType
    <2>4. core'[k].count = core[k].count - Holds(p, k) + Holds(s, k)
          /\ ~(Holds(s, k) > Holds(p, k))
      BY <2>1, <2>3
    <2> QED  BY <1>5, <1>p, <2>1, <2>2, <2>4 DEF Balanced
  <1> QED  BY <1>1, <1>5, <1>13, <1>14, <1>15, Moves

(* A place of the table is made empty. *)
LEMMA DroppedTable ==
    ASSUME Base, NEW e \in Droppable, NEW f, f = Dropped(e)
    PROVE  /\ f \in [Inodes -> Minode]
           /\ \A k \in Inodes : /\ f[k].count = core[k].count /\ f[k].lock = core[k].lock
                                /\ f[k] = core[k] \/ f[k] = Unused
                                /\ ~f[k].in => f[k] = Unused
  <1>1. /\ core \in [Inodes -> Minode]
        /\ \A k \in Inodes : ~core[k].in => core[k] = Unused
    BY DEF Base, TypeOK, Table
  <1>2. Unused \in Minode /\ Unused.count = 0 /\ Unused.lock = FALSE
    BY DEF Unused, Minode, Modes, Zone0
  <1>3. CASE e = 0
    BY <1>1, <1>3 DEF Dropped
  <1>4. CASE e # 0
    <2>1. e \in Inodes /\ core[e].count = 0 /\ ~core[e].lock  BY <1>4 DEF Droppable, Locked
    <2>2. core[e].lock = FALSE  BY <1>1, <2>1 DEF Minode
    <2>3. f = [core EXCEPT ![e] = Unused]  BY <1>4 DEF Dropped
    <2>4. /\ f \in [Inodes -> Minode] /\ f[e] = Unused
          /\ \A k \in Inodes \ {e} : f[k] = core[k]
      BY <1>1, <1>2, <2>1, <2>3
    <2> QED  BY <1>1, <1>2, <2>1, <2>2, <2>4
  <1> QED  BY <1>3, <1>4

(* An inode that is not locked is not being read. *)
LEMMA NotBeingRead ==
    ASSUME Base, NEW n \in Inodes, ~core[n].lock
    PROVE  ~Reading(n)
  <1>1. ASSUME NEW u \in Tasks, NEW i \in DOMAIN r[u].todo,
               r[u].todo[i].op = "read", r[u].todo[i].n = n
        PROVE  FALSE
    <2> DEFINE q == r[u].todo
    <2>1. r[u] \in Process /\ Shape(r[u])  BY DEF Base, TypeOK, Shapes
    <2>2. q \in Seq(Operation)  BY <2>1 DEF Process
    <2>3. q # <<>>  BY <1>1, <2>2
    <2>4. Run(q)  BY <2>1, <2>3 DEF Shape
    <2>5. Head(q) = q[1]  BY <2>2, <2>3, HeadAndRest
    <2>6. i = 1
      <3>1. i \in 1 .. Len(q)  BY <2>2
      <3>2. i # 1 => i \in 2 .. Len(q)  BY <2>2, <3>1
      <3> QED  BY <1>1, <2>4, <3>2 DEF Run
    <2>7. Locking(u, n)  BY <1>1, <2>3, <2>5, <2>6 DEF Locking, At, Arg
    <2> QED  BY <2>7 DEF Base, LockHeld
  <1> QED  BY <1>1 DEF Reading, Has

(* iget finds the inode in the table. *)
LEMMA IgetFinds ==
    ASSUME Base, NEW t \in Tasks, Now(t, "iget"), ~core[r[t].nr].lock,
           ~Freeing(r[t].nr), NEW e \in Droppable, Dropped(e)[r[t].nr].in,
           core' = [Dropped(e) EXCEPT ![r[t].nr].count = @ + 1], Go(t, Gotten(t)),
           UNCHANGED <<disk, dirs, imap, zmap, panic>>
    PROVE  Base'
  <1> DEFINE p == r[t]
             n == p.nr
             f == Dropped(e)
             c == f[n]
             m == [c EXCEPT !.count = c.count + 1]
             s == Gotten(t)
             op == "iget"
  <1>1. op \in {"iget", "read"} /\ Now(t, op) /\ op # "read"  OBVIOUS
  <1>2. p \in Process /\ p.todo # <<>> /\ Head(p.todo).op = op /\ n \in Inodes
    BY <1>1, Getting
  <1>3. s = Gotten(t) /\ Go(t, s)  OBVIOUS
  <1>4. f = Dropped(e)  OBVIOUS
  <1>5. c.in /\ ~core[n].lock /\ ~Freeing(n) /\ ~Reading(n)  BY <1>2, NotBeingRead
  <1>6. core' = [f EXCEPT ![n] = m]  OBVIOUS
  <1> HIDE DEF s, f
  <1>7. /\ f \in [Inodes -> Minode]
        /\ \A k \in Inodes : /\ f[k].count = core[k].count /\ f[k].lock = core[k].lock
                             /\ ~f[k].in => f[k] = Unused
    BY <1>4, DroppedTable
  <1>8. m \in Minode /\ m.count = c.count + 1 /\ m.in = c.in /\ m.lock = c.lock
    <2>1. c \in Minode  BY <1>2, <1>7
    <2> HIDE DEF c
    <2>2. c.count \in Nat  BY <2>1 DEF Minode
    <2>3. c.count + 1 \in Nat  BY <2>2
    <2> QED  BY <2>1, <2>3 DEF Minode
  <1>9. /\ s \in Process /\ Shape(Return(s)) /\ s.todo # <<>> /\ NoTransfer(s.todo)
        /\ \A k : ~Sole(s.todo, k)
    BY <1>1, <1>3, GottenShape
  <1>10. \A k \in Inodes : Holds(s, k) = Holds(p, k) + Count(op = "iget" /\ p.nr = k)
    BY <1>1, <1>3, GottenShape
  <1>11. NoTransfer(p.todo)  BY <1>2 DEF NoTransfer
  <1>12. op = "iget"  OBVIOUS
  <1>13. p = r[t]  OBVIOUS
  <1> HIDE DEF m, n, p
  <1>14. /\ core' \in [Inodes -> Minode] /\ core'[n] = m
         /\ \A k \in Inodes \ {n} : core'[k] = f[k]
    BY <1>2, <1>6, <1>7, <1>8
  <1>15. Store'  BY <1>14 DEF Base, TypeOK, Store
  <1>16. \A k \in Inodes \ {n} : /\ core'[k].count = core[k].count
                                 /\ core'[k].lock = core[k].lock
                                 /\ ~core'[k].in => core'[k] = Unused
    BY <1>7, <1>14, ZenonT(60)
  <1>17. core'[n].count = core[n].count + 1 /\ core'[n].in /\ core'[n].lock = core[n].lock
    BY <1>2, <1>5, <1>7, <1>8, <1>14
  <1>18. Holds(s, n) = Holds(p, n) + 1
         /\ \A k \in Inodes \ {n} : Holds(s, k) = Holds(p, k)
    <2>1. \A k \in Inodes : Holds(p, k) \in Nat  BY <1>2, HoldsType
    <2>2. Count(op = "iget" /\ p.nr = n) = 1
          /\ \A k \in Inodes \ {n} : Count(op = "iget" /\ p.nr = k) = 0
      BY <1>12 DEF Count, n
    <2> QED  BY <1>2, <1>10, <2>1, <2>2
  <1> HIDE DEF op
  <1> QED  BY <1>2, <1>3, <1>5, <1>9, <1>11, <1>13, <1>15, <1>16, <1>17, <1>18, RaiseStep

(* iget has to read the inode. *)
LEMMA IgetReads ==
    ASSUME Base, NEW t \in Tasks, Now(t, "iget"), ~core[r[t].nr].lock,
           ~Freeing(r[t].nr), NEW e \in Droppable, ~Dropped(e)[r[t].nr].in,
           core' = [Dropped(e) EXCEPT ![r[t].nr] = [@ EXCEPT !.in = TRUE, !.count = 1,
                                                             !.lock = TRUE]],
           Do(t, <<Op("read", r[t].nr)>> \o Rest(t)),
           UNCHANGED <<disk, dirs, imap, zmap, panic>>
    PROVE  Base'
  <1> DEFINE p == r[t]
             n == p.nr
             f == Dropped(e)
             c == f[n]
             m == [c EXCEPT !.in = TRUE, !.count = 1, !.lock = TRUE]
             x == Op("read", n)
             rest == Rest(t)
             y == rest[1]
             s == With(p, <<x, y>>)
             op == "iget"
  <1>1. op \in {"iget", "read"} /\ Now(t, op) /\ op # "read"  OBVIOUS
  <1>2. p \in Process /\ p.todo # <<>> /\ Head(p.todo).op = op /\ n \in Inodes
        /\ rest \in Seq(Operation) /\ Len(rest) = 1 /\ y \in Operation /\ y.op \in LooksUp
    BY <1>1, Getting
  <1>3. Holding(p, y.op, TRUE)  BY <1>1, Getting
  <1>4. ASSUME NEW k \in Inodes
        PROVE  Holds(p, k) = Count(p.fd = k) + Count(p.dir = k) + Count(p.inode = k)
    <2>1. Holds(p, k) = Count(p.fd = k) + Count(p.dir = k) + Count(p.inode = k)
                         + Count(op = "read" /\ p.nr = k)
      BY <1>1, Getting
    <2>2. Count(op = "read" /\ p.nr = k) = 0  BY <1>1 DEF Count
    <2>3. /\ Count(p.fd = k) \in 0 .. 1 /\ Count(p.dir = k) \in 0 .. 1
          /\ Count(p.inode = k) \in 0 .. 1
      BY CountType
    <2> QED  BY <2>1, <2>2, <2>3
  <1>5. x \in Operation /\ x.op = "read" /\ x.n = n  BY <1>2, OpTypes DEF Ops, Ino0
  <1>6. f = Dropped(e) /\ p = r[t] /\ n = p.nr  OBVIOUS
  <1>7. ~c.in /\ ~core[n].lock /\ ~Freeing(n) /\ ~Reading(n)  BY <1>2, NotBeingRead
  <1>8. core' = [f EXCEPT ![n] = m]  OBVIOUS
  <1>9. Go(t, s)
    <2>1. rest = <<y>>  BY <1>2
    <2>2. <<x>> \o <<y>> = <<x, y>>  BY <1>2, <1>5, TwoOps
    <2>3. Do(t, <<x>> \o rest)  OBVIOUS
    <2> HIDE DEF x, y, rest
    <2> QED  BY <2>1, <2>2, <2>3 DEF Do, With
  <1> HIDE DEF f, x, y, rest
  <1>10. /\ f \in [Inodes -> Minode]
         /\ \A k \in Inodes : /\ f[k].count = core[k].count /\ f[k].lock = core[k].lock
                              /\ ~f[k].in => f[k] = Unused
    BY <1>6, DroppedTable
  <1>11. m \in Minode /\ m.count = 1 /\ m.in = TRUE /\ m.lock = TRUE
    <2>1. c \in Minode  BY <1>2, <1>10
    <2> HIDE DEF c
    <2> QED  BY <2>1 DEF Minode
  <1>12. core[n].count = 0
    <2>1. c = Unused  BY <1>2, <1>7, <1>10
    <2>2. Unused.count = 0  BY DEF Unused
    <2> QED  BY <1>2, <1>10, <2>1, <2>2
  <1> HIDE DEF m, n, c, p, op
  <1>13. Run(<<x, y>>) /\ <<x, y>> \in Seq(Operation) /\ <<x, y>> # <<>>
         /\ Len(<<x, y>>) = 2 /\ <<x, y>>[1] = x /\ <<x, y>>[2] = y
    <2>1. x.op \notin Plain /\ y.op \notin Plain /\ y.op # "read"
      BY <1>2, <1>5 DEF Plain, LooksUp
    <2>2. Follows(x, y)  BY <1>2, <1>5 DEF Follows
    <2>3. y.op \notin {"write", "free_block", "read"} /\ y.op # "free_inode"
      BY <1>2 DEF LooksUp
    <2> QED  BY <1>2, <1>5, <2>1, <2>2, <2>3, RunTwo
  <1> DEFINE q == <<x, y>>
  <1>14. \A k : Cardinality(Pending(q, k)) = Count(n = k)
    <2>0. \A k : Cardinality(Pending(q, k)) = Count(Refers(x, k)) + Count(Refers(y, k))
      BY <1>2, <1>5, TwoOps
    <2>1. ASSUME NEW k PROVE Cardinality(Pending(q, k)) = Count(n = k)
      <3>1. Cardinality(Pending(q, k)) = Count(Refers(x, k)) + Count(Refers(y, k))
        BY <2>0
      <3>2. Count(Refers(x, k)) = Count(n = k)  BY <1>5 DEF Refers, Count
      <3>3. Count(Refers(y, k)) = 0  BY <1>2 DEF Refers, Count, LooksUp
      <3>4. Count(n = k) \in 0 .. 1  BY CountType
      <3> QED  BY <3>1, <3>2, <3>3, <3>4
    <2> QED  BY <2>1
  <1>15. \A k : Sole(q, k) => k = n
    <2>1. \A k : Sole(q, k) <=> \/ x.op \in {"free_inode", "read"} /\ x.n = k
                                \/ y.op \in {"free_inode", "read"} /\ y.n = k
      BY <1>2, <1>5, TwoOps
    <2> QED  BY <1>2, <1>5, <2>1 DEF LooksUp
  <1>16. s = With(p, q)  OBVIOUS
  <1> HIDE DEF s, q
  <1>17. q \in Seq(Operation) /\ q # <<>> /\ Len(q) = 2 /\ q[1] = x /\ q[2] = y /\ Run(q)
    BY <1>13 DEF q
  <1>18. Head(q) = x  BY <1>17, HeadAndRest
  <1>19. /\ s \in Process /\ s.todo = q /\ s.fd = p.fd /\ s.call = p.call
         /\ s.path = p.path /\ s.new = p.new /\ s.dir = p.dir /\ s.inode = p.inode
         /\ s.nr = p.nr /\ s.slot = p.slot /\ s.zone = p.zone
    BY <1>2, <1>16, <1>17 DEF With, Process
  <1>20. Holding(s, y.op, TRUE)
    <2>1. y.op \notin Plain \cup Copying  BY <1>2 DEF LooksUp, Plain, Copying
    <2>2. s.todo[1].n = s.nr  BY <1>5, <1>6, <1>17, <1>19
    <2> QED  BY <1>3, <1>19, <2>1, <2>2 DEF Holding
  <1>21. Shape(Return(s))
    <2>1. (Len(q) > 1) = TRUE /\ q[Len(q)] = y  BY <1>17
    <2>2. Holding(s, q[Len(q)].op, Len(q) > 1)  BY <1>20, <2>1
    <2>3. y.op \notin Open  BY <1>2 DEF LooksUp, Open
    <2>4. Return(s) = s  BY <1>17, <1>19 DEF Return
    <2> QED  BY <1>17, <1>19, <2>1, <2>2, <2>3, <2>4 DEF Shape
  <1>22. \A k \in Inodes : Holds(s, k) = Holds(p, k) + Count(n = k)
    <2>1. ASSUME NEW k \in Inodes PROVE Holds(s, k) = Holds(p, k) + Count(n = k)
      <3>1. Listed(s, k) = Count(n = k)  BY <1>14, <1>19 DEF Listed
      <3> QED  BY <1>4, <1>19, <3>1 DEF Holds
    <2> QED  BY <2>1
  <1>23. /\ core' \in [Inodes -> Minode] /\ core'[n] = m
         /\ \A k \in Inodes \ {n} : core'[k] = f[k]
    BY <1>2, <1>8, <1>10, <1>11
  <1>24. Store'  BY <1>23 DEF Base, TypeOK, Store
  <1>25. LockHeld'
    <2>1. \A k \in Inodes : (Takes(s.todo, k) <=> k = n) /\ ~Takes(p.todo, k)
      BY <1>1, <1>2, <1>5, <1>17, <1>18, <1>19 DEF Takes, op
    <2>2. ASSUME NEW k \in Inodes PROVE LockMoves(t, s, k)
      <3>1. core[k].lock \in BOOLEAN  BY DEF Base, TypeOK, Minode
      <3>2. CASE k = n  BY <1>6, <1>7, <1>11, <1>23, <2>1, <3>1, <3>2 DEF LockMoves
      <3>3. CASE k # n
        <4>1. core'[k].lock = core[k].lock  BY <1>10, <1>23, <3>3
        <4> QED  BY <1>6, <2>1, <3>1, <3>3, <4>1 DEF LockMoves
      <3> QED  BY <3>2, <3>3
    <2>3. s.todo # <<>>  BY <1>17, <1>19
    <2> QED  BY <1>9, <1>19, <2>2, <2>3, LockStep DEF Base
  <1>26. ASSUME NEW k \in Inodes PROVE Balanced(t, s, k)
    <2>1. Holds(p, k) \in Nat /\ Holds(s, k) \in Nat  BY <1>2, <1>19, HoldsType
    <2>2. core[k].count \in Nat  BY DEF Base, TypeOK, Minode
    <2>3. CASE k = n
      <3>1. Holds(s, k) = Holds(p, k) + 1
        <4>1. Count(n = k) = 1  BY <2>3 DEF Count
        <4> QED  BY <1>22, <4>1
      <3>2. core'[k].count = core[k].count - Holds(p, k) + Holds(s, k)
        BY <1>11, <1>12, <1>23, <2>1, <2>3, <3>1
      <3> QED  BY <1>6, <1>7, <1>11, <1>23, <2>3, <3>2 DEF Balanced
    <2>4. CASE k # n
      <3>1. Holds(s, k) = Holds(p, k)
        <4>1. Count(n = k) = 0  BY <2>4 DEF Count
        <4> QED  BY <1>22, <2>1, <4>1
      <3>2. core'[k].count = core[k].count /\ (~core'[k].in => core'[k] = Unused)
        BY <1>10, <1>23, <2>4
      <3>3. core'[k].count = core[k].count - Holds(p, k) + Holds(s, k)
            /\ ~(Holds(s, k) > Holds(p, k))
        BY <2>1, <2>2, <3>1, <3>2
      <3>4. ~Sole(s.todo, k)  BY <1>15, <1>19, <2>4
      <3> QED  BY <1>6, <3>2, <3>3, <3>4 DEF Balanced
    <2> QED  BY <2>3, <2>4
  <1>27. s.todo # <<>>  BY <1>17, <1>19
  <1> QED  BY <1>9, <1>19, <1>21, <1>24, <1>25, <1>26, <1>27, Moves

LEMMA igetStep ==
    ASSUME Base, NEW t \in Tasks, iget(t), flaws' = {}
    PROVE  Base'
  <1> DEFINE n == r[t].nr
  <1>1. Now(t, "iget") /\ ~core[n].lock /\ UNCHANGED <<disk, dirs, imap, zmap, panic>>
    BY DEF iget, Locked
  <1>2. ~Freeing(n)
    <2>1. flaws' = flaws \cup {f \in {"stale number"} : n \notin imap \/ Freeing(n)}
      BY DEF iget
    <2> QED  BY <2>1
  <1>3. PICK e \in Droppable :
          LET table == Dropped(e)
          IN IF table[n].in
             THEN /\ core' = [table EXCEPT ![n].count = @ + 1]
                  /\ Go(t, Gotten(t))
             ELSE /\ core' = [table EXCEPT ![n] = [@ EXCEPT !.in = TRUE,
                                 !.count = 1, !.lock = TRUE]]
                  /\ Do(t, <<Op("read", n)>> \o Rest(t))
    BY DEF iget
  <1>4. CASE Dropped(e)[n].in
    <2>1. core' = [Dropped(e) EXCEPT ![n].count = @ + 1] /\ Go(t, Gotten(t))
      BY <1>3, <1>4
    <2> QED  BY <1>1, <1>2, <1>4, <2>1, IgetFinds
  <1>5. CASE ~Dropped(e)[n].in
    <2>1. /\ core' = [Dropped(e) EXCEPT ![n] = [@ EXCEPT !.in = TRUE, !.count = 1,
                                                        !.lock = TRUE]]
          /\ Do(t, <<Op("read", n)>> \o Rest(t))
      BY <1>3, <1>5
    <2> QED  BY <1>1, <1>2, <1>5, <2>1, IgetReads
  <1> QED  BY <1>4, <1>5

-----------------------------------------------------------------------------
(* The lists of find_entry: the directory is put, the inode gotten and used. *)
Lookup(op)     == <<Op("iget", 0), Op(op, 0)>>
PutLookup(d, op) == <<iput(d), Op("iget", 0), Op(op, 0)>>

LEMMA LookupList ==
    ASSUME NEW op \in LooksUp
    PROVE  /\ Lookup(op) \in Seq(Operation) /\ Lookup(op) # <<>> /\ Run(Lookup(op))
           /\ Len(Lookup(op)) = 2 /\ Lookup(op)[1].op = "iget"
           /\ Lookup(op)[2].op = op
           /\ \A n : Cardinality(Pending(Lookup(op), n)) = 0
           /\ \A n : ~Sole(Lookup(op), n)
  <1> DEFINE x == Op("iget", 0)
             y == Op(op, 0)
  <1>1. x \in Operation /\ x.op = "iget"  BY OpTypes DEF Ops, Ino0
  <1>2. y \in Operation /\ y.op = op
    <2>1. op \in Ops /\ 0 \in Ino0  BY DEF LooksUp, Ops, Ino0
    <2> QED  BY <2>1, OpTypes
  <1>3. Lookup(op) = <<x, y>>  BY DEF Lookup
  <1> HIDE DEF x, y
  <1>4. x.op \notin Plain /\ y.op \notin Plain  BY <1>1, <1>2 DEF Plain, LooksUp
  <1>5. Follows(x, y)  BY <1>1, <1>2 DEF Follows
  <1>6. y.op \notin {"write", "free_block", "read", "free_inode"}  BY <1>2 DEF LooksUp
  <1>7. Run(<<x, y>>) /\ <<x, y>> \in Seq(Operation) /\ <<x, y>> # <<>>
        /\ Len(<<x, y>>) = 2 /\ <<x, y>>[1] = x /\ <<x, y>>[2] = y
    BY <1>1, <1>2, <1>4, <1>5, <1>6, RunTwo
  <1>8. \A n : Cardinality(Pending(<<x, y>>, n)) = Count(Refers(x, n)) + Count(Refers(y, n))
    BY <1>1, <1>2, TwoOps
  <1>9. \A n : Sole(<<x, y>>, n) <=> \/ x.op \in {"free_inode", "read"} /\ x.n = n
                                     \/ y.op \in {"free_inode", "read"} /\ y.n = n
    BY <1>1, <1>2, TwoOps
  <1>10. \A n : Count(Refers(x, n)) = 0 /\ Count(Refers(y, n)) = 0
    BY <1>1, <1>2 DEF Refers, Count, LooksUp
  <1>11. \A n : Cardinality(Pending(<<x, y>>, n)) = 0  BY <1>8, <1>10
  <1>12. \A n : ~Sole(<<x, y>>, n)  BY <1>1, <1>6, <1>9
  <1> QED  BY <1>1, <1>2, <1>3, <1>7, <1>11, <1>12

LEMMA PutLookupList ==
    ASSUME NEW d \in Inodes, NEW op \in LooksUp, NEW q, q = PutLookup(d, op)
    PROVE  /\ q \in Seq(Operation) /\ q # <<>> /\ Run(q)
           /\ Len(q) = 3 /\ q[1].op = "iput" /\ q[3].op = op
           /\ \A n : Cardinality(Pending(q, n)) = Count(d = n)
           /\ \A n : ~Sole(q, n)
  <1> DEFINE x == iput(d)
             a == <<x>>
             b == Lookup(op)
  <1>1. x \in Operation /\ x.op = "iput" /\ x.n = d  BY OpTypes DEF Ops, Ino0, iput
  <1>2. /\ b \in Seq(Operation) /\ b # <<>> /\ Run(b) /\ Len(b) = 2 /\ b[1].op = "iget"
        /\ b[2].op = op
    BY LookupList
  <1>3. (\A n : Cardinality(Pending(b, n)) = 0) /\ (\A n : ~Sole(b, n))  BY LookupList
  <1>4. q = a \o b  BY DEF PutLookup, Lookup
  <1>5. x.n # 0  BY <1>1, Numbers
  <1> HIDE DEF x
  <1>6. Run(a) /\ a \in Seq(Operation) /\ a # <<>> /\ Len(a) = 1 /\ a[1] = x
    BY <1>1, <1>5, RunOne
  <1>7. \A n : Cardinality(Pending(a, n)) = Count(Refers(x, n))  BY PendingOne
  <1> HIDE DEF a, b
  <1>8. Follows(a[Len(a)], b[1])  BY <1>1, <1>2, <1>6 DEF Follows
  <1>9. b[1].op \notin {"write", "free_block", "read"} /\ b[1].op # "free_inode"  BY <1>2
  <1>10. /\ Run(a \o b) /\ a \o b \in Seq(Operation) /\ a \o b # <<>>
         /\ Len(a \o b) = Len(a) + Len(b)
         /\ (a \o b)[1] = a[1] /\ (a \o b)[Len(a \o b)] = b[Len(b)]
    BY <1>2, <1>6, <1>8, <1>9, RunJoined
  <1>11. \A n : Cardinality(Pending(a \o b, n)) =
                  Cardinality(Pending(a, n)) + Cardinality(Pending(b, n))
    BY <1>2, <1>6, PendingJoined
  <1>12. ASSUME NEW n PROVE Cardinality(Pending(q, n)) = Count(d = n)
    <2>1. Count(Refers(x, n)) = Count(d = n)  BY <1>1 DEF Refers, Count
    <2>2. Count(d = n) \in 0 .. 1  BY CountType
    <2> QED  BY <1>3, <1>4, <1>7, <1>11, <2>1, <2>2
  <1>13. Len(q) = 3 /\ q[1] = x /\ q[3] = b[2]
    BY <1>2, <1>4, <1>6, <1>10
  <1>14. ASSUME NEW n PROVE ~Sole(q, n)
    <2>1. q[2] = b[1]
      <3>1. \A i \in 1 .. Len(b) : (a \o b)[Len(a) + i] = b[i]  BY <1>2, <1>6, JoinLists
      <3>2. 1 \in 1 .. Len(b) /\ Len(a) + 1 = 2  BY <1>2, <1>6
      <3> QED  BY <1>4, <3>1, <3>2
    <2>2. q \in Seq(Operation)  BY <1>4, <1>10
    <2>3. DOMAIN q = {1, 2, 3}  BY <1>13, <2>2
    <2>4. q[1].op = "iput" /\ q[2].op = "iget" /\ q[3].op = op
      BY <1>1, <1>2, <1>13, <2>1
    <2> QED  BY <2>3, <2>4 DEF Sole, LooksUp
  <1> QED  BY <1>1, <1>2, <1>4, <1>10, <1>12, <1>13, <1>14

(* The name is there: the call goes on to get its inode. *)
LEMMA LookupStep ==
    ASSUME Base, NEW t \in Tasks, Now(t, "find"), NEW op \in LooksUp,
           NEW s \in Process, Go(t, s), s.fd = r[t].fd, s.inode = r[t].inode,
           NEW q \in Seq(Operation), s.todo = q, Run(q), Len(q) > 1, q[1].op \in {"iput", "iget"},
           q[Len(q)].op = op, Holding(s, op, TRUE), \A n : ~Sole(q, n),
           \A n \in Inodes : Count(s.dir = n) + Cardinality(Pending(q, n)) = Count(r[t].dir = n),
           UNCHANGED <<disk, core, dirs, imap, zmap, panic>>
    PROVE  Base'
  <1> DEFINE find == "find"
             p == r[t]
  <1>1. find \in Single /\ Now(t, find)  BY DEF Single
  <1>2. NoTransfer(p.todo)  BY <1>1, EndOp
  <1>3. \A n : Holds(p, n) = Count(p.fd = n) + Count(p.dir = n) + Count(p.inode = n)
    BY <1>1, EndOp
  <1>4. Store' /\ \A n \in Inodes : Same(n)  BY StoreSame
  <1>5. q # <<>>  OBVIOUS
  <1>6. Head(q) = q[1]  BY <1>5, HeadAndRest
  <1>7. NoTransfer(s.todo)  BY <1>6 DEF NoTransfer
  <1>8. Shape(Return(s))
    <2>1. (Len(q) > 1) = TRUE  OBVIOUS
    <2>2. Holding(s, q[Len(q)].op, Len(q) > 1)  BY <2>1
    <2>3. q[Len(q)].op \notin Open  BY DEF LooksUp, Open
    <2>4. Return(s) = s  BY <1>5 DEF Return
    <2> QED  BY <1>5, <2>2, <2>3, <2>4 DEF Shape
  <1>9. ASSUME NEW n \in Inodes PROVE Holds(s, n) = Holds(p, n)
    <2>1. Listed(s, n) = Cardinality(Pending(q, n))  BY DEF Listed
    <2>2. Cardinality(Pending(q, n)) \in Nat  BY PendingFinite
    <2>3. /\ Count(p.fd = n) \in 0 .. 1 /\ Count(p.dir = n) \in 0 .. 1
          /\ Count(p.inode = n) \in 0 .. 1 /\ Count(s.dir = n) \in 0 .. 1
      BY CountType
    <2>4. Holds(s, n) = Count(p.fd = n) + Count(s.dir = n) + Count(p.inode = n)
                          + Cardinality(Pending(q, n))
      BY <2>1 DEF Holds
    <2>5. Count(s.dir = n) + Cardinality(Pending(q, n)) = Count(p.dir = n)  OBVIOUS
    <2>6. Holds(p, n) = Count(p.fd = n) + Count(p.dir = n) + Count(p.inode = n)  BY <1>3
    <2> HIDE DEF p
    <2> QED  BY <2>2, <2>3, <2>4, <2>5, <2>6
  <1>10. s.todo # <<>> /\ \A n : ~Sole(s.todo, n)  BY <1>5
  <1> QED  BY <1>2, <1>4, <1>7, <1>8, <1>9, <1>10, QuietStep

(* The state of a call that looks for a name. *)
LEMMA Finding ==
    ASSUME Base, NEW t \in Tasks, Now(t, "find")
    PROVE  /\ "find" \in Single /\ r[t] \in Process /\ r[t].dir \in Inodes
           /\ (r[t].inode = 0 <=> r[t].call # "link")
           /\ r[t].nr = 0 /\ (r[t].call = "open" => r[t].fd = 0)
           /\ r[t].path # <<>> /\ r[t].call \notin {"none", "sync"}
           /\ (r[t].call = "namei" => r[t].new # <<>>)
           /\ r[t].path \in Seq(STRING)
  <1> DEFINE op == "find"
  <1>1. op \in Single /\ Now(t, op)  BY DEF Single
  <1>2. r[t] \in Process /\ Holding(r[t], op, FALSE)  BY <1>1, EndOp
  <1>3. op \notin Plain \cup Copying \cup LooksUp  BY DEF Plain, Copying, LooksUp
  <1>4. /\ r[t].dir # 0 /\ (r[t].inode = 0 <=> r[t].call # "link")
        /\ r[t].nr = 0 /\ (r[t].call = "open" => r[t].fd = 0)
        /\ r[t].path # <<>> /\ r[t].call \notin {"none", "sync"}
        /\ (r[t].call = "namei" => r[t].new # <<>>)
    BY <1>2, <1>3 DEF Holding
  <1> QED  BY <1>1, <1>2, <1>4 DEF Process, Ino0

(* The directory is put and the inode gotten, for a name that is there. *)
Got(p, nr, path, op) == [p EXCEPT !.nr = nr, !.path = path, !.dir = 0,
                                  !.todo = PutLookup(p.dir, op)]
Kept(p, nr, i) == [p EXCEPT !.nr = nr, !.slot = i, !.todo = Lookup(p.call)]

LEMMA GetStep ==
    ASSUME Base, NEW t \in Tasks, Now(t, "find"), NEW nr \in Inodes, NEW op,
           NEW path \in Seq(STRING), path # <<>>,
           \/ op = "walk"
           \/ op = r[t].call /\ op \in {"open", "namei", "chmod"},
           NEW s, s = Got(r[t], nr, path, op),
           Go(t, s), UNCHANGED <<disk, core, dirs, imap, zmap, panic>>
    PROVE  Base'
  <1> DEFINE p == r[t]
             q == PutLookup(p.dir, op)
  <1>1. /\ p \in Process /\ p.dir \in Inodes
        /\ (p.inode = 0 <=> p.call # "link")
        /\ p.nr = 0 /\ (p.call = "open" => p.fd = 0)
        /\ p.path # <<>> /\ p.call \notin {"none", "sync"}
        /\ (p.call = "namei" => p.new # <<>>)
    BY Finding
  <1>2. op \in LooksUp /\ (op = "walk" \/ (op = p.call /\ op \in {"open", "namei", "chmod"}))
    <2>1. op = "walk" \/ (op = p.call /\ op \in {"open", "namei", "chmod"})  OBVIOUS
    <2>2. op \in {"walk", "open", "namei", "chmod"}  BY <2>1, Zenon
    <2>3. op \in LooksUp  BY <2>2 DEF LooksUp
    <2> QED  BY <2>1, <2>3, Zenon
  <1>3. q = PutLookup(p.dir, op) /\ s = Got(p, nr, path, op)  OBVIOUS
  <1> HIDE DEF q
  <1>4. /\ q \in Seq(Operation) /\ q # <<>> /\ Run(q)
        /\ Len(q) = 3 /\ q[1].op = "iput" /\ q[3].op = op
    BY <1>1, <1>2, <1>3, PutLookupList
  <1>5. \A n : Cardinality(Pending(q, n)) = Count(p.dir = n)
    BY <1>1, <1>2, <1>3, PutLookupList
  <1>6. \A n : ~Sole(q, n)  BY <1>1, <1>2, <1>3, PutLookupList
  <1>7. nr \in Ino0 /\ 0 \in Ino0 /\ nr # 0  BY Numbers DEF Ino0
  <1>p. p = r[t]  OBVIOUS
  <1> HIDE DEF p
  <1>8. /\ s \in Process /\ s.todo = q /\ s.nr = nr /\ s.path = path /\ s.dir = 0
        /\ s.fd = p.fd /\ s.inode = p.inode /\ s.call = p.call /\ s.new = p.new
        /\ s.zone = p.zone
    BY <1>1, <1>3, <1>4, <1>7, ZenonT(60) DEF Process, Got
  <1>9. Holding(s, op, TRUE)
    <2>1. s.todo[1].op # "read"  BY <1>4, <1>8
    <2>2. op \notin Plain \cup Copying /\ op \in LooksUp
      BY <1>2 DEF LooksUp, Plain, Copying
    <2> QED  BY <1>1, <1>2, <1>7, <1>8, <2>1, <2>2 DEF Holding
  <1>10. \A n \in Inodes : Count(s.dir = n) + Cardinality(Pending(q, n)) = Count(p.dir = n)
    <2>1. \A n \in Inodes : Count(0 = n) = 0  BY Numbers DEF Count
    <2>2. ASSUME NEW n \in Inodes
          PROVE  Count(s.dir = n) + Cardinality(Pending(q, n)) = Count(p.dir = n)
      <3>1. Count(p.dir = n) \in 0 .. 1  BY CountType
      <3>2. Count(s.dir = n) = 0  BY <1>8, <2>1
      <3>3. Cardinality(Pending(q, n)) = Count(p.dir = n)  BY <1>5
      <3> QED  BY <3>1, <3>2, <3>3
    <2> QED  BY <2>2
  <1>11. Len(q) > 1 /\ q[Len(q)].op = op /\ q[1].op \in {"iput", "iget"}  BY <1>4
  <1> QED
    BY <1>2, <1>4, <1>6, <1>8, <1>9, <1>10, <1>11, <1>p, LookupStep

(* unlink and rmdir keep the directory. *)
LEMMA KeepStep ==
    ASSUME Base, NEW t \in Tasks, Now(t, "find"), NEW nr \in Inodes, NEW i \in 1 .. Slots,
           r[t].call \in {"unlink", "rmdir"},
           NEW s, s = Kept(r[t], nr, i),
           Go(t, s), UNCHANGED <<disk, core, dirs, imap, zmap, panic>>
    PROVE  Base'
  <1> DEFINE p == r[t]
             op == p.call
             q == Lookup(op)
  <1>1. /\ p \in Process /\ p.dir \in Inodes
        /\ (p.inode = 0 <=> p.call # "link")
        /\ p.nr = 0 /\ (p.call = "open" => p.fd = 0)
        /\ p.path # <<>> /\ p.call \notin {"none", "sync"}
    BY Finding
  <1>2. op \in LooksUp  BY DEF LooksUp
  <1>3. q = Lookup(op) /\ s = Kept(p, nr, i)  OBVIOUS
  <1>4. /\ q \in Seq(Operation) /\ q # <<>> /\ Run(q)
        /\ Len(q) = 2 /\ q[1].op = "iget" /\ q[2].op = op
    BY <1>2, LookupList
  <1>5. \A n : Cardinality(Pending(q, n)) = 0  BY <1>2, LookupList
  <1>6. \A n : ~Sole(q, n)  BY <1>2, LookupList
  <1>7. nr \in Ino0 /\ nr # 0 /\ p.dir # 0  BY <1>1, Numbers DEF Ino0
  <1>8. i \in 0 .. Slots /\ i # 0
    <2>1. Slots \in Nat  BY FsAssumption
    <2> QED  BY <2>1
  <1>p. p = r[t] /\ op = p.call /\ op \in {"unlink", "rmdir"}  OBVIOUS
  <1> HIDE DEF p, q, op
  <1>9. /\ s \in Process /\ s.todo = q /\ s.nr = nr /\ s.path = p.path /\ s.dir = p.dir
        /\ s.fd = p.fd /\ s.inode = p.inode /\ s.call = p.call /\ s.new = p.new
        /\ s.zone = p.zone /\ s.slot = i
    BY <1>1, <1>3, <1>4, <1>7, <1>8, <1>p, ZenonT(60) DEF Process, Kept
  <1>10. Holding(s, op, TRUE)
    <2>1. s.todo[1].op # "read"  BY <1>4, <1>9
    <2>2. op \notin Plain \cup Copying /\ op \in LooksUp
      BY <1>2 DEF LooksUp, Plain, Copying
    <2> QED  BY <1>1, <1>p, <1>7, <1>8, <1>9, <2>1, <2>2 DEF Holding
  <1>11. \A n \in Inodes : Count(s.dir = n) + Cardinality(Pending(q, n)) = Count(p.dir = n)
    <2>1. \A n : Count(p.dir = n) \in 0 .. 1  BY CountType
    <2> QED  BY <1>5, <1>9, <2>1
  <1>12. Len(q) > 1 /\ q[Len(q)].op = op /\ q[1].op \in {"iput", "iget"}  BY <1>4
  <1> QED
    BY <1>2, <1>4, <1>6, <1>9, <1>10, <1>11, <1>12, <1>p, LookupStep, ZenonT(60)

(* The name is there. *)
LEMMA FoundStep ==
    ASSUME Base, NEW t \in Tasks, Now(t, "find"), NEW nr \in Inodes, NEW i \in 1 .. Slots,
           Found(t, i, nr), UNCHANGED <<disk, core, dirs, imap, zmap, panic>>
    PROVE  Base'
  <1> DEFINE p == r[t]
             get(op) == [p EXCEPT !.nr = nr, !.dir = 0,
                             !.todo = <<iput(p.dir), Op("iget", 0), Op(op, 0)>>]
             keep == [p EXCEPT !.nr = nr, !.slot = i, !.todo = <<Op("iget", 0), Op(p.call, 0)>>]
             find == "find"
  <1>1. /\ find \in Single /\ p \in Process /\ p.dir \in Inodes
        /\ (p.inode = 0 <=> p.call # "link")
        /\ p.call \notin {"none", "sync"} /\ p.path # <<>> /\ p.path \in Seq(STRING)
    BY Finding
  <1>2. Store' /\ \A n \in Inodes : Same(n)  BY StoreSame
  <1>3. p.call \in Calls \cup {"none", "namei"}  BY <1>1 DEF Process
  <1>4. p.dir # 0  BY <1>1, Numbers
  <1>5. CASE p.call \in {"mknod", "mkdir", "link"}
    <2>1. Put(t, PutAll(t))  BY <1>5 DEF Found
    <2>2. Puts(t, PutAll(t))  BY <1>1, <1>4, PutsAll
    <2>3. Now(t, find)  OBVIOUS
    <2> HIDE DEF find
    <2> QED  BY <1>1, <1>2, <2>1, <2>2, <2>3, PutsStep
  <1>6. CASE p.call = "open" /\ "O_EXCL" \in p.flags
    <2>1. Put(t, PutDir(t))  BY <1>6 DEF Found
    <2>2. Puts(t, PutDir(t))  BY <1>1, <1>4, <1>6, PutsAll
    <2>3. Now(t, find)  OBVIOUS
    <2> HIDE DEF find
    <2> QED  BY <1>1, <1>2, <2>1, <2>2, <2>3, PutsStep
  <1>7. CASE \/ p.call = "open" /\ "O_EXCL" \notin p.flags
             \/ p.call \in {"namei", "chmod"}
    <2> DEFINE op == p.call
               s == Got(p, nr, p.path, op)
    <2>1. Go(t, get(op))
      <3>1. CASE p.call = "open" /\ "O_EXCL" \notin p.flags
        BY <3>1 DEF Found
      <3>2. CASE p.call = "namei"  BY <3>2 DEF Found
      <3>3. CASE p.call = "chmod"  BY <3>3 DEF Found
      <3> QED  BY <1>7, <3>1, <3>2, <3>3
    <2>2. s = get(op)
      <3>1. PutLookup(p.dir, op) = <<iput(p.dir), Op("iget", 0), Op(op, 0)>>
        BY DEF PutLookup
      <3> HIDE DEF p
      <3> QED  BY <1>1, <3>1 DEF Process, Got
    <2>3. op = r[t].call /\ op \in {"open", "namei", "chmod"}  BY <1>7
    <2>4. s = Got(r[t], nr, p.path, op) /\ Go(t, s)
      BY <2>1, <2>2
    <2> HIDE DEF s, op
    <2> QED  BY <1>1, <2>3, <2>4, GetStep
  <1>8. CASE p.call \in {"unlink", "rmdir"}
    <2> DEFINE s == Kept(p, nr, i)
    <2>1. Go(t, keep)  BY <1>8 DEF Found
    <2>2. s = keep  BY DEF Lookup, Kept
    <2>3. s = Kept(r[t], nr, i) /\ Go(t, s)
      BY <2>1, <2>2
    <2> HIDE DEF s
    <2> QED  BY <1>8, <2>3, KeepStep
  <1> QED  BY <1>1, <1>3, <1>5, <1>6, <1>7, <1>8 DEF Calls

(* A new inode: the call has it, or puts it at once. *)
Allocated(e, n, mode) == [Dropped(e) EXCEPT ![n] = NewInode(mode)]

LEMMA NewStep ==
    ASSUME Base, NEW t \in Tasks, Now(t, "find"), r[t].inode = 0,
           NEW n \in Inodes, ~core[n].in, NEW e \in Droppable, NEW mode \in Modes,
           core' = Allocated(e, n, mode),
           NEW s \in Process, Go(t, s), s.todo # <<>>, Shape(Return(s)), NoTransfer(s.todo),
           \A k : ~Sole(s.todo, k),
           \A k \in Inodes : Holds(s, k) = Count(r[t].fd = k) + Count(r[t].dir = k) + Count(n = k),
           UNCHANGED <<disk, dirs, panic>>, imap' \subseteq Inodes, zmap' \subseteq Zones
    PROVE  Base'
  <1> DEFINE p == r[t]
             find == "find"
             f == Dropped(e)
             m == NewInode(mode)
  <1>1. find \in Single /\ Now(t, find)  BY DEF Single
  <1>2. NoTransfer(p.todo) /\ p \in Process  BY <1>1, EndOp
  <1>3. \A k : Holds(p, k) = Count(p.fd = k) + Count(p.dir = k) + Count(p.inode = k)
    BY <1>1, EndOp
  <1>4. f = Dropped(e) /\ core' = [f EXCEPT ![n] = m]  BY DEF Allocated
  <1>5. m \in Minode /\ m.count = 1 /\ m.in = TRUE /\ m.lock = FALSE
    BY DEF NewInode, Minode, Zone0
  <1> HIDE DEF f, m
  <1>6. /\ f \in [Inodes -> Minode]
        /\ \A k \in Inodes : /\ f[k].count = core[k].count /\ f[k].lock = core[k].lock
                             /\ ~f[k].in => f[k] = Unused
    BY <1>4, DroppedTable
  <1>7. core[n].count = 0 /\ core[n].lock = FALSE
    <2>1. core[n] = Unused  BY DEF Base, Table
    <2> QED  BY <2>1 DEF Unused
  <1>8. ~Freeing(n) /\ ~Reading(n)
    <2>1. Freeing(n) \/ Reading(n) => core[n].count = 1  BY DEF Base, Table
    <2> QED  BY <1>7, <2>1
  <1>9. /\ core' \in [Inodes -> Minode] /\ core'[n] = m
        /\ \A k \in Inodes \ {n} : core'[k] = f[k]
    BY <1>4, <1>5, <1>6
  <1>10. Store'  BY <1>9 DEF Base, TypeOK, Store
  <1>11. \A k \in Inodes \ {n} : /\ core'[k].count = core[k].count
                                 /\ core'[k].lock = core[k].lock
                                 /\ ~core'[k].in => core'[k] = Unused
    BY <1>6, <1>9
  <1>12. core'[n].count = core[n].count + 1 /\ core'[n].in /\ core'[n].lock = core[n].lock
    <2>1. core'[n].count = 1 /\ core'[n].in = TRUE /\ core'[n].lock = FALSE  BY <1>5, <1>9
    <2>2. core'[n].count = core[n].count + 1  BY <1>7, <2>1
    <2>3. core'[n].lock = core[n].lock  BY <1>7, <2>1
    <2> QED  BY <2>1, <2>2, <2>3, Zenon
  <1>13. \A k \in Inodes : Holds(s, k) = Holds(p, k) + Count(n = k)
    <2>1. ASSUME NEW k \in Inodes PROVE Holds(s, k) = Holds(p, k) + Count(n = k)
      <3>1. Count(p.inode = k) = 0  BY Numbers DEF Count
      <3>2. Count(p.fd = k) \in 0 .. 1 /\ Count(p.dir = k) \in 0 .. 1 /\ Count(n = k) \in 0 .. 1
        BY CountType
      <3>3. Holds(s, k) = Count(p.fd = k) + Count(p.dir = k) + Count(n = k)  OBVIOUS
      <3>4. Holds(p, k) = Count(p.fd = k) + Count(p.dir = k) + Count(p.inode = k)  BY <1>3
      <3> HIDE DEF p
      <3> QED  BY <3>1, <3>2, <3>3, <3>4
    <2> QED  BY <2>1
  <1>14. Holds(s, n) = Holds(p, n) + 1
         /\ \A k \in Inodes \ {n} : Holds(s, k) = Holds(p, k)
    <2>1. \A k \in Inodes : Holds(p, k) \in Nat  BY <1>2, HoldsType
    <2>2. Count(n = n) = 1 /\ \A k \in Inodes \ {n} : Count(n = k) = 0  BY DEF Count
    <2> HIDE DEF p
    <2> QED  BY <1>13, <2>1, <2>2
  <1>15. p = r[t]  OBVIOUS
  <1> HIDE DEF p
  <1> QED  BY <1>2, <1>8, <1>10, <1>11, <1>12, <1>14, <1>15, RaiseStep

(* The record of a call that has made an inode. *)
Made(p, n, z, op) == [p EXCEPT !.inode = n, !.zone = z, !.todo = <<Op(op, 0)>>]

LEMMA MadeShape ==
    ASSUME Base, NEW t \in Tasks, Now(t, "find"), NEW n \in Inodes, NEW z \in Zone0, NEW op,
           \/ op = "add" /\ r[t].call \in {"open", "mknod"}
           \/ op = "mkdir" /\ r[t].call = "mkdir" /\ z # 0,
           NEW s, s = Made(r[t], n, z, op)
    PROVE  /\ s \in Process /\ Shape(Return(s)) /\ s.todo # <<>> /\ NoTransfer(s.todo)
           /\ \A k : ~Sole(s.todo, k)
           /\ \A k \in Inodes : Holds(s, k) = Count(r[t].fd = k) + Count(r[t].dir = k)
                                                + Count(n = k)
  <1> DEFINE p == r[t]
             o == Op(op, 0)
  <1>1. /\ p \in Process /\ p.dir \in Inodes
        /\ p.nr = 0 /\ (p.call = "open" => p.fd = 0)
        /\ p.path # <<>> /\ p.call \notin {"none", "sync"}
        /\ (p.call = "namei" => p.new # <<>>)
    BY Finding
  <1>2. op \in {"add", "mkdir"}  BY Zenon
  <1>3. op \in Single /\ op \in Ops /\ op \notin Plain \cup Copying \cup LooksUp
    BY <1>2 DEF Single, Ops, Plain, Copying, LooksUp
  <1>4. o \in Operation /\ o.op = op
    <2>1. 0 \in Ino0  BY DEF Ino0
    <2> QED  BY <1>3, <2>1, OpTypes
  <1>5. n \in Ino0 /\ n # 0 /\ p.dir # 0  BY <1>1, Numbers DEF Ino0
  <1>6. /\ (op = "add" => p.call \in {"open", "mknod"})
        /\ (op = "mkdir" => p.call = "mkdir" /\ z # 0)
    OBVIOUS
  <1>7. s = Made(p, n, z, op) /\ o = Op(op, 0)  OBVIOUS
  <1> HIDE DEF p, o
  <1>8. <<o>> \in Seq(Operation)  BY <1>4
  <1>9. /\ s \in Process /\ s.todo = <<o>> /\ s.inode = n /\ s.zone = z /\ s.dir = p.dir
        /\ s.fd = p.fd /\ s.call = p.call /\ s.path = p.path /\ s.new = p.new /\ s.nr = p.nr
    BY <1>1, <1>5, <1>7, <1>8 DEF Made, Process
  <1>10. Holding(s, o.op, FALSE)
    <2>1. s.todo[1] = o  BY <1>9
    <2>2. Holding(s, op, FALSE)
      BY <1>1, <1>2, <1>3, <1>4, <1>5, <1>6, <1>9, <2>1 DEF Holding
    <2> QED  BY <1>4, <2>2
  <1>11. o.op \in Single  BY <1>3, <1>4
  <1>12. /\ Shape(Return(s)) /\ s.todo # <<>> /\ NoTransfer(s.todo)
         /\ \A k : ~Sole(s.todo, k)
    BY <1>9, <1>10, <1>11, OneOp
  <1>13. \A k : Holds(s, k) = Count(s.fd = k) + Count(s.dir = k) + Count(s.inode = k)
    BY <1>9, <1>10, <1>11, OneOp
  <1>14. \A k \in Inodes : Holds(s, k) = Count(p.fd = k) + Count(p.dir = k) + Count(n = k)
    BY <1>9, <1>13
  <1> QED  BY <1>9, <1>12, <1>14 DEF p

(* The record of a call that could not get a block for its inode. *)
Unmade(t, n) == PutDir(t) \o <<Op("nlinks--", n), iput(n)>>

LEMMA UnmadeShape ==
    ASSUME Base, NEW t \in Tasks, Now(t, "find"), NEW n \in Inodes,
           NEW ops, ops = Unmade(t, n),
           NEW s, s = Putting(r[t], ops)
    PROVE  /\ s \in Process /\ Shape(Return(s)) /\ s.todo # <<>> /\ NoTransfer(s.todo)
           /\ \A k : ~Sole(s.todo, k)
           /\ \A k \in Inodes : Holds(s, k) = Count(r[t].fd = k) + Count(r[t].dir = k)
                                                + Count(n = k)
  <1> DEFINE p == r[t]
             a == PutDir(t)
             b == <<Op("nlinks--", n), Op("iput", n)>>
  <1>1. p \in Process /\ p.dir \in Inodes /\ p.nr = 0 /\ (p.call = "open" => p.fd = 0)
    BY Finding
  <1>2. Tidy(b) /\ Len(b) = 2 /\ b[2].op = "iput"
        /\ \A k : Cardinality(Pending(b, k)) = Count(n = k)
    BY TidyTwo
  <1>3. ops = a \o b  BY DEF iput, Unmade
  <1>4. /\ Tidy(a) /\ Len(a) = 1 /\ a[1].op = "iput"
        /\ \A k : Cardinality(Pending(a, k)) = Count(p.dir = k)
    BY <1>1, PutLists, Numbers
  <1> HIDE DEF a, b
  <1>5. Tidy(a) /\ a[Len(a)].op = "iput" /\ Tidy(b)  BY <1>2, <1>4
  <1>6. Tidy(a \o b) /\ \A k : Cardinality(Pending(a \o b, k)) =
                                  Cardinality(Pending(a, k)) + Cardinality(Pending(b, k))
    BY <1>5, TidyJoined
  <1>7. (a \o b)[Len(a \o b)] = b[Len(b)]
    BY <1>5, TidyJoined
  <1>8. Tidy(ops) /\ LastOp(ops) # "fd"
    BY <1>2, <1>3, <1>6, <1>7 DEF LastOp
  <1>9. \A k : Cardinality(Pending(ops, k)) = Count(p.dir = k) + Count(n = k)
    BY <1>2, <1>3, <1>4, <1>6
  <1>p. p = r[t] /\ s = Putting(p, ops)  OBVIOUS
  <1> HIDE DEF p
  <1>10. s \in Process /\ Shape(Return(s))  BY <1>1, <1>8, <1>p, PutRecord
  <1>11. s.todo # <<>> /\ NoTransfer(s.todo)  BY <1>1, <1>8, <1>p, PutRecord
  <1>12. \A k : ~Sole(s.todo, k)  BY <1>1, <1>8, <1>p, PutRecord, ZenonT(60)
  <1>13. \A k \in Inodes : Holds(s, k) = Count(p.fd = k) + Cardinality(Pending(ops, k))
    BY <1>1, <1>8, <1>p, PutRecord
  <1>14. ASSUME NEW k \in Inodes
         PROVE  Holds(s, k) = Count(p.fd = k) + Count(p.dir = k) + Count(n = k)
    <2>1. Count(p.fd = k) \in 0 .. 1 /\ Count(p.dir = k) \in 0 .. 1 /\ Count(n = k) \in 0 .. 1
      BY CountType
    <2> QED  BY <1>9, <1>13, <2>1
  <1> QED  BY <1>10, <1>11, <1>12, <1>14, <1>p

(* A new inode is made, with a number that nobody uses. *)
LEMMA CreateStep ==
    ASSUME Base, NEW t \in Tasks, Now(t, "find"), r[t].inode = 0,
           r[t].call \in {"mknod", "mkdir", "open"},
           NEW n \in Inodes, ~core[n].in, NEW e \in Droppable, NEW mode \in Modes,
           core' = Allocated(e, n, mode), imap' \subseteq Inodes,
           UNCHANGED <<disk, dirs, panic>>,
           \/ /\ r[t].call # "mkdir" /\ Go(t, Made(r[t], n, r[t].zone, "add"))
              /\ zmap' = zmap
           \/ Put(t, Unmade(t, n)) /\ zmap' = zmap
           \/ /\ r[t].call = "mkdir" /\ zmap' \subseteq Zones
              /\ \E z \in Zones : Go(t, Made(r[t], n, z, "mkdir"))
    PROVE  Base'
  <1>1. zmap \subseteq Zones /\ r[t] \in Process  BY DEF Base, TypeOK
  <1>2. CASE /\ r[t].call # "mkdir" /\ Go(t, Made(r[t], n, r[t].zone, "add"))
             /\ zmap' = zmap
    <2> DEFINE z == r[t].zone
               op == "add"
               s == Made(r[t], n, z, op)
    <2>1. z \in Zone0  BY <1>1 DEF Process
    <2>2. op = "add" /\ r[t].call \in {"open", "mknod"}  BY <1>2
    <2>3. s = Made(r[t], n, z, op) /\ Go(t, s) /\ zmap' \subseteq Zones  BY <1>1, <1>2
    <2> HIDE DEF s, z, op
    <2>4. s \in Process /\ Shape(Return(s)) /\ s.todo # <<>> /\ NoTransfer(s.todo)
      BY <2>1, <2>2, <2>3, MadeShape
    <2>5. \A k : ~Sole(s.todo, k)  BY <2>1, <2>2, <2>3, MadeShape
    <2>6. \A k \in Inodes : Holds(s, k) = Count(r[t].fd = k) + Count(r[t].dir = k)
                                            + Count(n = k)
      BY <2>1, <2>2, <2>3, MadeShape
    <2> QED  BY <2>3, <2>4, <2>5, <2>6, NewStep
  <1>3. CASE Put(t, Unmade(t, n)) /\ zmap' = zmap
    <2> DEFINE ops == Unmade(t, n)
               s == Putting(r[t], ops)
    <2>1. ops = Unmade(t, n)  OBVIOUS
    <2>2. Put(t, ops) /\ zmap' \subseteq Zones  BY <1>1, <1>3
    <2> HIDE DEF ops
    <2>3. s = Putting(r[t], ops)  OBVIOUS
    <2>4. Go(t, s)  BY <2>2 DEF Put, Putting
    <2> HIDE DEF s
    <2>5. s \in Process /\ Shape(Return(s)) /\ s.todo # <<>> /\ NoTransfer(s.todo)
      BY <2>1, <2>3, UnmadeShape
    <2>6. \A k : ~Sole(s.todo, k)  BY <2>1, <2>3, UnmadeShape
    <2>7. \A k \in Inodes : Holds(s, k) = Count(r[t].fd = k) + Count(r[t].dir = k)
                                            + Count(n = k)
      BY <2>1, <2>3, UnmadeShape
    <2> QED  BY <2>2, <2>4, <2>5, <2>6, <2>7, NewStep
  <1>4. CASE /\ r[t].call = "mkdir" /\ zmap' \subseteq Zones
             /\ \E z \in Zones : Go(t, Made(r[t], n, z, "mkdir"))
    <2>1. PICK z \in Zones : Go(t, Made(r[t], n, z, "mkdir"))  BY <1>4
    <2> DEFINE op == "mkdir"
               s == Made(r[t], n, z, op)
    <2>2. z \in Zone0 /\ z # 0  BY Numbers DEF Zone0
    <2>3. op = "mkdir" /\ r[t].call = "mkdir" /\ z # 0  BY <1>4, <2>2
    <2>4. s = Made(r[t], n, z, op) /\ Go(t, s) /\ zmap' \subseteq Zones  BY <1>4, <2>1
    <2> HIDE DEF s, op
    <2>5. s \in Process /\ Shape(Return(s)) /\ s.todo # <<>> /\ NoTransfer(s.todo)
      BY <2>2, <2>3, <2>4, MadeShape
    <2>6. \A k : ~Sole(s.todo, k)  BY <2>2, <2>3, <2>4, MadeShape
    <2>7. \A k \in Inodes : Holds(s, k) = Count(r[t].fd = k) + Count(r[t].dir = k)
                                            + Count(n = k)
      BY <2>2, <2>3, <2>4, MadeShape
    <2> QED  BY <2>4, <2>5, <2>6, <2>7, NewStep
  <1> QED  BY <1>2, <1>3, <1>4

(* The name is not there. *)
LEMMA NotFoundStep ==
    ASSUME Base, NEW t \in Tasks, Now(t, "find"), NotFound(t), flaws' = {},
           UNCHANGED <<disk, dirs, panic>>
    PROVE  Base'
  <1> DEFINE p == r[t]
             find == "find"
             n == Min(Inodes \ imap)
             z == new_block
             mode == IF p.call = "mkdir" THEN "none" ELSE "reg"
             made == [p EXCEPT !.inode = n, !.todo = <<Op("add", 0)>>]
  <1>1. find \in Single /\ Now(t, find) /\ p \in Process /\ p.dir \in Inodes
        /\ (p.inode = 0 <=> p.call # "link") /\ p.nr = 0 /\ p.path # <<>>
        /\ p.call \notin {"none", "sync"} /\ (p.call = "open" => p.fd = 0)
    BY Finding
  <1>2. p.dir # 0  BY <1>1, Numbers
  <1>3. CASE p.call = "link"
    <2> DEFINE add == "add"
    <2>1. Do(t, <<Op(add, 0)>>) /\ UNCHANGED <<core, imap, zmap>>  BY <1>3 DEF NotFound
    <2>2. Store' /\ \A k \in Inodes : Same(k)  BY <2>1, StoreSame
    <2>3. add \in Single /\ 0 \in Ino0  BY DEF Single, Ino0
    <2>4. ASSUME NEW s \in Process, s.todo = <<Op(add, 0)>>, s.fd = p.fd,
                 s.call = p.call, s.path = p.path, s.new = p.new,
                 s.dir = p.dir, s.inode = p.inode, s.nr = p.nr,
                 s.slot = p.slot, s.zone = p.zone
          PROVE  Holding(s, add, FALSE)
      <3>1. s.todo[1].op = "add"  BY <2>4 DEF Op
      <3> HIDE DEF p
      <3> QED  BY <1>1, <1>2, <1>3, <2>4, <3>1 DEF Holding, Plain, Copying, LooksUp
    <2> HIDE DEF find, add
    <2> QED  BY <1>1, <2>1, <2>2, <2>3, <2>4, DoSingle
  <1>4. CASE p.call # "link" /\ (~Creates(t) \/ imap = Inodes)
    <2>1. Put(t, PutAll(t)) /\ UNCHANGED <<core, imap, zmap>>  BY <1>4 DEF NotFound
    <2>2. Puts(t, PutAll(t))  BY <1>1, <1>2, PutsAll
    <2>3. Store' /\ \A k \in Inodes : Same(k)  BY <2>1, StoreSame
    <2> HIDE DEF find
    <2> QED  BY <1>1, <2>1, <2>2, <2>3, PutsStep
  <1>5. CASE p.call # "link" /\ ~(~Creates(t) \/ imap = Inodes)
    <2>1. PICK e \in Droppable :
              /\ core' = [Dropped(e) EXCEPT ![n] = NewInode(mode)]
              /\ imap' = imap \cup {n}
              /\ flaws' = flaws \cup {f \in {"stale number"} :
                              core[n].in \/ \E u \in Tasks : r[u].nr = n}
              /\ IF p.call # "mkdir" THEN Go(t, made) /\ UNCHANGED zmap
                 ELSE IF zmap = Zones
                 THEN /\ Put(t, PutDir(t) \o <<Op("nlinks--", n), iput(n)>>)
                      /\ UNCHANGED zmap
                 ELSE /\ Go(t, [made EXCEPT !.zone = z, !.todo = <<Op("mkdir", 0)>>])
                      /\ zmap' = zmap \cup {z}
      BY <1>5, Zenon DEF NotFound
    <2>2. p.call \in {"mknod", "mkdir", "open"}  BY <1>5 DEF Creates
    <2>3. imap \subseteq Inodes /\ zmap \subseteq Zones  BY DEF Base, TypeOK
    <2>4. n \in Inodes
      <3>1. Inodes \ imap # {} /\ Inodes \ imap \subseteq Nat  BY <1>5, <2>3, Natural
      <3> QED  BY <3>1, MinIn
    <2>5. ~core[n].in
      <3>1. {f \in {"stale number"} : core[n].in \/ \E u \in Tasks : r[u].nr = n} = {}
        BY <2>1
      <3> QED  BY <3>1
    <2>6. mode \in Modes  BY DEF Modes
    <2>7. core' = Allocated(e, n, mode)  BY <2>1 DEF Allocated
    <2>8. imap' \subseteq Inodes  BY <2>1, <2>3, <2>4
    <2>9. p.inode = 0  BY <1>1, <1>5
    <2>10. CASE p.call # "mkdir"
      <3>1. Go(t, made) /\ zmap' = zmap  BY <2>1, <2>10
      <3>2. made = Made(p, n, p.zone, "add")
        <4> HIDE DEF p, n
        <4> QED  BY <1>1 DEF Made, Process
      <3> HIDE DEF made, n, mode
      <3> QED  BY <2>2, <2>4, <2>5, <2>6, <2>7, <2>8, <2>9, <2>10, <3>1, <3>2, CreateStep
    <2>11. CASE p.call = "mkdir" /\ zmap = Zones
      <3>1. Put(t, PutDir(t) \o <<Op("nlinks--", n), iput(n)>>) /\ zmap' = zmap
        BY <2>1, <2>11
      <3>2. Put(t, Unmade(t, n))  BY <3>1 DEF Unmade
      <3> HIDE DEF made, n, mode
      <3> QED  BY <2>2, <2>4, <2>5, <2>6, <2>7, <2>8, <2>9, <3>1, <3>2, CreateStep
    <2>12. CASE p.call = "mkdir" /\ zmap # Zones
      <3>1. /\ Go(t, [made EXCEPT !.zone = z, !.todo = <<Op("mkdir", 0)>>])
            /\ zmap' = zmap \cup {z}
        BY <2>1, <2>12
      <3>2. z \in Zones
        <4>1. Zones \ zmap # {} /\ Zones \ zmap \subseteq Nat  BY <2>3, <2>12, Natural
        <4> QED  BY <4>1, MinIn DEF new_block
      <3>3. [made EXCEPT !.zone = z, !.todo = <<Op("mkdir", 0)>>] = Made(p, n, z, "mkdir")
        <4> HIDE DEF p, n, z
        <4> QED  BY <1>1 DEF Made, Process
      <3>4. Go(t, Made(p, n, z, "mkdir")) /\ zmap' \subseteq Zones
        BY <2>3, <3>1, <3>2, <3>3
      <3> HIDE DEF made, n, mode, z
      <3> QED
        BY <2>2, <2>4, <2>5, <2>6, <2>7, <2>8, <2>9, <2>12, <3>2, <3>4, CreateStep
    <2> QED  BY <2>10, <2>11, <2>12
  <1> QED  BY <1>3, <1>4, <1>5

(* find_entry *)
LEMMA FindStep ==
    ASSUME Base, NEW t \in Tasks, Find(t), flaws' = {}
    PROVE  Base'
  <1> DEFINE p == r[t]
             find == "find"
             d == p.dir
             S == find_entry(d, Head(p.path))
             i == Min(S)
             nr == Entries(d)[i].ino
  <1>1. Now(t, find) /\ UNCHANGED <<disk, dirs, panic>>  BY DEF Find
  <1>2. find \in Single /\ p \in Process /\ p.dir \in Inodes /\ p.path # <<>>
        /\ p.path \in Seq(STRING)
    BY <1>1, Finding
  <1>3. p.dir # 0  BY <1>2, Numbers
  <1>4. CASE S = {} /\ Len(p.path) > 1
    <2>1. Put(t, PutAll(t)) /\ UNCHANGED <<core, imap, zmap>>  BY <1>4 DEF Find
    <2>2. Puts(t, PutAll(t))  BY <1>2, <1>3, PutsAll
    <2>3. Store' /\ \A k \in Inodes : Same(k)  BY <1>1, <2>1, StoreSame
    <2> HIDE DEF find
    <2> QED  BY <1>1, <1>2, <2>1, <2>2, <2>3, PutsStep
  <1>5. CASE S = {} /\ ~(Len(p.path) > 1)
    <2>1. NotFound(t)  BY <1>5 DEF Find
    <2> QED  BY <1>1, <2>1, NotFoundStep
  <1>6. CASE S # {}
    <2>1. UNCHANGED <<core, imap, zmap>>  BY <1>6 DEF Find
    <2>2. core[d].zone \in Zone0  BY <1>2 DEF Base, TypeOK, Minode
    <2>3. core[d].zone # 0  BY <1>6 DEF find_entry, Entries
    <2>4. Entries(d) = dirs[core[d].zone] /\ core[d].zone \in Zones
      BY <2>2, <2>3 DEF Entries, Zone0
    <2>5. Entries(d) \in [1 .. Slots -> [ino : Ino0, name : STRING \cup {"none"}]]
      BY <2>4 DEF Base, TypeOK
    <2>6. S \subseteq 1 .. Slots /\ \A k \in S : Entries(d)[k].ino # 0
      BY <2>5 DEF find_entry
    <2>7. i \in S
      <3>1. S \subseteq Nat  BY <2>6, FsAssumption
      <3> HIDE DEF S
      <3> QED  BY <1>6, <3>1, MinIn
    <2>8. i \in 1 .. Slots  BY <2>6, <2>7
    <2>9. nr \in Inodes  BY <2>5, <2>6, <2>7, <2>8 DEF Ino0
    <2>10. CASE Len(p.path) > 1
      <3> DEFINE path == Tail(p.path)
                 op == "walk"
                 s == Got(p, nr, path, op)
      <3>1. Go(t, [p EXCEPT !.nr = nr, !.path = Tail(@), !.dir = 0,
                          !.todo = <<iput(d), Op("iget", 0), Op("walk", 0)>>])
        BY <1>6, <2>10 DEF Find
      <3>2. path \in Seq(STRING) /\ path # <<>>
        <4> DEFINE x == p.path
        <4>1. x \in Seq(STRING) /\ x # <<>> /\ Len(x) > 1  BY <1>2, <2>10
        <4> HIDE DEF x
        <4>2. Tail(x) \in Seq(STRING) /\ Len(Tail(x)) = Len(x) - 1
          BY <4>1, HeadTailProperties
        <4> DEFINE m == Len(x)
        <4>3. m \in Nat /\ m > 1 /\ Len(Tail(x)) = m - 1  BY <4>1, <4>2
        <4> HIDE DEF m
        <4>4. Len(Tail(x)) # 0  BY <4>3
        <4>5. Len(<<>>) = 0  OBVIOUS
        <4>6. Tail(x) # <<>>  BY <4>4, <4>5
        <4> QED  BY <4>2, <4>6 DEF x
      <3>3. Go(t, s) /\ s = Got(p, nr, path, op) /\ op = "walk"
        BY <3>1 DEF Got, PutLookup
      <3> HIDE DEF path, op, s, nr
      <3> QED  BY <1>1, <2>1, <2>9, <3>2, <3>3, GetStep
    <2>11. CASE ~(Len(p.path) > 1)
      <3>1. Found(t, i, nr)  BY <1>6, <2>11 DEF Find
      <3> HIDE DEF i, nr
      <3> QED  BY <1>1, <2>1, <2>8, <2>9, <3>1, FoundStep
    <2> QED  BY <2>10, <2>11
  <1> QED  BY <1>4, <1>5, <1>6

-----------------------------------------------------------------------------
(* The initial state: only the root has a reference, the one of the mount. *)
LEMMA InitBase == ASSUME Init PROVE Base
  <1> DEFINE u == User(0)
             m == [nlinks |-> 2, mode |-> "dir", zone |-> 1, in |-> TRUE, count |-> 1,
                   dirt |-> FALSE, lock |-> FALSE]
  <1>1. \A t \in Tasks : r[t] = u  BY DEF Init
  <1>2. u.todo = <<>> /\ u.fd = 0 /\ u.dir = 0 /\ u.inode = 0 /\ u = User(u.fd)
    BY DEF User
  <1>3. u \in Process
    <2>1. 0 \in Ino0 /\ 0 \in Zone0 /\ Slots \in Nat  BY FsAssumption DEF Ino0, Zone0
    <2>2. <<>> \in Seq(Operation) /\ <<>> \in Seq(STRING)  OBVIOUS
    <2> QED  BY <2>1, <2>2 DEF User, Process
  <1>4. m.in = TRUE /\ m.count = 1 /\ m.lock = FALSE  OBVIOUS
  <1>5. m \in Minode /\ Unused \in Minode /\ 1 \in Zone0
    <2>1. 1 \in Zone0 /\ 0 \in Zone0 /\ {"none", "dir"} \subseteq Modes
      BY FsAssumption DEF Zone0, Modes
    <2>2. 2 \in Int /\ 0 \in Int /\ 1 \in Nat /\ 0 \in Nat  OBVIOUS
    <2> QED  BY <2>1, <2>2 DEF Unused, Minode
  <1>6. RootDir \in [nlinks : Int, mode : Modes, zone : Zone0]
        /\ Blank \in [nlinks : Int, mode : Modes, zone : Zone0]
    BY <1>5 DEF RootDir, Blank, Modes, Zone0
  <1>7. Free \in [ino : Ino0, name : STRING \cup {"none"}]  BY DEF Free, Ino0
  <1>8. core = [n \in Inodes |-> IF n = ROOT_INO THEN m ELSE Unused]  BY DEF Init
  <1> HIDE DEF u, m
  <1>9. TypeOK
    <2>1. r \in [Tasks -> Process]  BY <1>1, <1>3 DEF Init, u
    <2>2. core \in [Inodes -> Minode]  BY <1>5, <1>8
    <2>3. disk \in [Inodes -> [nlinks : Int, mode : Modes, zone : Zone0]]  BY <1>6 DEF Init
    <2>4. dirs \in [Zones -> [1 .. Slots -> [ino : Ino0, name : STRING \cup {"none"}]]]
      BY <1>7 DEF Init
    <2>5. imap \subseteq Inodes /\ zmap \subseteq Zones  BY FsAssumption, Numbers DEF Init
    <2> QED  BY <2>1, <2>2, <2>3, <2>4, <2>5 DEF Init, TypeOK
  <1>10. Shapes  BY <1>1, <1>2 DEF Shapes, Shape
  <1>11. \A t \in Tasks : r[t].todo = <<>>  BY <1>1, <1>2
  <1>12. \A n \in Inodes : ~Freeing(n) /\ ~Reading(n)
    BY <1>11 DEF Freeing, Reading, Has
  <1>13. Table  BY <1>4, <1>8, <1>12 DEF Table
  <1>14. LockHeld
    <2>1. \A t \in Tasks, n \in Inodes : ~Locking(t, n)  BY <1>11 DEF Locking, At
    <2>2. \A n \in Inodes : core[n].lock = FALSE  BY <1>4, <1>8 DEF Unused
    <2> QED  BY <2>1, <2>2 DEF LockHeld
  <1>15. ASSUME NEW n \in Inodes PROVE Held(r, n) = 0
    <2>1. n # 0  BY Numbers
    <2>2. {t \in Tasks : r[t].fd = n} = {} /\ {t \in Tasks : r[t].dir = n} = {}
          /\ {t \in Tasks : r[t].inode = n} = {}
      BY <1>1, <1>2, <2>1
    <2>3. \A t \in Tasks : Pending(r[t].todo, n) = {}  BY <1>11 DEF Pending
    <2>4. Places(r, n) = {}  BY <2>3 DEF Places
    <2> DEFINE a == {t \in Tasks : r[t].fd = n}
               b == {t \in Tasks : r[t].dir = n}
               c == {t \in Tasks : r[t].inode = n}
    <2>5. a = {} /\ b = {} /\ c = {}  BY <2>2
    <2>6. Held(r, n) = Cardinality(a) + Cardinality(b) + Cardinality(c)
                         + Cardinality(Places(r, n))
      BY DEF Held
    <2>7. Cardinality({}) = 0  BY FS_EmptySet
    <2> HIDE DEF a, b, c
    <2> QED  BY <2>4, <2>5, <2>6, <2>7
  <1>16. Counts
    <2>1. \A n \in Inodes : core[n].count = Count(n = ROOT_INO)
      BY <1>4, <1>8 DEF Unused, Count
    <2>2. \A n \in Inodes : Count(n = ROOT_INO) \in 0 .. 1  BY CountType
    <2> QED  BY <1>15, <2>1, <2>2 DEF Counts
  <1> QED  BY <1>9, <1>10, <1>13, <1>14, <1>16 DEF Base

(* IInv with the counts as the lemmas have them. *)
LEMMA HeldSum ==
    ASSUME NEW R \in [Tasks -> Process], NEW n
    PROVE  Count(n = ROOT_INO) + Held(R, n) =
             Count(n = ROOT_INO) + Cardinality({t \in Tasks : R[t].fd = n})
             + Cardinality({t \in Tasks : R[t].dir = n})
             + Cardinality({t \in Tasks : R[t].inode = n})
             + Cardinality(UNION {{t} \X Pending(R[t].todo, n) : t \in Tasks})
  <1> DEFINE k == Count(n = ROOT_INO)
             a == Cardinality({t \in Tasks : R[t].fd = n})
             b == Cardinality({t \in Tasks : R[t].dir = n})
             c == Cardinality({t \in Tasks : R[t].inode = n})
             d == Cardinality(UNION {{t} \X Pending(R[t].todo, n) : t \in Tasks})
  <1>1. \A S \in SUBSET Tasks : Cardinality(S) \in Nat
    BY FS_Subset, FS_CardinalityType, FsAssumption
  <1>2. a \in Nat /\ b \in Nat /\ c \in Nat  BY <1>1
  <1>3. d \in Nat  BY PlacesFinite
  <1>4. k \in 0 .. 1  BY CountType
  <1>5. Held(R, n) = a + b + c + d  BY DEF Held, Places
  <1> HIDE DEF a, b, c, d, k
  <1>6. k + Held(R, n) = k + a + b + c + d  BY <1>2, <1>3, <1>4, <1>5
  <1> QED  BY <1>6 DEF a, b, c, d, k

LEMMA BaseIs == ASSUME flaws = {} PROVE IInv <=> Base
  <1>1. ASSUME TypeOK PROVE Counts <=> CountExact
    <2>1. r \in [Tasks -> Process]  BY <1>1 DEF TypeOK
    <2>2. \A n \in Inodes : Count(n = ROOT_INO) + Held(r, n) =
             Count(n = ROOT_INO) + Cardinality({t \in Tasks : r[t].fd = n})
             + Cardinality({t \in Tasks : r[t].dir = n})
             + Cardinality({t \in Tasks : r[t].inode = n})
             + Cardinality(UNION {{t} \X Pending(r[t].todo, n) : t \in Tasks})
      BY <2>1, HeldSum
    <2> QED  BY <2>2, Zenon DEF Counts, CountExact
  <1> QED  BY <1>1 DEF IInv, Base

LEMMA BaseIsNext == ASSUME flaws' = {} PROVE IInv' <=> Base'
  <1>1. ASSUME TypeOK' PROVE Counts' <=> CountExact'
    <2>1. r' \in [Tasks -> Process]  BY <1>1 DEF TypeOK
    <2>2. \A n \in Inodes : Count(n = ROOT_INO) + Held(r', n) =
             Count(n = ROOT_INO) + Cardinality({t \in Tasks : r'[t].fd = n})
             + Cardinality({t \in Tasks : r'[t].dir = n})
             + Cardinality({t \in Tasks : r'[t].inode = n})
             + Cardinality(UNION {{t} \X Pending(r'[t].todo, n) : t \in Tasks})
      BY <2>1, HeldSum
    <2>3. \A n \in Inodes : Held(r, n)' = Held(r', n)  BY DEF Held, Places
    <2> QED  BY <2>2, <2>3, Zenon DEF Counts, CountExact
  <1> QED  BY <1>1 DEF IInv, Base

(* A flaw that was hit stays recorded. *)
LEMMA FlawsStay == ASSUME Next, flaws' = {} PROVE flaws = {}
  <1>1. flaws' = flaws \/ \E A : flaws' = flaws \cup A
    <2>1. PICK t \in Tasks :
            \/ \E q \in Requests[t] : Call(t, q)
            \/ sys_close(t) \/ sync_inodes(t) \/ file_write(t)
            \/ wait_on_inode(t) \/ lock_inode(t) \/ write_inode(t)
            \/ Iput(t) \/ truncate(t) \/ free_block(t) \/ free_inode(t)
            \/ iget(t) \/ read_inode(t) \/ get_dir(t) \/ Find(t)
            \/ sys_mkdir(t) \/ Add(t) \/ AddFails(t) \/ SetLinks(t)
            \/ open_namei(t) \/ sys_open(t) \/ namei(t) \/ sys_link(t) \/ Brelse(t)
            \/ sys_unlink(t) \/ Unlink2(t) \/ sys_rmdir(t) \/ empty_dir(t) \/ Rmdir2(t)
            \/ create_block(t) \/ Bread(t) \/ Copied(t)
      BY DEF Next
    <2>2. CASE \E q \in Requests[t] : Call(t, q)  BY <2>2 DEF Call
    <2>3. CASE sys_close(t) \/ sync_inodes(t) \/ file_write(t) \/ wait_on_inode(t)
      BY <2>3 DEF sys_close, sync_inodes, file_write, wait_on_inode
    <2>4. CASE lock_inode(t) \/ write_inode(t) \/ Iput(t) \/ truncate(t)
      BY <2>4 DEF lock_inode, write_inode, Iput, truncate
    <2>5. CASE free_block(t)
      <3>1. flaws \subseteq flaws'  BY <2>5 DEF free_block
      <3> QED  BY <3>1
    <2>6. CASE free_inode(t)  BY <2>6, Zenon DEF free_inode
    <2>7. CASE iget(t)  BY <2>7, Zenon DEF iget
    <2>8. CASE read_inode(t) \/ get_dir(t) \/ sys_mkdir(t)
      BY <2>8 DEF read_inode, get_dir, sys_mkdir
    <2>9. CASE Find(t)  BY <2>9, Zenon DEF Find, NotFound
    <2>10. CASE Add(t) \/ AddFails(t) \/ SetLinks(t)
      <3>1. flaws \subseteq flaws'  BY <2>10 DEF Add, AddFails, SetLinks
      <3> QED  BY <3>1
    <2>11. CASE open_namei(t) \/ sys_open(t) \/ namei(t) \/ sys_link(t) \/ Brelse(t)
      <3>1. flaws \subseteq flaws'
        BY <2>11 DEF open_namei, sys_open, namei, sys_link, Brelse
      <3> QED  BY <3>1
    <2>12. CASE sys_unlink(t) \/ Unlink2(t) \/ sys_rmdir(t) \/ empty_dir(t) \/ Rmdir2(t)
      <3>1. flaws \subseteq flaws'
        BY <2>12 DEF sys_unlink, Unlink2, sys_rmdir, empty_dir, Rmdir2
      <3> QED  BY <3>1
    <2>13. CASE create_block(t) \/ Bread(t) \/ Copied(t)
      BY <2>13, Zenon DEF create_block, Bread, Copied
    <2> QED
      BY <2>1, <2>2, <2>3, <2>4, <2>5, <2>6, <2>7, <2>8, <2>9, <2>10, <2>11, <2>12, <2>13
  <1> QED  BY <1>1

(* Before the first flaw every step keeps the invariant. *)
LEMMA BaseStep == ASSUME Base, Next, flaws' = {} PROVE Base'
  <1>1. PICK t \in Tasks :
          \/ \E q \in Requests[t] : Call(t, q)
          \/ sys_close(t) \/ sync_inodes(t) \/ file_write(t)
          \/ wait_on_inode(t) \/ lock_inode(t) \/ write_inode(t)
          \/ Iput(t) \/ truncate(t) \/ free_block(t) \/ free_inode(t)
          \/ iget(t) \/ read_inode(t) \/ get_dir(t) \/ Find(t)
          \/ sys_mkdir(t) \/ Add(t) \/ AddFails(t) \/ SetLinks(t)
          \/ open_namei(t) \/ sys_open(t) \/ namei(t) \/ sys_link(t) \/ Brelse(t)
          \/ sys_unlink(t) \/ Unlink2(t) \/ sys_rmdir(t) \/ empty_dir(t) \/ Rmdir2(t)
          \/ create_block(t) \/ Bread(t) \/ Copied(t)
    BY DEF Next
  <1>2. CASE \E q \in Requests[t] : Call(t, q)  BY <1>2, CallStep
  <1>3. CASE sys_close(t) \/ sync_inodes(t) \/ file_write(t) \/ wait_on_inode(t)
    BY <1>3, sys_closeStep, sync_inodesStep, file_writeStep, WaitStep
  <1>4. CASE lock_inode(t) \/ write_inode(t) \/ Iput(t) \/ truncate(t)
    BY <1>4, lock_inodeStep, write_inodeStep, IputStep, truncateStep
  <1>5. CASE free_block(t) \/ free_inode(t) \/ iget(t) \/ read_inode(t)
    BY <1>5, free_blockStep, free_inodeStep, igetStep, read_inodeStep
  <1>6. CASE get_dir(t) \/ Find(t) \/ sys_mkdir(t) \/ Add(t) \/ AddFails(t)
    BY <1>6, get_dirStep, FindStep, sys_mkdirStep, AddStep, AddFailsStep
  <1>7. CASE SetLinks(t) \/ open_namei(t) \/ sys_open(t) \/ namei(t) \/ sys_link(t)
    BY <1>7, SetLinksStep, open_nameiStep, sys_openStep, nameiStep, sys_linkStep
  <1>8. CASE Brelse(t) \/ sys_unlink(t) \/ Unlink2(t) \/ sys_rmdir(t)
    BY <1>8, BrelseStep, sys_unlinkStep, Unlink2Step, sys_rmdirStep
  <1>9. CASE empty_dir(t) \/ Rmdir2(t) \/ create_block(t) \/ Bread(t) \/ Copied(t)
    BY <1>9, empty_dirStep, Rmdir2Step, create_blockStep, BreadStep, CopiedStep
  <1> QED  BY <1>1, <1>2, <1>3, <1>4, <1>5, <1>6, <1>7, <1>8, <1>9

(* The lists of operations are well formed, the table and the locks fit    *)
(* them and i_count counts the references, as long as no unprotected sleep *)
(* was hit: for any number of processes, inodes, blocks and calls.         *)
THEOREM FsInvariant == Spec => []IInv
  <1>1. Init => IInv
    <2>1. SUFFICES ASSUME Init PROVE IInv  OBVIOUS
    <2>2. Base  BY <2>1, InitBase
    <2>3. flaws = {}  BY <2>1 DEF Init
    <2> QED  BY <2>2, <2>3, BaseIs
  <1>2. IInv /\ [Next]_vars => IInv'
    <2>1. SUFFICES ASSUME IInv, [Next]_vars, flaws' = {} PROVE IInv'  BY DEF IInv
    <2>2. CASE Next
      <3>1. flaws = {}  BY <2>1, <2>2, FlawsStay
      <3>2. Base  BY <2>1, <3>1, BaseIs
      <3>3. Base'  BY <2>1, <2>2, <3>2, BaseStep
      <3> QED  BY <2>1, <3>3, BaseIsNext
    <2>3. CASE UNCHANGED vars
      <3>1. flaws = {} /\ UNCHANGED <<disk, core, dirs, imap, zmap, r, cur, panic, flaws>>
        BY <2>1, <2>3 DEF vars
      <3>2. Base  BY <2>1, <3>1, BaseIs
      <3>3. Base'
        BY <3>1, <3>2 DEF Base, TypeOK, Shapes, Table, LockHeld, Counts, Held, Places,
           Freeing, Reading, Has, Locking, At, Arg
      <3> QED  BY <2>1, <3>3, BaseIsNext
    <2> QED  BY <2>1, <2>2, <2>3
  <1> QED  BY <1>1, <1>2, PTL DEF Spec

(* i_count is the number of references to an inode: no call forgets or     *)
(* repeats an iput, whatever fails in it and whoever runs in its sleeps.   *)
THEOREM CountsExact == Spec => []CountExact
  <1>1. IInv => CountExact  BY DEF IInv, CountExact
  <1> QED  BY <1>1, FsInvariant, PTL

(* An inode that a process has in a field, or is going to put, is in the   *)
(* table and counted, so that get_empty_inode does not take its place and  *)
(* the panic of iput is not reached; one that is going to be freed has no  *)
(* other user, so that the first panic of free_inode is not reached.       *)
InUseStays == flaws = {} => \A t \in Tasks, n \in Inodes :
    /\ n \in {r[t].fd, r[t].dir, r[t].inode} \/ Has(t, "iput", n) =>
          core[n].in /\ core[n].count > 0 /\ n \notin Droppable
    /\ Has(t, "free_inode", n) => core[n].count = 1

LEMMA PutHolds ==
    ASSUME NEW p \in Process, NEW n, NEW i \in DOMAIN p.todo, Refers(p.todo[i], n)
    PROVE  Holds(p, n) >= 1
  <1>1. p.todo \in Seq(Operation)  BY DEF Process
  <1>2. i \in Pending(p.todo, n)  BY DEF Pending
  <1>3. IsFiniteSet(Pending(p.todo, n))  BY <1>1, PendingFinite
  <1>4. Cardinality(Pending(p.todo, n)) # 0  BY <1>2, <1>3, FS_EmptySet
  <1>5. /\ Holds(p, n) \in Nat /\ Listed(p, n) \in Nat /\ Listed(p, n) <= Holds(p, n)
    BY HoldsType
  <1>6. Listed(p, n) # 0  BY <1>4 DEF Listed
  <1> QED  BY <1>5, <1>6

(* Nobody loses an inode it uses: not to get_empty_inode, which looks for  *)
(* a free place whenever another process calls iget or new_inode, nor to   *)
(* an iput or free_inode of another process.                               *)
THEOREM NobodyLosesItsInode == Spec => []InUseStays
  <1>1. IInv => InUseStays
    <2>1. SUFFICES ASSUME IInv, flaws = {}, NEW t \in Tasks, NEW n \in Inodes
                   PROVE  /\ n \in {r[t].fd, r[t].dir, r[t].inode} \/ Has(t, "iput", n) =>
                             core[n].in /\ core[n].count > 0 /\ n \notin Droppable
                          /\ Has(t, "free_inode", n) => core[n].count = 1
      BY DEF InUseStays
    <2>2. Base  BY <2>1, BaseIs
    <2>3. TypeOK /\ Table /\ Counts /\ r[t] \in Process  BY <2>2 DEF Base, TypeOK
    <2>4. ASSUME n \in {r[t].fd, r[t].dir, r[t].inode} \/ Has(t, "iput", n)
          PROVE  core[n].in /\ core[n].count > 0 /\ n \notin Droppable
      <3>1. Holds(r[t], n) >= 1
        <4>1. CASE n \in {r[t].fd, r[t].dir, r[t].inode}  BY <2>3, <4>1, HoldsType
        <4>2. CASE Has(t, "iput", n)
          <5>1. PICK i \in DOMAIN r[t].todo : r[t].todo[i].op = "iput" /\ r[t].todo[i].n = n
            BY <4>2 DEF Has
          <5>2. Refers(r[t].todo[i], n)  BY <5>1 DEF Refers
          <5> QED  BY <2>3, <5>2, PutHolds
        <4> QED  BY <2>4, <4>1, <4>2
      <3>2. core[n].in /\ core[n].count \in Nat /\ core[n].count >= 1
        BY <2>3, <3>1, HeldIsIn
      <3>3. n # 0  BY Numbers
      <3> QED  BY <3>2, <3>3 DEF Droppable
    <2>5. ASSUME Has(t, "free_inode", n) PROVE core[n].count = 1
      <3>1. Freeing(n)  BY <2>5 DEF Has, Freeing
      <3> QED  BY <2>3, <3>1 DEF Table
    <2> QED  BY <2>4, <2>5
  <1> QED  BY <1>1, FsInvariant, PTL
=============================================================================
