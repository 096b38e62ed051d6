---------------------- MODULE EncryptionMigration_proofs ----------------------
(***************************************************************************)
(* For any number of handlers that drive a migration, any tables, batch    *)
(* size, other sessions, failures and restarts: the cursor of a migration  *)
(* only moves on, and when none is under way every row has the form of the *)
(* active policy, under the provisos of UntouchedFormsMatchPolicy.         *)
(*                                                                         *)
(* A cursor divides the rows: those behind it have the form of the target. *)
(* This holds of the cursor stored and of every cursor a driver has read   *)
(* or is about to write, counting what the driver has re-encoded or holds  *)
(* (Settled).  It stays so because two drivers re-encode a row for the     *)
(* same target, and because a driver writes the migration row only under   *)
(* its lock: the cursor it leaves is the one that was there, or its own,   *)
(* or torn between the two.  IInv has what this needs of the types, of the *)
(* locks and of the migration row as the drivers read it.                  *)
(***************************************************************************)
EXTENDS EncryptionMigration, FiniteSetTheorems, TLAPS

\* The elements of a finite set are ranked by their numbers.
LEMMA Ranks ==
  ASSUME NEW S, IsFiniteSet(S), \A x \in S : x[2] \in Nat,
         \A x, y \in S : x[2] = y[2] => x = y,
         NEW rank, rank = [x \in S |-> Cardinality({y \in S : y[2] < x[2]})]
  PROVE  /\ Cardinality(S) \in Nat
         /\ rank \in Bijection(S, 0 .. Cardinality(S) - 1)
         /\ \A x, y \in S : x[2] < y[2] => rank[x] < rank[y]
<1>. DEFINE below(x) == {y \in S : y[2] < x[2]}
            N == Cardinality(S)
<1>1. N \in Nat
  BY FS_CardinalityType, Zenon
<1>2. \A x \in S : IsFiniteSet(below(x)) /\ Cardinality(below(x)) \in 0 .. N - 1
  <2>. TAKE x \in S
  <2>1. below(x) \subseteq S \ {x}
    OBVIOUS
  <2>2. IsFiniteSet(S \ {x}) /\ Cardinality(S \ {x}) = N - 1
    BY FS_RemoveElement, Zenon
  <2>3. IsFiniteSet(below(x)) /\ Cardinality(below(x)) <= N - 1
    <3>. HIDE DEF below, N
    <3>1. IsFiniteSet(below(x)) /\ Cardinality(below(x)) <= Cardinality(S \ {x})
      BY <2>1, <2>2, FS_Subset, Zenon
    <3>. QED
      BY <2>2, <3>1
  <2>4. Cardinality(below(x)) \in Nat
    BY <2>3, FS_CardinalityType, Zenon
  <2>. HIDE DEF below, N
  <2>. QED
    BY <1>1, <2>3, <2>4
<1>3. \A x \in S : rank[x] = Cardinality(below(x))
  BY Zenon
<1>4. ASSUME NEW x \in S, NEW y \in S, x[2] < y[2]
      PROVE  rank[x] < rank[y]
  <2>1. below(x) \cup {x} \subseteq below(y)
    BY <1>4
  <2>2. x \notin below(x)
    OBVIOUS
  <2>3. IsFiniteSet(below(x)) /\ IsFiniteSet(below(y))
    BY <1>2, Zenon
  <2>. HIDE DEF below
  <2>4. Cardinality(below(x) \cup {x}) = Cardinality(below(x)) + 1
    BY <2>2, <2>3, FS_AddElement, Zenon
  <2>5. Cardinality(below(x) \cup {x}) <= Cardinality(below(y))
    BY <2>1, <2>3, FS_Subset, Zenon
  <2>. HIDE DEF N
  <2>. QED
    BY <1>1, <1>2, <1>3, <2>4, <2>5
<1>5. rank \in Injection(S, 0 .. N - 1)
  <2>1. rank \in [S -> 0 .. N - 1]
    BY <1>2, Zenon
  <2>2. ASSUME NEW x \in S, NEW y \in S, rank[x] = rank[y] PROVE x = y
    <3>1. x[2] < y[2] \/ y[2] < x[2] \/ x[2] = y[2]
      OBVIOUS
    <3>2. rank[x] \in Int /\ rank[y] \in Int
      <4>. HIDE DEF N
      <4>. QED
        BY <1>1, <2>1
    <3>3. ~(rank[x] < rank[y]) /\ ~(rank[y] < rank[x])
      BY <2>2, <3>2
    <3>. QED
      BY <1>4, <3>1, <3>3, Zenon
  <2>. QED
    BY <2>1, <2>2, Zenon DEF Injection, IsInjective
<1>6. IsFiniteSet(0 .. N - 1) /\ Cardinality(0 .. N - 1) = N
  <2>. HIDE DEF N
  <2>1. 0 \in Int /\ N - 1 \in Int
    BY <1>1
  <2>2. /\ IsFiniteSet(0 .. N - 1)
        /\ Cardinality(0 .. N - 1) = IF 0 > N - 1 THEN 0 ELSE N - 1 - 0 + 1
    BY <2>1, FS_Interval, Zenon
  <2>. QED
    BY <1>1, <2>2
<1>7. rank \in Surjection(S, 0 .. N - 1)
  BY <1>5, <1>6, FS_Injection, Zenon
<1>. QED
  BY <1>1, <1>4, <1>5, <1>7, Zenon DEF Bijection

\* A finite set that is not empty has an element with the greatest number.
LEMMA Greatest ==
  ASSUME NEW S, IsFiniteSet(S), S # {}, \A x \in S : x[2] \in Nat,
         \A x, y \in S : x[2] = y[2] => x = y
  PROVE  \E x \in S : \A y \in S : y[2] <= x[2]
<1>. DEFINE rank == [x \in S |-> Cardinality({y \in S : y[2] < x[2]})]
            N == Cardinality(S)
<1>1. /\ N \in Nat
      /\ rank \in Bijection(S, 0 .. N - 1)
      /\ \A x, y \in S : x[2] < y[2] => rank[x] < rank[y]
  <2>. HIDE DEF N
  <2>1. rank = [x \in S |-> Cardinality({y \in S : y[2] < x[2]})]
    OBVIOUS
  <2>. HIDE DEF rank
  <2>. QED
    BY <2>1, Ranks DEF N
<1>2. N # 0
  BY FS_EmptySet, Zenon
<1>. HIDE DEF rank, N
<1>3. rank \in [S -> 0 .. N - 1] /\ \A k \in 0 .. N - 1 : \E x \in S : rank[x] = k
  BY <1>1, Zenon DEF Bijection, Injection, Surjection
<1>4. N - 1 \in 0 .. N - 1
  BY <1>1, <1>2
<1>5. PICK x \in S : rank[x] = N - 1
  BY <1>3, <1>4, Zenon
<1>6. \A y \in S : y[2] <= x[2]
  <2>. TAKE y \in S
  <2>1. x[2] \in Nat /\ y[2] \in Nat
    OBVIOUS
  <2>2. rank[y] \in 0 .. N - 1 /\ (x[2] < y[2] => rank[x] < rank[y])
    BY <1>1, <1>3
  <2>. QED
    BY <1>1, <1>5, <2>1, <2>2
<1>. QED
  BY <1>6, Zenon

\* The first n elements of a finite set: all of them, if they are not n.
First(S, n) == {x \in S : Cardinality({y \in S : y[2] < x[2]}) < n}

LEMMA FirstElements ==
  ASSUME NEW S, IsFiniteSet(S), \A x \in S : x[2] \in Nat,
         \A x, y \in S : x[2] = y[2] => x = y,
         NEW n \in Nat \ {0},
         NEW B, B = First(S, n)
  PROVE  /\ \A x \in S, y \in B : x[2] <= y[2] => x \in B
         /\ Cardinality(B) # n => B = S
         /\ B # {} => \E x \in B : \A y \in B : y[2] <= x[2]
<1>. DEFINE rank == [x \in S |-> Cardinality({y \in S : y[2] < x[2]})]
            N == Cardinality(S)
<1>1. /\ N \in Nat
      /\ rank \in Bijection(S, 0 .. N - 1)
      /\ \A x, y \in S : x[2] < y[2] => rank[x] < rank[y]
  <2>. HIDE DEF N
  <2>1. rank = [x \in S |-> Cardinality({y \in S : y[2] < x[2]})]
    OBVIOUS
  <2>. HIDE DEF rank
  <2>. QED
    BY <2>1, Ranks DEF N
<1>2. B = {x \in S : rank[x] < n}
  BY DEF First
<1>3. rank \in [S -> 0 .. N - 1] /\ (\A x, y \in S : rank[x] = rank[y] => x = y)
      /\ \A k \in 0 .. N - 1 : \E x \in S : rank[x] = k
  BY <1>1, Zenon DEF Bijection, Injection, IsInjective, Surjection
<1>4. IsFiniteSet(B)
  BY <1>2, FS_Subset, Zenon
<1>. HIDE DEF rank, N
<1>5. ASSUME NEW x \in S, NEW y \in B, x[2] <= y[2] PROVE x \in B
  <2>1. x[2] < y[2] \/ x = y
    BY <1>2, <1>5
  <2>. QED
    BY <1>1, <1>2, <1>3, <1>5, <2>1
<1>6. ASSUME B # S PROVE Cardinality(B) = n
  <2>1. PICK x \in S : x \notin B
    BY <1>2, <1>6, Zenon
  <2>2. n <= N - 1
    BY <1>1, <1>2, <1>3, <2>1
  <2>. DEFINE f == [y \in B |-> rank[y]]
  <2>3. \A y \in B : rank[y] \in 0 .. n - 1
    BY <1>1, <1>2, <1>3
  <2>4. f \in Injection(B, 0 .. n - 1)
    BY <1>2, <1>3, <2>3, Zenon DEF Injection, IsInjective
  <2>5. \A k \in 0 .. n - 1 : \E y \in B : f[y] = k
    <3>. TAKE k \in 0 .. n - 1
    <3>1. k \in 0 .. N - 1 /\ k < n
      BY <1>1, <2>2
    <3>2. PICK y \in S : rank[y] = k
      BY <1>3, <3>1, Zenon
    <3>. QED
      BY <1>2, <3>1, <3>2
  <2>6. f \in Surjection(B, 0 .. n - 1)
    BY <2>3, <2>5, Zenon DEF Surjection
  <2>7. IsFiniteSet(0 .. n - 1) /\ Cardinality(0 .. n - 1) = n
    <3>1. 0 \in Int /\ n - 1 \in Int
      OBVIOUS
    <3>2. /\ IsFiniteSet(0 .. n - 1)
          /\ Cardinality(0 .. n - 1) = IF 0 > n - 1 THEN 0 ELSE n - 1 - 0 + 1
      BY <3>1, FS_Interval, Zenon
    <3>. QED
      BY <3>2
  <2>. HIDE DEF f
  <2>. QED
    BY <2>4, <2>6, <2>7, FS_Injection, Zenon
<1>7. ASSUME B # {} PROVE \E x \in B : \A y \in B : y[2] <= x[2]
  <2>1. \A x \in B : x[2] \in Nat
    BY <1>2
  <2>2. \A x, y \in B : x[2] = y[2] => x = y
    BY <1>2
  <2>. QED
    BY <1>4, <1>7, <2>1, <2>2, Greatest, Zenon
<1>. QED
  BY <1>5, <1>6, <1>7, Zenon

-----------------------------------------------------------------------------
(* Keys, batches and cursors.                                              *)

LEMMA KeyFacts ==
  /\ MigrationRow \notin Keys
  /\ IsFiniteSet(Keys)
  /\ \A k \in Keys : k[1] \in 1 .. Last /\ k[2] \in Nat \ {0}
  /\ \A k \in Keys : k[1] \in Singles => k[2] = 1
  /\ \A j, k \in Keys : j[1] = k[1] /\ j[2] = k[2] => j = k
<1>1. IsFiniteSet((1 .. Last) \X Ids)
  <2>1. IsFiniteSet(1 .. Last) /\ IsFiniteSet(Ids)
    <3>1. 1 \in Int /\ Last \in Int
      BY MigrationAssumption DEF MigrationAssumption
    <3>. QED
      BY <3>1, FS_Interval, MigrationAssumption, Zenon DEF MigrationAssumption
  <2>. QED
    BY <2>1, FS_Product, Zenon
<1>2. Keys \subseteq (1 .. Last) \X Ids
  BY DEF Keys
<1>3. IsFiniteSet(Keys)
  BY <1>1, <1>2, FS_Subset, Zenon
<1>4. \A k \in Keys : k[1] \in 1 .. Last /\ k[2] \in Nat \ {0} /\ k = <<k[1], k[2]>>
  <2>1. Ids \subseteq Nat \ {0}
    BY MigrationAssumption DEF MigrationAssumption
  <2>2. \A k \in (1 .. Last) \X Ids : k[1] \in 1 .. Last /\ k[2] \in Ids /\ k = <<k[1], k[2]>>
    OBVIOUS
  <2>. QED
    BY <1>2, <2>1, <2>2
<1>5. MigrationRow \notin Keys
  BY <1>4 DEF MigrationRow
<1>6. \A k \in Keys : k[1] \in Singles => k[2] = 1
  BY DEF Keys
<1>7. \A j, k \in Keys : j[1] = k[1] /\ j[2] = k[2] => j = k
  BY <1>4, Zenon
<1>. QED
  BY <1>3, <1>4, <1>5, <1>6, <1>7

\* What is left of table i after row n, and the last row of a batch.
Rest(i, n) == {k \in Keys : k[1] = i /\ row[k] # None /\ (i \in Singles \/ k[2] > n)}
Top(B) == CHOOSE k \in B : \A j \in B : j[2] <= k[2]

\* A batch is the first rows of what is left of the table, and all of it unless
\* it is full.
LEMMA Batches ==
  ASSUME NEW i \in 1 .. Last, NEW n \in Nat, NEW B, B = Batch(i, n)
  PROVE  /\ B \subseteq Rest(i, n)
         /\ i \in Singles => B = Rest(i, n)
         /\ Cardinality(B) # BatchSize => B = Rest(i, n)
         /\ Cardinality(B) = BatchSize =>
              /\ Top(B) \in B
              /\ \A k \in Rest(i, n) : k[2] <= Top(B)[2] => k \in B
<1>. DEFINE S == Rest(i, n)
<1>1. B = First(S, BatchSize)
  BY DEF Batch, Rest, First
<1>2. S \subseteq Keys /\ \A k \in S : k[1] = i
  BY DEF Rest
<1>3. IsFiniteSet(S) /\ IsFiniteSet(B) /\ B \subseteq S
  <2>1. B \subseteq S
    BY <1>1 DEF First
  <2>2. B \subseteq Keys
    BY <1>2, <2>1, Zenon
  <2>. HIDE DEF S
  <2>. QED
    BY <1>2, <2>1, <2>2, KeyFacts, FS_Subset, Zenon
<1>4. BatchSize \in Nat \ {0}
  BY MigrationAssumption DEF MigrationAssumption
<1>. HIDE DEF S
<1>5. \A x \in S : x[2] \in Nat
  BY <1>2, KeyFacts
<1>6. \A x, y \in S : x[2] = y[2] => x = y
  BY <1>2, KeyFacts, Zenon
<1>7. /\ \A x \in S, y \in B : x[2] <= y[2] => x \in B
      /\ Cardinality(B) # BatchSize => B = S
      /\ B # {} => \E x \in B : \A y \in B : y[2] <= x[2]
  BY <1>1, <1>3, <1>4, <1>5, <1>6, FirstElements
<1>8. i \in Singles => B = S
  <2>. SUFFICES ASSUME i \in Singles, NEW x \in S PROVE x \in B
    BY <1>1 DEF First
  <2>1. \A y \in S : y[2] = 1
    BY <1>2, KeyFacts
  <2>2. {y \in S : y[2] < x[2]} = {}
    BY <2>1
  <2>3. Cardinality({y \in S : y[2] < x[2]}) = 0
    BY <2>2, FS_EmptySet, Zenon
  <2>. QED
    BY <1>1, <1>4, <2>3 DEF First
<1>9. Cardinality(B) = BatchSize => Top(B) \in B /\ \A y \in B : y[2] <= Top(B)[2]
  <2>. SUFFICES ASSUME Cardinality(B) = BatchSize
                PROVE  Top(B) \in B /\ \A y \in B : y[2] <= Top(B)[2]
    OBVIOUS
  <2>1. Cardinality(B) # 0
    BY <1>4
  <2>2. B # {}
    BY <2>1, FS_EmptySet, Zenon
  <2>. QED
    BY <1>7, <2>2, Zenon DEF Top
<1>. QED
  BY <1>3, <1>7, <1>8, <1>9 DEF S

\* Row k lies behind the cursor of m.
PassedBy(k, m) ==
  k[1] < m.table \/ (k[1] = m.table /\ k[1] \notin Singles /\ k[2] <= m.row)

\* The next cursor lies behind the batch, and skips no row.
LEMMA NextCursorFacts ==
  ASSUME NEW m \in Migration, m.table <= Last, NEW B, B = Batch(m.table, m.row),
         NEW next, next = NextCursor(m, B)
  PROVE  /\ next \in Migration /\ next.status = m.status /\ next.target = m.target
         /\ Before(m, next)
         /\ \A k \in Keys : row[k] # None /\ PassedBy(k, next) => PassedBy(k, m) \/ k \in B
<1>1. /\ m.table \in 1 .. Last /\ m.row \in Nat /\ m.status \in Statuses
      /\ m.target \in Policies /\ Last \in Nat
      /\ m = [status |-> m.status, target |-> m.target, table |-> m.table, row |-> m.row]
  BY MigrationAssumption DEF MigrationAssumption, Migration
<1>2. /\ B \subseteq Rest(m.table, m.row)
      /\ m.table \in Singles => B = Rest(m.table, m.row)
      /\ Cardinality(B) # BatchSize => B = Rest(m.table, m.row)
      /\ Cardinality(B) = BatchSize =>
           /\ Top(B) \in B
           /\ \A k \in Rest(m.table, m.row) : k[2] <= Top(B)[2] => k \in B
  BY <1>1, Batches
<1>3. CASE m.table \notin Singles /\ Cardinality(B) = BatchSize
  <2>1. Top(B) \in Keys /\ Top(B)[2] \in Nat /\ Top(B)[2] > m.row
    BY <1>2, <1>3, KeyFacts DEF Rest
  <2>2. next = [m EXCEPT !.row = Top(B)[2]]
    BY <1>3 DEF NextCursor, Top
  <2>3. /\ next.table = m.table /\ next.row = Top(B)[2]
        /\ next.status = m.status /\ next.target = m.target
    BY <1>1, <2>2
  <2>4. next \in Migration
    BY <1>1, <2>1, <2>2 DEF Migration
  <2>5. ASSUME NEW k \in Keys, row[k] # None, PassedBy(k, next), ~PassedBy(k, m)
        PROVE  k \in B
    <3>1. k[1] = m.table /\ k[2] > m.row /\ k[2] <= Top(B)[2]
      BY <1>1, <1>3, <2>3, <2>5, KeyFacts DEF PassedBy
    <3>2. k \in Rest(m.table, m.row)
      BY <2>5, <3>1 DEF Rest
    <3>. QED
      BY <1>2, <1>3, <3>1, <3>2
  <2>. QED
    BY <1>1, <2>1, <2>3, <2>4, <2>5 DEF Before
<1>4. CASE ~(m.table \notin Singles /\ Cardinality(B) = BatchSize)
  <2>1. B = Rest(m.table, m.row)
    BY <1>2, <1>4
  <2>2. next = [m EXCEPT !.table = m.table + 1, !.row = 0]
    BY <1>4 DEF NextCursor
  <2>3. /\ next.table = m.table + 1 /\ next.row = 0
        /\ next.status = m.status /\ next.target = m.target
    BY <1>1, <2>2
  <2>4. next \in Migration
    <3>1. next = [status |-> m.status, target |-> m.target, table |-> m.table + 1, row |-> 0]
      BY <1>1, <2>2
    <3>2. m.table + 1 \in 1 .. Last + 1
      BY <1>1
    <3>. QED
      BY <1>1, <3>1, <3>2 DEF Migration
  <2>5. ASSUME NEW k \in Keys, row[k] # None, PassedBy(k, next), ~PassedBy(k, m)
        PROVE  k \in B
    <3>1. k[1] = m.table /\ (m.table \in Singles \/ k[2] > m.row)
      BY <1>1, <2>3, <2>5, KeyFacts DEF PassedBy
    <3>. QED
      BY <2>1, <2>5, <3>1 DEF Rest
  <2>. QED
    BY <1>1, <2>3, <2>4, <2>5 DEF Before
<1>. QED
  BY <1>3, <1>4

\* What a flush leaves of the migration row has each column from one of the two.
LEMMA ChangedRecord ==
  ASSUME NEW N \in Migration, NEW B \in Migration, NEW A \in Migration,
         NEW C, C = Changed(N, B, A)
  PROVE  /\ C \in Migration
         /\ C.status = IF A.status # B.status THEN A.status ELSE N.status
         /\ C.target = IF A.target # B.target THEN A.target ELSE N.target
         /\ C.table = IF A.table # B.table THEN A.table ELSE N.table
         /\ C.row = IF A.row # B.row THEN A.row ELSE N.row
<1>1. DOMAIN A = {"status", "target", "table", "row"}
  BY DEF Migration
<1>2. /\ C.status = IF A.status # B.status THEN A.status ELSE N.status
      /\ C.target = IF A.target # B.target THEN A.target ELSE N.target
      /\ C.table = IF A.table # B.table THEN A.table ELSE N.table
      /\ C.row = IF A.row # B.row THEN A.row ELSE N.row
  BY <1>1 DEF Changed
<1>3. C = [status |-> C.status, target |-> C.target, table |-> C.table, row |-> C.row]
  BY <1>1 DEF Changed
<1>. QED
  BY <1>2, <1>3 DEF Migration

\* What is re-encoded of the rows in B has the new form, and so has the rest.
LEMMA ReencodedRows ==
  ASSUME NEW B \in SUBSET Keys, \A k \in B : row[k] \in Content,
         NEW policy, NEW R, R = Reencoded(B, policy)
  PROVE  /\ DOMAIN R \subseteq B
         /\ \A k \in DOMAIN R : R[k] \in Content /\ R[k].enc = Encodes(policy, k)
         /\ \A k \in B \ DOMAIN R : row[k].enc = Encodes(policy, k)
<1>1. DOMAIN R = {j \in B : Encodes(policy, j) \/ row[j].enc}
  BY DEF Reencoded
<1>2. \A k \in DOMAIN R : R[k] = [row[k] EXCEPT !.enc = Encodes(policy, k)]
  BY <1>1 DEF Reencoded
<1>3. \A k \in Keys : Encodes(policy, k) \in BOOLEAN
  BY DEF Encodes
<1>4. ASSUME NEW k \in DOMAIN R PROVE R[k] \in Content /\ R[k].enc = Encodes(policy, k)
  <2>1. row[k] \in Content /\ k \in Keys
    BY <1>1
  <2>. QED
    BY <1>2, <1>3, <2>1 DEF Content
<1>5. ASSUME NEW k \in B, k \notin DOMAIN R PROVE row[k].enc = Encodes(policy, k)
  <2>1. ~Encodes(policy, k) /\ ~row[k].enc
    BY <1>1, <1>5, Zenon
  <2>2. row[k].enc \in BOOLEAN /\ Encodes(policy, k) \in BOOLEAN
    BY <1>3 DEF Content
  <2>. QED
    BY <2>1, <2>2, Zenon
<1>. QED
  BY <1>1, <1>4, <1>5

-----------------------------------------------------------------------------
(* Types, locks, and what drivers know of the migration.                   *)

Types ==
  /\ active \in Policies
  /\ migration \in Migration
  /\ row \in [Keys -> Content \cup {None}]
  /\ owner \in [Keys \cup {MigrationRow} -> Drivers \cup Writers \cup {None}]
  /\ DOMAIN draft = Keys \cup {MigrationRow}
  /\ \A k \in Keys : draft[k] \in Content \cup {None}
  /\ pc \in [Drivers -> Steps]
  /\ seen \in [Drivers -> Migration] /\ moved \in [Drivers -> Migration]
  /\ DOMAIN work = Drivers
  /\ \A d \in Drivers :
       DOMAIN work[d] \subseteq Keys /\ \A k \in DOMAIN work[d] : work[d][k] \in Content
  /\ task \in [Writers -> Tasks \cup {None}]
  /\ used \subseteq Keys /\ touched \subseteq Keys
  /\ writes \in Nat

\* A driver holds rows while it writes its batch, and the migration row, which it
\* has set to running, from Reopen on; a writer the row of its task.
Locks ==
  /\ \A x \in DOMAIN owner : owner[x] = None => draft[x] = None
  /\ \A d \in Drivers, k \in Keys : owner[k] = d => pc[d] = "rows" /\ draft[k] \in Content
  /\ \A d \in Drivers : owner[MigrationRow] = d =>
       /\ pc[d] \in {"load", "rows"}
       /\ draft[MigrationRow] = [migration EXCEPT !.status = "running"]
  /\ \A w \in Writers : owner[MigrationRow] # w
  /\ \A w \in Writers, k \in Keys : owner[k] = w =>
       /\ task[w] # None /\ task[w].key = k
       /\ draft[k] = None \/ draft[k].enc = Encodes(task[w].codec, k)

\* How the row a driver will leave relates to the one it read.
Progress(from, to) ==
  /\ to.target = from.target
  /\ \/ /\ to.status = "idle"
        /\ from.table = Last + 1 /\ to.table = from.table /\ to.row = from.row
     \/ /\ to.status = "running"
        /\ Before(from, to)
     \/ /\ to.status = "failed"
        /\ to.table = from.table /\ to.row = from.row

Driving(d) ==
  /\ pc[d] = "start" => seen[d].status = "idle"
  /\ pc[d] = "reopen" => seen[d].status = "failed"
  /\ pc[d] \in {"load", "rows"} =>
       \/ owner[MigrationRow] = d /\ seen[d].status = "failed"
       \/ owner[MigrationRow] # d /\ seen[d].status = "running"
  /\ pc[d] = "rows" => Progress(seen[d], moved[d])

Drives == \A d \in Drivers : Driving(d)

IInv == Types /\ Locks /\ Drives

-----------------------------------------------------------------------------
(* The forms of the rows.                                                  *)

Fits(c, k) == c # None => c.enc = Encodes(migration.target, k)

Converted(m) == \A k \in Keys \ touched : PassedBy(k, m) => Fits(row[k], k)

\* What a driver has read and is about to write, or holds, has the form of the
\* target as far as its cursors have gone.
Faithful(d) ==
  /\ pc[d] \in {"reopen", "load", "rows"} =>
       seen[d].target = migration.target /\ Converted(seen[d])
  /\ pc[d] = "rows" =>
       /\ \A k \in DOMAIN work[d] : Fits(work[d][k], k)
       /\ \A k \in Keys \ touched : PassedBy(k, moved[d]) =>
            k \in DOMAIN work[d] \/ owner[k] = d \/ Fits(row[k], k)
  /\ \A k \in Keys : owner[k] = d => Fits(draft[k], k)

\* Unless touched says nothing any more: the rows behind every cursor have the
\* form of the target, and so has what the drivers are about to write.
Settled ==
  touched # Keys =>
    /\ migration.status = "idle" =>
         active = migration.target /\ \A k \in Keys \ touched : Fits(row[k], k)
    /\ Converted(migration)
    /\ \A d \in Drivers : Faithful(d)


-----------------------------------------------------------------------------
(* Types, locks and progress are invariant.                                *)

\* A batch, whether it fails or not, leaves the cursor or moves it past the rows
\* it re-encodes.
LEMMA Batched ==
  ASSUME Types, NEW d \in Drivers, LoadBatch(d) \/ BatchFails(d)
  PROVE  \E W, m :
           /\ work' = [work EXCEPT ![d] = W] /\ moved' = [moved EXCEPT ![d] = m]
           /\ DOMAIN W \subseteq Keys
           /\ \A k \in DOMAIN W :
                W[k] \in Content /\ W[k].enc = Encodes(seen[d].target, k)
           /\ m \in Migration /\ Progress(seen[d], m)
           /\ \A k \in Keys : row[k] # None /\ PassedBy(k, m) =>
                \/ PassedBy(k, seen[d])
                \/ k \in DOMAIN W
                \/ row[k].enc = Encodes(seen[d].target, k)
<1>. DEFINE n == [seen[d] EXCEPT !.status = "running"]
            B == Batch(n.table, n.row)
            s == seen[d]
<1>1. /\ s \in Migration /\ n \in Migration
      /\ n.table = s.table /\ n.row = s.row /\ n.target = s.target /\ n.status = "running"
      /\ s.table \in 1 .. Last + 1 /\ s.row \in Nat /\ Last \in Nat
  BY MigrationAssumption DEF MigrationAssumption, Types, Migration, Statuses
<1>2. n.table <= Last => B \in SUBSET Keys /\ \A k \in B : row[k] \in Content
  <2>. SUFFICES ASSUME n.table <= Last PROVE B \in SUBSET Keys /\ \A k \in B : row[k] \in Content
    OBVIOUS
  <2>1. n.table \in 1 .. Last /\ n.row \in Nat
    BY <1>1
  <2>2. B \subseteq Rest(n.table, n.row)
    <3>. HIDE DEF n
    <3>. QED
      BY <2>1, Batches
  <2>. HIDE DEF B, n
  <2>. QED
    BY <2>2 DEF Rest, Types
<1>3. \A k, m : m.table = s.table /\ m.row = s.row => (PassedBy(k, m) <=> PassedBy(k, s))
  BY DEF PassedBy
<1>4. CASE LoadBatch(d) /\ n.table <= Last
  <2>. DEFINE m == NextCursor(n, B)
              W == Reencoded(B, n.target)
  <2>1. work' = [work EXCEPT ![d] = W] /\ moved' = [moved EXCEPT ![d] = m]
    <3>1. ~(n.table > Last)
      BY <1>1, <1>4
    <3>. QED
      BY <1>4, <3>1 DEF LoadBatch
  <2>. HIDE DEF n, s, B
  <2>2. /\ DOMAIN W \subseteq B
        /\ \A k \in DOMAIN W : W[k] \in Content /\ W[k].enc = Encodes(n.target, k)
        /\ \A k \in B \ DOMAIN W : row[k].enc = Encodes(n.target, k)
    BY <1>2, <1>4, ReencodedRows
  <2>3. /\ m \in Migration /\ m.status = n.status /\ m.target = n.target /\ Before(n, m)
        /\ \A k \in Keys : row[k] # None /\ PassedBy(k, m) => PassedBy(k, n) \/ k \in B
    BY <1>1, <1>4, NextCursorFacts DEF B
  <2>. HIDE DEF m, W
  <2>4. Progress(s, m)
    BY <1>1, <2>3 DEF Progress, Before
  <2>5. \A k \in Keys : row[k] # None /\ PassedBy(k, m) =>
          PassedBy(k, s) \/ k \in DOMAIN W \/ row[k].enc = Encodes(s.target, k)
    BY <1>1, <1>3, <2>2, <2>3
  <2>. QED
    BY <1>1, <1>2, <1>4, <2>1, <2>2, <2>3, <2>4, <2>5, Zenon DEF s
<1>5. CASE LoadBatch(d) /\ ~(n.table <= Last)
  <2>. DEFINE m == [n EXCEPT !.status = "idle"]
  <2>1. work' = [work EXCEPT ![d] = Empty] /\ moved' = [moved EXCEPT ![d] = m]
    <3>1. n.table > Last
      BY <1>1, <1>5
    <3>. QED
      BY <1>5, <3>1 DEF LoadBatch
  <2>2. DOMAIN Empty = {}
    BY DEF Empty
  <2>3. /\ m \in Migration /\ m.status = "idle" /\ m.target = s.target
        /\ m.table = s.table /\ m.row = s.row
    BY <1>1 DEF Migration, Statuses
  <2>. HIDE DEF n, m, s
  <2>4. s.table = Last + 1
    BY <1>1, <1>5
  <2>5. Progress(s, m)
    BY <2>3, <2>4 DEF Progress
  <2>. QED
    BY <1>3, <2>1, <2>2, <2>3, <2>5, Zenon DEF s
<1>6. CASE BatchFails(d)
  <2>. DEFINE m == [seen[d] EXCEPT !.status = "failed"]
              C == Batch(seen[d].table, seen[d].row)
  <2>1. PICK k \in C : work' =
          [work EXCEPT ![d] = Reencoded({j \in C : j[2] < k[2]}, seen[d].target)]
    BY <1>6 DEF BatchFails
  <2>. DEFINE A == {j \in C : j[2] < k[2]}
              W == Reencoded(A, seen[d].target)
  <2>2. moved' = [moved EXCEPT ![d] = m] /\ s.table <= Last
    BY <1>6 DEF BatchFails
  <2>3. C = B
    BY <1>1
  <2>4. A \in SUBSET Keys /\ \A j \in A : row[j] \in Content
    BY <1>1, <1>2, <2>2, <2>3
  <2>5. /\ m \in Migration /\ m.status = "failed" /\ m.target = s.target
        /\ m.table = s.table /\ m.row = s.row
    BY <1>1 DEF Migration, Statuses
  <2>6. work' = [work EXCEPT ![d] = W]
    BY <2>1
  <2>. HIDE DEF A, C, m
  <2>7. /\ DOMAIN W \subseteq A
        /\ \A j \in DOMAIN W : W[j] \in Content /\ W[j].enc = Encodes(seen[d].target, j)
    BY <2>4, ReencodedRows
  <2>. HIDE DEF W, s
  <2>8. Progress(s, m)
    BY <2>5 DEF Progress
  <2>. QED
    BY <1>3, <2>2, <2>4, <2>5, <2>6, <2>7, <2>8, Zenon DEF s
<1>. QED
  BY <1>4, <1>5, <1>6

\* The migration row a driver leaves: the columns it changes, and as to the rest
\* those that are there.
LEMMA LeftRow ==
  ASSUME Types, Locks, Drives, NEW d \in Drivers, pc[d] = "rows", Free(MigrationRow, d),
         NEW m, m = Leaves(d)
  PROVE  /\ m \in Migration
         /\ m.target = migration.target
         /\ m.table = IF moved[d].table # seen[d].table THEN moved[d].table
                      ELSE migration.table
         /\ m.row = IF moved[d].row # seen[d].row THEN moved[d].row ELSE migration.row
         /\ moved[d].status # "running" => m.status = moved[d].status
         /\ moved[d].status = "running" =>
              m.status = IF owner[MigrationRow] = d THEN "running" ELSE migration.status
<1>. DEFINE now == IF owner[MigrationRow] = d THEN draft[MigrationRow] ELSE migration
            before == IF owner[MigrationRow] = d THEN [seen[d] EXCEPT !.status = "running"]
                      ELSE seen[d]
<1>1. /\ now \in Migration /\ now.target = migration.target
      /\ now.table = migration.table /\ now.row = migration.row
      /\ now.status = IF owner[MigrationRow] = d THEN "running" ELSE migration.status
  BY DEF Types, Locks, Migration, Statuses
<1>2. /\ before \in Migration /\ before.target = seen[d].target
      /\ before.table = seen[d].table /\ before.row = seen[d].row
      /\ before.status = "running"
  BY DEF Types, Drives, Driving, Migration, Statuses
<1>3. m = Changed(now, before, moved[d])
  BY DEF Leaves
<1>4. moved[d] \in Migration /\ moved[d].target = seen[d].target
  BY DEF Types, Drives, Driving, Progress
<1>. HIDE DEF now, before
<1>5. /\ m \in Migration
      /\ m.status = IF moved[d].status # before.status THEN moved[d].status ELSE now.status
      /\ m.target = IF moved[d].target # before.target THEN moved[d].target ELSE now.target
      /\ m.table = IF moved[d].table # before.table THEN moved[d].table ELSE now.table
      /\ m.row = IF moved[d].row # before.row THEN moved[d].row ELSE now.row
  BY <1>1, <1>2, <1>3, <1>4, ChangedRecord
<1>. QED
  BY <1>1, <1>2, <1>4, <1>5

LEMMA StartedRow ==
  ASSUME Types, NEW d \in Drivers, CommitStart(d)
  PROVE  migration' \in Migration
<1>1. PICK target \in Policies :
        migration' = Changed(migration, seen[d],
                       [status |-> "running", target |-> target, table |-> 1, row |-> 0])
  BY DEF CommitStart
<1>2. [status |-> "running", target |-> target, table |-> 1, row |-> 0] \in Migration
  BY MigrationAssumption DEF MigrationAssumption, Migration, Statuses
<1>. QED
  BY <1>1, <1>2, ChangedRecord DEF Types

\* The end of a transaction touches only what it held.
LEMMA Released ==
  ASSUME Types, NEW p, p # None, Release(p)
  PROVE  /\ owner' \in [Keys \cup {MigrationRow} -> Drivers \cup Writers \cup {None}]
         /\ DOMAIN draft' = Keys \cup {MigrationRow}
         /\ \A k \in Keys : draft'[k] \in {draft[k], None}
         /\ \A x \in Keys \cup {MigrationRow} :
              IF owner[x] = p THEN owner'[x] = None /\ draft'[x] = None
              ELSE owner'[x] = owner[x] /\ draft'[x] = draft[x]
  BY DEF Release, Types

LEMMA IInvInit == Init => IInv
<1>. SUFFICES ASSUME Init PROVE IInv
  OBVIOUS
<1>. USE MigrationAssumption DEF MigrationAssumption
<1>1. migration \in Migration
  BY DEF Init, Migration, Statuses
<1>2. row \in [Keys -> Content \cup {None}]
  <2>1. \A k \in Keys : [value |-> 0, enc |-> Encodes(active, k)] \in Content
    BY DEF Content, Encodes
  <2>. QED
    BY <2>1 DEF Init
<1>3. Types
  <2>1. \A d \in Drivers : DOMAIN work[d] = {}
    BY DEF Init, Empty
  <2>. QED
    BY <1>1, <1>2, <2>1 DEF Init, Types, Steps
<1>. QED
  BY <1>3 DEF Init, IInv, Types, Locks, Drives, Driving

LEMMA TypesNext == IInv /\ [Next]_vars => Types'
<1>. SUFFICES ASSUME IInv, [Next]_vars PROVE Types'
  OBVIOUS
<1>. USE DEF IInv, driverVars
<1>1. ASSUME NEW d \in Drivers,
             \/ BeginStart(d) \/ PressResume(d) \/ CheckStatus(d) \/ ReadMigration(d)
      PROVE  Types'
  BY <1>1 DEF BeginStart, PressResume, CheckStatus, ReadMigration, Types, Steps
<1>2. ASSUME NEW d \in Drivers, CommitStart(d) PROVE Types'
  <2>1. migration' \in Migration
    BY <1>2, StartedRow
  <2>. QED
    BY <1>2, <2>1 DEF CommitStart, Types, Steps
<1>3. ASSUME NEW d \in Drivers, Reopen(d) PROVE Types'
  BY <1>3, KeyFacts DEF Reopen, Types, Steps
<1>4. ASSUME NEW d \in Drivers, LoadBatch(d) \/ BatchFails(d) PROVE Types'
  <2>1. PICK W, m :
          /\ work' = [work EXCEPT ![d] = W] /\ moved' = [moved EXCEPT ![d] = m]
          /\ DOMAIN W \subseteq Keys
          /\ \A k \in DOMAIN W : W[k] \in Content
          /\ m \in Migration
    BY <1>4, Batched, Zenon
  <2>2. \A e \in Drivers :
          DOMAIN work'[e] \subseteq Keys /\ \A k \in DOMAIN work'[e] : work'[e][k] \in Content
    BY <2>1 DEF Types
  <2>3. pc' \in [Drivers -> Steps]
    BY <1>4 DEF LoadBatch, BatchFails, Types, Steps
  <2>4. UNCHANGED <<active, migration, row, owner, draft, seen, task, used, touched, writes>>
    BY <1>4 DEF LoadBatch, BatchFails
  <2>. QED
    BY <2>1, <2>2, <2>3, <2>4 DEF Types
<1>5. ASSUME NEW d \in Drivers, Quit(d),
             UNCHANGED <<active, migration, row, seen, moved, task, used, touched, writes>>
      PROVE  Types'
  <2>1. DOMAIN Empty = {}
    BY DEF Empty
  <2>2. d # None
    BY MigrationAssumption DEF MigrationAssumption
  <2>. QED
    BY <1>5, <2>1, <2>2, Released DEF Quit, Types, Steps
<1>6. ASSUME NEW d \in Drivers, NEW k \in Keys, WriteRow(d, k) PROVE Types'
  <2>1. CASE row[k] = None
    BY <1>5, <1>6, <2>1 DEF WriteRow
  <2>2. CASE row[k] # None
    <3>1. /\ owner' = [owner EXCEPT ![k] = d]
          /\ draft' = [draft EXCEPT ![k] = work[d][k]]
          /\ work' = [work EXCEPT ![d] = [j \in DOMAIN work[d] \ {k} |-> work[d][j]]]
          /\ UNCHANGED <<pc, active, migration, row, seen, moved, task, used, touched, writes>>
      BY <1>6, <2>2 DEF WriteRow
    <3>2. work[d][k] \in Content
      BY <1>6 DEF WriteRow, Types
    <3>3. \A e \in Drivers :
            DOMAIN work'[e] \subseteq Keys /\ \A j \in DOMAIN work'[e] : work'[e][j] \in Content
      BY <3>1 DEF Types
    <3>. QED
      BY <3>1, <3>2, <3>3 DEF Types
  <2>. QED
    BY <2>1, <2>2
<1>7. ASSUME NEW p, p # None, Publish(p) PROVE row' \in [Keys -> Content \cup {None}]
  BY <1>7 DEF Publish, Types
<1>8. ASSUME NEW d \in Drivers, CommitBatch(d) PROVE Types'
  <2>1. d # None
    BY MigrationAssumption DEF MigrationAssumption
  <2>2. migration' \in Migration
    BY <1>8, LeftRow DEF CommitBatch
  <2>3. active' \in Policies
    BY <1>8 DEF CommitBatch, Types, Migration
  <2>4. row' \in [Keys -> Content \cup {None}]
    BY <1>7, <1>8, <2>1 DEF CommitBatch
  <2>5. touched' \subseteq Keys
    BY <1>8 DEF CommitBatch, Types
  <2>. QED
    BY <1>8, <2>1, <2>2, <2>3, <2>4, <2>5, Released DEF CommitBatch, Publish, Types, Steps
<1>9. ASSUME NEW d \in Drivers, DriverRaises(d) PROVE Types'
  BY <1>5, <1>9 DEF DriverRaises
<1>10. ASSUME NEW w \in Writers, OpenSession(w) PROVE Types'
  <2>1. PICK kind \in {"save", "insert", "remove"}, k \in Keys :
          /\ used' = IF kind = "insert" THEN used \cup {k} ELSE used
          /\ task' = [task EXCEPT ![w] = [kind |-> kind, key |-> k, codec |-> active,
                                          written |-> FALSE]]
    BY <1>10 DEF OpenSession
  <2>2. [kind |-> kind, key |-> k, codec |-> active, written |-> FALSE] \in Tasks
    BY DEF Tasks, Types
  <2>3. /\ UNCHANGED <<active, migration, row, owner, draft, driverVars, touched>>
        /\ writes' = writes + 1
    BY <1>10 DEF OpenSession
  <2>4. task' \in [Writers -> Tasks \cup {None}] /\ used' \subseteq Keys
    BY <2>1, <2>2 DEF Types
  <2>. QED
    BY <2>3, <2>4 DEF Types
<1>11. ASSUME NEW w \in Writers, WriteSession(w) PROVE Types'
  <2>. DEFINE k == task[w].key
  <2>1. task[w] \in Tasks /\ k \in Keys
    BY <1>11 DEF WriteSession, Types, Tasks
  <2>2. [value |-> writes, enc |-> Encodes(task[w].codec, k)] \in Content
    BY DEF Content, Encodes, Types
  <2>3. [task[w] EXCEPT !.written = TRUE] \in Tasks
    BY <2>1 DEF Tasks
  <2>4. task' = [task EXCEPT ![w] = [task[w] EXCEPT !.written = TRUE]]
    BY <1>11 DEF WriteSession, Types
  <2>5. /\ owner' = [owner EXCEPT ![k] = w]
        /\ draft' = [draft EXCEPT ![k] =
             IF task[w].kind = "remove" THEN None
             ELSE [value |-> writes, enc |-> Encodes(task[w].codec, k)]]
        /\ UNCHANGED <<active, migration, row, driverVars, used, touched, writes>>
    BY <1>11 DEF WriteSession
  <2>. HIDE DEF k
  <2>. QED
    BY <2>1, <2>2, <2>3, <2>4, <2>5 DEF Types
<1>12. ASSUME NEW w \in Writers, CommitSession(w) PROVE Types'
  <2>1. w # None
    BY MigrationAssumption DEF MigrationAssumption
  <2>2. row' \in [Keys -> Content \cup {None}]
    BY <1>7, <1>12, <2>1 DEF CommitSession
  <2>3. task[w].key \in Keys
    BY <1>12 DEF CommitSession, Types, Tasks
  <2>. QED
    BY <1>12, <2>1, <2>2, <2>3, Released DEF CommitSession, Publish, Types
<1>13. ASSUME NEW w \in Writers, AbortSession(w) PROVE Types'
  <2>1. w # None
    BY MigrationAssumption DEF MigrationAssumption
  <2>. QED
    BY <1>13, <2>1, Released DEF AbortSession, Types
<1>14. CASE Restart
  <2>1. DOMAIN Empty = {}
    BY DEF Empty
  <2>. QED
    BY <1>14, <2>1 DEF Restart, Types, Steps
<1>15. CASE UNCHANGED vars
  BY <1>15 DEF vars, Types
<1>. QED
  BY <1>1, <1>2, <1>3, <1>4, <1>6, <1>8, <1>9, <1>10, <1>11, <1>12, <1>13, <1>14, <1>15
     DEF Next, DriverStep, WriterStep

LEMMA LocksNext == IInv /\ [Next]_vars => Locks'
<1>. SUFFICES ASSUME IInv, [Next]_vars PROVE Locks'
  OBVIOUS
<1>. USE MigrationAssumption DEF IInv, driverVars, MigrationAssumption
<1>1. ASSUME UNCHANGED <<owner, draft, migration, task>>,
             \A d \in Drivers : pc[d] \in {"load", "rows"} => pc'[d] \in {pc[d], "rows"}
      PROVE  Locks'
  BY <1>1 DEF Locks, Types
<1>2. ASSUME NEW d \in Drivers,
             \/ BeginStart(d) \/ PressResume(d) \/ CheckStatus(d) \/ ReadMigration(d)
             \/ LoadBatch(d) \/ BatchFails(d)
      PROVE  Locks'
  BY <1>1, <1>2 DEF BeginStart, PressResume, CheckStatus, ReadMigration, LoadBatch, BatchFails,
     Types
<1>3. ASSUME NEW d \in Drivers, CommitStart(d) PROVE Locks'
  <2>1. owner[MigrationRow] \notin Drivers
    BY <1>3 DEF CommitStart, Free, Locks
  <2>. QED
    BY <1>3, <2>1 DEF CommitStart, Locks, Types
<1>4. ASSUME NEW d \in Drivers, Reopen(d) PROVE Locks'
  <2>1. owner[MigrationRow] \notin Drivers
    BY <1>4 DEF Reopen, Free, Locks
  <2>2. \A x \in Keys \cup {MigrationRow} :
          IF x = MigrationRow
          THEN owner'[x] = d /\ draft'[x] = [migration EXCEPT !.status = "running"]
          ELSE owner'[x] = owner[x] /\ draft'[x] = draft[x]
    BY <1>4 DEF Reopen, Types
  <2>3. DOMAIN owner' = Keys \cup {MigrationRow}
    BY <1>4 DEF Reopen, Types
  <2>4. pc' = [pc EXCEPT ![d] = "load"] /\ UNCHANGED <<migration, task>> /\ pc[d] = "reopen"
    BY <1>4 DEF Reopen
  <2>5. d \notin Writers
    OBVIOUS
  <2>. QED
    BY <2>1, <2>2, <2>3, <2>4, <2>5, KeyFacts DEF Locks, Types
<1>5. ASSUME NEW p \in Drivers \cup Writers, Release(p),
             migration' = migration \/ owner[MigrationRow] \notin Drivers \ {p},
             \A e \in Drivers \ {p} : pc'[e] = pc[e],
             \A w \in Writers \ {p} : task'[w] = task[w]
      PROVE  Locks'
  <2>1. p # None
    OBVIOUS
  <2>2. /\ owner' \in [Keys \cup {MigrationRow} -> Drivers \cup Writers \cup {None}]
        /\ \A x \in Keys \cup {MigrationRow} :
             IF owner[x] = p THEN owner'[x] = None /\ draft'[x] = None
             ELSE owner'[x] = owner[x] /\ draft'[x] = draft[x]
    BY <1>5, <2>1, Released
  <2>. QED
    BY <1>5, <2>1, <2>2, KeyFacts DEF Locks, Types
<1>6. ASSUME NEW d \in Drivers, NEW k \in Keys, WriteRow(d, k) PROVE Locks'
  <2>1. CASE row[k] = None
    BY <1>5, <1>6, <2>1 DEF WriteRow, Quit, Types
  <2>2. CASE row[k] # None
    <3>1. /\ owner' = [owner EXCEPT ![k] = d]
          /\ draft' = [draft EXCEPT ![k] = work[d][k]]
          /\ UNCHANGED <<pc, migration, task>>
          /\ pc[d] = "rows" /\ k \in DOMAIN work[d]
      BY <1>6, <2>2 DEF WriteRow
    <3>2. work[d][k] \in Content
      BY <3>1 DEF Types
    <3>3. \A x \in Keys \cup {MigrationRow} :
            IF x = k THEN owner'[x] = d /\ draft'[x] = work[d][k]
            ELSE owner'[x] = owner[x] /\ draft'[x] = draft[x]
      BY <3>1 DEF Types
    <3>4. DOMAIN owner' = Keys \cup {MigrationRow} /\ k # MigrationRow
      BY <3>1, KeyFacts DEF Types
    <3>5. d \notin Writers /\ d # None
      OBVIOUS
    <3>. QED
      BY <3>1, <3>2, <3>3, <3>4, <3>5 DEF Locks, Types
  <2>. QED
    BY <2>1, <2>2
<1>7. ASSUME NEW d \in Drivers, CommitBatch(d) PROVE Locks'
  <2>1. owner[MigrationRow] \notin Drivers \ {d}
    BY <1>7 DEF CommitBatch, Free
  <2>. QED
    BY <1>5, <1>7, <2>1 DEF CommitBatch, Publish, Types
<1>8. ASSUME NEW d \in Drivers, DriverRaises(d) PROVE Locks'
  BY <1>5, <1>8 DEF DriverRaises, Quit, Types
<1>9. ASSUME NEW w \in Writers, OpenSession(w) PROVE Locks'
  <2>1. task[w] = None /\ UNCHANGED <<owner, draft, migration, pc>>
    BY <1>9 DEF OpenSession
  <2>2. \A v \in Writers \ {w} : task'[v] = task[v]
    BY <1>9 DEF OpenSession, Types
  <2>. QED
    BY <2>1, <2>2 DEF Locks, Types
<1>10. ASSUME NEW w \in Writers, WriteSession(w) PROVE Locks'
  <2>. DEFINE k == task[w].key
              c == IF task[w].kind = "remove" THEN None
                   ELSE [value |-> writes, enc |-> Encodes(task[w].codec, k)]
  <2>1. task[w] \in Tasks /\ k \in Keys /\ task[w] # None /\ k = task[w].key
    BY <1>10 DEF WriteSession, Types, Tasks
  <2>2. task'[w] \in Tasks /\ task'[w].key = k /\ task'[w].codec = task[w].codec
        /\ \A v \in Writers \ {w} : task'[v] = task[v]
    BY <1>10, <2>1 DEF WriteSession, Types, Tasks
  <2>3. c = None \/ c.enc = Encodes(task[w].codec, k)
    OBVIOUS
  <2>4. \A x \in Keys \cup {MigrationRow} :
          IF x = k THEN owner'[x] = w /\ draft'[x] = c
          ELSE owner'[x] = owner[x] /\ draft'[x] = draft[x]
    BY <1>10, <2>1 DEF WriteSession, Types
  <2>5. DOMAIN owner' = Keys \cup {MigrationRow} /\ k # MigrationRow
    BY <1>10, <2>1, KeyFacts DEF WriteSession, Types
  <2>6. UNCHANGED <<migration, pc>>
    BY <1>10 DEF WriteSession
  <2>7. w \notin Drivers /\ w # None
    OBVIOUS
  <2>8. task'[w] # None
    BY <2>2, NoneAssumption
  <2>. HIDE DEF c, k
  <2>9. \A e \in Drivers, j \in Keys : owner'[j] = e => pc'[e] = "rows" /\ draft'[j] \in Content
    BY <2>4, <2>6, <2>7 DEF Locks
  <2>10. \A v \in Writers, j \in Keys : owner'[j] = v =>
           /\ task'[v] # None /\ task'[v].key = j
           /\ draft'[j] = None \/ draft'[j].enc = Encodes(task'[v].codec, j)
    BY <2>1, <2>2, <2>3, <2>4, <2>8 DEF Locks
  <2>. QED
    BY <2>4, <2>5, <2>6, <2>7, <2>9, <2>10 DEF Locks, Types
<1>11. ASSUME NEW w \in Writers, CommitSession(w) PROVE Locks'
  BY <1>5, <1>11 DEF CommitSession, Publish, Types
<1>12. ASSUME NEW w \in Writers, AbortSession(w) PROVE Locks'
  BY <1>5, <1>12 DEF AbortSession, Types
<1>13. CASE Restart
  BY <1>13 DEF Restart, Locks, Types
<1>14. CASE UNCHANGED vars
  BY <1>14 DEF vars, Locks
<1>. QED
  BY <1>2, <1>3, <1>4, <1>6, <1>7, <1>8, <1>9, <1>10, <1>11, <1>12, <1>13, <1>14
     DEF Next, DriverStep, WriterStep

LEMMA DrivesNext == IInv /\ [Next]_vars => Drives'
<1>. SUFFICES ASSUME IInv, [Next]_vars, NEW e \in Drivers PROVE Driving(e)'
  BY DEF Drives
<1>. USE DEF IInv, driverVars
<1>1. Driving(e)
  BY DEF Drives
<1>2. ASSUME pc'[e] = pc[e], seen'[e] = seen[e], moved'[e] = moved[e],
             owner'[MigrationRow] = e <=> owner[MigrationRow] = e
      PROVE  Driving(e)'
  BY <1>1, <1>2 DEF Driving, Progress, Before
<1>3. ASSUME pc'[e] \in {"idle", "status", "resume"} PROVE Driving(e)'
  BY <1>3 DEF Driving
<1>4. ASSUME NEW p, p # None, p # e, Release(p)
      PROVE  owner'[MigrationRow] = e <=> owner[MigrationRow] = e
  <2>1. e # None
    BY MigrationAssumption DEF MigrationAssumption
  <2>. QED
    BY <1>4, <2>1, Released
<1>5. ASSUME NEW d \in Drivers,
             BeginStart(d) \/ PressResume(d) \/ CheckStatus(d) \/ ReadMigration(d)
      PROVE  Driving(e)'
  <2>1. CASE d # e
    BY <1>2, <1>5, <2>1 DEF BeginStart, PressResume, CheckStatus, ReadMigration, Types
  <2>2. CASE d = e /\ BeginStart(d)
    BY <2>2 DEF BeginStart, Driving, Types
  <2>3. CASE d = e /\ (PressResume(d) \/ CheckStatus(d))
    BY <1>3, <2>3 DEF PressResume, CheckStatus, Types
  <2>4. CASE d = e /\ ReadMigration(d)
    <3>1. owner'[MigrationRow] # e
      BY <2>4 DEF ReadMigration, Locks
    <3>2. seen'[e] = migration /\ migration.status \in {"idle", "running", "failed"}
      BY <2>4 DEF ReadMigration, Types, Migration, Statuses
    <3>3. pc'[e] = CASE migration.status = "idle" -> "status"
                     [] migration.status = "failed" -> "reopen"
                     [] OTHER -> "load"
      BY <2>4 DEF ReadMigration, Types
    <3>. QED
      BY <3>1, <3>2, <3>3 DEF Driving
  <2>. QED
    BY <1>5, <2>1, <2>2, <2>3, <2>4
<1>6. ASSUME NEW d \in Drivers, CommitStart(d) PROVE Driving(e)'
  BY <1>2, <1>3, <1>6 DEF CommitStart, Types
<1>7. ASSUME NEW d \in Drivers, Reopen(d) PROVE Driving(e)'
  <2>1. /\ owner[MigrationRow] \in {None, d} /\ owner'[MigrationRow] = d
        /\ pc' = [pc EXCEPT ![d] = "load"] /\ UNCHANGED <<seen, moved>> /\ pc[d] = "reopen"
    BY <1>7 DEF Reopen, Free, Types
  <2>2. e # None
    BY MigrationAssumption DEF MigrationAssumption
  <2>3. CASE d # e
    BY <1>2, <2>1, <2>2, <2>3 DEF Types
  <2>4. CASE d = e
    BY <1>1, <2>1, <2>4 DEF Driving, Types
  <2>. QED
    BY <2>3, <2>4
<1>8. ASSUME NEW d \in Drivers, LoadBatch(d) \/ BatchFails(d) PROVE Driving(e)'
  <2>1. PICK m : moved' = [moved EXCEPT ![d] = m] /\ Progress(seen[d], m)
    BY <1>8, Batched, Zenon
  <2>2. pc[d] = "load" /\ pc' = [pc EXCEPT ![d] = "rows"] /\ UNCHANGED <<owner, seen>>
    BY <1>8 DEF LoadBatch, BatchFails
  <2>3. CASE d # e
    BY <1>2, <2>1, <2>2, <2>3 DEF Types
  <2>4. CASE d = e
    <3>1. pc'[e] = "rows" /\ moved'[e] = m /\ seen'[e] = seen[e] /\ owner' = owner
      BY <2>1, <2>2, <2>4 DEF Types
    <3>. QED
      BY <1>1, <2>1, <2>2, <2>4, <3>1 DEF Driving, Progress, Before
  <2>. QED
    BY <2>3, <2>4
<1>9. ASSUME NEW d \in Drivers, Quit(d), UNCHANGED <<seen, moved>> PROVE Driving(e)'
  <2>1. d # None
    BY MigrationAssumption DEF MigrationAssumption
  <2>. QED
    BY <1>2, <1>3, <1>4, <1>9, <2>1 DEF Quit, Types
<1>10. ASSUME NEW d \in Drivers, NEW k \in Keys, WriteRow(d, k) PROVE Driving(e)'
  <2>1. CASE row[k] = None
    BY <1>9, <1>10, <2>1 DEF WriteRow
  <2>2. CASE row[k] # None
    <3>1. owner' = [owner EXCEPT ![k] = d] /\ UNCHANGED <<pc, seen, moved>>
      BY <1>10, <2>2 DEF WriteRow
    <3>. QED
      BY <1>2, <3>1, KeyFacts DEF Types
  <2>. QED
    BY <2>1, <2>2
<1>11. ASSUME NEW d \in Drivers, CommitBatch(d) PROVE Driving(e)'
  <2>1. d # None
    BY MigrationAssumption DEF MigrationAssumption
  <2>. QED
    BY <1>2, <1>3, <1>4, <1>11, <2>1 DEF CommitBatch, Publish, Types
<1>12. ASSUME NEW d \in Drivers, DriverRaises(d) PROVE Driving(e)'
  BY <1>9, <1>12 DEF DriverRaises
<1>13. ASSUME NEW w \in Writers, OpenSession(w) PROVE Driving(e)'
  BY <1>2, <1>13 DEF OpenSession
<1>14. ASSUME NEW w \in Writers, WriteSession(w) PROVE Driving(e)'
  <2>1. task[w].key \in Keys
    BY <1>14 DEF WriteSession, Types, Tasks
  <2>2. owner' = [owner EXCEPT ![task[w].key] = w] /\ UNCHANGED <<pc, seen, moved>>
    BY <1>14 DEF WriteSession
  <2>. QED
    BY <1>2, <2>1, <2>2, KeyFacts DEF Types
<1>15. ASSUME NEW w \in Writers, CommitSession(w) \/ AbortSession(w) PROVE Driving(e)'
  <2>1. w # None /\ w # e
    BY MigrationAssumption DEF MigrationAssumption
  <2>. QED
    BY <1>2, <1>4, <1>15, <2>1 DEF CommitSession, AbortSession, Publish
<1>16. CASE Restart
  BY <1>3, <1>16 DEF Restart
<1>17. CASE UNCHANGED vars
  BY <1>2, <1>17 DEF vars
<1>. QED
  BY <1>5, <1>6, <1>7, <1>8, <1>10, <1>11, <1>12, <1>13, <1>14, <1>15, <1>16, <1>17
     DEF Next, DriverStep, WriterStep

LEMMA IInvAlways == Spec => []IInv
<1>1. IInv /\ [Next]_vars => IInv'
  BY TypesNext, LocksNext, DrivesNext DEF IInv
<1>. QED
  BY <1>1, IInvInit, PTL DEF Spec

\* The types, and that locks belong to open transactions of drivers at work.
THEOREM TypeCorrect == Spec => []TypeOK
<1>1. IInv => TypeOK
  <2>. SUFFICES ASSUME IInv PROVE TypeOK
    OBVIOUS
  <2>1. ASSUME NEW d \in Drivers, pc[d] \in {"idle", "start", "status"},
               NEW x \in DOMAIN owner
        PROVE  owner[x] # d
    BY <2>1 DEF IInv, Locks, Types
  <2>. QED
    BY <2>1 DEF IInv, Types, Locks, TypeOK
<1>. QED
  BY <1>1, IInvAlways, PTL

-----------------------------------------------------------------------------
(* The cursor.                                                             *)

\* Every batch that was read from the present migration row leaves the cursor of
\* what the driver read behind, or where it was if the batch failed.
LEMMA CursorStep ==
  ASSUME IInv, [Next]_vars, migration.status # "idle", migration'.status # "idle"
  PROVE  /\ (\A d \in Drivers : pc[d] \in {"start", "load", "rows"} => seen[d] = migration)
              => ~Before(migration', migration)
         /\ \A d \in Drivers :
              pc[d] = "rows" /\ pc'[d] = "status" /\ seen[d] = migration
                => Before(migration, migration')
<1>. DEFINE Goal ==
       /\ (\A d \in Drivers : pc[d] \in {"start", "load", "rows"} => seen[d] = migration)
            => ~Before(migration', migration)
       /\ \A d \in Drivers :
            pc[d] = "rows" /\ pc'[d] = "status" /\ seen[d] = migration
              => Before(migration, migration')
<1>. USE DEF IInv, driverVars
<1>1. ASSUME migration' = migration,
             \A e \in Drivers : ~(pc[e] = "rows" /\ pc'[e] = "status")
      PROVE  Goal
  BY <1>1 DEF Before, Types, Migration
<1>2. ASSUME NEW d \in Drivers,
             \/ BeginStart(d) \/ PressResume(d) \/ CheckStatus(d) \/ ReadMigration(d)
             \/ Reopen(d) \/ LoadBatch(d) \/ BatchFails(d)
      PROVE  Goal
  <2>1. migration' = migration
    BY <1>2 DEF BeginStart, PressResume, CheckStatus, ReadMigration, Reopen, LoadBatch, BatchFails
  <2>2. \A e \in Drivers : ~(pc[e] = "rows" /\ pc'[e] = "status")
    BY <1>2 DEF BeginStart, PressResume, CheckStatus, ReadMigration, Reopen, LoadBatch,
       BatchFails, Types
  <2>. QED
    BY <1>1, <2>1, <2>2
<1>3. ASSUME NEW d \in Drivers, CommitStart(d) PROVE Goal
  <2>1. pc[d] = "start" /\ pc' = [pc EXCEPT ![d] = "status"]
    BY <1>3 DEF CommitStart
  <2>2. seen[d] # migration
    BY <2>1 DEF Drives, Driving
  <2>. QED
    BY <2>1, <2>2 DEF Types
<1>4. ASSUME NEW d \in Drivers, Quit(d), migration' = migration PROVE Goal
  BY <1>1, <1>4 DEF Quit, Types
<1>5. ASSUME NEW d \in Drivers, NEW k \in Keys, WriteRow(d, k) PROVE Goal
  <2>1. CASE row[k] = None
    BY <1>4, <1>5, <2>1 DEF WriteRow
  <2>2. CASE row[k] # None
    BY <1>1, <1>5, <2>2 DEF WriteRow
  <2>. QED
    BY <2>1, <2>2
<1>6. ASSUME NEW d \in Drivers, CommitBatch(d) PROVE Goal
  <2>1. /\ pc[d] = "rows" /\ Free(MigrationRow, d) /\ migration' = Leaves(d)
        /\ pc' = [pc EXCEPT ![d] = IF moved[d].status = "failed" THEN "idle" ELSE "status"]
    BY <1>6 DEF CommitBatch
  <2>2. Progress(seen[d], moved[d]) /\ seen[d] \in Migration /\ moved[d] \in Migration
    BY <2>1 DEF Drives, Driving, Types
  <2>3. /\ migration' \in Migration
        /\ migration'.table = IF moved[d].table # seen[d].table THEN moved[d].table
                              ELSE migration.table
        /\ migration'.row = IF moved[d].row # seen[d].row THEN moved[d].row
                            ELSE migration.row
        /\ moved[d].status # "running" => migration'.status = moved[d].status
    BY <2>1, LeftRow
  <2>4. seen[d] = migration =>
          \/ Before(migration, migration')
          \/ moved[d].status = "failed" /\ ~Before(migration', migration)
    BY <2>2, <2>3 DEF Progress, Before, Migration
  <2>5. seen[d] = migration => ~Before(migration', migration)
    BY <2>2, <2>3, <2>4 DEF Before, Migration
  <2>6. \A e \in Drivers : pc[e] = "rows" /\ pc'[e] = "status" =>
          e = d /\ moved[d].status # "failed"
    BY <2>1 DEF Types
  <2>. QED
    BY <2>1, <2>4, <2>5, <2>6
<1>7. ASSUME NEW d \in Drivers, DriverRaises(d) PROVE Goal
  BY <1>4, <1>7 DEF DriverRaises
<1>8. ASSUME NEW w \in Writers,
             OpenSession(w) \/ WriteSession(w) \/ CommitSession(w) \/ AbortSession(w)
      PROVE  Goal
  BY <1>1, <1>8 DEF OpenSession, WriteSession, CommitSession, AbortSession
<1>9. CASE Restart
  BY <1>1, <1>9 DEF Restart
<1>10. CASE UNCHANGED vars
  BY <1>1, <1>10 DEF vars
<1>. QED
  BY <1>2, <1>3, <1>5, <1>6, <1>7, <1>8, <1>9, <1>10 DEF Next, DriverStep, WriterStep

\* However often it is interrupted, a migration goes on where it was, and every
\* batch that succeeds moves it on.
THEOREM CursorMovesOnAlways == Spec => CursorMovesOn
<1>. DEFINE Moves ==
       migration.status # "idle" /\ migration'.status # "idle" =>
         /\ (\A d \in Drivers : pc[d] \in {"start", "load", "rows"} => seen[d] = migration)
              => ~Before(migration', migration)
         /\ \A d \in Drivers :
              pc[d] = "rows" /\ pc'[d] = "status" /\ seen[d] = migration
                => Before(migration, migration')
<1>1. IInv /\ [Next]_vars => [Moves]_vars
  BY CursorStep
<1>. QED
  BY <1>1, IInvAlways, PTL DEF Spec, CursorMovesOn

-----------------------------------------------------------------------------
(* The forms of the rows are invariant.                                    *)

\* A driver that a step leaves alone stays faithful if the step leaves the target
\* and spoils no row.
LEMMA FaithfulKept ==
  ASSUME NEW e \in Drivers, Faithful(e),
         migration'.target = migration.target, touched \subseteq touched',
         \A k \in Keys \ touched' : Fits(row[k], k) => Fits(row[k], k)',
         pc'[e] = pc[e], seen'[e] = seen[e], moved'[e] = moved[e], work'[e] = work[e],
         \A k \in Keys :
           /\ owner'[k] = e <=> owner[k] = e
           /\ owner[k] = e => draft'[k] = draft[k]
  PROVE  Faithful(e)'
<1>1. \A c, k : Fits(c, k) <=> (c # None => c.enc = Encodes(migration.target, k))
  BY DEF Fits
<1>2. \A k \in Keys : owner'[k] = e => Fits(draft[k], k)'
  BY <1>1 DEF Faithful, Fits
<1>3. \A m : Converted(m) => \A k \in Keys \ touched' : PassedBy(k, m) => Fits(row[k], k)'
  BY DEF Converted
<1>. QED
  BY <1>1, <1>2, <1>3 DEF Faithful, Converted, Fits, PassedBy

\* A driver that is not at a batch holds nothing.
LEMMA FaithfulIdle ==
  ASSUME NEW e \in Drivers, Locks', pc'[e] \notin {"reopen", "load", "rows"}
  PROVE  Faithful(e)'
  BY DEF Locks, Faithful

LEMMA SettledInit == Init => Settled
<1>. SUFFICES ASSUME Init PROVE Settled
  OBVIOUS
<1>1. \A k \in Keys : Fits(row[k], k)
  BY DEF Init, Fits
<1>2. \A d \in Drivers : Faithful(d)
  BY MigrationAssumption DEF MigrationAssumption, Init, Faithful
<1>. QED
  BY <1>1, <1>2 DEF Init, Settled, Converted

\* The batch itself: what it will write has the form of the target, and the
\* cursor passes no row that it neither writes nor finds in that form.
LEMMA FaithfulBatch ==
  ASSUME Types, NEW d \in Drivers, Faithful(d), LoadBatch(d) \/ BatchFails(d)
  PROVE  Faithful(d)'
<1>1. PICK W, m :
        /\ work' = [work EXCEPT ![d] = W] /\ moved' = [moved EXCEPT ![d] = m]
        /\ DOMAIN W \subseteq Keys
        /\ \A k \in DOMAIN W :
             W[k] \in Content /\ W[k].enc = Encodes(seen[d].target, k)
        /\ m \in Migration /\ Progress(seen[d], m)
        /\ \A k \in Keys : row[k] # None /\ PassedBy(k, m) =>
             \/ PassedBy(k, seen[d])
             \/ k \in DOMAIN W
             \/ row[k].enc = Encodes(seen[d].target, k)
  BY Batched, Zenon
<1>2. /\ pc[d] = "load" /\ pc'[d] = "rows" /\ work'[d] = W /\ moved'[d] = m
      /\ UNCHANGED <<migration, row, owner, draft, seen, touched>>
  BY <1>1 DEF LoadBatch, BatchFails, Types
<1>3. seen[d].target = migration.target /\ Converted(seen[d])
  BY <1>2 DEF Faithful
<1>4. \A k \in DOMAIN W : Fits(W[k], k)'
  BY <1>1, <1>2, <1>3 DEF Fits
<1>5. \A k \in Keys \ touched : PassedBy(k, m) => k \in DOMAIN W \/ Fits(row[k], k)'
  BY <1>1, <1>2, <1>3 DEF Fits, Converted
<1>6. Converted(seen[d])' /\ seen'[d].target = migration'.target
  BY <1>2, <1>3 DEF Converted, Fits
<1>7. \A k \in Keys : owner'[k] = d => Fits(draft[k], k)'
  BY <1>2 DEF Faithful, Fits
<1>. QED
  BY <1>2, <1>4, <1>5, <1>6, <1>7 DEF Faithful

\* The row a batch publishes: what it held fits, the rest is as it was.
LEMMA FittingRows ==
  ASSUME Types, NEW d \in Drivers, Faithful(d), CommitBatch(d),
         migration'.target = migration.target
  PROVE  \A k \in Keys : (owner[k] = d \/ Fits(row[k], k)) => Fits(row[k], k)'
<1>1. \A k \in Keys : row'[k] = IF owner[k] = d THEN draft[k] ELSE row[k]
  BY DEF CommitBatch, Publish
<1>. QED
  BY <1>1 DEF Faithful, Fits

LEMMA SettledBatch ==
  ASSUME IInv, Locks', Settled, NEW d \in Drivers, CommitBatch(d)
  PROVE  Settled'
<1>. SUFFICES ASSUME touched' # Keys PROVE Settled'
  BY DEF Settled
<1>. USE DEF IInv
<1>1. /\ touched' = touched /\ ~Torn(d) /\ touched # Keys
      /\ pc[d] = "rows" /\ DOMAIN work[d] = {} /\ Free(MigrationRow, d)
      /\ migration' = Leaves(d)
      /\ active' = IF moved[d].status = "idle" THEN moved[d].target ELSE active
      /\ pc' = [pc EXCEPT ![d] = IF moved[d].status = "failed" THEN "idle" ELSE "status"]
      /\ UNCHANGED <<seen, work, moved>> /\ Release(d)
  BY DEF CommitBatch, Publish
<1>2. /\ migration' \in Migration
      /\ migration'.target = migration.target
      /\ moved[d].status # "running" => migration'.status = moved[d].status
      /\ moved[d].status = "running" => migration'.status \in {"running", migration.status}
  BY <1>1, LeftRow
<1>3. /\ migration.status = "idle" =>
           active = migration.target /\ \A k \in Keys \ touched : Fits(row[k], k)
      /\ Converted(migration)
      /\ \A e \in Drivers : Faithful(e)
  BY <1>1 DEF Settled
<1>4. \A k \in Keys : (owner[k] = d \/ Fits(row[k], k)) => Fits(row[k], k)'
  BY <1>2, <1>3, FittingRows
<1>5. /\ seen[d].target = migration.target /\ Converted(seen[d])
      /\ \A k \in Keys \ touched : PassedBy(k, moved[d]) => owner[k] = d \/ Fits(row[k], k)
      /\ moved[d].target = seen[d].target
      /\ Progress(seen[d], moved[d])
      /\ seen[d] \in Migration /\ moved[d] \in Migration /\ migration \in Migration
  BY <1>1, <1>3 DEF Faithful, Drives, Driving, Progress, Types
<1>6. \A k \in Keys \ touched : PassedBy(k, migration') => Fits(row[k], k)'
  <2>1. \/ migration'.table = migration.table /\ migration'.row = migration.row
        \/ migration'.table = moved[d].table /\ migration'.row = moved[d].row
    BY <1>1 DEF Torn
  <2>2. CASE migration'.table = migration.table /\ migration'.row = migration.row
    BY <1>3, <1>4, <2>2 DEF PassedBy, Converted
  <2>3. CASE migration'.table = moved[d].table /\ migration'.row = moved[d].row
    BY <1>4, <1>5, <2>3 DEF PassedBy
  <2>. QED
    BY <2>1, <2>2, <2>3
<1>7. Converted(migration)'
  BY <1>1, <1>6 DEF Converted
<1>8. migration'.status = "idle" =>
        active' = migration'.target /\ \A k \in Keys \ touched' : Fits(row[k], k)'
  <2>1. CASE moved[d].status = "idle"
    <3>1. seen[d].table = Last + 1 /\ Last \in Nat
      BY <1>5, <2>1, MigrationAssumption DEF Progress, MigrationAssumption
    <3>2. \A k \in Keys : PassedBy(k, seen[d])
      BY <3>1, KeyFacts DEF PassedBy
    <3>3. \A k \in Keys \ touched : Fits(row[k], k)
      BY <1>5, <3>2 DEF Converted
    <3>. QED
      BY <1>1, <1>2, <1>4, <1>5, <2>1, <3>3
  <2>2. CASE moved[d].status = "running"
    BY <1>1, <1>2, <1>3, <1>4, <2>2
  <2>3. CASE moved[d].status = "failed"
    BY <1>2, <2>3
  <2>. QED
    BY <1>5, <2>1, <2>2, <2>3 DEF Migration, Statuses
<1>9. ASSUME NEW e \in Drivers PROVE Faithful(e)'
  <2>1. CASE e = d
    BY <1>1, <2>1, FaithfulIdle DEF Types
  <2>2. CASE e # d
    <3>1. d # None /\ e # None
      BY MigrationAssumption DEF MigrationAssumption
    <3>2. \A k \in Keys :
            /\ owner'[k] = e <=> owner[k] = e
            /\ owner[k] = e => draft'[k] = draft[k]
      BY <1>1, <2>2, <3>1, Released
    <3>3. pc'[e] = pc[e]
      BY <1>1, <2>2 DEF Types
    <3>. QED
      BY <1>1, <1>2, <1>3, <1>4, <3>2, <3>3, FaithfulKept
  <2>. QED
    BY <2>1, <2>2
<1>. QED
  BY <1>7, <1>8, <1>9 DEF Settled

\* A start, unless touched says nothing any more, leaves every row before the
\* cursor and finds no driver at a batch.
LEMMA SettledStart ==
  ASSUME IInv, Locks', NEW d \in Drivers, CommitStart(d)
  PROVE  Settled'
<1>. SUFFICES ASSUME touched' # Keys PROVE Settled'
  BY DEF Settled
<1>. USE DEF IInv
<1>1. /\ migration'.table = 1
      /\ \A e \in Drivers \ {d} : pc[e] \notin {"reopen", "load", "rows"}
      /\ pc[d] = "start" /\ pc' = [pc EXCEPT ![d] = "status"]
  BY DEF CommitStart
<1>2. migration'.status = "running"
  <2>1. PICK target \in Policies :
          migration' = Changed(migration, seen[d],
                         [status |-> "running", target |-> target, table |-> 1, row |-> 0])
    BY DEF CommitStart
  <2>2. [status |-> "running", target |-> target, table |-> 1, row |-> 0] \in Migration
    BY MigrationAssumption DEF MigrationAssumption, Migration, Statuses
  <2>3. seen[d].status = "idle" /\ seen[d] \in Migration /\ migration \in Migration
    BY <1>1 DEF Drives, Driving, Types
  <2>. DEFINE after == [status |-> "running", target |-> target, table |-> 1, row |-> 0]
  <2>4. after.status = "running"
    OBVIOUS
  <2>5. migration' = Changed(migration, seen[d], after) /\ after \in Migration
    BY <2>1, <2>2
  <2>. HIDE DEF after
  <2>. QED
    BY <2>3, <2>4, <2>5, ChangedRecord
<1>3. \A k \in Keys : ~PassedBy(k, migration')
  BY <1>1, KeyFacts, MigrationAssumption DEF MigrationAssumption, PassedBy
<1>4. Converted(migration)'
  BY <1>3 DEF Converted
<1>5. ASSUME NEW e \in Drivers PROVE Faithful(e)'
  <2>1. pc'[e] \notin {"reopen", "load", "rows"}
    BY <1>1 DEF Types
  <2>. QED
    BY <2>1, FaithfulIdle
<1>. QED
  BY <1>2, <1>4, <1>5 DEF Settled

\* What a driver writes under its lock is what it was about to write.
LEMMA FaithfulWrite ==
  ASSUME Types, NEW d \in Drivers, NEW k \in Keys, WriteRow(d, k), row[k] # None, Faithful(d)
  PROVE  Faithful(d)'
<1>1. /\ pc[d] = "rows" /\ k \in DOMAIN work[d]
      /\ owner' = [owner EXCEPT ![k] = d]
      /\ draft' = [draft EXCEPT ![k] = work[d][k]]
      /\ work' = [work EXCEPT ![d] = [j \in DOMAIN work[d] \ {k} |-> work[d][j]]]
      /\ UNCHANGED <<pc, migration, row, seen, moved, touched>>
  BY DEF WriteRow
<1>2. \A j \in Keys :
        IF j = k THEN owner'[j] = d /\ draft'[j] = work[d][k]
        ELSE owner'[j] = owner[j] /\ draft'[j] = draft[j]
  BY <1>1 DEF Types
<1>3. /\ DOMAIN work'[d] = DOMAIN work[d] \ {k}
      /\ \A j \in DOMAIN work'[d] : work'[d][j] = work[d][j]
  BY <1>1 DEF Types
<1>4. \A c, j : Fits(c, j)' <=> (c' # None => c'.enc = Encodes(migration.target, j))
  BY <1>1 DEF Fits
<1>5. /\ seen[d].target = migration.target /\ Converted(seen[d])
      /\ \A j \in DOMAIN work[d] : Fits(work[d][j], j)
      /\ \A j \in Keys \ touched : PassedBy(j, moved[d]) =>
           j \in DOMAIN work[d] \/ owner[j] = d \/ Fits(row[j], j)
      /\ \A j \in Keys : owner[j] = d => Fits(draft[j], j)
  BY <1>1 DEF Faithful
<1>6. (seen[d].target = migration.target /\ Converted(seen[d]))'
  BY <1>1, <1>5 DEF Converted, Fits
<1>7. (\A j \in DOMAIN work[d] : Fits(work[d][j], j))'
  BY <1>1, <1>3, <1>5 DEF Fits
<1>8. (\A j \in Keys \ touched : PassedBy(j, moved[d]) =>
         j \in DOMAIN work[d] \/ owner[j] = d \/ Fits(row[j], j))'
  BY <1>1, <1>2, <1>3, <1>5 DEF Fits, PassedBy
<1>9. (\A j \in Keys : owner[j] = d => Fits(draft[j], j))'
  BY <1>1, <1>2, <1>5 DEF Fits
<1>. QED
  BY <1>6, <1>7, <1>8, <1>9 DEF Faithful

LEMMA SettledNext == IInv /\ Settled /\ [Next]_vars => Settled'
<1>. SUFFICES ASSUME IInv, Settled, [Next]_vars PROVE Settled'
  OBVIOUS
<1>. USE DEF IInv, driverVars
<1>1. Locks'
  BY LocksNext
<1>2. None \notin Drivers /\ None \notin Writers /\ Drivers \cap Writers = {}
  BY MigrationAssumption DEF MigrationAssumption
\* Steps that leave the rows and the migration row alone.
<1>3. ASSUME UNCHANGED <<active, migration, row, touched>>,
             touched # Keys => \A e \in Drivers : Faithful(e)'
      PROVE  Settled'
  BY <1>3 DEF Settled, Converted, Fits
<1>4. ASSUME UNCHANGED <<active, migration, row, touched>>,
             touched # Keys, NEW e \in Drivers,
             \/ pc'[e] \notin {"reopen", "load", "rows"}
             \/ /\ pc'[e] = pc[e] /\ seen'[e] = seen[e] /\ moved'[e] = moved[e]
                /\ work'[e] = work[e]
                /\ \A k \in Keys :
                     /\ owner'[k] = e <=> owner[k] = e
                     /\ owner[k] = e => draft'[k] = draft[k]
      PROVE  Faithful(e)'
  <2>1. CASE pc'[e] \notin {"reopen", "load", "rows"}
    BY <1>1, <2>1, FaithfulIdle
  <2>2. CASE /\ pc'[e] = pc[e] /\ seen'[e] = seen[e] /\ moved'[e] = moved[e]
             /\ work'[e] = work[e]
             /\ \A k \in Keys :
                  /\ owner'[k] = e <=> owner[k] = e
                  /\ owner[k] = e => draft'[k] = draft[k]
    <3>1. Faithful(e)
      BY <1>4 DEF Settled
    <3>2. \A k \in Keys \ touched' : Fits(row[k], k) => Fits(row[k], k)'
      BY <1>4 DEF Fits
    <3>. QED
      BY <1>4, <2>2, <3>1, <3>2, FaithfulKept
  <2>. QED
    BY <1>4, <2>1, <2>2
<1>5. ASSUME NEW d \in Drivers, BeginStart(d) \/ PressResume(d) \/ CheckStatus(d)
      PROVE  Settled'
  <2>1. UNCHANGED <<active, migration, row, touched, owner, draft, work, moved>>
    BY <1>5 DEF BeginStart, PressResume, CheckStatus
  <2>2. \A e \in Drivers : \/ pc'[e] \notin {"reopen", "load", "rows"}
                           \/ pc'[e] = pc[e] /\ seen'[e] = seen[e]
    BY <1>5 DEF BeginStart, PressResume, CheckStatus, Types
  <2>. QED
    BY <1>3, <1>4, <2>1, <2>2
<1>6. ASSUME NEW d \in Drivers, ReadMigration(d) PROVE Settled'
  <2>1. UNCHANGED <<active, migration, row, touched, owner, draft, work, moved>>
    BY <1>6 DEF ReadMigration
  <2>2. \A e \in Drivers \ {d} : pc'[e] = pc[e] /\ seen'[e] = seen[e]
    BY <1>6 DEF ReadMigration, Types
  <2>3. /\ pc[d] = "resume" /\ pc'[d] \in {"status", "reopen", "load"}
        /\ seen'[d] = migration
    BY <1>6 DEF ReadMigration, Types
  <2>4. ASSUME touched # Keys PROVE Faithful(d)'
    <3>1. Converted(migration)
      BY <2>4 DEF Settled
    <3>2. (seen[d].target = migration.target /\ Converted(seen[d]))'
      BY <2>1, <2>3, <3>1 DEF Converted, Fits
    <3>3. \A k \in Keys : owner'[k] # d
      BY <1>1, <2>3 DEF Locks
    <3>. QED
      BY <2>3, <3>2, <3>3 DEF Faithful
  <2>. QED
    BY <1>3, <1>4, <2>1, <2>2, <2>4
<1>7. ASSUME NEW d \in Drivers, Reopen(d) PROVE Settled'
  <2>1. UNCHANGED <<active, migration, row, touched, seen, work, moved>>
    BY <1>7 DEF Reopen
  <2>2. /\ \A k \in Keys : owner'[k] = owner[k] /\ draft'[k] = draft[k]
        /\ pc[d] = "reopen" /\ pc'[d] = "load" /\ \A e \in Drivers \ {d} : pc'[e] = pc[e]
    BY <1>7, KeyFacts DEF Reopen, Types
  <2>3. ASSUME touched # Keys PROVE Faithful(d)'
    <3>1. Faithful(d)
      BY <2>3 DEF Settled
    <3>2. (seen[d].target = migration.target /\ Converted(seen[d]))'
      BY <2>1, <2>2, <3>1 DEF Faithful, Converted, Fits
    <3>3. \A k \in Keys : owner'[k] # d
      BY <1>1, <2>2 DEF Locks
    <3>. QED
      BY <2>2, <3>2, <3>3 DEF Faithful
  <2>. QED
    BY <1>3, <1>4, <2>1, <2>2, <2>3
<1>8. ASSUME NEW d \in Drivers, LoadBatch(d) \/ BatchFails(d) PROVE Settled'
  <2>1. UNCHANGED <<active, migration, row, touched, owner, draft, seen>>
    BY <1>8 DEF LoadBatch, BatchFails
  <2>2. \A e \in Drivers \ {d} :
          pc'[e] = pc[e] /\ work'[e] = work[e] /\ moved'[e] = moved[e]
    BY <1>8 DEF LoadBatch, BatchFails, Types
  <2>3. touched # Keys => Faithful(d)'
    BY <1>8, FaithfulBatch DEF Settled
  <2>. QED
    BY <1>3, <1>4, <2>1, <2>2, <2>3
<1>9. ASSUME NEW p, p # None, Release(p), NEW e \in Drivers, p # e
      PROVE  \A k \in Keys : /\ owner'[k] = e <=> owner[k] = e
                             /\ owner[k] = e => draft'[k] = draft[k]
  BY <1>2, <1>9, Released
<1>10. ASSUME NEW d \in Drivers, Quit(d),
              UNCHANGED <<active, migration, row, touched, seen, moved>>
       PROVE  Settled'
  <2>1. /\ Release(d) /\ pc'[d] = "idle"
        /\ \A e \in Drivers \ {d} : pc'[e] = pc[e] /\ work'[e] = work[e]
    BY <1>10 DEF Quit, Types
  <2>. QED
    BY <1>2, <1>3, <1>4, <1>9, <1>10, <2>1
<1>11. ASSUME NEW d \in Drivers, NEW k \in Keys, WriteRow(d, k) PROVE Settled'
  <2>1. CASE row[k] = None
    BY <1>10, <1>11, <2>1 DEF WriteRow
  <2>2. CASE row[k] # None
    <3>1. /\ owner' = [owner EXCEPT ![k] = d] /\ owner[k] \in {None, d}
          /\ draft' = [draft EXCEPT ![k] = work[d][k]]
          /\ UNCHANGED <<active, migration, row, touched, pc, seen, moved>>
          /\ \A e \in Drivers \ {d} : work'[e] = work[e]
      BY <1>11, <2>2 DEF WriteRow, Free, Types
    <3>2. ASSUME NEW e \in Drivers \ {d}, NEW j \in Keys
          PROVE  /\ owner'[j] = e <=> owner[j] = e
                 /\ owner[j] = e => draft'[j] = draft[j]
      BY <1>2, <3>1 DEF Types
    <3>3. touched # Keys => Faithful(d)'
      BY <1>11, <2>2, FaithfulWrite DEF Settled
    <3>. QED
      BY <1>3, <1>4, <3>1, <3>2, <3>3
  <2>. QED
    BY <2>1, <2>2
<1>12. ASSUME NEW d \in Drivers, DriverRaises(d) PROVE Settled'
  BY <1>10, <1>12 DEF DriverRaises
<1>13. ASSUME NEW w \in Writers, OpenSession(w) PROVE Settled'
  <2>1. UNCHANGED <<active, migration, row, touched, owner, draft, pc, seen, work, moved>>
    BY <1>13 DEF OpenSession
  <2>. QED
    BY <1>3, <1>4, <2>1
<1>14. ASSUME NEW w \in Writers, WriteSession(w) PROVE Settled'
  <2>. DEFINE k == task[w].key
  <2>1. UNCHANGED <<active, migration, row, touched, pc, seen, work, moved>>
    BY <1>14 DEF WriteSession
  <2>2. PICK c : /\ owner' = [owner EXCEPT ![k] = w] /\ owner[k] \in {None, w}
                 /\ draft' = [draft EXCEPT ![k] = c]
    BY <1>14 DEF WriteSession, Free
  <2>. HIDE DEF k
  <2>3. ASSUME NEW e \in Drivers, NEW j \in Keys
        PROVE  /\ owner'[j] = e <=> owner[j] = e
               /\ owner[j] = e => draft'[j] = draft[j]
    BY <1>2, <2>2 DEF Types
  <2>. QED
    BY <1>3, <1>4, <2>1, <2>3
<1>15. ASSUME NEW w \in Writers, CommitSession(w) PROVE Settled'
  <2>. SUFFICES ASSUME touched' # Keys PROVE Settled'
    BY DEF Settled
  <2>1. /\ task[w] \in Tasks /\ task[w].key \in Keys /\ Release(w)
        /\ row' = [j \in Keys |-> IF owner[j] = w THEN draft[j] ELSE row[j]]
        /\ touched' = IF migration.status # "idle" \/ task[w].codec # active
                        THEN touched \cup {task[w].key} ELSE touched
        /\ UNCHANGED <<active, migration, pc, seen, work, moved>>
    BY <1>15 DEF CommitSession, Publish, Types, Tasks
  <2>2. touched # Keys /\ touched \subseteq touched'
    BY <2>1
  <2>3. /\ migration.status = "idle" =>
             active = migration.target /\ \A k \in Keys \ touched : Fits(row[k], k)
        /\ Converted(migration)
        /\ \A e \in Drivers : Faithful(e)
    BY <2>2 DEF Settled
  <2>4. ASSUME NEW k \in Keys \ touched', Fits(row[k], k) PROVE Fits(row[k], k)'
    <3>1. CASE owner[k] = w
      <4>1. /\ task[w].key = k
            /\ draft[k] = None \/ draft[k].enc = Encodes(task[w].codec, k)
        BY <3>1 DEF Locks
      <4>2. migration.status = "idle" /\ task[w].codec = active
        BY <2>1, <2>4, <4>1
      <4>3. active = migration.target
        BY <2>3, <4>2
      <4>4. row'[k] = draft[k]
        BY <2>1, <3>1
      <4>. QED
        BY <2>1, <4>1, <4>2, <4>3, <4>4 DEF Fits
    <3>2. CASE owner[k] # w
      <4>1. row'[k] = row[k]
        BY <2>1, <3>2
      <4>. QED
        BY <2>1, <2>4, <4>1 DEF Fits
    <3>. QED
      BY <3>1, <3>2
  <2>5. Converted(migration)'
    BY <2>1, <2>2, <2>3, <2>4 DEF Converted
  <2>6. migration'.status = "idle" =>
          active' = migration'.target /\ \A k \in Keys \ touched' : Fits(row[k], k)'
    BY <2>1, <2>2, <2>3, <2>4
  <2>7. ASSUME NEW e \in Drivers PROVE Faithful(e)'
    <3>1. \A k \in Keys : /\ owner'[k] = e <=> owner[k] = e
                          /\ owner[k] = e => draft'[k] = draft[k]
      BY <1>2, <1>9, <2>1
    <3>. QED
      BY <2>1, <2>2, <2>3, <2>4, <3>1, FaithfulKept
  <2>. QED
    BY <2>5, <2>6, <2>7 DEF Settled
<1>16. ASSUME NEW w \in Writers, AbortSession(w) PROVE Settled'
  <2>1. UNCHANGED <<active, migration, row, touched, pc, seen, work, moved>> /\ Release(w)
    BY <1>16 DEF AbortSession
  <2>. QED
    BY <1>2, <1>3, <1>4, <1>9, <2>1
<1>17. CASE Restart
  <2>1. UNCHANGED <<active, migration, row, touched>> /\ \A e \in Drivers : pc'[e] = "idle"
    BY <1>17 DEF Restart
  <2>. QED
    BY <1>3, <1>4, <2>1
<1>18. CASE UNCHANGED vars
  BY <1>3, <1>4, <1>18 DEF vars
<1>. QED
  BY <1>1, <1>5, <1>6, <1>7, <1>8, <1>11, <1>12, <1>13, <1>14, <1>15, <1>16, <1>17, <1>18,
     SettledStart, SettledBatch DEF Next, DriverStep, WriterStep

\* When no migration is under way, every row has the form the active policy asks
\* for, unless another session wrote it during a migration, a migration began at
\* a batch or with the cursor of the one before, or the cursor was torn.
THEOREM UntouchedFormsMatchPolicyAlways == Spec => []UntouchedFormsMatchPolicy
<1>1. IInv /\ Settled /\ [Next]_vars => Settled'
  BY SettledNext
<1>2. Settled => UntouchedFormsMatchPolicy
  BY DEF Settled, UntouchedFormsMatchPolicy, Fits, Matches
<1>. QED
  BY <1>1, <1>2, SettledInit, IInvAlways, PTL DEF Spec

-----------------------------------------------------------------------------
(* Without other sessions.                                                 *)

Alone == Writers = {} /\ \A d, e \in Drivers : d = e

\* The only driver has read the migration row as it is, so the cursor it leaves
\* is its own.
LoneRead ==
  /\ touched = {}
  /\ \A d \in Drivers : pc[d] \in {"start", "reopen", "load", "rows"} => seen[d] = migration

LEMMA LoneLeaves ==
  ASSUME IInv, LoneRead, NEW d \in Drivers, pc[d] = "rows", Free(MigrationRow, d)
  PROVE  Leaves(d) = moved[d] /\ ~Torn(d)
<1>. USE DEF IInv
<1>1. seen[d] = migration /\ migration \in Migration /\ moved[d] \in Migration
  BY DEF LoneRead, Types
<1>2. moved[d].target = seen[d].target
  BY DEF Drives, Driving, Progress
<1>3. PICK m : m = Leaves(d)
  OBVIOUS
<1>4. owner[MigrationRow] # d => seen[d].status = "running"
  BY DEF Drives, Driving
<1>5. /\ m \in Migration /\ m.target = moved[d].target
      /\ m.table = moved[d].table /\ m.row = moved[d].row
      /\ m.status = moved[d].status
  BY <1>1, <1>2, <1>3, <1>4, LeftRow
<1>6. m = moved[d]
  BY <1>1, <1>5 DEF Migration
<1>. QED
  BY <1>3, <1>6 DEF Torn

LEMMA LoneReadNext ==
  ASSUME Alone
  PROVE  IInv /\ LoneRead /\ [Next]_vars => LoneRead'
<1>. SUFFICES ASSUME IInv, LoneRead, [Next]_vars PROVE LoneRead'
  OBVIOUS
<1>. USE DEF driverVars
<1>1. \A d, e \in Drivers : d = e
  BY DEF Alone
<1>2. pc \in [Drivers -> Steps] /\ seen \in [Drivers -> Migration]
  BY DEF IInv, Types
<1>3. ASSUME NEW d \in Drivers, BeginStart(d) \/ ReadMigration(d) PROVE LoneRead'
  BY <1>1, <1>2, <1>3 DEF BeginStart, ReadMigration, LoneRead
<1>4. ASSUME NEW d \in Drivers, PressResume(d) \/ CheckStatus(d) PROVE LoneRead'
  BY <1>1, <1>2, <1>4 DEF PressResume, CheckStatus, LoneRead
<1>5. ASSUME NEW d \in Drivers, CommitStart(d) PROVE LoneRead'
  <2>1. PICK target \in Policies :
          migration' = Changed(migration, seen[d],
                         [status |-> "running", target |-> target, table |-> 1, row |-> 0])
    BY <1>5 DEF CommitStart
  <2>2. [status |-> "running", target |-> target, table |-> 1, row |-> 0] \in Migration
    BY MigrationAssumption DEF MigrationAssumption, Migration, Statuses
  <2>3. seen[d] = migration /\ migration \in Migration
    BY <1>5 DEF CommitStart, LoneRead, IInv, Types
  <2>4. migration'.table = 1
    BY <2>1, <2>2, <2>3, ChangedRecord
  <2>5. touched' = {}
    BY <1>1, <1>5, <2>4 DEF CommitStart
  <2>. QED
    BY <1>1, <1>2, <1>5, <2>5 DEF CommitStart, LoneRead
<1>6. ASSUME NEW d \in Drivers, Reopen(d) \/ LoadBatch(d) \/ BatchFails(d) PROVE LoneRead'
  BY <1>1, <1>2, <1>6 DEF Reopen, LoadBatch, BatchFails, LoneRead
<1>7. ASSUME NEW d \in Drivers, Quit(d), UNCHANGED <<migration, touched, seen>>
      PROVE  LoneRead'
  BY <1>1, <1>2, <1>7 DEF Quit, LoneRead
<1>8. ASSUME NEW d \in Drivers, NEW k \in Keys, WriteRow(d, k) PROVE LoneRead'
  <2>1. CASE row[k] = None
    BY <1>7, <1>8, <2>1 DEF WriteRow
  <2>2. CASE row[k] # None
    BY <1>8, <2>2 DEF WriteRow, LoneRead
  <2>. QED
    BY <2>1, <2>2
<1>9. ASSUME NEW d \in Drivers, CommitBatch(d) PROVE LoneRead'
  <2>1. touched' = touched
    BY <1>9, LoneLeaves DEF CommitBatch
  <2>2. \A e \in Drivers : pc'[e] \in {"idle", "status"}
    BY <1>1, <1>2, <1>9 DEF CommitBatch
  <2>. QED
    BY <2>1, <2>2 DEF LoneRead
<1>10. ASSUME NEW d \in Drivers, DriverRaises(d) PROVE LoneRead'
  BY <1>7, <1>10 DEF DriverRaises
<1>11. CASE Restart
  BY <1>11 DEF Restart, LoneRead
<1>12. CASE UNCHANGED vars
  BY <1>12 DEF vars, LoneRead
<1>. QED
  BY <1>3, <1>4, <1>5, <1>6, <1>8, <1>9, <1>10, <1>11, <1>12
     DEF Next, DriverStep, Alone

\* With one driver and no other session at work, FormsMatchPolicy needs no
\* proviso, whatever fails and however often the migration is resumed: what the
\* provisos of UntouchedFormsMatchPolicy except comes from overlaps alone.
THEOREM LoneMigrationConvertsAll ==
  ASSUME Alone
  PROVE  Spec => []FormsMatchPolicy
<1>1. Init => LoneRead
  BY DEF Init, LoneRead
<1>2. IInv /\ LoneRead /\ [Next]_vars => LoneRead'
  BY LoneReadNext
<1>3. LoneRead /\ UntouchedFormsMatchPolicy => FormsMatchPolicy
  BY DEF LoneRead, UntouchedFormsMatchPolicy, FormsMatchPolicy
<1>. QED
  BY <1>1, <1>2, <1>3, IInvAlways, UntouchedFormsMatchPolicyAlways, PTL DEF Spec

\* What drivers are about to write, or hold, has the value that is stored.
ValuesKept ==
  \A d \in Drivers, k \in Keys :
    /\ k \in DOMAIN work[d] /\ row[k] # None => work[d][k].value = row[k].value
    /\ owner[k] = d => row[k] # None /\ draft[k].value = row[k].value

\* A step changes no value and makes no row.
SameValues ==
  \A k \in Keys : row'[k] # None => row[k] # None /\ row'[k].value = row[k].value

LEMMA ValuesNext ==
  ASSUME Writers = {}, IInv, ValuesKept, [Next]_vars
  PROVE  ValuesKept' /\ SameValues
<1>. USE DEF driverVars, IInv
<1>1. None \notin Drivers
  BY MigrationAssumption DEF MigrationAssumption
<1>2. ASSUME row' = row PROVE SameValues
  BY <1>2 DEF SameValues
<1>3. ASSUME NEW d \in Drivers,
             \/ BeginStart(d) \/ CommitStart(d) \/ PressResume(d) \/ CheckStatus(d)
             \/ ReadMigration(d)
      PROVE  ValuesKept' /\ SameValues
  <2>1. UNCHANGED <<row, owner, draft, work>>
    BY <1>3 DEF BeginStart, CommitStart, PressResume, CheckStatus, ReadMigration
  <2>. QED
    BY <1>2, <2>1 DEF ValuesKept
<1>4. ASSUME NEW d \in Drivers, Reopen(d) PROVE ValuesKept' /\ SameValues
  <2>1. /\ UNCHANGED <<row, work>>
        /\ \A k \in Keys : owner'[k] = owner[k] /\ draft'[k] = draft[k]
    BY <1>4, KeyFacts DEF Reopen, Types
  <2>. QED
    BY <1>2, <2>1 DEF ValuesKept
<1>5. ASSUME NEW d \in Drivers, LoadBatch(d) \/ BatchFails(d)
      PROVE  ValuesKept' /\ SameValues
  <2>1. UNCHANGED <<row, owner, draft>>
    BY <1>5 DEF LoadBatch, BatchFails
  <2>2. ASSUME NEW i, NEW n, NEW B \in SUBSET Batch(i, n), NEW policy,
               NEW k \in DOMAIN Reencoded(B, policy)
        PROVE  row[k] # None /\ Reencoded(B, policy)[k].value = row[k].value
    <3>1. k \in B /\ Reencoded(B, policy)[k] = [row[k] EXCEPT !.enc = Encodes(policy, k)]
      BY <2>2 DEF Reencoded
    <3>2. k \in Keys /\ row[k] # None
      BY <3>1 DEF Batch
    <3>3. row[k] \in Content
      BY <3>2 DEF Types
    <3>. QED
      BY <3>1, <3>2, <3>3 DEF Content
  <2>3. \A k \in DOMAIN work'[d] : row[k] # None /\ work'[d][k].value = row[k].value
    <3>1. CASE LoadBatch(d)
      <4>1. DOMAIN work'[d] = {} \/
              \E i, n, policy : work'[d] = Reencoded(Batch(i, n), policy)
        BY <3>1 DEF LoadBatch, Types, Empty
      <4>. QED
        BY <2>2, <4>1
    <3>2. CASE BatchFails(d)
      <4>1. \E i, n, policy : \E B \in SUBSET Batch(i, n) :
              work'[d] = Reencoded(B, policy)
        <5>1. PICK k \in Batch(seen[d].table, seen[d].row) :
                work'[d] = Reencoded({j \in Batch(seen[d].table, seen[d].row) : j[2] < k[2]},
                                     seen[d].target)
          BY <3>2 DEF BatchFails, Types
        <5>2. {j \in Batch(seen[d].table, seen[d].row) : j[2] < k[2]}
                \in SUBSET Batch(seen[d].table, seen[d].row)
          OBVIOUS
        <5>. QED
          BY <5>1, <5>2
      <4>. QED
        BY <2>2, <4>1
    <3>. QED
      BY <1>5, <3>1, <3>2
  <2>4. \A e \in Drivers \ {d} : work'[e] = work[e]
    BY <1>5 DEF LoadBatch, BatchFails, Types
  <2>. QED
    BY <1>2, <2>1, <2>3, <2>4 DEF ValuesKept
<1>6. ASSUME NEW d \in Drivers, Release(d)
      PROVE  \A e \in Drivers, k \in Keys :
               owner'[k] = e => owner[k] = e /\ draft'[k] = draft[k]
  BY <1>1, <1>6, Released
<1>7. ASSUME NEW d \in Drivers, Quit(d), row' = row PROVE ValuesKept' /\ SameValues
  <2>1. DOMAIN work'[d] = {} /\ \A e \in Drivers \ {d} : work'[e] = work[e]
    BY <1>7 DEF Quit, Types, Empty
  <2>. QED
    BY <1>2, <1>6, <1>7, <2>1 DEF ValuesKept, Quit
<1>8. ASSUME NEW d \in Drivers, NEW k \in Keys, WriteRow(d, k)
      PROVE  ValuesKept' /\ SameValues
  <2>1. CASE row[k] = None
    BY <1>7, <1>8, <2>1 DEF WriteRow
  <2>2. CASE row[k] # None
    <3>1. /\ k \in DOMAIN work[d] /\ row' = row
          /\ owner' = [owner EXCEPT ![k] = d]
          /\ draft' = [draft EXCEPT ![k] = work[d][k]]
          /\ work' = [work EXCEPT ![d] = [j \in DOMAIN work[d] \ {k} |-> work[d][j]]]
      BY <1>8, <2>2 DEF WriteRow
    <3>2. \A e \in Drivers : DOMAIN work'[e] \subseteq DOMAIN work[e]
                          /\ \A j \in DOMAIN work'[e] : work'[e][j] = work[e][j]
      BY <3>1 DEF Types
    <3>3. ASSUME NEW e \in Drivers, NEW j \in Keys, owner'[j] = e
          PROVE  row[j] # None /\ draft'[j].value = row[j].value
      <4>1. CASE j = k
        BY <2>2, <3>1, <4>1 DEF ValuesKept, Types
      <4>2. CASE j # k
        BY <3>1, <3>3, <4>2 DEF ValuesKept, Types
      <4>. QED
        BY <4>1, <4>2
    <3>4. ASSUME NEW e \in Drivers, NEW j \in DOMAIN work'[e], j \in Keys, row[j] # None
          PROVE  work'[e][j].value = row[j].value
      BY <3>2, <3>4 DEF ValuesKept
    <3>. QED
      BY <1>2, <3>1, <3>3, <3>4 DEF ValuesKept
  <2>. QED
    BY <2>1, <2>2
<1>9. ASSUME NEW d \in Drivers, CommitBatch(d) PROVE ValuesKept' /\ SameValues
  <2>1. /\ row' = [k \in Keys |-> IF owner[k] = d THEN draft[k] ELSE row[k]]
        /\ Release(d) /\ work' = work
    BY <1>9 DEF CommitBatch, Publish
  <2>2. SameValues
    BY <2>1 DEF SameValues, ValuesKept
  <2>. QED
    <3>1. ASSUME NEW e \in Drivers, NEW k \in Keys, owner'[k] = e
          PROVE  row'[k] # None /\ draft'[k].value = row'[k].value
      <4>1. owner[k] = e /\ draft'[k] = draft[k] /\ owner[k] # d
        BY <1>1, <2>1, <3>1, Released
      <4>. QED
        BY <2>1, <4>1 DEF ValuesKept
    <3>. QED
      BY <2>1, <2>2, <3>1 DEF ValuesKept, SameValues
<1>10. ASSUME NEW d \in Drivers, DriverRaises(d) PROVE ValuesKept' /\ SameValues
  BY <1>7, <1>10 DEF DriverRaises
<1>11. CASE Restart
  BY <1>1, <1>2, <1>11 DEF Restart, ValuesKept, Types, Empty
<1>12. CASE UNCHANGED vars
  BY <1>2, <1>12 DEF vars, ValuesKept
<1>. QED
  BY <1>3, <1>4, <1>5, <1>8, <1>9, <1>10, <1>11, <1>12 DEF Next, DriverStep

\* A migration changes no value, with any number of drivers in any order, as
\* long as no other session writes meanwhile: only such a write can be lost.
THEOREM MigrationKeepsValues ==
  ASSUME Writers = {}
  PROVE  Spec => KeepsValues
<1>. DEFINE Kept ==
       \A d \in Drivers : \A k \in Held(d) \cap Keys :
         row[k] # None /\ row'[k] # None => row'[k].value = row[k].value
<1>1. Init => ValuesKept
  BY MigrationAssumption DEF Init, ValuesKept, Empty, MigrationAssumption
<1>2. IInv /\ ValuesKept /\ [Next]_vars => ValuesKept' /\ [Kept]_vars
  BY ValuesNext DEF SameValues
<1>. QED
  BY <1>1, <1>2, IInvAlways, PTL DEF Spec, KeepsValues
=============================================================================
