------------------------- MODULE EnvironmentProofs --------------------------
(***************************************************************************)
(* Proofs about the environment, for every prime table size, every hash    *)
(* function and every set of names: a search finds every entry (Findable), *)
(* and until more entries have been made in a table than it has buckets,   *)
(* the environment is the map NameStore describes.                         *)
(***************************************************************************)
EXTENDS Environment, FiniteSetTheorems, WellFoundedInduction, TLAPS

-----------------------------------------------------------------------------
(* Paths                                                                   *)

Live(idx) == table[idx].used > 0

\* A remainder is below its divisor.
LEMMA Remainder == ASSUME NEW a \in Int, NEW b \in Nat, b > 0
                   PROVE  a % b \in 0 .. b - 1
BY SMT

\* A set of numbers has a least one.
LEMMA Least == ASSUME NEW S \in SUBSET Nat, S # {}
               PROVE  \E k \in S : \A j \in S : k <= j
<1> DEFINE R == {p \in Nat \X Nat : p[1] < p[2]}
<1>1. IsWellFoundedOn(R, Nat)
    BY NatLessThanWellFounded DEF OpToRel
<1>2. \A j, k \in Nat : j < k => <<j, k>> \in R
    OBVIOUS
<1> HIDE DEF R
<1>3. \E k \in S : \A j \in S : ~ (<<j, k>> \in R)
    BY <1>1, WFMin, Zenon
<1>4. PICK k \in S : \A j \in S : ~ (<<j, k>> \in R)
    BY <1>3
<1>5. \A j \in S : ~ (j < k)
    BY <1>2, <1>4, Zenon
<1>6. QED BY <1>5

\* A path stays in the table and begins at the bucket the hash names.
LEMMA PathFacts ==
    ASSUME NEW n \in Names
    PROVE  /\ hash[n] \in 1 .. size - 1
           /\ hash[n] \in Index
           /\ 0 \in Steps
           /\ \A i \in Steps : path[n][i] \in Index
           /\ path[n][0] = hash[n]
<1>1. size \in Nat /\ size > 2 /\ hash[n] \in 1 .. size - 1
    BY ConstantAssumption DEF ConstantAssumption
<1>2. hval2[n] \in Int
    <2>1. hash[n] \in Int /\ size - 2 \in Nat /\ size - 2 > 0
        BY <1>1
    <2>2. hash[n] % (size - 2) \in 0 .. size - 2 - 1
        BY <2>1, Remainder
    <2>3. QED BY <1>1, <2>2 DEF hval2
<1>3. \A i \in Steps : path[n][i] \in Index
    <2>1. TAKE i \in Steps
    <2>2. hash[n] - 1 - i * hval2[n] \in Int
        BY <1>1, <1>2 DEF Steps
    <2>3. (hash[n] - 1 - i * hval2[n]) % size \in 0 .. size - 1
        BY <1>1, <2>2, Remainder
    <2>4. QED BY <1>1, <2>3 DEF path, Index
<1>4. path[n][0] = hash[n]
    <2>1. 0 * hval2[n] = 0
        BY <1>2
    <2>2. path[n][0] = 1 + ((hash[n] - 1 - 0) % size)
        BY <1>1, <2>1 DEF path, Steps
    <2>3. (hash[n] - 1 - 0) % size = hash[n] - 1
        BY <1>1
    <2>4. QED BY <1>1, <2>2, <2>3
<1>5. QED BY <1>1, <1>3, <1>4 DEF Index, Steps

-----------------------------------------------------------------------------
(* A prime size                                                            *)

\* Division.
LEMMA Quotient == ASSUME NEW a \in Nat, NEW b \in Nat, b > 0
                  PROVE  \E q \in Nat : a = (q * b) + (a % b)
<1>1. a \div b \in Nat /\ a = ((a \div b) * b) + (a % b)
    OBVIOUS
<1>2. QED BY <1>1, Zenon

\* A prime that divides a product divides one of the factors; so it does not
\* divide the product of two smaller numbers.
LEMMA Prime ==
    ASSUME NEW p \in Nat, p > 1, \A d \in 2 .. p - 1 : p % d # 0,
           NEW a \in 1 .. p - 1, NEW b \in 1 .. p - 1, NEW k \in Int
    PROVE  a * b # k * p
<1> SUFFICES ASSUME a * b = k * p PROVE FALSE
    OBVIOUS
<1> DEFINE S == {x \in Nat \ {0} : \E j \in Int : a * x = j * p}
<1>1. b \in S
    OBVIOUS
<1>2. PICK m \in S : \A x \in S : m <= x
    <2>1. S \in SUBSET Nat /\ S # {}
        BY <1>1, Zenon
    <2> HIDE DEF S
    <2>2. QED BY <2>1, Least
<1>3. m \in Nat /\ 0 < m /\ m < p
    <2>1. m \in Nat \ {0}
        OBVIOUS
    <2> HIDE DEF S
    <2>2. m <= b
        BY <1>1, <1>2
    <2>3. QED BY <2>1, <2>2
<1>4. PICK j \in Int : a * m = j * p
    BY <1>2
<1>5. PICK q \in Nat : p = (q * m) + (p % m)
    BY <1>3, Quotient
<1>6. p % m \in 0 .. m - 1
    BY <1>3, Remainder
<1>7. a * (p % m) = (a - q * j) * p
    <2>1. a * (p % m) = a * (p - q * m)
        BY <1>3, <1>5, <1>6
    <2>2. a * (p - q * m) = a * p - q * (a * m)
        BY <1>3
    <2>3. q * (a * m) = (q * j) * p
        BY <1>4
    <2>4. QED BY <2>1, <2>2, <2>3
<1>8. p % m = 0
    <2>1. SUFFICES ASSUME p % m # 0 PROVE FALSE
        OBVIOUS
    <2>2. p % m \in S
        <3>1. a - q * j \in Int /\ p % m \in Nat \ {0}
            BY <1>6, <2>1
        <3>2. QED BY <1>7, <3>1, SMTT(40)
    <2> HIDE DEF S
    <2>3. QED BY <1>2, <1>3, <1>6, <2>2
<1>9. m = 1
    <2>1. m \notin 2 .. p - 1
        BY <1>8, Zenon
    <2>2. QED BY <1>3, <2>1
<1>10. a = j * p
    BY <1>4, <1>9
<1>11. CASE j <= 0
    <2>1. j * p <= 0
        BY <1>11
    <2>2. QED BY <1>10, <2>1
<1>12. CASE j >= 1
    <2>1. j * p >= p
        BY <1>12
    <2>2. QED BY <1>10, <2>1
<1>13. QED BY <1>11, <1>12

\* Numbers with the same remainder differ by a multiple.
LEMMA SameRemainder ==
    ASSUME NEW x \in Int, NEW y \in Int, NEW p \in Nat, p > 0, x % p = y % p
    PROVE  \E k \in Int : x - y = k * p
<1>1. x = ((x \div p) * p) + (x % p) /\ y = ((y \div p) * p) + (y % p) /\ x \div p \in Int /\ y \div p \in Int
    OBVIOUS
<1>2. x - y = (x \div p - y \div p) * p
    BY <1>1
<1>3. x \div p - y \div p \in Int
    BY <1>1
<1>4. QED BY <1>2, <1>3

\* The size being prime, a path meets no bucket twice, whatever the hash.
LEMMA PathInjective ==
    ASSUME NEW n \in Names, NEW i \in Steps, NEW j \in Steps, i < j
    PROVE  path[n][i] # path[n][j]
<1> SUFFICES ASSUME path[n][i] = path[n][j] PROVE FALSE
    OBVIOUS
<1>1. /\ size \in Nat /\ size > 2 /\ hash[n] \in 1 .. size - 1
      /\ \A d \in 2 .. size - 1 : size % d # 0
    BY ConstantAssumption, Zenon DEF ConstantAssumption
<1>2. hval2[n] \in 1 .. size - 2
    <2>1. hash[n] % (size - 2) \in 0 .. size - 3
        BY <1>1, Remainder
    <2>2. QED BY <1>1, <2>1 DEF hval2
<1> DEFINE x == hash[n] - 1 - i * hval2[n]
           y == hash[n] - 1 - j * hval2[n]
<1>3. x \in Int /\ y \in Int /\ x - y = (j - i) * hval2[n]
    BY <1>1, <1>2 DEF Steps
<1>4. path[n][i] = 1 + (x % size) /\ path[n][j] = 1 + (y % size)
    BY DEF path
<1> HIDE DEF x, y
<1>5. x % size = y % size
    <2>1. x % size \in Int /\ y % size \in Int
        BY <1>1, <1>3, Remainder
    <2>2. \A u, v \in Int : 1 + u = 1 + v => u = v
        OBVIOUS
    <2>3. QED BY <1>4, <2>1, <2>2, Zenon
<1>6. PICK k \in Int : x - y = k * size
    BY <1>1, <1>3, <1>5, SameRemainder
<1>7. j - i \in 1 .. size - 1 /\ hval2[n] \in 1 .. size - 1 /\ size > 1
    BY <1>1, <1>2 DEF Steps
<1>8. (j - i) * hval2[n] # k * size
    BY <1>1, <1>7, Prime, Zenon
<1>9. QED BY <1>3, <1>6, <1>8

\* The buckets can be counted.
LEMMA IndexSize == IsFiniteSet(Index) /\ Cardinality(Index) = size
<1>1. size \in Nat /\ size > 2
    BY ConstantAssumption DEF ConstantAssumption
<1>2. IsFiniteSet(1 .. size) /\ Cardinality(1 .. size) = IF 1 > size THEN 0 ELSE size - 1 + 1
    BY <1>1, FS_Interval
<1>3. QED BY <1>1, <1>2 DEF Index

\* So it meets every bucket.
LEMMA PathCovers ==
    ASSUME NEW n \in Names, NEW idx \in Index
    PROVE  \E i \in Steps : path[n][i] = idx
<1>1. size \in Nat /\ size > 2
    BY ConstantAssumption DEF ConstantAssumption
<1>2. IsFiniteSet(Index) /\ Cardinality(Index) = size
    BY IndexSize
<1>3. IsFiniteSet(Steps) /\ Cardinality(Steps) = size
    <2>1. IsFiniteSet(0 .. size - 1)
          /\ Cardinality(0 .. size - 1) = IF 0 > size - 1 THEN 0 ELSE (size - 1) - 0 + 1
        BY <1>1, FS_Interval
    <2>2. QED BY <1>1, <2>1 DEF Steps
<1>4. path[n] \in [Steps -> Index]
    <2>1. path[n] = [i \in Steps |-> 1 + ((hash[n] - 1 - i * hval2[n]) % size)]
        BY DEF path
    <2>2. \A i \in Steps : path[n][i] \in Index
        BY PathFacts
    <2>3. QED BY <2>1, <2>2
<1>5. \A i, j \in Steps : path[n][i] = path[n][j] => i = j
    <2>1. SUFFICES ASSUME NEW i \in Steps, NEW j \in Steps, path[n][i] = path[n][j], i # j PROVE FALSE
        OBVIOUS
    <2>2. i < j \/ j < i
        BY <1>1, <2>1 DEF Steps
    <2>3. QED BY <2>1, <2>2, PathInjective
<1>6. path[n] \in Injection(Steps, Index)
    BY <1>4, <1>5 DEF Injection, IsInjective
<1>7. path[n] \in Surjection(Steps, Index)
    BY <1>2, <1>3, <1>6, FS_Injection
<1>8. QED BY <1>7, Zenon DEF Surjection

-----------------------------------------------------------------------------
(* The invariant of the table                                              *)

\* Every entry in use lies on the path of its name, and no bucket before it
\* on that path is free.
Reach == \A idx \in Index, n \in Names :
            Live(idx) /\ table[idx].key = n =>
                /\ table[idx].used = hash[n]
                /\ \E i \in Steps : path[n][i] = idx /\ Compared(n, i)

\* No name has two entries.
Unique == \A a, b \in Index : Live(a) /\ Live(b) /\ table[a].key = table[b].key => a = b

Searchable == table \in [Index -> ENTRY] /\ Reach /\ Unique

\* An entry in use has a name and a value.
LEMMA EntryFacts ==
    ASSUME table \in [Index -> ENTRY], NEW idx \in Index
    PROVE  /\ table[idx].used \in Int
           /\ Live(idx) => /\ table[idx].key \in Names
                           /\ table[idx].data \in Values
                           /\ table[idx].used \in 1 .. size - 1
                           /\ table[idx] = [used |-> table[idx].used, key |-> table[idx].key,
                                            data |-> table[idx].data]
<1>1. table[idx] \in ENTRY
    OBVIOUS
<1>2. QED BY <1>1, ConstantAssumption DEF ENTRY, FREE, DELETED, Live, ConstantAssumption

\* FIND returns the entry of the name, and 0 only if there is none.
LEMMA FindFacts ==
    ASSUME Searchable, NEW n \in Names
    PROVE  \/ Find(n) \in Index /\ Live(Find(n)) /\ table[Find(n)].key = n
           \/ Find(n) = 0 /\ \A idx \in Index : Live(idx) => table[idx].key # n
<1>1. hash[n] \in Nat /\ hash[n] > 0
    BY PathFacts, ConstantAssumption DEF ConstantAssumption
<1>2. CASE Hits(n) = {}
    <2>1. Find(n) = 0
        BY <1>2 DEF Find
    <2>2. ASSUME NEW idx \in Index, Live(idx), table[idx].key = n PROVE FALSE
        <3>1. PICK i \in Steps : path[n][i] = idx /\ Compared(n, i)
            BY <2>2 DEF Searchable, Reach
        <3>2. Holds(n, path[n][i])
            BY <2>2, <3>1 DEF Searchable, Reach, Holds
        <3>3. QED BY <1>2, <3>1, <3>2 DEF Hits
    <2>3. QED BY <2>1, <2>2
<1>3. CASE Hits(n) # {}
    <2>1. PICK i \in Hits(n) : TRUE
        BY <1>3
    <2>2. \A j \in Hits(n) : path[n][j] = path[n][i]
        <3>1. TAKE j \in Hits(n)
        <3>2. /\ path[n][i] \in Index /\ path[n][j] \in Index
              /\ Holds(n, path[n][i]) /\ Holds(n, path[n][j])
            BY PathFacts DEF Hits
        <3>3. /\ Live(path[n][i]) /\ Live(path[n][j])
              /\ table[path[n][i]].key = table[path[n][j]].key
            BY <1>1, <3>2 DEF Holds, Live
        <3>4. QED BY <3>2, <3>3 DEF Searchable, Unique
    <2>3. Hits(n) \subseteq Nat
        BY ConstantAssumption DEF Hits, Steps, ConstantAssumption
    <2>4. \E k \in Hits(n) : \A j \in Hits(n) : k <= j
        BY <1>3, <2>3, Least
    <2>5. Find(n) = path[n][i]
        BY <1>3, <2>2, <2>4 DEF Find
    <2>6. path[n][i] \in Index /\ Holds(n, path[n][i])
        BY PathFacts DEF Hits
    <2>7. QED BY <1>1, <2>5, <2>6 DEF Holds, Live
<1>4. QED BY <1>2, <1>3

\* A new entry goes to a bucket on the path of its name that the search has
\* looked at, and the bucket is not in use if the search met a free one.
LEMMA RoomFacts ==
    ASSUME Searchable, NEW n \in Names
    PROVE  /\ Room(n) \in Index
           /\ \E i \in Steps : path[n][i] = Room(n) /\ Compared(n, i)
           /\ Frees(n) # {} => ~ Live(Room(n))
<1>1. /\ hash[n] \in Index /\ 0 \in Steps /\ path[n][0] = hash[n]
      /\ \A i \in Steps : path[n][i] \in Index
    BY PathFacts
<1>2. Compared(n, 0)
    BY DEF Compared, Beyond
<1>3. CASE table[hash[n]].used = -1 \/ Frees(n) = {}
    <2>1. Room(n) = hash[n]
        BY <1>3 DEF Room
    <2>2. QED BY <1>1, <1>2, <1>3, <2>1 DEF Live
<1>4. CASE ~ (table[hash[n]].used = -1 \/ Frees(n) = {})
    <2>1. PICK i \in Frees(n) : Room(n) = path[n][i]
        BY <1>4, Zenon DEF Room
    <2>2. i \in Steps /\ Compared(n, i) /\ table[path[n][i]].used = 0
        BY DEF Frees
    <2>3. ~ (0 > 0)
        OBVIOUS
    <2>4. QED BY <1>1, <2>1, <2>2, <2>3 DEF Live
<1>5. QED BY <1>3, <1>4

-----------------------------------------------------------------------------
(* How the table changes                                                   *)

\* hsearch_r with ENTER finds the name, and its value changes
Replaces(n, v) == /\ Find(n) # 0
                  /\ table' = [table EXCEPT ![Find(n)].data = v]

\* it does not, and an entry is made
Makes(n, v) == /\ Find(n) = 0
               /\ table' = [table EXCEPT ![Room(n)] = [used |-> hash[n], key |-> n, data |-> v]]

\* a bucket is marked as deleted
Marks(b) == table' = [table EXCEPT ![b] = DELETED]

\* A path is not cut as long as no bucket becomes free.
LEMMA PathsKept ==
    ASSUME \A idx \in Index : table[idx].used # 0 => table'[idx].used # 0,
           NEW n \in Names, NEW i \in Steps, Compared(n, i)
    PROVE  Compared(n, i)'
<1>1. \A j \in 0 .. i - 1 : j \in Steps
    BY ConstantAssumption DEF Steps, ConstantAssumption
<1>2. \A j \in 0 .. i - 1 : path[n][j] \in Index
    BY <1>1, PathFacts
<1>3. QED BY <1>2 DEF Compared, Beyond

\* A new value keeps the table searchable.
LEMMA ReplacesKeeps ==
    ASSUME Searchable, NEW n \in Names, NEW v \in Values, Replaces(n, v)
    PROVE  Searchable'
<1>1. Find(n) \in Index /\ Live(Find(n)) /\ table[Find(n)].key = n
    BY FindFacts DEF Replaces
<1>2. table[Find(n)] = [used |-> table[Find(n)].used, key |-> n, data |-> table[Find(n)].data]
      /\ table[Find(n)].used \in 1 .. size - 1
    BY <1>1, EntryFacts DEF Searchable
<1>3. table'[Find(n)] = [used |-> table[Find(n)].used, key |-> n, data |-> v]
    BY <1>1, <1>2 DEF Replaces, Searchable
<1>4. table' \in [Index -> ENTRY]
    BY <1>1, <1>2, <1>3 DEF Replaces, Searchable, ENTRY
<1>5. \A idx \in Index : table'[idx].used = table[idx].used /\ table'[idx].key = table[idx].key
    <2>1. TAKE idx \in Index
    <2>2. CASE idx = Find(n)
        BY <1>1, <1>3, <2>2
    <2>3. CASE idx # Find(n)
        BY <1>1, <2>3 DEF Replaces, Searchable
    <2>4. QED BY <2>2, <2>3
<1>6. Unique'
    BY <1>5 DEF Searchable, Unique, Live
<1>7. Reach'
    <2>1. SUFFICES ASSUME NEW idx \in Index, NEW m \in Names, Live(idx)', table'[idx].key = m
                   PROVE  /\ table'[idx].used = hash[m]
                          /\ \E i \in Steps : path[m][i] = idx /\ Compared(m, i)'
        BY DEF Reach
    <2>2. Live(idx) /\ table[idx].key = m
        BY <1>5, <2>1 DEF Live
    <2>3. QED BY <1>5, <2>2, PathsKept DEF Searchable, Reach
<1>8. QED BY <1>4, <1>6, <1>7 DEF Searchable

\* A new entry keeps the table searchable, whatever was in its bucket.
LEMMA MakesKeeps ==
    ASSUME Searchable, NEW n \in Names, NEW v \in Values, Makes(n, v)
    PROVE  Searchable'
<1> DEFINE b == Room(n)
<1>1. b \in Index /\ \E i \in Steps : path[n][i] = b /\ Compared(n, i)
    BY RoomFacts
<1>2. hash[n] \in 1 .. size - 1 /\ hash[n] > 0 /\ hash[n] # 0
    BY PathFacts, ConstantAssumption DEF ConstantAssumption
<1>3. Find(n) = 0 /\ \A idx \in Index : Live(idx) => table[idx].key # n
    <2>1. 0 \notin Index
        BY DEF Index
    <2>2. QED BY <2>1, FindFacts DEF Makes
<1> HIDE DEF b
<1>4. table' = [table EXCEPT ![b] = [used |-> hash[n], key |-> n, data |-> v]]
    BY DEF Makes, b
<1>5. /\ table'[b] = [used |-> hash[n], key |-> n, data |-> v]
      /\ \A idx \in Index : idx # b => table'[idx] = table[idx]
    BY <1>1, <1>4 DEF Searchable
<1>6. table' \in [Index -> ENTRY]
    BY <1>2, <1>4, <1>5, Zenon DEF Searchable, ENTRY
<1>7. \A idx \in Index : table[idx].used # 0 => table'[idx].used # 0
    BY <1>2, <1>5
<1>8. Unique'
    <2>1. SUFFICES ASSUME NEW x \in Index, NEW y \in Index, Live(x)', Live(y)',
                          table'[x].key = table'[y].key
                   PROVE  x = y
        BY DEF Unique
    <2>2. CASE x # b /\ y # b
        BY <1>5, <2>1, <2>2 DEF Searchable, Unique, Live
    <2>3. CASE x = b \/ y = b
        BY <1>3, <1>5, <2>1, <2>3 DEF Live
    <2>4. QED BY <2>2, <2>3
<1>9. Reach'
    <2>1. SUFFICES ASSUME NEW idx \in Index, NEW m \in Names, Live(idx)', table'[idx].key = m
                   PROVE  /\ table'[idx].used = hash[m]
                          /\ \E i \in Steps : path[m][i] = idx /\ Compared(m, i)'
        BY DEF Reach
    <2>2. CASE idx = b
        BY <1>1, <1>5, <1>7, <2>1, <2>2, PathsKept
    <2>3. CASE idx # b
        <3>1. Live(idx) /\ table[idx].key = m
            BY <1>5, <2>1, <2>3 DEF Live
        <3>2. QED BY <1>5, <1>7, <2>3, <3>1, PathsKept DEF Searchable, Reach
    <2>4. QED BY <2>2, <2>3
<1>10. QED BY <1>6, <1>8, <1>9 DEF Searchable

\* So does a mark, whatever was in its bucket.
LEMMA MarksKeeps ==
    ASSUME Searchable, NEW b \in Index, Marks(b)
    PROVE  Searchable'
<1>1. /\ table'[b] = DELETED
      /\ \A idx \in Index : idx # b => table'[idx] = table[idx]
    BY DEF Searchable, Marks
<1>2. table' \in [Index -> ENTRY]
    BY DEF Searchable, Marks, ENTRY
<1>3. table'[b].used # 0 /\ ~ (table'[b].used > 0)
    BY <1>1 DEF DELETED
<1>4. \A idx \in Index : Live(idx)' => idx # b /\ Live(idx)
    BY <1>1, <1>3 DEF Live
<1>5. Unique'
    BY <1>1, <1>4 DEF Searchable, Unique
<1>6. Reach'
    <2>1. SUFFICES ASSUME NEW idx \in Index, NEW m \in Names, Live(idx)', table'[idx].key = m
                   PROVE  /\ table'[idx].used = hash[m]
                          /\ \E i \in Steps : path[m][i] = idx /\ Compared(m, i)'
        BY DEF Reach
    <2>2. Live(idx) /\ table[idx].key = m /\ idx # b
        BY <1>1, <1>4, <2>1
    <2>3. \A x \in Index : table[x].used # 0 => table'[x].used # 0
        BY <1>1, <1>3
    <2>4. QED BY <1>1, <2>2, <2>3, PathsKept DEF Searchable, Reach
<1>7. QED BY <1>2, <1>5, <1>6 DEF Searchable

\* A new table is searchable.
LEMMA CreateKeeps == ASSUME hcreate_r PROVE Searchable'
<1>1. table' \in [Index -> ENTRY] /\ \A idx \in Index : ~ Live(idx)'
    BY DEF hcreate_r, ENTRY, FREE, Live
<1>2. QED BY <1>1 DEF Searchable, Reach, Unique

\* hsearch_r with ENTER keeps the table searchable.
LEMMA EnterKeeps ==
    ASSUME Searchable, NEW n \in Names, NEW v \in Values, Enter(n, v)
    PROVE  Searchable'
<1>1. CASE table' = table
    <2>1. \A m \in Names, i \in Steps : Compared(m, i)' <=> Compared(m, i)
        BY <1>1 DEF Compared, Beyond
    <2>2. QED BY <1>1, <2>1 DEF Searchable, Reach, Unique, Live
<1>2. CASE Replaces(n, v)
    BY <1>2, ReplacesKeeps
<1>3. CASE Makes(n, v)
    BY <1>3, MakesKeeps
<1>4. CASE Marks(Room(n))
    BY <1>4, RoomFacts, MarksKeeps
<1>5. QED BY <1>1, <1>2, <1>3, <1>4 DEF Enter, Replaces, Makes, Marks, tableVars

\* So does hdelete_r.
LEMMA DeleteKeeps ==
    ASSUME Searchable, NEW n \in Names, hdelete_r(n)
    PROVE  Searchable'
<1>1. CASE table' = table
    <2>1. \A m \in Names, i \in Steps : Compared(m, i)' <=> Compared(m, i)
        BY <1>1 DEF Compared, Beyond
    <2>2. QED BY <1>1, <2>1 DEF Searchable, Reach, Unique, Live
<1>2. CASE Find(n) # 0 /\ Marks(Find(n))
    BY <1>2, FindFacts, MarksKeeps
<1>3. QED BY <1>1, <1>2 DEF hdelete_r, Marks

-----------------------------------------------------------------------------
(* Every behaviour                                                         *)

\* The inductive invariant: types, a searchable table, and an import that
\* has only entries with a value to make.
IInv == /\ TypeOK
        /\ Searchable
        /\ \A n \in todo : source[n] # None

\* The invariant holds at first.
LEMMA InitIInv == Init => IInv
<1> SUFFICES ASSUME Init PROVE IInv
    OBVIOUS
<1>2. table \in [Index -> ENTRY] /\ \A idx \in Index : ~ Live(idx)
    BY DEF Init, ENTRY, FREE, Live
<1>3. Searchable
    BY <1>2 DEF Searchable, Reach, Unique
<1>4. Nothing \in Images /\ 1 \in 1 .. Blocks
    BY ConstantAssumption DEF Nothing, Images, ConstantAssumption
<1>5. QED BY <1>2, <1>3, <1>4 DEF Init, IInv, TypeOK

\* What hexport_r exports is an environment.
LEMMA ExportFacts ==
    ASSUME Searchable
    PROVE  hexport_r \in Images
<1> DEFINE pick(n) == CHOOSE idx \in Index : table[idx].used > 0 /\ table[idx].key = n
<1>1. ASSUME NEW n \in Names, \E idx \in Index : table[idx].used > 0 /\ table[idx].key = n
      PROVE  table[pick(n)].data \in Values
    <2>1. pick(n) \in Index /\ table[pick(n)].used > 0
        BY <1>1
    <2>2. QED BY <2>1, EntryFacts DEF Searchable, Live
<1>2. QED BY <1>1 DEF hexport_r, Images

\* Every step keeps the invariant.
LEMMA NextIInv == IInv /\ [Next]_vars => IInv'
<1> SUFFICES ASSUME IInv, [Next]_vars PROVE IInv'
    OBVIOUS
<1> USE DEF IInv
<1>2. Nothing \in Images /\ 1 \in 1 .. Blocks /\ Default \in Images /\ Blocks \in Nat
    BY ConstantAssumption DEF Nothing, Images, ConstantAssumption
<1>3. ASSUME NEW n \in Names, NEW v \in Values, Set(n, v) PROVE IInv'
    <2>1. Searchable'
        BY <1>3, EnterKeeps DEF Set
    <2>2. filled' \in Int /\ entered' \in Nat
        BY <1>3 DEF Set, Enter, TypeOK, tableVars
    <2>3. QED BY <1>3, <2>1, <2>2 DEF Set, TypeOK, Searchable, importVars, saveVars, cardVars
<1>4. ASSUME NEW n \in Names, Delete(n) PROVE IInv'
    <2>1. Searchable'
        BY <1>4, DeleteKeeps DEF Delete
    <2>2. filled' \in Int /\ entered' \in Nat
        BY <1>4 DEF Delete, hdelete_r, TypeOK
    <2>3. QED BY <1>4, <2>1, <2>2 DEF Delete, TypeOK, Searchable, importVars, saveVars, cardVars
<1>5. ASSUME NEW n \in Names, set_default_vars(n) PROVE IInv'
    <2>1. Searchable'
        <3>1. Default[n] # None => Default[n] \in Values
            BY <1>2 DEF Images
        <3>2. QED BY <1>5, <3>1, EnterKeeps, DeleteKeeps DEF set_default_vars
    <2>2. filled' \in Int /\ entered' \in Nat
        BY <1>5 DEF set_default_vars, hdelete_r, Enter, TypeOK, tableVars
    <2>3. QED BY <1>5, <2>1, <2>2 DEF set_default_vars, TypeOK, Searchable, importVars, saveVars, cardVars
<1>6. ASSUME NEW env \in Images, Import(env) PROVE IInv'
    <2>1. Searchable' /\ filled' \in Int /\ entered' \in Nat
        BY <1>6, CreateKeeps DEF Import, hcreate_r
    <2>2. QED BY <1>6, <2>1 DEF Import, TypeOK, Searchable, saveVars, cardVars
<1>7. CASE ImportEntry
    <2>1. PICK n \in todo : Enter(n, source[n]) /\ todo' = todo \ {n}
        BY <1>7 DEF ImportEntry
    <2>2. n \in Names /\ source[n] \in Values
        BY <2>1 DEF TypeOK, Images
    <2>3. Searchable'
        BY <2>1, <2>2, EnterKeeps
    <2>4. filled' \in Int /\ entered' \in Nat
        BY <2>1 DEF Enter, TypeOK, tableVars
    <2>5. QED BY <1>7, <2>1, <2>3, <2>4 DEF ImportEntry, TypeOK, Searchable, saveVars, cardVars
<1>8. ASSUME UNCHANGED table PROVE Searchable'
    <2>1. \A m \in Names, i \in Steps : Compared(m, i)' <=> Compared(m, i)
        BY <1>8 DEF Compared, Beyond
    <2>2. QED BY <1>8, <2>1 DEF Searchable, Reach, Unique, Live
<1>9. CASE Imported
    <2>1. Searchable'
        BY <1>8, <1>9 DEF Imported, tableVars
    <2>2. QED BY <1>2, <1>9, <2>1 DEF Imported, NoImport, TypeOK, tableVars, saveVars, cardVars
<1>10. CASE saveenv
    <2>1. Searchable'
        BY <1>8, <1>10 DEF saveenv, tableVars
    <2>2. QED BY <1>2, <1>10, <2>1, ExportFacts DEF saveenv, TypeOK, tableVars, importVars, cardVars
<1>11. CASE WriteBlock
    <2>1. Searchable'
        BY <1>8, <1>11 DEF WriteBlock, tableVars
    <2>2. data' \in Images /\ crc' \in Images /\ torn' \subseteq 1 .. Blocks
        BY <1>11 DEF WriteBlock, TypeOK, Images
    <2>3. blk' \in 1 .. Blocks /\ image' \in Images /\ pc' \in {"off", "import", "ready", "save"}
        BY <1>2, <1>11 DEF WriteBlock, NoSave, TypeOK
    <2>4. QED BY <1>11, <2>1, <2>2, <2>3 DEF WriteBlock, TypeOK, tableVars, importVars
<1>12. CASE WriteFails
    <2>1. Searchable'
        BY <1>8, <1>12 DEF WriteFails, tableVars
    <2>2. QED BY <1>2, <1>12, <2>1 DEF WriteFails, NoSave, TypeOK, tableVars, importVars
<1>13. CASE PowerFails
    <2>1. Searchable' /\ filled' \in Int /\ entered' \in Nat
        BY <1>13, CreateKeeps DEF PowerFails, hcreate_r
    <2>2. torn' \subseteq 1 .. Blocks
        BY <1>13 DEF PowerFails, TypeOK
    <2>3. QED BY <1>2, <1>13, <2>1, <2>2 DEF PowerFails, NoImport, NoSave, TypeOK, Searchable
<1>14. CASE UNCHANGED vars
    <2>1. Searchable'
        BY <1>8, <1>14 DEF vars, tableVars
    <2>2. QED BY <1>14, <2>1 DEF vars, tableVars, importVars, saveVars, cardVars, TypeOK
<1>15. CASE set_default_env
    BY <1>2, <1>6, <1>15 DEF set_default_env
<1>16. CASE env_relocate
    <2>1. data \in Images
        BY DEF TypeOK
    <2>2. QED BY <1>2, <1>6, <1>16, <2>1 DEF env_relocate
<1>17. QED BY <1>3, <1>4, <1>5, <1>7, <1>9, <1>10, <1>11, <1>12, <1>13, <1>14, <1>15, <1>16 DEF Next

\* Whatever is set, deleted, refused, imported, saved or lost with the power,
\* the search for the name of an entry in use finds that entry.
THEOREM EntriesAreFound == Spec => []Findable
<1>1. IInv => Findable
    <2> SUFFICES ASSUME IInv, NEW idx \in Index, Live(idx)
                 PROVE  Find(table[idx].key) = idx
        BY DEF Findable, Live
    <2>1. table[idx].key \in Names
        BY EntryFacts DEF IInv, Searchable
    <2>2. /\ Find(table[idx].key) \in Index
          /\ Live(Find(table[idx].key))
          /\ table[Find(table[idx].key)].key = table[idx].key
        BY <2>1, FindFacts DEF IInv
    <2>3. QED BY <2>2 DEF IInv, Searchable, Unique
<1>2. QED BY <1>1, InitIInv, NextIInv, PTL DEF Spec

\* The variables keep their types in every step.
THEOREM TypeCorrect == Spec => []TypeOK
<1>1. IInv => TypeOK
    BY DEF IInv
<1>2. QED BY <1>1, InitIInv, NextIInv, PTL DEF Spec

-----------------------------------------------------------------------------
(* What a change of the table means for getenv, while there is room        *)

\* getenv returns the value of the name's entry, or none.
Gets(n) == /\ \A idx \in Index : Live(idx) /\ table[idx].key = n => getenv(n) = table[idx].data
           /\ (\A idx \in Index : Live(idx) => table[idx].key # n) => getenv(n) = None

\* In a searchable table getenv returns the value of the entry in use, if there is one.
LEMMA GetFacts == Searchable => \A n \in Names : Gets(n)
<1> SUFFICES ASSUME Searchable, NEW n \in Names PROVE Gets(n)
    OBVIOUS
<1>1. 0 \notin Index
    BY DEF Index
<1>2. QED BY <1>1, FindFacts DEF Gets, getenv, Searchable, Unique

\* The same after a step.
LEMMA GetFactsNext == Searchable' => \A n \in Names : Gets(n)'
<1>1. Searchable' => (\A n \in Names : Gets(n))'
    BY GetFacts, PTL
<1>2. QED BY <1>1

\* There is an entry of the name, or a bucket for one.
Fits(n) == Find(n) # 0 \/ (Frees(n) # {} /\ filled # size)

\* An entry that is made or replaced while there is a bucket for it changes the
\* value of its own name only.
LEMMA EnterGets ==
    ASSUME Searchable, NEW n \in Names, NEW v \in Values, Enter(n, v), Fits(n)
    PROVE  /\ \A m \in Names \ {n} : getenv(m)' = getenv(m)
           /\ getenv(n)' = IF <<n, v>> \in Refused THEN getenv(n) ELSE v
<1>1. Searchable'
    BY EnterKeeps
<1>2. /\ \A m \in Names : Gets(m) /\ Gets(m)'
    BY <1>1, GetFacts, GetFactsNext
<1>3. Room(n) \in Index /\ (Find(n) = 0 => ~ Live(Room(n)))
    BY RoomFacts DEF Fits
<1>4. hash[n] > 0
    BY PathFacts, ConstantAssumption DEF ConstantAssumption
<1>5. CASE table' = table /\ Find(n) # 0 /\ <<n, v>> \in Refused
    <2>1. \A m \in Names : getenv(m)' = getenv(m)
        BY <1>2, <1>5 DEF Gets, Live
    <2>2. QED BY <1>5, <2>1
<1>6. CASE Replaces(n, v) /\ <<n, v>> \notin Refused
    <2>1. Find(n) \in Index /\ Live(Find(n)) /\ table[Find(n)].key = n
        BY <1>6, FindFacts DEF Replaces
    <2>2. table[Find(n)] = [used |-> table[Find(n)].used, key |-> n, data |-> table[Find(n)].data]
        BY <2>1, EntryFacts DEF Searchable
    <2>3. /\ table'[Find(n)] = [used |-> table[Find(n)].used, key |-> n, data |-> v]
          /\ \A idx \in Index : idx # Find(n) => table'[idx] = table[idx]
        BY <1>6, <2>1, <2>2 DEF Replaces, Searchable
    <2>4. getenv(n)' = v
        BY <1>2, <2>1, <2>3 DEF Gets, Live
    <2>5. \A m \in Names \ {n} : getenv(m)' = getenv(m)
        BY <1>2, <2>1, <2>3 DEF Gets, Live
    <2>6. QED BY <1>6, <2>4, <2>5
<1>7. CASE Makes(n, v) /\ <<n, v>> \notin Refused
    <2>1. /\ table'[Room(n)] = [used |-> hash[n], key |-> n, data |-> v]
          /\ \A idx \in Index : idx # Room(n) => table'[idx] = table[idx]
        BY <1>3, <1>7, SMTT(40) DEF Makes, Searchable
    <2>2. ~ Live(Room(n))
        BY <1>3, <1>7 DEF Makes
    <2>3. getenv(n)' = v
        BY <1>2, <1>3, <1>4, <2>1, SMTT(40) DEF Gets, Live
    <2>4. \A m \in Names \ {n} : getenv(m)' = getenv(m)
        BY <1>2, <1>3, <2>1, <2>2 DEF Gets, Live
    <2>5. QED BY <1>7, <2>3, <2>4
<1>8. CASE Marks(Room(n)) /\ Find(n) = 0 /\ <<n, v>> \in Refused
    <2>1. /\ table'[Room(n)] = DELETED
          /\ \A idx \in Index : idx # Room(n) => table'[idx] = table[idx]
        BY <1>3, <1>8 DEF Marks, Searchable
    <2>2. ~ (table'[Room(n)].used > 0)
        BY <2>1, SMTT(40) DEF DELETED
    <2>3. ~ Live(Room(n))
        BY <1>3, <1>8
    <2>4. \A m \in Names : getenv(m)' = getenv(m)
        BY <1>2, <1>3, <2>1, <2>2, <2>3 DEF Gets, Live
    <2>5. QED BY <1>8, <2>4
<1>9. Find(n) = 0 => filled # size
    BY DEF Fits
<1>10. QED BY <1>5, <1>6, <1>7, <1>8, <1>9 DEF Enter, Replaces, Makes, Marks, tableVars

\* An entry that is refused for want of room changes none.
LEMMA EnterFull ==
    ASSUME NEW n \in Names, NEW v, Enter(n, v), Find(n) = 0, filled = size
    PROVE  table' = table /\ filled' = filled
BY DEF Enter, tableVars

\* A deletion changes the value of its own name only.
LEMMA DeleteGets ==
    ASSUME Searchable, NEW n \in Names, hdelete_r(n)
    PROVE  /\ \A m \in Names \ {n} : getenv(m)' = getenv(m)
           /\ getenv(n)' \in {getenv(n), None}
<1>1. \A m \in Names : Gets(m) /\ Gets(m)'
    BY DeleteKeeps, GetFacts, GetFactsNext
<1>2. CASE table' = table
    BY <1>1, <1>2 DEF Gets, Live
<1>3. CASE Find(n) # 0 /\ Marks(Find(n))
    <2>1. Find(n) \in Index /\ Live(Find(n)) /\ table[Find(n)].key = n
        BY <1>3, FindFacts
    <2>2. /\ table'[Find(n)] = DELETED
          /\ \A idx \in Index : idx # Find(n) => table'[idx] = table[idx]
        BY <1>3, <2>1 DEF Marks, Searchable
    <2>3. ~ (table'[Find(n)].used > 0)
        BY <2>2 DEF DELETED
    <2>4. \A idx \in Index : Live(idx)' => table'[idx].key # n
        BY <2>1, <2>2, <2>3 DEF Live, Searchable, Unique
    <2>5. getenv(n)' = None
        BY <1>1, <2>4 DEF Gets
    <2>6. \A m \in Names \ {n} : getenv(m)' = getenv(m)
        BY <1>1, <2>1, <2>2, <2>3 DEF Gets, Live
    <2>7. QED BY <2>5, <2>6
<1>4. QED BY <1>2, <1>3 DEF hdelete_r, Marks

-----------------------------------------------------------------------------
(* The counter of the entries in use                                       *)

InUse == {idx \in Index : table[idx].used > 0}

\* The entries in use can be counted; while a search meets a free bucket
\* there are fewer than buckets.
LEMMA InUseFacts ==
    /\ IsFiniteSet(InUse) /\ Cardinality(InUse) \in Nat
    /\ \A n \in Names : Frees(n) # {} => Cardinality(InUse) # size
<1>1. /\ IsFiniteSet(Index) /\ Cardinality(Index) = size
    BY IndexSize
<1>2. InUse \in SUBSET Index
    BY DEF InUse
<1>3. IsFiniteSet(InUse) /\ Cardinality(InUse) \in Nat /\ (Cardinality(Index) = Cardinality(InUse) => Index = InUse)
    BY <1>1, <1>2, FS_Subset, FS_CardinalityType
<1>4. ASSUME NEW n \in Names, Frees(n) # {} PROVE Index # InUse
    <2>1. PICK i \in Steps : table[path[n][i]].used = 0
        BY <1>4 DEF Frees
    <2>2. path[n][i] \in Index
        BY PathFacts
    <2>3. path[n][i] \notin InUse
        BY <2>1 DEF InUse
    <2>4. QED BY <2>2, <2>3
<1>5. QED BY <1>1, <1>3, <1>4

\* htab->filled follows the entries hsearch_r makes, while there is room.
LEMMA EnterCounts ==
    ASSUME Searchable, NEW n \in Names, NEW v \in Values, Enter(n, v), Fits(n), FilledCounts
    PROVE  FilledCounts'
<1> USE InUseFacts
<1>1. /\ Room(n) \in Index /\ hash[n] > 0
      /\ Find(n) = 0 => ~ Live(Room(n)) /\ filled # size
    BY RoomFacts, PathFacts, ConstantAssumption DEF Fits, ConstantAssumption
<1>2. ASSUME table' = table, filled' = filled PROVE FilledCounts'
    BY <1>2 DEF FilledCounts
<1>3. ASSUME Replaces(n, v), filled' = filled PROVE FilledCounts'
    <2>1. Find(n) \in Index
        BY <1>3, FindFacts DEF Replaces
    <2>2. table[Find(n)] = [used |-> table[Find(n)].used, key |-> table[Find(n)].key, data |-> table[Find(n)].data]
        BY <1>3, FindFacts, EntryFacts DEF Searchable, Replaces
    <2>3. \A idx \in Index : table'[idx].used = table[idx].used
        BY <1>3, <2>1, <2>2 DEF Replaces, Searchable
    <2>4. InUse' = InUse
        BY <2>3 DEF InUse
    <2>5. QED BY <1>3, <2>4, Zenon DEF FilledCounts, InUse
<1>4. ASSUME Makes(n, v), Find(n) = 0, filled' = filled + 1 PROVE FilledCounts'
    <2>1. /\ table'[Room(n)].used = hash[n]
          /\ \A idx \in Index : idx # Room(n) => table'[idx] = table[idx]
        BY <1>1, <1>4, SMTT(40) DEF Makes, Searchable
    <2>2. InUse' = InUse \cup {Room(n)} /\ Room(n) \notin InUse
        BY <1>1, <1>4, <2>1 DEF InUse, Live
    <2>3. Cardinality(InUse') = Cardinality(InUse) + 1
        BY <2>2, FS_AddElement, Zenon
    <2>4. QED BY <1>4, <2>3 DEF FilledCounts, InUse
<1>5. ASSUME Marks(Room(n)), Find(n) = 0, filled' = filled PROVE FilledCounts'
    <2>1. /\ table'[Room(n)] = DELETED
          /\ \A idx \in Index : idx # Room(n) => table'[idx] = table[idx]
        BY <1>1, <1>5 DEF Marks, Searchable
    <2>2. InUse' = InUse
        BY <1>1, <1>5, <2>1 DEF InUse, Live, DELETED
    <2>3. QED BY <1>5, <2>2, Zenon DEF FilledCounts, InUse
<1>6. QED BY <1>1, <1>2, <1>3, <1>4, <1>5 DEF Enter, Replaces, Makes, Marks, tableVars

\* It follows the entries hdelete_r removes.
LEMMA DeleteCounts ==
    ASSUME Searchable, NEW n \in Names, hdelete_r(n), FilledCounts
    PROVE  FilledCounts'
<1> USE InUseFacts
<1>1. ASSUME table' = table, filled' = filled PROVE FilledCounts'
    BY <1>1 DEF FilledCounts
<1>2. ASSUME Find(n) # 0, Marks(Find(n)), filled' = filled - 1 PROVE FilledCounts'
    <2>1. Find(n) \in Index /\ Live(Find(n))
        BY <1>2, FindFacts
    <2>2. /\ table'[Find(n)] = DELETED
          /\ \A idx \in Index : idx # Find(n) => table'[idx] = table[idx]
        BY <1>2, <2>1, SMTT(40) DEF Marks, Searchable
    <2>3. InUse' = InUse \ {Find(n)} /\ Find(n) \in InUse
        BY <2>1, <2>2 DEF InUse, Live, DELETED
    <2>4. Cardinality(InUse') = Cardinality(InUse) - 1
        BY <2>3, FS_RemoveElement, Zenon
    <2>5. QED BY <1>2, <2>4 DEF FilledCounts, InUse
<1>3. QED BY <1>1, <1>2 DEF hdelete_r, Marks

\* A new table has no entry.
LEMMA CreateCounts == ASSUME hcreate_r PROVE FilledCounts'
<1>1. InUse' = {}
    BY DEF hcreate_r, InUse, FREE
<1>2. QED BY <1>1, FS_EmptySet DEF hcreate_r, FilledCounts, InUse

-----------------------------------------------------------------------------
(* The environment implements NameStore while there is room                *)

Accepted(env) == \A n \in Names : env[n] # None => <<n, env[n]>> \notin Refused

\* The invariant of the refinement: only accepted values are in use, being
\* saved or saved; an import has come as far as todo says; and the image that
\* is being written is of the variables as they are.
RInv == /\ IInv
        /\ FilledCounts
        /\ \A n \in Names : getenv(n) # None => <<n, getenv(n)>> \notin Refused
        /\ Accepted(image)
        /\ Accepted(crc)
        /\ pc = "import" =>
              /\ source = Default \/ (Valid /\ source = data)
              /\ \A n \in Names : getenv(n) = IF n \in todo THEN None ELSE source[n]
        /\ pc = "save" =>
              /\ \A n \in Names : image[n] = getenv(n)
              /\ blk > 1 => crc = image

\* A table without entries has no variables.
LEMMA EmptyGets == Searchable /\ (\A idx \in Index : ~ Live(idx)) => \A n \in Names : getenv(n) = None
BY GetFacts DEF Gets

\* Neither has a new one.
LEMMA CreateGets == ASSUME hcreate_r PROVE \A n \in Names : getenv(n)' = None
<1>1. Searchable' /\ \A idx \in Index : ~ Live(idx)'
    BY CreateKeeps DEF hcreate_r, FREE, Live
<1>2. \A n \in Names : Gets(n)'
    BY <1>1, GetFactsNext
<1>3. QED BY <1>1, <1>2 DEF Gets

\* The variables stay as they are if the table does.
LEMMA SameGets == ASSUME Searchable, table' = table
                  PROVE  Searchable' /\ \A n \in Names : getenv(n)' = getenv(n)
<1>1. \A m \in Names, i \in Steps : Compared(m, i)' <=> Compared(m, i)
    BY DEF Compared, Beyond
<1>2. Searchable'
    BY <1>1 DEF Searchable, Reach, Unique, Live
<1>3. \A n \in Names : Gets(n) /\ Gets(n)'
    BY <1>2, GetFacts, GetFactsNext
<1>4. QED BY <1>2, <1>3 DEF Gets, Live

\* hexport_r exports what getenv returns.
LEMMA ExportGets == ASSUME Searchable, NEW n \in Names
                    PROVE  hexport_r[n] = getenv(n)
<1>1. Gets(n)
    BY GetFacts
<1> DEFINE pick == CHOOSE idx \in Index : table[idx].used > 0 /\ table[idx].key = n
<1>2. CASE \E idx \in Index : table[idx].used > 0 /\ table[idx].key = n
    <2>1. pick \in Index /\ table[pick].used > 0 /\ table[pick].key = n
        BY <1>2
    <2>2. hexport_r[n] = table[pick].data
        BY <1>2 DEF hexport_r
    <2>3. QED BY <1>1, <2>1, <2>2 DEF Gets, Live
<1>3. CASE ~ \E idx \in Index : table[idx].used > 0 /\ table[idx].key = n
    BY <1>1, <1>3 DEF hexport_r, Gets, Live
<1>4. QED BY <1>2, <1>3

\* The invariant of the refinement holds at first.
LEMMA InitRInv == Init => RInv
<1> SUFFICES ASSUME Init PROVE RInv
    OBVIOUS
<1>1. IInv
    BY InitIInv
<1>2. \A idx \in Index : ~ Live(idx)
    BY DEF Init, FREE, Live
<1>3. \A n \in Names : getenv(n) = None
    BY <1>1, <1>2, EmptyGets DEF IInv
<1>4. FilledCounts
    <2>1. InUse = {}
        BY <1>2 DEF InUse, Live
    <2>2. QED BY <2>1, FS_EmptySet DEF Init, FilledCounts, InUse
<1>5. Accepted(Nothing)
    BY SMTT(40) DEF Accepted, Nothing
<1>6. QED BY <1>1, <1>3, <1>4, <1>5 DEF Init, RInv

\* A command that changes one variable keeps the invariant.
LEMMA CommandRInv ==
    ASSUME RInv, IInv', FilledCounts', NEW n \in Names,
           pc = "ready", pc' = "ready", UNCHANGED <<saveVars, cardVars>>,
           \A m \in Names \ {n} : getenv(m)' = getenv(m),
           getenv(n)' # None => <<n, getenv(n)'>> \notin Refused
    PROVE  RInv'
<1>1. \A m \in Names : getenv(m)' # None => <<m, getenv(m)'>> \notin Refused
    <2>1. TAKE m \in Names
    <2>2. CASE m = n
        BY <2>2
    <2>3. CASE m # n
        BY <2>3, SMTT(40) DEF RInv
    <2>4. QED BY <2>2, <2>3
<1>2. Accepted(image)' /\ Accepted(crc)'
    BY DEF RInv, Accepted, saveVars, cardVars
<1>3. QED BY <1>1, <1>2 DEF RInv

\* Every entry that an import makes has a bucket, and so has every entry that
\* a command makes, unless hsearch_r refuses it for want of room.
Spared ==
    \A n \in Names :
        /\ pc = "import" /\ n \in todo => Fits(n)
        /\ pc = "ready" /\ entered < MaxEnters => Fits(n) \/ filled = size

\* Then a command that makes an entry changes the value of its own name only.
LEMMA CommandGets ==
    ASSUME Searchable, FilledCounts, Spared, NEW n \in Names, NEW v \in Values, Enter(n, v), pc = "ready",
           Find(n) # 0 \/ filled = size \/ entered < MaxEnters
    PROVE  /\ FilledCounts'
           /\ \A m \in Names \ {n} : getenv(m)' = getenv(m)
           /\ getenv(n)' = getenv(n) \/ (getenv(n)' = v /\ <<n, v>> \notin Refused)
<1>1. CASE Fits(n)
    BY <1>1, EnterCounts, EnterGets
<1>2. CASE Find(n) = 0 /\ filled = size
    <2>1. table' = table /\ filled' = filled
        BY <1>2, EnterFull
    <2>2. QED BY <2>1, SameGets DEF FilledCounts
<1>3. QED BY <1>1, <1>2 DEF Spared, Fits

\* Every step keeps it, as long as there are buckets.
LEMMA NextRInv == RInv /\ Spared /\ [Next]_vars => RInv'
<1> SUFFICES ASSUME RInv, Spared, [Next]_vars PROVE RInv'
    OBVIOUS
<1>1. IInv /\ IInv' /\ Searchable /\ Searchable' /\ FilledCounts
    BY NextIInv DEF RInv, IInv
<1>2. ASSUME NEW n \in Names, NEW v \in Values, Enter(n, v), Fits(n)
      PROVE  /\ FilledCounts'
             /\ \A m \in Names \ {n} : getenv(m)' = getenv(m)
             /\ getenv(n)' = IF <<n, v>> \in Refused THEN getenv(n) ELSE v
    BY <1>1, <1>2, EnterCounts, EnterGets
<1>3. ASSUME NEW n \in Names, NEW v \in Values, Enter(n, v), pc = "ready",
             Find(n) # 0 \/ filled = size \/ entered < MaxEnters
      PROVE  /\ FilledCounts'
             /\ \A m \in Names \ {n} : getenv(m)' = getenv(m)
             /\ getenv(n)' = getenv(n) \/ (getenv(n)' = v /\ <<n, v>> \notin Refused)
    BY <1>1, <1>3, CommandGets
<1>4. ASSUME NEW n \in Names, hdelete_r(n)
      PROVE  /\ FilledCounts'
             /\ \A m \in Names \ {n} : getenv(m)' = getenv(m)
             /\ getenv(n)' \in {getenv(n), None}
    BY <1>1, <1>4, DeleteCounts, DeleteGets
<1>5. \A n \in Names : getenv(n) # None => <<n, getenv(n)>> \notin Refused
    BY DEF RInv
<1>6. Accepted(Nothing) /\ Accepted(Default) /\ Default \in Images
    BY ConstantAssumption DEF Accepted, Nothing, ConstantAssumption
<1>7. ASSUME NEW n \in Names, NEW v \in Values, Set(n, v) PROVE RInv'
    <2>1. getenv(n)' # None => <<n, getenv(n)'>> \notin Refused
        BY <1>3, <1>5, <1>7, Zenon DEF Set
    <2>2. QED BY <1>1, <1>3, <1>7, <2>1, CommandRInv, Zenon DEF Set
<1>8. ASSUME NEW n \in Names, Delete(n) PROVE RInv'
    <2>1. getenv(n)' # None => <<n, getenv(n)'>> \notin Refused
        BY <1>4, <1>5, <1>8 DEF Delete
    <2>2. QED BY <1>1, <1>4, <1>8, <2>1, CommandRInv DEF Delete
<1>9. ASSUME NEW n \in Names, set_default_vars(n) PROVE RInv'
    <2>1. CASE Default[n] = None
        <3>1. getenv(n)' # None => <<n, getenv(n)'>> \notin Refused
            BY <1>4, <1>5, <1>9, <2>1, SMTT(40) DEF set_default_vars
        <3>2. QED BY <1>1, <1>4, <1>9, <2>1, <3>1, CommandRInv, SMTT(40) DEF set_default_vars
    <2>2. CASE Default[n] # None
        <3>1. Default[n] \in Values
            BY <1>6, <2>2 DEF Images
        <3>2. /\ Enter(n, Default[n]) /\ pc = "ready"
              /\ Find(n) # 0 \/ filled = size \/ entered < MaxEnters
            BY <1>9, <2>2 DEF set_default_vars
        <3>3. getenv(n)' # None => <<n, getenv(n)'>> \notin Refused
            BY <1>3, <1>5, <3>1, <3>2, Zenon
        <3>4. QED BY <1>1, <1>3, <1>9, <3>1, <3>2, <3>3, CommandRInv, Zenon DEF set_default_vars
    <2>3. QED BY <2>1, <2>2, SMTT(40)
<1>10. ASSUME NEW env \in Images, Import(env), env = Default \/ (Valid /\ env = data) PROVE RInv'
    <2>1. FilledCounts' /\ \A n \in Names : getenv(n)' = None
        BY <1>10, CreateCounts, CreateGets DEF Import
    <2>2. \A n \in Names : getenv(n)' = IF n \in todo' THEN None ELSE source'[n]
        BY <1>10, <2>1 DEF Import
    <2>3. source' = Default \/ (Valid' /\ source' = data')
        BY <1>10, SMTT(40) DEF Import, Valid, cardVars
    <2>4. Accepted(image)' /\ Accepted(crc)' /\ pc' = "import"
        BY <1>10, SMTT(40) DEF Import, RInv, Accepted, saveVars, cardVars
    <2>5. QED BY <1>1, <2>1, <2>2, <2>3, <2>4 DEF RInv
<1>11. CASE ImportEntry
    <2>1. PICK n \in todo : Enter(n, source[n]) /\ todo' = todo \ {n}
        BY <1>11 DEF ImportEntry
    <2>2. n \in Names /\ source[n] \in Values
        BY <1>1, <2>1 DEF IInv, TypeOK, Images
    <2>3. <<n, source[n]>> \notin Refused
        <3>1. source[n] # None
            BY <1>1 DEF IInv
        <3>2. Accepted(source)
            BY <1>6, <1>11 DEF RInv, ImportEntry, Valid
        <3>3. QED BY <2>2, <3>1, <3>2 DEF Accepted
    <2>4. /\ FilledCounts'
          /\ \A m \in Names \ {n} : getenv(m)' = getenv(m)
          /\ getenv(n)' = source[n]
        <3>1. Fits(n)
            BY <1>11, <2>1, <2>2 DEF Spared, ImportEntry
        <3>2. QED BY <1>2, <2>1, <2>2, <2>3, <3>1
    <2>5. pc = "import" /\ pc' = "import" /\ source' = source /\ UNCHANGED <<saveVars, cardVars>>
        BY <1>11, SMTT(40) DEF ImportEntry
    <2>6. \A m \in Names : getenv(m) = IF m \in todo THEN None ELSE source[m]
        BY <2>5 DEF RInv
    <2>7. \A m \in Names : getenv(m)' = IF m \in todo' THEN None ELSE source'[m]
        BY <2>1, <2>4, <2>5, <2>6
    <2>8. \A m \in Names : getenv(m)' # None => <<m, getenv(m)'>> \notin Refused
        BY <1>5, <2>3, <2>4
    <2>9. source' = Default \/ (Valid' /\ source' = data')
        BY <2>5 DEF RInv, Valid, cardVars
    <2>10. Accepted(image)' /\ Accepted(crc)'
        BY <2>5 DEF RInv, Accepted, saveVars, cardVars
    <2>11. QED BY <1>1, <2>4, <2>5, <2>7, <2>8, <2>9, <2>10 DEF RInv
<1>12. ASSUME table' = table, filled' = filled
       PROVE  /\ FilledCounts'
              /\ \A n \in Names : getenv(n)' = getenv(n)
              /\ \A n \in Names : getenv(n)' # None => <<n, getenv(n)'>> \notin Refused
    BY <1>1, <1>5, <1>12, SameGets DEF FilledCounts
<1>13. CASE Imported
    <2>1. Accepted(image)' /\ Accepted(crc)'
        BY <1>13 DEF Imported, RInv, Accepted, saveVars, cardVars
    <2>2. table' = table /\ filled' = filled /\ pc' = "ready"
        BY <1>13 DEF Imported, tableVars
    <2>3. QED BY <1>1, <1>12, <2>1, <2>2 DEF RInv
<1>14. CASE saveenv
    <2>1. table' = table /\ filled' = filled /\ pc' = "save" /\ image' = hexport_r /\ blk' = 1 /\ crc' = crc
        BY <1>14 DEF saveenv, tableVars, cardVars
    <2>2. \A n \in Names : image'[n] = getenv(n)
        BY <1>1, <2>1, ExportGets
    <2>3. Accepted(image)' /\ Accepted(crc)'
        BY <1>5, <2>1, <2>2 DEF Accepted, RInv
    <2>4. \A n \in Names : image'[n] = getenv(n)'
        BY <1>12, <2>1, <2>2
    <2>5. ~ (blk' > 1)
        BY <2>1, SMTT(40)
    <2>6. QED BY <1>1, <1>12, <2>1, <2>3, <2>4, <2>5 DEF RInv
<1>15. CASE WriteBlock
    <2>1. table' = table /\ filled' = filled /\ pc = "save" /\ blk \in Nat \ {0}
        BY <1>1, <1>15, ConstantAssumption, SMTT(40) DEF WriteBlock, tableVars, IInv, TypeOK, ConstantAssumption
    <2>2. crc' = image
        BY <1>15, <2>1 DEF WriteBlock, RInv
    <2>3. image' = image \/ image' = Nothing
        BY <1>15, SMTT(40) DEF WriteBlock, NoSave
    <2>4. Accepted(image') /\ Accepted(crc')
        BY <1>6, <2>2, <2>3 DEF RInv
    <2>5. pc' = "save" => image' = image
        BY <1>15 DEF WriteBlock
    <2>6. pc' = "save" => \A n \in Names : image'[n] = getenv(n)'
        BY <1>12, <2>1, <2>5 DEF RInv
    <2>7. pc' \in {"save", "ready"}
        BY <1>15, SMTT(40) DEF WriteBlock
    <2>8. QED BY <1>1, <1>12, <2>1, <2>2, <2>4, <2>5, <2>6, <2>7, SMTT(40) DEF RInv, Accepted
<1>16. CASE WriteFails
    <2>1. table' = table /\ filled' = filled /\ pc' = "ready" /\ image' = Nothing /\ crc' = crc
        BY <1>16, SMTT(40) DEF WriteFails, NoSave, tableVars
    <2>2. Accepted(image)' /\ Accepted(crc)'
        BY <1>6, <2>1, SMTT(40) DEF RInv, Accepted
    <2>3. QED BY <1>1, <1>12, <2>1, <2>2 DEF RInv
<1>17. CASE PowerFails
    <2>1. FilledCounts' /\ \A n \in Names : getenv(n)' = None
        BY <1>17, CreateCounts, CreateGets DEF PowerFails
    <2>2. pc' = "off" /\ image' = Nothing /\ crc' = crc
        BY <1>17 DEF PowerFails, NoSave
    <2>3. Accepted(image)' /\ Accepted(crc)'
        BY <1>6, <2>2, SMTT(40) DEF RInv, Accepted
    <2>4. QED BY <1>1, <2>1, <2>2, <2>3 DEF RInv
<1>18. CASE UNCHANGED vars
    <2>1. table' = table /\ filled' = filled
        BY <1>18 DEF vars, tableVars
    <2>2. QED BY <1>1, <1>12, <1>18, <2>1 DEF RInv, vars, tableVars, importVars, saveVars, cardVars, Accepted, Valid
<1>19. CASE set_default_env
    BY <1>6, <1>10, <1>19 DEF set_default_env
<1>20. CASE env_relocate
    <2>1. data \in Images
        BY <1>1 DEF IInv, TypeOK
    <2>2. QED BY <1>6, <1>10, <1>20, <2>1 DEF env_relocate
<1>21. QED BY <1>7, <1>8, <1>9, <1>11, <1>13, <1>14, <1>15, <1>16, <1>17, <1>18, <1>19, <1>20, SMTT(40) DEF Next

\* A command that changes one variable is a step of NameStore.
LEMMA CommandStep ==
    ASSUME Searchable', NEW n \in Names, pc = "ready", pc' = "ready", UNCHANGED cardVars,
           \A m \in Names \ {n} : getenv(m)' = getenv(m)
    PROVE  Store!Next
<1>1. storeMode = "ready" /\ storeMode' = storeMode /\ storeKept' = storeKept
    BY DEF storeMode, storeKept, Valid, cardVars
<1>2. getenv(n)' \in Values \cup {None}
    <2>1. \A idx \in Index : Live(idx)' => table'[idx].data \in Values
        <3>1. SUFFICES ASSUME NEW idx \in Index, table'[idx].used > 0
                       PROVE  table'[idx].data \in Values
            BY DEF Live
        <3>2. table'[idx] \in ENTRY
            BY DEF Searchable
        <3>3. QED BY <3>1, <3>2 DEF ENTRY, FREE, DELETED
    <2>2. Gets(n)'
        BY GetFactsNext
    <2>3. QED BY <2>1, <2>2, SMTT(40) DEF Gets
<1>3. storeVars' = [storeVars EXCEPT ![n] = getenv(n)']
    BY ZenonT(40) DEF storeVars
<1>4. Store!Change
    <2> DEFINE f(x, y) == [storeVars EXCEPT ![x] = y]
    <2>1. storeVars' = f(n, getenv(n)')
        BY <1>3
    <2> HIDE DEF f
    <2>2. storeVars' \in {f(x, y) : x \in Names, y \in Values \cup {None}}
        BY <1>2, <2>1
    <2> USE DEF f
    <2>3. QED BY <1>1, <2>2 DEF Store!Change
<1>5. QED BY <1>4 DEF Store!Next

\* Every step of the environment is a step of NameStore, or leaves it as it is.
LEMMA NextStep == RInv /\ RInv' /\ Spared /\ [Next]_vars => [Store!Next]_<<storeVars, storeKept, storeMode>>
<1> SUFFICES ASSUME RInv, RInv', Spared, [Next]_vars
             PROVE  Store!Next \/ UNCHANGED <<storeVars, storeKept, storeMode>>
    OBVIOUS
<1>1. Searchable /\ Searchable'
    BY SMTT(40) DEF RInv, IInv
<1>2. ASSUME NEW n \in Names, NEW v \in Values, Enter(n, v), pc = "ready",
             Find(n) # 0 \/ filled = size \/ entered < MaxEnters
      PROVE  \A m \in Names \ {n} : getenv(m)' = getenv(m)
    BY <1>1, <1>2, CommandGets, Zenon DEF RInv
<1>3. ASSUME NEW n \in Names, NEW v \in Values, Set(n, v) PROVE Store!Next
    <2>1. \A m \in Names \ {n} : getenv(m)' = getenv(m)
        BY <1>2, <1>3, ZenonT(40) DEF Set
    <2>2. QED BY <1>1, <1>3, <2>1, CommandStep DEF Set
<1>4. ASSUME NEW n \in Names, Delete(n) PROVE Store!Next
    <2>1. \A m \in Names \ {n} : getenv(m)' = getenv(m)
        BY <1>1, <1>4, DeleteGets DEF Delete
    <2>2. QED BY <1>1, <1>4, <2>1, CommandStep DEF Delete
<1>5. ASSUME NEW n \in Names, set_default_vars(n) PROVE Store!Next
    <2>1. Default[n] # None => Default[n] \in Values
        BY ConstantAssumption, SMTT(40) DEF ConstantAssumption, Images
    <2>2. \A m \in Names \ {n} : getenv(m)' = getenv(m)
        BY <1>1, <1>2, <1>5, <2>1, DeleteGets, ZenonT(40) DEF set_default_vars
    <2>3. QED BY <1>1, <1>5, <2>2, CommandStep DEF set_default_vars
<1>6. CASE set_default_env
    <2>1. storeMode' = "empty" /\ storeVars' = Nothing /\ storeKept' = storeKept
        BY <1>6 DEF set_default_env, Import, storeMode, storeVars, storeKept, Valid, cardVars
    <2>2. QED BY <2>1 DEF Store!Next, Store!Empty, Store!Nothing, Nothing
<1>7. CASE ImportEntry \/ env_relocate
    BY <1>7, SMTT(40) DEF ImportEntry, env_relocate, Import, storeMode, storeVars, storeKept, Valid, cardVars
<1>8. CASE Imported
    <2>1. storeMode = "empty" /\ storeMode' = "ready" /\ storeKept' = storeKept
        BY <1>8 DEF Imported, storeMode, storeKept, Valid, cardVars
    <2>2. \A n \in Names : getenv(n)' = source[n]
        <3>1. \A n \in Names : getenv(n)' = getenv(n)
            BY <1>1, <1>8, SameGets, SMTT(40) DEF Imported, tableVars
        <3>2. \A n \in Names : getenv(n) = source[n]
            BY <1>8, SMTT(40) DEF Imported, RInv
        <3>3. QED BY <3>1, <3>2
    <2>3. storeVars' = source
        BY <1>8, <2>2, SMTT(40) DEF storeVars, Imported, RInv, IInv, TypeOK, Images
    <2>4. source \in {Default} \cup storeKept
        BY <1>8 DEF RInv, Imported, storeKept
    <2>5. QED BY <2>1, <2>3, <2>4 DEF Store!Next, Store!Load
<1>9. ASSUME table' = table, pc \in {"ready", "save"}, pc' \in {"ready", "save"}
      PROVE  /\ storeMode \in {"ready", "saving"} /\ storeMode' \in {"ready", "saving"}
             /\ storeVars' = storeVars
    BY <1>1, <1>9, SameGets DEF storeMode, storeVars
<1>10. CASE saveenv
    <2>1. table' = table /\ pc = "ready" /\ pc' = "save" /\ storeKept' = storeKept
        BY <1>10 DEF saveenv, tableVars, cardVars, storeKept, Valid
    <2>2. QED BY <1>9, <2>1 DEF Store!Next, Store!Save
<1>11. CASE WriteBlock
    <2>1. table' = table /\ pc = "save" /\ pc' \in {"ready", "save"} /\ blk \in Nat \ {0}
        BY <1>11, ConstantAssumption, SMTT(40) DEF WriteBlock, tableVars, RInv, IInv, TypeOK, ConstantAssumption
    <2>2. crc' = image
        BY <1>11, <2>1, SMTT(40) DEF WriteBlock, RInv
    <2>3. image = storeVars
        BY <2>1, SMTT(40) DEF storeVars, RInv, IInv, TypeOK, Images
    <2>4. storeKept' \in {{storeVars}, {}}
        BY <2>2, <2>3 DEF storeKept, Valid
    <2>5. storeMode = "saving"
        BY <2>1 DEF storeMode
    <2>6. QED BY <1>9, <2>1, <2>4, <2>5, SMTT(40) DEF Store!Next, Store!Save
<1>12. ASSUME torn' \in {torn, torn \cup {blk}}, UNCHANGED <<crc, data>>
       PROVE  storeKept' \in {storeKept, {}}
    BY <1>12 DEF storeKept, Valid
<1>13. CASE WriteFails
    <2>1. table' = table /\ pc = "save" /\ pc' = "ready" /\ storeKept' \in {storeKept, {}}
        BY <1>12, <1>13 DEF WriteFails, tableVars
    <2>2. storeMode = "saving"
        BY <2>1 DEF storeMode
    <2>3. QED BY <1>9, <2>1, <2>2 DEF Store!Next, Store!Save
<1>14. CASE PowerFails
    <2>1. storeMode' = "empty" /\ storeVars' = Nothing
        BY <1>14 DEF PowerFails, storeMode, storeVars
    <2>2. CASE pc = "save"
        <3>1. storeMode = "saving" /\ storeKept' \in {storeKept, {}}
            BY <1>12, <1>14, <2>2 DEF PowerFails, storeMode
        <3>2. QED BY <2>1, <3>1 DEF Store!Next, Store!Empty, Store!Nothing, Nothing
    <2>3. CASE pc # "save"
        <3>1. storeKept' = storeKept
            BY <1>14, <2>3 DEF PowerFails, storeKept, Valid
        <3>2. QED BY <2>1, <3>1 DEF Store!Next, Store!Empty, Store!Nothing, Nothing
    <2>4. QED BY <2>2, <2>3
<1>15. CASE UNCHANGED vars
    <2>1. table' = table /\ pc' = pc /\ UNCHANGED cardVars
        BY <1>15 DEF vars, tableVars
    <2>2. \A n \in Names : getenv(n)' = getenv(n)
        BY <1>1, <2>1, SameGets
    <2>3. QED BY <2>1, <2>2 DEF storeMode, storeVars, storeKept, Valid, cardVars
<1>16. QED BY <1>3, <1>4, <1>5, <1>6, <1>7, <1>8, <1>10, <1>11, <1>13, <1>14, <1>15 DEF Next

-----------------------------------------------------------------------------
(* Where the buckets go                                                    *)

\* The buckets that are, or have been, in use.
Used == {idx \in Index : table[idx].used # 0}

\* The variables of an environment.
Has(env) == {n \in Names : env[n] # None}

\* No more buckets are used than entries were made, an import makes no more of
\* them than there are buckets, and no saved environment has more variables.
UInv == /\ Cardinality(Used) <= entered
        /\ pc = "import" => entered + Cardinality(todo) <= size
        /\ Cardinality(Has(crc)) <= size
        /\ Cardinality(Has(image)) <= size

\* Sets of buckets and of names can be counted.
LEMMA Counted ==
    /\ IsFiniteSet(Index) /\ Cardinality(Index) = size
    /\ IsFiniteSet(Used) /\ Cardinality(Used) \in Nat /\ Cardinality(Used) <= size
    /\ Cardinality(Used) = size => Used = Index
    /\ Cardinality(InUse) <= Cardinality(Used)
<1>1. /\ IsFiniteSet(Index) /\ Cardinality(Index) = size
    BY IndexSize
<1>2. Used \in SUBSET Index /\ InUse \in SUBSET Used
    BY DEF Used, InUse
<1>3. IsFiniteSet(Used) /\ Cardinality(Used) <= Cardinality(Index)
      /\ (Cardinality(Index) = Cardinality(Used) => Index = Used)
    BY <1>1, <1>2, FS_Subset
<1>4. Cardinality(InUse) <= Cardinality(Used)
    BY <1>2, <1>3, FS_Subset
<1>5. Cardinality(Used) \in Nat
    BY <1>3, FS_CardinalityType
<1>6. QED BY <1>1, <1>3, <1>4, <1>5

\* While fewer entries were made than there are buckets, every search meets a
\* free one: a path covers the table.
LEMMA RoomLeft ==
    ASSUME UInv, entered \in Nat, entered < size, NEW n \in Names
    PROVE  Frees(n) # {}
<1>1. size \in Nat /\ Cardinality(Used) # size
    BY Counted, ConstantAssumption DEF UInv, ConstantAssumption
<1>2. PICK idx \in Index : table[idx].used = 0
    <2>1. Used # Index
        BY <1>1, Counted
    <2>2. QED BY <2>1 DEF Used
<1> DEFINE S == {i \in Steps : table[path[n][i]].used = 0}
<1>3. S \in SUBSET Nat /\ S # {}
    <2>1. PICK i \in Steps : path[n][i] = idx
        BY PathCovers
    <2>2. Steps \subseteq Nat
        BY <1>1 DEF Steps
    <2>3. QED BY <1>2, <2>1, <2>2
<1>4. PICK i \in S : \A j \in S : i <= j
    <2> HIDE DEF S
    <2>1. QED BY <1>3, Least
<1>5. i \in Steps /\ i \in Nat /\ table[path[n][i]].used = 0
    BY <1>1 DEF Steps
<1>6. path[n][0] = hash[n] /\ 0 \in Steps
    BY PathFacts
<1>7. \A j \in 0 .. i - 1 : table[path[n][j]].used # 0 /\ (j > 0 => path[n][j] # hash[n])
    <2>1. TAKE j \in 0 .. i - 1
    <2>2. j \in Steps /\ ~ (i <= j)
        BY <1>1, <1>5 DEF Steps
    <2>3. j \notin S
        <3> HIDE DEF S
        <3>1. QED BY <1>4, <2>2
    <2>4. j > 0 => path[n][j] # hash[n]
        BY <1>6, <2>2, PathInjective
    <2>5. QED BY <2>2, <2>3, <2>4
<1>8. i > 0 => path[n][i] # hash[n]
    BY <1>5, <1>6, PathInjective
<1>9. QED BY <1>5, <1>7, <1>8 DEF Frees, Compared, Beyond

\* So there are buckets for all entries that are made, if no more of them are
\* made than there are buckets.
LEMMA RoomSpared == ASSUME RInv, UInv, MaxEnters <= size PROVE Spared
<1>1. entered \in Nat /\ size \in Nat /\ MaxEnters \in Nat /\ todo \subseteq Names
    BY ConstantAssumption DEF RInv, IInv, TypeOK, ConstantAssumption
<1>2. ASSUME NEW n \in Names, entered < size PROVE Fits(n)
    <2>1. Frees(n) # {}
        BY <1>1, <1>2, RoomLeft, SMTT(40)
    <2>2. filled # size
        <3>1. Cardinality(Used) <= entered
            BY Zenon DEF UInv
        <3>2. filled = Cardinality(InUse)
            BY Zenon DEF RInv, FilledCounts, InUse
        <3> QED BY <1>1, <1>2, <3>1, <3>2, Counted, InUseFacts
    <2>3. QED BY <2>1, <2>2 DEF Fits
<1>3. ASSUME NEW n \in Names, pc = "import", n \in todo PROVE entered < size
    <2>1. IsFiniteSet(todo)
        BY <1>1, FS_Subset, ConstantAssumption, ZenonT(40) DEF ConstantAssumption
    <2>2. Cardinality(todo) \in Nat /\ Cardinality(todo) # 0
        BY <1>3, <2>1, FS_CardinalityType, FS_EmptySet
    <2>3. QED BY <1>1, <1>3, <2>2, SMTT(40) DEF UInv
<1>4. QED BY <1>1, <1>2, <1>3 DEF Spared

\* An entry uses one bucket more, if it is made, and a deletion none.
LEMMA EnterUses ==
    ASSUME Searchable, entered \in Nat, Cardinality(Used) <= entered, NEW n \in Names,
           (\E v \in Values : Enter(n, v)) \/ hdelete_r(n)
    PROVE  Cardinality(Used') <= entered' /\ entered' \in {entered, entered + 1}
<1>1. ASSUME \A idx \in Index : table[idx].used = 0 => table'[idx].used = 0, entered' = entered
      PROVE  Cardinality(Used') <= entered'
    <2>1. Used' \subseteq Used
        BY <1>1 DEF Used
    <2>2. Cardinality(Used') <= Cardinality(Used) /\ Cardinality(Used') \in Nat
        BY <2>1, Counted, FS_Subset, FS_CardinalityType
    <2>3. QED BY <1>1, <2>2, Counted
<1>2. ASSUME NEW b, \A idx \in Index : idx # b => table'[idx] = table[idx], entered' = entered + 1
      PROVE  Cardinality(Used') <= entered'
    <2>1. Used' \subseteq Used \cup {b}
        BY <1>2 DEF Used
    <2>2. /\ IsFiniteSet(Used \cup {b})
          /\ Cardinality(Used \cup {b}) = IF b \in Used THEN Cardinality(Used) ELSE Cardinality(Used) + 1
        BY Counted, FS_AddElement
    <2>3. Cardinality(Used') <= Cardinality(Used \cup {b}) /\ Cardinality(Used') \in Nat
        BY <2>1, <2>2, FS_Subset, FS_CardinalityType
    <2>4. QED BY <1>2, <2>2, <2>3, Counted, SMTT(40)
<1>3. ASSUME NEW v \in Values, Enter(n, v)
      PROVE  Cardinality(Used') <= entered' /\ entered' \in {entered, entered + 1}
    <2>1. CASE Find(n) # 0 /\ entered' = entered /\ (table' = table \/ Replaces(n, v))
        <3>1. \A idx \in Index : table'[idx].used = table[idx].used
            <4>1. CASE table' = table
                BY <4>1
            <4>2. CASE Replaces(n, v)
                <5>1. Find(n) \in Index /\ Live(Find(n))
                    BY <2>1, FindFacts
                <5>2. table[Find(n)] = [used |-> table[Find(n)].used, key |-> table[Find(n)].key,
                                        data |-> table[Find(n)].data]
                    BY <5>1, EntryFacts DEF Searchable
                <5>3. QED BY <4>2, <5>1, <5>2 DEF Replaces, Searchable
            <4>3. QED BY <2>1, <4>1, <4>2
        <3>2. QED BY <1>1, <2>1, <3>1
    <2>2. CASE table' = table /\ entered' = entered
        BY <1>1, <2>2
    <2>3. CASE entered' = entered + 1 /\ \E e : table' = [table EXCEPT ![Room(n)] = e]
        <3>1. \A idx \in Index : idx # Room(n) => table'[idx] = table[idx]
            BY <2>3 DEF Searchable
        <3>2. QED BY <1>2, <2>3, <3>1
    <2>4. QED BY <1>3, <2>1, <2>2, <2>3, SMTT(40) DEF Enter, Replaces, tableVars
<1>4. CASE hdelete_r(n)
    <2>1. entered' = entered
        BY <1>4 DEF hdelete_r
    <2>2. \A idx \in Index : table[idx].used = 0 => table'[idx].used = 0
        <3>1. CASE table' = table
            BY <3>1
        <3>2. CASE Find(n) # 0 /\ Marks(Find(n))
            <4>1. Find(n) \in Index /\ Live(Find(n))
                BY <3>2, FindFacts
            <4>2. \A idx \in Index : idx # Find(n) => table'[idx] = table[idx]
                BY <3>2 DEF Marks, Searchable
            <4>3. QED BY <4>1, <4>2 DEF Live
        <3>3. QED BY <1>4, <3>1, <3>2 DEF hdelete_r, Marks
    <2>3. QED BY <1>1, <2>1, <2>2
<1>5. QED BY <1>3, <1>4

\* A new table uses none.
LEMMA CreateUses == ASSUME hcreate_r PROVE Cardinality(Used') = 0 /\ entered' = 0
<1>1. Used' = {}
    BY DEF hcreate_r, Used, FREE
<1>2. QED BY <1>1, FS_EmptySet DEF hcreate_r

\* An exported environment has no more variables than there are buckets.
LEMMA ExportHas == Cardinality(Has(hexport_r)) <= size
<1> DEFINE f == [n \in Has(hexport_r) |-> CHOOSE idx \in Index : table[idx].used > 0 /\ table[idx].key = n]
<1>1. ASSUME NEW n \in Has(hexport_r)
      PROVE  f[n] \in Index /\ table[f[n]].key = n
    <2>1. \E idx \in Index : table[idx].used > 0 /\ table[idx].key = n
        BY <1>1 DEF Has, hexport_r
    <2>2. QED BY <2>1
<1>2. f \in [Has(hexport_r) -> Index]
    BY <1>1
<1>3. \A m, n \in Has(hexport_r) : f[m] = f[n] => m = n
    <2> HIDE DEF f
    <2>1. QED BY <1>1, Zenon
<1>4. f \in Injection(Has(hexport_r), Index)
    <2>1. DOMAIN f = Has(hexport_r)
        OBVIOUS
    <2> HIDE DEF f
    <2>2. QED BY <1>2, <1>3, <2>1 DEF Injection, IsInjective
<1> HIDE DEF f
<1>5. QED BY <1>4, Counted, FS_Injection

\* Every step keeps the invariant, if the default environment fits.
LEMMA NextUInv ==
    ASSUME IInv, UInv, [Next]_vars, Cardinality(Has(Default)) <= size
    PROVE  UInv'
<1>1. /\ entered \in Nat /\ size \in Nat /\ Searchable /\ todo \subseteq Names /\ IsFiniteSet(Names)
      /\ Default \in Images
    BY ConstantAssumption DEF IInv, TypeOK, ConstantAssumption
<1>2. IsFiniteSet(todo) /\ Cardinality(todo) \in Nat
    BY <1>1, FS_Subset, FS_CardinalityType
<1>3. Cardinality(Has(Nothing)) <= size
    <2>1. Has(Nothing) = {}
        BY SMTT(40) DEF Has, Nothing
    <2>2. QED BY <1>1, <2>1, FS_EmptySet
<1>4. ASSUME NEW n \in Names, (\E v \in Values : Enter(n, v)) \/ hdelete_r(n),
             pc' # "import", UNCHANGED <<image, crc>>
      PROVE  UInv'
    BY <1>1, <1>4, EnterUses DEF UInv, Has
<1>5. ASSUME NEW n \in Names, NEW v \in Values, Set(n, v) PROVE UInv'
    BY <1>4, <1>5 DEF Set, saveVars, cardVars
<1>6. ASSUME NEW n \in Names, Delete(n) PROVE UInv'
    BY <1>4, <1>6 DEF Delete, saveVars, cardVars
<1>7. ASSUME NEW n \in Names, set_default_vars(n) PROVE UInv'
    <2>1. Default[n] # None => Default[n] \in Values
        BY <1>1 DEF Images
    <2>2. QED BY <1>4, <1>7, <2>1 DEF set_default_vars, saveVars, cardVars
<1>8. ASSUME NEW env, Cardinality(Has(env)) <= size, Import(env) PROVE UInv'
    <2>1. Cardinality(Used') = 0 /\ entered' = 0
        BY <1>8, CreateUses DEF Import
    <2>2. todo' = Has(env) /\ UNCHANGED <<image, crc>>
        BY <1>8 DEF Import, Has, saveVars, cardVars
    <2>3. Has(env) \subseteq Names
        BY DEF Has
    <2>4. Cardinality(Has(env)) \in Nat
        BY <1>1, <2>3, FS_Subset, FS_CardinalityType, SMTT(40)
    <2>5. QED BY <1>1, <1>8, <2>1, <2>2, <2>4 DEF UInv, Has
<1>9. CASE ImportEntry
    <2>1. PICK n \in todo : Enter(n, source[n]) /\ todo' = todo \ {n}
        BY <1>9 DEF ImportEntry
    <2>2. n \in Names /\ source[n] \in Values
        BY <2>1, SMTT(40) DEF IInv, TypeOK, Images
    <2>3. Cardinality(Used') <= entered' /\ entered' \in {entered, entered + 1}
        BY <1>1, <2>1, <2>2, EnterUses, SMTT(40) DEF UInv
    <2>4. Cardinality(todo') = Cardinality(todo) - 1
        BY <1>2, <2>1, FS_RemoveElement, SMTT(40)
    <2>5. pc = "import" /\ UNCHANGED <<image, crc>>
        BY <1>9 DEF ImportEntry, saveVars, cardVars
    <2>6. QED BY <1>1, <1>2, <2>3, <2>4, <2>5 DEF UInv, Has
<1>10. ASSUME UNCHANGED <<table, entered>>, pc' # "import" \/ UNCHANGED <<pc, todo>>,
              image' \in {image, Nothing, hexport_r}, crc' \in {crc, image}
       PROVE  UInv'
    <2>1. Used' = Used
        BY <1>10 DEF Used
    <2>2. Cardinality(Has(image')) <= size
        BY <1>3, <1>10, ExportHas DEF UInv
    <2>3. Cardinality(Has(crc')) <= size
        BY <1>10 DEF UInv
    <2>4. QED BY <1>10, <2>1, <2>2, <2>3, Zenon DEF UInv, Has
<1>11. CASE Imported \/ saveenv
    BY <1>10, <1>11 DEF Imported, saveenv, tableVars, saveVars, cardVars
<1>12. CASE WriteBlock \/ WriteFails
    <2>1. pc' # "import"
        BY <1>12 DEF WriteBlock, WriteFails
    <2>2. image' \in {image, Nothing} /\ crc' \in {crc, image} /\ UNCHANGED <<table, entered>>
        BY <1>12 DEF WriteBlock, WriteFails, NoSave, tableVars
    <2>3. QED BY <1>10, <2>1, <2>2, SMTT(40)
<1>13. CASE PowerFails
    <2>1. Cardinality(Used') = 0 /\ entered' = 0
        BY <1>13, CreateUses DEF PowerFails
    <2>2. pc' # "import" /\ image' = Nothing /\ crc' = crc
        BY <1>13 DEF PowerFails, NoSave
    <2>3. QED BY <1>3, <2>1, <2>2 DEF UInv, Has
<1>14. CASE set_default_env
    BY <1>8, <1>14 DEF set_default_env
<1>15. CASE env_relocate
    <2>1. Valid => Cardinality(Has(data)) <= size
        BY DEF Valid, UInv
    <2>2. QED BY <1>8, <1>15, <2>1 DEF env_relocate
<1>16. CASE UNCHANGED vars
    BY <1>10, <1>16 DEF vars, tableVars, importVars, saveVars, cardVars
<1>17. QED BY <1>5, <1>6, <1>7, <1>9, <1>11, <1>12, <1>13, <1>14, <1>15, <1>16, SMTT(40) DEF Next

\* The invariants on every behaviour in which no more entries are made in a
\* table than it has buckets.
LEMMA StoreInvariant ==
    ASSUME MaxEnters <= size, Cardinality(Has(Default)) <= size
    PROVE  Spec => [](RInv /\ UInv)
<1>1. Init => RInv /\ UInv
    <2>1. ASSUME Init PROVE UInv
        <3>1. Used = {} /\ Has(crc) = {} /\ Has(image) = {}
            BY <2>1, SMTT(40) DEF Init, Used, FREE, Has, Nothing
        <3>2. QED BY <2>1, <3>1, FS_EmptySet, ConstantAssumption, SMTT(40) DEF Init, UInv, ConstantAssumption
    <2>2. QED BY <2>1, InitRInv, SMTT(40)
<1>2. RInv /\ UInv /\ [Next]_vars => RInv' /\ UInv'
    BY RoomSpared, NextRInv, NextUInv DEF RInv
<1>3. QED BY <1>1, <1>2, PTL DEF Spec

\* The environment is empty at first.
LEMMA InitStore == Init => Store!Init
BY ConstantAssumption DEF Init, Store!Init, Store!Nothing, Nothing, storeVars, storeKept, storeMode, Valid, ConstantAssumption

\* The environment is a map that commands change one name at a time, with a
\* copy that is whole or lost: for every prime table size, hash function,
\* layout of the card and moment at which the power fails, if the default
\* environment fits into the table and no more entries are made in a table
\* than it has buckets.
THEOREM EnvironmentIsAStore ==
    ASSUME MaxEnters <= size, Cardinality(Has(Default)) <= size
    PROVE  Spec => ImplementsNameStore
<1>1. RInv /\ RInv' /\ UInv /\ [Next]_vars => [Store!Next]_<<storeVars, storeKept, storeMode>>
    BY RoomSpared, NextStep
<1>2. QED BY <1>1, InitStore, StoreInvariant, PTL DEF Spec, ImplementsNameStore, Store!Spec

\* Then the table's counter is the number of its entries.
THEOREM EntriesAreCounted ==
    ASSUME MaxEnters <= size, Cardinality(Has(Default)) <= size
    PROVE  Spec => []FilledCounts
<1>1. RInv => FilledCounts
    BY DEF RInv
<1>2. QED BY <1>1, StoreInvariant, PTL

\* Both hold for any number of entries made in a table, as long as every search
\* meets a bucket that was never used.
THEOREM StoreWhileRoomy == Spec /\ []Roomy => ImplementsNameStore /\ []FilledCounts
<1>1. ASSUME RInv, Roomy PROVE Spared
    <2>1. \A n \in Names : Frees(n) # {} /\ filled # size
        BY <1>1, InUseFacts DEF Roomy, RInv, FilledCounts, InUse
    <2>2. QED BY <2>1, SMTT(40) DEF Spared, Fits
<1>2. RInv /\ Roomy /\ [Next]_vars => RInv'
    BY <1>1, NextRInv
<1>3. RInv /\ RInv' /\ Roomy /\ [Next]_vars => [Store!Next]_<<storeVars, storeKept, storeMode>>
    BY <1>1, NextStep
<1>4. RInv => FilledCounts
    BY DEF RInv
<1>5. QED BY <1>2, <1>3, <1>4, InitRInv, InitStore, PTL DEF Spec, ImplementsNameStore, Store!Spec

=============================================================================
