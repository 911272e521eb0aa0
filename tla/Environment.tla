---------------------------- MODULE Environment ----------------------------
(***************************************************************************)
(* U-Boot's environment: the hash table of lib/hashtable.c, the commands   *)
(* that change it, and its copy on the MMC card.                           *)
(*                                                                         *)
(* The table is open: an entry whose first bucket is taken goes to the     *)
(* next free one on its path.  A deleted entry leaves a mark behind, since *)
(* a path must not be cut.  The copy is written block after block over the *)
(* one before (CONFIG_ENV_OFFSET_REDUND is not set), and the power may     *)
(* fail at any moment.                                                     *)
(***************************************************************************)
EXTENDS Integers, FiniteSets

CONSTANTS
    Names,      \* names of variables: numbers, in the order of the names
    Values,     \* values of variables, none of them empty
    None,       \* no value
    size,       \* buckets of the table, a prime
    hash,       \* the first bucket of each name
    Default,    \* default_environment
    Refused,    \* <<n, v>>: flags or a callback refuse to set n to v (None: to delete n);
                \* it depends on no more than that (CONFIG_ENV_OVERWRITE is set)
    ENV_SIZE,   \* as many variables fit into an exported environment
    Blocks,     \* blocks of the environment on the card
    block,      \* the block that holds each variable
    MaxEnters   \* bound: buckets entered before the table is created anew

Images == [Names -> Values \cup {None}]

ASSUME ConstantAssumption ==
    /\ Names \subseteq Nat
    /\ IsFiniteSet(Names)
    /\ None \notin Values
    /\ size \in Nat /\ size > 2
    /\ \A div \in 2 .. size - 1 : size % div # 0
    /\ hash \in [Names -> 1 .. size - 1]
    /\ Default \in Images
    /\ Refused \subseteq Names \X (Values \cup {None})
    /\ \A n \in Names : Default[n] # None => <<n, Default[n]>> \notin Refused
    /\ ENV_SIZE \in Nat
    /\ Blocks \in Nat \ {0}
    /\ block \in [Names -> 1 .. Blocks]
    /\ MaxEnters \in Nat

VARIABLES
    table,      \* the buckets: used, key and data
    filled,     \* htab->filled
    entered,    \* entries made since the table was created
    pc,         \* "off", "import" (himport_r), "ready" (commands run) or "save" (block_write)
    source,     \* the environment himport_r reads
    todo,       \* the names it has not come to yet
    image,      \* env_new: the exported environment that is being written
    blk,        \* the block of it that is written next
    crc, data,  \* on the card: the variables the checksum is of, and the variables
    torn        \* the blocks of the card that hold neither old nor new data

tableVars == <<table, filled, entered>>
importVars == <<source, todo>>
saveVars == <<image, blk>>
cardVars == <<crc, data, torn>>
vars == <<tableVars, pc, importVars, saveVars, cardVars>>

Index == 1 .. size
Steps == 0 .. size - 1

Nothing == [n \in Names |-> None]

FREE == [used |-> 0, key |-> None, data |-> None]
DELETED == [used |-> -1, key |-> None, data |-> None]
ENTRY == {FREE, DELETED} \cup [used : 1 .. size - 1, key : Names, data : Values]

-----------------------------------------------------------------------------
(* hsearch_r                                                               *)

\* the second hash function
hval2 == [n \in Names |-> 1 + (hash[n] % (size - 2))]

\* the buckets a search for a name looks at: idx goes back by hval2 and wraps
\* from 1 to size
path == [n \in Names |-> [i \in Steps |-> 1 + ((hash[n] - 1 - i * hval2[n]) % size)]]

\* the search goes on beyond its first i buckets: none is free, and it has
\* not come back to the first
Beyond(n, i) == \A j \in 0 .. i - 1 : /\ table[path[n][j]].used # 0
                                      /\ j > 0 => path[n][j] # hash[n]

Compared(n, i) == Beyond(n, i) /\ (i > 0 => path[n][i] # hash[n])

Holds(n, idx) == table[idx].used = hash[n] /\ table[idx].key = n

\* the steps at which the search meets the name
Hits(n) == {i \in Steps : Compared(n, i) /\ Holds(n, path[n][i])}

\* the bucket FIND returns, 0 if there is none
Find(n) == IF Hits(n) = {} THEN 0
           ELSE path[n][CHOOSE i \in Hits(n) : \A j \in Hits(n) : i <= j]

\* the step at which the search meets a bucket that was never used
Frees(n) == {i \in Steps : Compared(n, i) /\ table[path[n][i]].used = 0}

\* the bucket for a new entry: first_deleted, or where the search has ended
\* (it is back at its first bucket if it has not met a free one)
Room(n) == IF table[hash[n]].used = -1 \/ Frees(n) = {} THEN hash[n]
           ELSE path[n][CHOOSE i \in Frees(n) : TRUE]

getenv(n) == IF Find(n) = 0 THEN None ELSE table[Find(n)].data

\* Mutant: a refused entry stays counted
Enter_counts(n, v) ==
    LET ok == <<n, v>> \notin Refused
        entry == [used |-> hash[n], key |-> n, data |-> v]
    IN  \/ /\ Find(n) # 0
           /\ table' = IF ok THEN [table EXCEPT ![Find(n)].data = v] ELSE table
           /\ UNCHANGED <<filled, entered>>
        \/ /\ Find(n) = 0
           /\ filled = size
           /\ UNCHANGED tableVars
        \/ /\ Find(n) = 0
           /\ filled # size
           /\ table' = [table EXCEPT ![Room(n)] = IF ok THEN entry ELSE DELETED]
           /\ filled' = filled + 1
           /\ entered' = entered + 1

\* hsearch_r with ENTER: the value of an entry is replaced, or an entry is
\* made, unless the flags or the callback refuse it
Enter(n, v) ==
    LET ok == <<n, v>> \notin Refused
        entry == [used |-> hash[n], key |-> n, data |-> v]
    IN  \/ /\ Find(n) # 0
           /\ table' = IF ok THEN [table EXCEPT ![Find(n)].data = v] ELSE table
           /\ UNCHANGED <<filled, entered>>
        \/ /\ Find(n) = 0
           /\ filled = size
           /\ UNCHANGED tableVars
        \/ /\ Find(n) = 0
           /\ filled # size
           /\ table' = [table EXCEPT ![Room(n)] = IF ok THEN entry ELSE DELETED]
           /\ filled' = IF ok THEN filled + 1 ELSE filled
           /\ entered' = entered + 1

\* Mutant: the bucket is free again, which cuts the paths through it
hdelete_r_frees(n) ==
    /\ IF Find(n) # 0 /\ <<n, None>> \notin Refused
       THEN /\ table' = [table EXCEPT ![Find(n)] = FREE]
            /\ filled' = filled - 1
       ELSE UNCHANGED <<table, filled>>
    /\ UNCHANGED entered

hdelete_r(n) ==
    /\ IF Find(n) # 0 /\ <<n, None>> \notin Refused
       THEN /\ table' = [table EXCEPT ![Find(n)] = DELETED]
            /\ filled' = filled - 1
       ELSE UNCHANGED <<table, filled>>
    /\ UNCHANGED entered

\* the other entries of the table are freed with it
hcreate_r == /\ table' = [idx \in Index |-> FREE]
             /\ filled' = 0
             /\ entered' = 0

-----------------------------------------------------------------------------
(* The commands                                                            *)

\* himport_r's and saveenv's local variables when these do not run
NoImport == source' = Nothing /\ todo' = {}
NoSave == image' = Nothing /\ blk' = 1

\* setenv name value
Set(n, v) == /\ pc = "ready"
             /\ Find(n) # 0 \/ filled = size \/ entered < MaxEnters
             /\ Enter(n, v)
             /\ UNCHANGED <<pc, importVars, saveVars, cardVars>>

\* setenv name, env delete name
Delete(n) == /\ pc = "ready"
             /\ hdelete_r(n)
             /\ UNCHANGED <<pc, importVars, saveVars, cardVars>>

\* env default name: the variable is deleted if the default has none
set_default_vars(n) ==
    /\ pc = "ready"
    /\ Find(n) # 0 \/ filled = size \/ entered < MaxEnters
    /\ IF Default[n] # None THEN Enter(n, Default[n]) ELSE hdelete_r(n)
    /\ UNCHANGED <<pc, importVars, saveVars, cardVars>>

\* himport_r without H_NOCLEAR, up to its loop
Import(env) == /\ hcreate_r
               /\ pc' = "import"
               /\ source' = env
               /\ todo' = {n \in Names : env[n] # None}
               /\ UNCHANGED <<saveVars, cardVars>>

\* env default -a
set_default_env == pc = "ready" /\ Import(Default)

\* the next entry, in hexport_r's order; those of the default environment
\* are in no order
ImportEntry == /\ pc = "import"
               /\ \E n \in todo : /\ source = Default \/ \A m \in todo : n <= m
                                  /\ Enter(n, source[n])
                                  /\ todo' = todo \ {n}
               /\ UNCHANGED <<pc, source, saveVars, cardVars>>

\* GD_FLG_ENV_READY
Imported == /\ pc = "import"
            /\ todo = {}
            /\ pc' = "ready"
            /\ NoImport
            /\ UNCHANGED <<tableVars, saveVars, cardVars>>

-----------------------------------------------------------------------------
(* The copy on the card                                                    *)

\* hexport_r takes every entry in use
hexport_r == [n \in Names |-> IF \E idx \in Index : table[idx].used > 0 /\ table[idx].key = n
                              THEN table[CHOOSE idx \in Index : table[idx].used > 0 /\ table[idx].key = n].data
                              ELSE None]

\* saveenv up to write_env; it does nothing if the card or the export fails
saveenv == /\ pc = "ready"
           /\ Cardinality({idx \in Index : table[idx].used > 0}) <= ENV_SIZE
           /\ pc' = "save"
           /\ image' = hexport_r
           /\ blk' = 1
           /\ UNCHANGED <<tableVars, importVars, cardVars>>

WriteBlock == /\ pc = "save"
              /\ data' = [n \in Names |-> IF block[n] = blk THEN image[n] ELSE data[n]]
              /\ crc'  = IF blk = 1 THEN image ELSE crc
              /\ torn' = torn \ {blk}
              /\ IF blk < Blocks THEN blk' = blk + 1 /\ UNCHANGED <<pc, image>>
                                 ELSE pc' = "ready" /\ NoSave
              /\ UNCHANGED <<tableVars, importVars>>

\* block_write gives up
WriteFails == /\ pc = "save"
              /\ torn' \in {torn, torn \cup {blk}}
              /\ pc' = "ready"
              /\ NoSave
              /\ UNCHANGED <<tableVars, importVars, crc, data>>

\* the power fails, or the board is reset
PowerFails == /\ pc # "off"
              /\ pc' = "off"
              /\ torn' \in IF pc = "save" THEN {torn, torn \cup {blk}} ELSE {torn}
              /\ hcreate_r /\ NoImport /\ NoSave
              /\ UNCHANGED <<crc, data>>

Valid == torn = {} /\ data = crc

\* Mutant: the checksum is not looked at
env_relocate_unchecked == /\ pc = "off"
                          /\ Import(data) \/ Import(Default)

\* env_relocate: the card cannot be read or the checksum is wrong, or the
\* copy is imported
env_relocate == /\ pc = "off"
                /\ (Valid /\ Import(data)) \/ Import(Default)

-----------------------------------------------------------------------------
Init == /\ table = [idx \in Index |-> FREE]
        /\ filled = 0
        /\ entered = 0
        /\ pc = "off"
        /\ source = Nothing
        /\ todo = {}
        /\ image = Nothing
        /\ blk = 1
        /\ crc = Nothing
        /\ data = Nothing
        /\ torn = 1 .. Blocks

Next == \/ \E n \in Names : \/ \E v \in Values : Set(n, v)
                            \/ Delete(n)
                            \/ set_default_vars(n)
        \/ set_default_env
        \/ ImportEntry
        \/ Imported
        \/ saveenv
        \/ WriteBlock
        \/ WriteFails
        \/ PowerFails
        \/ env_relocate

Spec == Init /\ [][Next]_vars

-----------------------------------------------------------------------------
\* Every variable keeps its type: the search stays in the table, and the
\* blocks written stay in the environment's part of the card.
TypeOK == /\ table \in [Index -> ENTRY]
          /\ filled \in Int
          /\ entered \in Nat
          /\ pc \in {"off", "import", "ready", "save"}
          /\ source \in Images
          /\ todo \subseteq Names
          /\ image \in Images
          /\ blk \in 1 .. Blocks
          /\ crc \in Images
          /\ data \in Images
          /\ torn \subseteq 1 .. Blocks

\* Every entry in use is the one a search for its name finds: no deletion
\* or refused entry cuts its path, and no name has two entries.
Findable == \A idx \in Index : table[idx].used > 0 => Find(table[idx].key) = idx

\* htab->filled is the number of entries in use, so hsearch_r refuses an
\* entry for want of room only if there is none.
FilledCounts == filled = Cardinality({idx \in Index : table[idx].used > 0})

\* What hsearch_r's comment "An empty bucket has been found" says of the
\* bucket a new entry goes to: the entry of another name is never replaced.
KeepsOthers == [][\A idx \in Index : table[idx].used > 0 /\ table'[idx].used # 0 /\ pc' = pc
                      => table'[idx].key \in {table[idx].key, None}]_vars

\* every search still meets a bucket that was never used
Roomy == \A n \in Names : Frees(n) # {}

\* the map, the copy and the state of the abstract specification
storeVars == IF pc \in {"ready", "save"} THEN [n \in Names |-> getenv(n)] ELSE Nothing
storeKept == IF Valid THEN {data} ELSE {}
storeMode == IF pc = "ready" THEN "ready" ELSE IF pc = "save" THEN "saving" ELSE "empty"

Store == INSTANCE NameStore WITH vars <- storeVars, kept <- storeKept, mode <- storeMode

\* The environment is a map changed one name at a time, with a copy on the
\* card that a power failure leaves whole or, while it is replaced, lost; a
\* start finds the copy or the default environment, never a mixture.
ImplementsNameStore == Store!Spec
=============================================================================
