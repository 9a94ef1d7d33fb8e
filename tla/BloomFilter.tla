---------------------------- MODULE BloomFilter -----------------------------
(***************************************************************************)
(* The Bloom filter on page 0 of an SST file, bloom_filter.cpp: sized when *)
(* it is constructed, then given the keys of the file one by one, and      *)
(* asked before the file is searched.                                      *)
(*                                                                         *)
(* XXH64 is some function of a key and a seed, the same throughout.        *)
(***************************************************************************)
EXTENDS Integers

CONSTANTS
  FilterKeys,       \* the keys
  MAX_BITMAP_SIZE,  \* bits that fit in a page
  BITS_PER_ENTRY,   \* what the constructor's caller passes for m
  MaxFilterEntries, \* the largest num_entries that a caller passes
  Hashes            \* the functions that XXH64 may be

\* The seeds 0 .. hash_functions - 1: round(ln 2 * m).
HashFunctions(m) == (693147 * m + 500000) \div 1000000

ASSUME BloomFilterAssumption ==
  /\ MAX_BITMAP_SIZE \in Nat \ {0}
  /\ BITS_PER_ENTRY \in Nat \ {0}
  /\ MaxFilterEntries \in Nat \ {0}
  /\ \A h \in Hashes : \A k \in FilterKeys, s \in 0 .. HashFunctions(BITS_PER_ENTRY) - 1 :
       h[<<k, s>>] \in Nat

VARIABLES
  xxh64,     \* the hash function
  filter,    \* the filter
  inserted   \* history: the keys it was given

filter_vars == <<xxh64, filter, inserted>>

-----------------------------------------------------------------------------
\* A wrong constructor: more bits than the page holds.
NewFilterUncapped(m, num_entries) ==
  [total_bits     |-> m * num_entries,
   hash_functions |-> HashFunctions(m),
   bitmap         |-> [b \in 0 .. m * num_entries - 1 |-> FALSE]]

\* The constructor: no more bits than fit in the page.
NewFilter(m, num_entries) ==
  LET bits == IF m * num_entries >= MAX_BITMAP_SIZE THEN MAX_BITMAP_SIZE ELSE m * num_entries
  IN  [total_bits     |-> bits,
       hash_functions |-> HashFunctions(m),
       bitmap         |-> [b \in 0 .. bits - 1 |-> FALSE]]

Seeds == 0 .. filter.hash_functions - 1

Hash(key, seed) == xxh64[<<key, seed>>] % filter.total_bits

\* A wrong insert: it does not stay inside the bits that there are.
SetBitsUnreduced(key) ==
  [b \in DOMAIN filter.bitmap |-> filter.bitmap[b] \/ \E s \in Seeds : xxh64[<<key, s>>] = b]

SetBits(key) ==
  [b \in DOMAIN filter.bitmap |-> filter.bitmap[b] \/ \E s \in Seeds : Hash(key, s) = b]

\* get: the key may have been inserted.
MayContain(key) == \A s \in Seeds : filter.bitmap[Hash(key, s)]

Construct(num_entries) ==
  /\ filter' = NewFilter(BITS_PER_ENTRY, num_entries)
  /\ inserted' = {}
  /\ UNCHANGED xxh64

Insert(key) ==
  /\ filter' = [filter EXCEPT !.bitmap = SetBits(key)]
  /\ inserted' = inserted \cup {key}
  /\ UNCHANGED xxh64

FilterInit ==
  /\ xxh64 \in Hashes
  /\ filter \in {NewFilter(BITS_PER_ENTRY, n) : n \in 1 .. MaxFilterEntries}
  /\ inserted = {}

FilterNext ==
  \/ \E n \in 1 .. MaxFilterEntries : Construct(n)
  \/ \E key \in FilterKeys : Insert(key)

FilterSpec == FilterInit /\ [][FilterNext]_filter_vars

-----------------------------------------------------------------------------
\* The bits of a filter, as many as the page takes, and as many hash
\* functions as bits for an entry allow.
FilterTypeOK ==
  /\ xxh64 \in Hashes
  /\ inserted \subseteq FilterKeys
  /\ filter \in [total_bits     : 1 .. MAX_BITMAP_SIZE,
                 hash_functions : {HashFunctions(BITS_PER_ENTRY)},
                 bitmap         : [0 .. filter.total_bits - 1 -> BOOLEAN]]

\* search_value_by_key gives up on a file when its filter does not have the
\* key: the filter has every key that was inserted, whatever the hashes are
\* and however many keys share its bits.
NoFalseNegatives == \A key \in inserted : MayContain(key)
=============================================================================
