------------------------------ MODULE MCCacheSim ------------------------------
(* Instances of CacheSim: caches of one or two sets of up to three blocks. *)
EXTENDS CacheSim

SmallConfigs ==
  [num_sets : {1, 2}, num_blocks : {0, 1, 2}, num_bytes : {4},
   allocation : BOOLEAN, write : BOOLEAN, lru : BOOLEAN]
    \cup [num_sets : {1}, num_blocks : {3}, num_bytes : {8},
          allocation : {TRUE}, write : {FALSE}, lru : BOOLEAN]
    \cup [num_sets : {2}, num_blocks : {2}, num_bytes : {16},
          allocation : {TRUE}, write : BOOLEAN, lru : BOOLEAN]
    \cup [num_sets : {0, 3}, num_blocks : {1}, num_bytes : {4},
          allocation : {TRUE}, write : {TRUE}, lru : {TRUE}]
    \cup [num_sets : {1}, num_blocks : {1}, num_bytes : {2, 6},
          allocation : {TRUE}, write : {TRUE}, lru : {TRUE}]

\* Two addresses of one block, and blocks that share a set or do not.
SmallTrace == {0, 3, 4, 8, 24}

==============================================================================
