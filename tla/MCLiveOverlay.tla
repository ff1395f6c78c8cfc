----------------------------- MODULE MCLiveOverlay -----------------------------
(* Four shards of one page: two revisions of one generation from the local *)
(* compiler, the second with one more row; a shard of that generation from *)
(* a better backend, shipped in the cache under the first one's candidate  *)
(* identity; and a shipped shard of another code generator, for the page's *)
(* other generation.                                                       *)
EXTENDS LiveOverlay

CONSTANTS a1, a2, g1, b1, A, B

ShardTable ==
  [s \in {a1, a2, g1, b1} |->
     CASE s = a1 -> [gen |-> A, rows |-> {1}, tier |-> 1, cand |-> 1,
                     content |-> 1, kind |-> "ok"]
       [] s = a2 -> [gen |-> A, rows |-> {1, 2}, tier |-> 1, cand |-> 2,
                     content |-> 2, kind |-> "ok"]
       [] s = g1 -> [gen |-> A, rows |-> {1, 3}, tier |-> 2, cand |-> 1,
                     content |-> 3, kind |-> "ok"]
       [] s = b1 -> [gen |-> B, rows |-> {1}, tier |-> 1, cand |-> 4,
                     content |-> 4, kind |-> "foreign"]]

\* First sessions, with a scene change or a second compiler; and sessions on
\* a shipped cache: with a debug reset, with a compiler and a scene change,
\* and with one library that stops loading.
SessionLaunches ==
  {[cache |-> {}, scenes |-> 1, resets |-> 0, failures |-> 0,
    runs |-> 1, triggers |-> 1],
   [cache |-> {}, scenes |-> 0, resets |-> 0, failures |-> 0,
    runs |-> 2, triggers |-> 1],
   [cache |-> {g1, b1}, scenes |-> 1, resets |-> 1, failures |-> 0,
    runs |-> 0, triggers |-> 0],
   [cache |-> {g1}, scenes |-> 1, resets |-> 0, failures |-> 0,
    runs |-> 1, triggers |-> 0],
   [cache |-> {g1}, scenes |-> 0, resets |-> 0, failures |-> 1,
    runs |-> 1, triggers |-> 0]}
=============================================================================
