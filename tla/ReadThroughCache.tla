-------------------------- MODULE ReadThroughCache --------------------------
(***************************************************************************)
(* What the router promises the requests that go through it one at a time: *)
(* the first for some content is a miss, it is answered by the origin and  *)
(* its answer stored; every later one is a hit, answered with what was     *)
(* stored.  Nothing is fetched twice, nothing forgotten, and nobody gets   *)
(* what he did not ask for.                                                *)
(***************************************************************************)
EXTENDS HashMaps, Sequences

CONSTANTS
    Content,   \* what can be asked for
    Origin     \* Origin[c]: what the origin may answer when asked for c

VARIABLES
    cached,    \* content asked for -> the data stored for it
    answers    \* history: [asked, hit, data] for each request so far

cache_vars == <<cached, answers>>

Init == cached = EmptyMap /\ answers = << >>

Hit(c) ==
    /\ c \in DOMAIN cached
    /\ answers' = Append(answers, [asked |-> c, hit |-> TRUE, data |-> cached[c]])
    /\ UNCHANGED cached

Miss(c) ==
    /\ c \notin DOMAIN cached
    /\ \E data \in Origin[c] :
          /\ cached' = MapInsert(cached, c, data)
          /\ answers' = Append(answers, [asked |-> c, hit |-> FALSE, data |-> data])

Next == \E c \in Content : Hit(c) \/ Miss(c)

Spec == Init /\ [][Next]_cache_vars
=============================================================================
