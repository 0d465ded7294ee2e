--------------------------- MODULE ContentService ---------------------------
(***************************************************************************)
(* What PEKS-NDN promises its consumers, whatever becomes of the messages: *)
(* an answer is data that was registered under the name asked for, and a   *)
(* query is refused only while there is no such data.  How the content is  *)
(* found behind an encrypted name, cached and joined is not seen here.     *)
(***************************************************************************)
EXTENDS Naturals, Sequences

CONSTANTS
    Names,
    Queries,            \* identities of queries
    SameContent(_, _)   \* names that are spelt differently for one content

VARIABLES
    registered,   \* the names registered; the data of the n-th is n
    asked,        \* query -> name
    answered,     \* [query, data]
    refused       \* queries

service_vars == <<registered, asked, answered, refused>>

Init ==
    /\ registered = << >>
    /\ asked = [q \in {} |-> << >>]
    /\ answered = {}
    /\ refused = {}

Register(name) ==
    /\ registered' = Append(registered, name)
    /\ UNCHANGED <<asked, answered, refused>>

Ask(q, name) ==
    /\ q \notin DOMAIN asked
    /\ asked' = [x \in DOMAIN asked \cup {q} |-> IF x = q THEN name ELSE asked[x]]
    /\ UNCHANGED <<registered, answered, refused>>

\* The registrations that can answer a query.
Fitting(q) == {n \in DOMAIN registered : SameContent(registered[n], asked[q])}

Answer(q) ==
    /\ q \in DOMAIN asked
    /\ \E n \in Fitting(q) :
          answered' = answered \cup {[query |-> q, data |-> [name |-> registered[n], content |-> n]]}
    /\ UNCHANGED <<registered, asked, refused>>

Refuse(q) ==
    /\ q \in DOMAIN asked
    /\ Fitting(q) = {}
    /\ refused' = refused \cup {q}
    /\ UNCHANGED <<registered, asked, answered>>

Next ==
    \/ \E name \in Names : Register(name)
    \/ \E q \in Queries, name \in Names : Ask(q, name)
    \/ \E q \in Queries : Answer(q) \/ Refuse(q)

Spec == Init /\ [][Next]_service_vars
=============================================================================
