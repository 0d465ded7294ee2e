------------------------------ MODULE PeksNdn -------------------------------
(***************************************************************************)
(* PEKS-NDN: consumers, one router and one producer, with several          *)
(* interests in flight at once (PROTOCOL.md).  The handlers are those of   *)
(* end_to_end.rs; what lies between them, the network, is external.  It    *)
(* keeps the messages of the producer in order and delivers each one once, *)
(* unless Faults says otherwise.                                           *)
(***************************************************************************)
EXTENDS Router, Producer

CONSTANTS
    Names,             \* the raw names of the names file
    Nonces,            \* the scalars that encryptions draw: for each interest
                       \* a sequence of them, one scalar per component
    Foreign,           \* URIs the router is sent that are no interests of ours
    Faults,            \* what the network may do: "reorder", "duplicate", "lose"
    MaxFaults,         \* bound on duplications and losses
    MaxRegistrations   \* bound on calls to register_content

ASSUME NamesAssumption == Names \subseteq RawName
ASSUME NoncesAssumption ==
    /\ Nonces \subseteq Seq(generate_random)
    /\ \A r \in Nonces, name \in Names : parse_name(name).ok => Covers(r, name)
    /\ \A r, s \in Nonces : r[1] = s[1] => r = s
ASSUME FaultsAssumption ==
    /\ Faults \subseteq {"reorder", "duplicate", "lose"}
    /\ MaxFaults \in Nat /\ MaxRegistrations \in Nat

\* A URI is what Wire takes it to be.
ASSUME ForeignAssumption ==
    \A uri \in Foreign : uri.path \in Seq(Range(uri.path)) \ {<< >>}

VARIABLES
    registrations,   \* history: the names given to register_content so far;
                     \* the data of the n-th registration is n
    asked,           \* history: nonce -> [name, hash] of the interest made with it
    interests,       \* interest URIs on their way to the router
    forwarded,       \* [uri, hash] on their way to the producer
    downstream,      \* messages of the producer to the router, in order
    answers,         \* history: [hash, data] handed to a consumer
    refused,         \* history: hashes the producer answered with None
    faults           \* duplications and losses so far

net_vars == <<registrations, asked, interests, forwarded, downstream, answers, refused, faults>>
vars == <<router_vars, producer_vars, net_vars>>

Registration(uri) == [kind |-> "registration", uri |-> uri]
Data(hash, data) == [kind |-> "data", hash |-> hash, data |-> data]
Update(uri) == [kind |-> "update", uri |-> uri]

\* The setup of main, up to the TwReg URI on its way to the router.
Init ==
    /\ RouterInit
    /\ ProducerInit
    /\ registrations = << >>
    /\ asked = EmptyMap
    /\ interests = Foreign
    /\ forwarded = {}
    /\ downstream = <<Registration(prefix_registration_uri)>>
    /\ answers = {}
    /\ refused = {}
    /\ faults = 0

-----------------------------------------------------------------------------
\* Receiving a message takes it out of the network, or leaves a copy there.
Receive(set, m) ==
    \/ set' = set \ {m} /\ UNCHANGED faults
    \/ /\ "duplicate" \in Faults /\ faults < MaxFaults
       /\ faults' = faults + 1
       /\ set' = set

Lose ==
    /\ "lose" \in Faults /\ faults < MaxFaults
    /\ faults' = faults + 1
    /\ \/ /\ \E uri \in interests : interests' = interests \ {uri}
          /\ UNCHANGED <<forwarded, downstream>>
       \/ /\ \E m \in forwarded : forwarded' = forwarded \ {m}
          /\ UNCHANGED <<interests, downstream>>
       \/ /\ \E i \in DOMAIN downstream : downstream' = RemoveAt(downstream, i)
          /\ UNCHANGED <<interests, forwarded>>
    /\ UNCHANGED <<router_vars, producer_vars, registrations, asked, answers, refused>>

-----------------------------------------------------------------------------
Register(name) ==
    /\ Len(registrations) < MaxRegistrations
    /\ register_content(name, Len(registrations) + 1)
    /\ registrations' = IF producer_panicked' THEN registrations
                        ELSE Append(registrations, name)
    /\ UNCHANGED <<router_vars, asked, interests, forwarded, downstream, answers, refused, faults>>

create_interest(name, r) ==
    encode_ciphertext_name(name_to_ciphertext(public_key, name, r).val)

\* The scalars that hide a name.
Proper == {r \in Nonces : Zero \notin Range(r)}

\* A consumer encrypts with scalars nobody drew before.  Which of the proper
\* ones makes no difference, so they are drawn in order.
Request(name) ==
    \E r \in Nonces \ DOMAIN asked :
        /\ r \in Proper => \A s \in Proper \ DOMAIN asked : r[1] <= s[1]
        /\ name_to_ciphertext(public_key, name, r).ok
        /\ \E uri \in {create_interest(name, r)} :
              /\ asked' = MapInsert(asked, r, [name |-> name, hash |-> Sha256(uri)])
              /\ interests' = interests \cup {uri}
        /\ UNCHANGED <<router_vars, producer_vars, registrations, forwarded, downstream,
                       answers, refused, faults>>

-----------------------------------------------------------------------------
\* What the caller of Router::on_interest does with its three answers.
RouterDrops(uri) ==
    /\ Drop(uri)
    /\ UNCHANGED <<forwarded, answers>>

RouterServes(uri) ==
    \E data \in Range(cs) :
        /\ ServeFromCache(uri, data)
        /\ answers' = answers \cup {[hash |-> Sha256(uri), data |-> data]}
        /\ UNCHANGED forwarded

RouterForwards(uri) ==
    /\ Forward(uri, Sha256(uri))
    /\ forwarded' = forwarded \cup {[uri |-> uri, hash |-> Sha256(uri)]}
    /\ UNCHANGED answers

RouterOnInterest(uri) ==
    /\ Receive(interests, uri)
    /\ RouterDrops(uri) \/ RouterServes(uri) \/ RouterForwards(uri)
    /\ UNCHANGED <<producer_vars, registrations, asked, downstream, refused>>

\* Mutant: the update is sent before the data.
Reply_UpdateFirst(hash, reply) == <<Update(reply.update), Data(hash, reply.data)>>

\* The data packet goes first, then the trapdoor update.
Reply(hash, reply) == <<Data(hash, reply.data), Update(reply.update)>>

ProducerOnInterest(m) ==
    /\ ~producer_panicked
    /\ Receive(forwarded, m)
    /\ \/ \E reply \in producer_on_interest(m.uri, m.hash) :
             /\ downstream' = downstream \o Reply(m.hash, reply)
             /\ UNCHANGED refused
       \/ /\ producer_on_interest(m.uri, m.hash) = {}
          /\ refused' = refused \cup {m.hash}
          /\ UNCHANGED downstream
    /\ UNCHANGED <<router_vars, producer_vars, registrations, asked, interests, answers>>

-----------------------------------------------------------------------------
RouterOnRegistration(m) ==
    /\ m.kind = "registration"
    /\ on_trapdoor_registration(m.uri)
    /\ UNCHANGED answers

\* The packet that is staged also goes back to the consumer.
RouterOnData(m) ==
    /\ m.kind = "data"
    /\ on_data(m.hash, m.data)
    /\ answers' = answers \cup {[hash |-> m.hash, data |-> m.data]}

RouterOnUpdate(m) ==
    /\ m.kind = "update"
    /\ on_trapdoor_update(m.uri)
    /\ UNCHANGED answers

Deliver(i) ==
    /\ i = 1 \/ "reorder" \in Faults
    /\ \/ downstream' = RemoveAt(downstream, i) /\ UNCHANGED faults
       \/ /\ "duplicate" \in Faults /\ faults < MaxFaults
          /\ faults' = faults + 1
          /\ UNCHANGED downstream
    /\ \/ RouterOnRegistration(downstream[i])
       \/ RouterOnData(downstream[i])
       \/ RouterOnUpdate(downstream[i])
    /\ UNCHANGED <<producer_vars, registrations, asked, interests, forwarded, refused>>

-----------------------------------------------------------------------------
RouterReads == \E uri \in interests : RouterOnInterest(uri)
ProducerReads == \E m \in forwarded : ProducerOnInterest(m)
Delivery == \E i \in DOMAIN downstream : Deliver(i)

Next ==
    \/ \E name \in Names : Register(name)
    \/ \E name \in Names : Request(name)
    \/ RouterReads
    \/ ProducerReads
    \/ Delivery
    \/ Lose

\* The caller hands on every message it holds; nobody has to register
\* content or to ask for any.
Fairness == WF_vars(RouterReads) /\ WF_vars(ProducerReads) /\ WF_vars(Delivery)

Spec == Init /\ [][Next]_vars
FairSpec == Spec /\ Fairness

-----------------------------------------------------------------------------
DataPacket == [name : RawName, content : Nat \ {0}]

\* Type invariant: every map, set and queue holds what its handlers put there.
TypeOK ==
    /\ trapdoor_table \in Seq(TrapdoorTableEntry)
    /\ DOMAIN cs \subseteq Seq(Scalar) /\ Range(cs) \subseteq DataPacket
    /\ \A h \in DOMAIN pending : h = Sha256(pending[h])
    /\ Range(staged_data) \subseteq DataPacket
    /\ cache_hits \in Nat /\ cache_misses \in Nat
    /\ panicked \in BOOLEAN /\ producer_panicked \in BOOLEAN
    /\ producer_table \in Seq(TrapdoorTableEntry)
    /\ DOMAIN content \subseteq RawName /\ Range(content) \subseteq DOMAIN registrations
    /\ registrations \in Seq(Names)
    /\ DOMAIN asked \subseteq Nonces /\ \A r \in DOMAIN asked : asked[r].name \in Names
    /\ \A m \in forwarded : m.hash = Sha256(m.uri)
    /\ \A i \in DOMAIN downstream : downstream[i].kind \in {"registration", "data", "update"}
    /\ \A a \in answers : a.data \in DataPacket
    /\ faults \in 0..MaxFaults

Trapdoors(name) == name_to_trapdoor(private_key, name).val

Registered(data) ==
    data.content \in DOMAIN registrations /\ registrations[data.content] = data.name

\* The content store never pairs a trapdoor sequence with another name's
\* packet, nor holds data that was never registered under that name,
\* whatever the network does to the data packets and the updates that
\* on_trapdoor_update joins by hash.  A zero scalar alone does not change
\* that; in a network that duplicates and reorders it would, as the interest
\* could then fetch data of two names under one hash.
CacheSound ==
    \A key \in DOMAIN cs : key = Trapdoors(cs[key].name) /\ Registered(cs[key])

\* A packet handed to a consumer, from the cache or from the producer, is
\* registered data of the name that this very interest encrypted, up to
\* the empty components that parse_name ignores.  Only in a component that was
\* encrypted with zero may the two names differ.
AnswerSound ==
    \A a \in answers :
        /\ Registered(a.data)
        /\ \E r \in DOMAIN asked :
              /\ a.hash = asked[r].hash
              /\ AgreeWhereHidden(parse_name(asked[r].name).val, parse_name(a.data.name).val, r)

\* What is in the content store can be found there: any fresh encryption of
\* the name of a cached packet matches a table row whose key is the
\* packet's, although the table also holds prefixes and duplicate rows.
CacheReachable ==
    \A key \in DOMAIN cs, r \in Proper :
        MatchedKey(name_to_ciphertext(public_key, cs[key].name, r).val) = key

\* PROTOCOL.md has routers store the prefix for longest-prefix matching.  What
\* they store is its first component, however long it is: an interest has a
\* matching row exactly when it begins with that component, or like a name
\* that is cached, and none before the registration arrives.
RoutedByFirstComponent ==
    \A name \in {n \in Names : parse_name(n).ok}, r \in Proper :
        LET first == Trapdoors(name)[1]
            match == match_exhaustive(trapdoor_table,
                                      name_to_ciphertext(public_key, name, r).val)
            registration == Registration(prefix_registration_uri)
        IN  (match.exact_match # 0 \/ match.longest_prefix.row # 0) <=>
                \/ registration \notin Range(downstream) /\ first = Trapdoors(<<"">> \o prefix)[1]
                \/ \E key \in DOMAIN cs : key[1] = first

\* No expect() of the router's handlers fails on what the producer sends.
NoPanic == ~panicked

\* The producer finds the newest registration among the names that share
\* their components: register_content replaces, it does not go unnoticed.
\* It holds as long as no two names registered are aliases.
LatestServed ==
    \A n \in DOMAIN registrations, r \in Proper :
        LET uri == create_interest(registrations[n], r)
            newer == {k \in DOMAIN registrations : k > n /\ registrations[k] = registrations[n]}
        IN  newer = {} => {reply.data : reply \in producer_on_interest(uri, Sha256(uri))}
                              = {[name |-> registrations[n], content |-> n]}

-----------------------------------------------------------------------------
\* The hashes of the messages of one kind on their way to the router.
InFlight(kind) ==
    {IF kind = "data" THEN m.hash ELSE decode_trapdoor_update(m.uri).val.hash :
        m \in {x \in Range(downstream) : x.kind = kind}}

\* An interest stays pending exactly while its answer is on its way, and for
\* ever once the router has dropped it or the producer has refused it.
\* For a network that delivers each message once.
PendingAccounted ==
    DOMAIN pending =
        {m.hash : m \in forwarded} \cup InFlight("update") \cup refused
            \cup {Sha256(uri) : uri \in Foreign \ interests}

\* What is forwarded, staged or about to be updated has its pending entry
\* still, so that what a loss strands can be told from what is settled.
\* For a network that keeps the order and delivers each message at most once.
OutstandingIsPending ==
    {m.hash : m \in forwarded} \cup InFlight("update") \cup DOMAIN staged_data
        \subseteq DOMAIN pending

\* Data is staged exactly between its delivery and that of its update.
\* For a network that keeps the order and delivers each message once.
StagedAccounted ==
    /\ InFlight("update") = InFlight("data") \cup DOMAIN staged_data
    /\ InFlight("data") \cap DOMAIN staged_data = {}

\* A cached packet is never replaced by an older one, and never evicted.
\* For a network that keeps the order and delivers each message at most once.
MonotoneCache ==
    [][\A key \in DOMAIN cs : key \in DOMAIN cs' /\ cs'[key].content >= cs[key].content]_vars

\* Every interest is eventually answered, unless the producer refuses it.
EveryInterestSettles ==
    []<>(\A r \in DOMAIN asked : asked[r].hash \in refused \cup {a.hash : a \in answers})

\* What the producer has answered is eventually cached, and no packet stays
\* staged for ever.
EveryAnswerIsCached ==
    []<>(/\ \A a \in answers : Trapdoors(a.data.name) \in DOMAIN cs
         /\ staged_data = EmptyMap)

-----------------------------------------------------------------------------
Queries == {Sha256(create_interest(name, r)) :
               name \in {n \in Names : parse_name(n).ok}, r \in Nonces}

\* What producer and consumers see; a query is known by its hash.
Service == INSTANCE ContentService WITH
    SameContent <- Alias,
    registered  <- registrations,
    asked       <- [hash \in {asked[r].hash : r \in DOMAIN asked} |->
                       (CHOOSE q \in Range(asked) : q.hash = hash).name],
    answered    <- {[query |-> a.hash, data |-> a.data] : a \in answers}

\* Whatever the network does, no consumer gets data of another name, and the
\* producer never answers None for content it has.  For scalars other than
\* zero: with zero, test() tells no components apart.
ImplementsService == Service!Spec

=============================================================================
