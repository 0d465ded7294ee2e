-------------------------------- MODULE Demo --------------------------------
(***************************************************************************)
(* main of end_to_end.rs: one process that registers the names of a file,  *)
(* then makes NUM_REQUESTS requests, each carried through to its end, and  *)
(* reports.  The data of a name is the name ("Data for ...").              *)
(* main skips a request that is dropped or refused, and its report divides *)
(* by the number of requests; there are no actions for a skipped request   *)
(* and for a division by zero, as neither happens: else Finishes would     *)
(* fail.                                                                   *)
(***************************************************************************)
EXTENDS Router, Producer

CONSTANTS
    Files,          \* the names files main may be given: sequences of lines
    NUM_REQUESTS,
    nonce           \* nonce[k]: the scalars drawn for the k-th request

ASSUME DemoAssumption ==
    /\ Files \subseteq Seq(RawName)
    /\ NUM_REQUESTS \in Nat \ {0}
    /\ nonce \in Seq(Seq(Scalar \ {Zero})) /\ Len(nonce) = NUM_REQUESTS
    /\ \A k \in 1..NUM_REQUESTS, line \in UNION {Range(file) : file \in Files} :
          parse_name(line).ok => Covers(nonce[k], line)

VARIABLES
    names,             \* the lines of the file that are not blank
    pc,                \* where main is
    registered,        \* lines registered so far
    i,                 \* requests finished so far
    name,              \* the name requested
    update_uri,        \* what the producer has returned beside the data
    received_content,
    request_details,   \* [name, was_cache_hit, received_content] per request
    report             \* the numbers printed in the end

main_vars ==
    <<names, pc, registered, i, name, update_uri, received_content, request_details, report>>
vars == <<router_vars, producer_vars, main_vars>>

None == << >>
Blank == <<"">>   \* a line that trim() leaves empty

Init ==
    /\ RouterInit
    /\ ProducerInit
    /\ names = << >>
    /\ pc = "start"
    /\ registered = 0
    /\ i = 0
    /\ name = None
    /\ update_uri = None
    /\ received_content = None
    /\ request_details = << >>
    /\ report = None

\* create_interest with the scalars of this request.
interest_uri(n) ==
    encode_ciphertext_name(name_to_ciphertext(public_key, n, nonce[i + 1]).val)

-----------------------------------------------------------------------------
LoadNames ==
    /\ pc = "start"
    /\ \E file \in Files : names' = Without(file, Blank)
    /\ pc' = "setup"
    /\ UNCHANGED <<router_vars, producer_vars, registered, i, name, update_uri,
                   received_content, request_details, report>>

\* There is no such file, or its bytes are no text: the expect() fails.
UnreadableFile ==
    /\ pc = "start"
    /\ pc' = "panicked"
    /\ UNCHANGED <<router_vars, producer_vars, names, registered, i, name, update_uri,
                   received_content, request_details, report>>

RegisterLine ==
    /\ pc = "setup" /\ registered < Len(names)
    /\ register_content(names[registered + 1], names[registered + 1])
    /\ registered' = registered + 1
    /\ UNCHANGED <<router_vars, names, pc, i, name, update_uri, received_content,
                   request_details, report>>

RegisterPrefix ==
    /\ pc = "setup" /\ registered = Len(names) /\ ~producer_panicked
    /\ on_trapdoor_registration(prefix_registration_uri)
    /\ pc' = "request"
    /\ UNCHANGED <<producer_vars, names, registered, i, name, update_uri, received_content,
                   request_details, report>>

\* The end of an iteration that was answered.
Record(n, was_cache_hit, received) ==
    /\ request_details' = Append(request_details,
          [name |-> n, was_cache_hit |-> was_cache_hit, received_content |-> received])
    /\ received_content' = received
    /\ i' = i + 1
    /\ pc' = "request"

RequestServed ==
    /\ pc = "request" /\ i < NUM_REQUESTS
    /\ \E n \in Range(names), data \in Range(cs) :
        /\ ServeFromCache(interest_uri(n), data)
        /\ Record(n, TRUE, data.content)
        /\ name' = n
    /\ UNCHANGED <<producer_vars, names, registered, update_uri, report>>

RequestForwarded ==
    /\ pc = "request" /\ i < NUM_REQUESTS
    /\ \E n \in Range(names) :
        /\ Forward(interest_uri(n), Sha256(interest_uri(n)))
        /\ name' = n
    /\ pc' = "forwarded"
    /\ UNCHANGED <<producer_vars, names, registered, i, update_uri, received_content,
                   request_details, report>>

\* The data flows back to the router, then the update follows.
ProducerAnswers ==
    /\ pc = "forwarded"
    /\ \E reply \in producer_on_interest(interest_uri(name), Sha256(interest_uri(name))) :
        /\ on_data(Sha256(interest_uri(name)), reply.data)
        /\ received_content' = reply.data.content
        /\ update_uri' = reply.update
    /\ pc' = "update"
    /\ UNCHANGED <<producer_vars, names, registered, i, name, request_details, report>>

UpdateArrives ==
    /\ pc = "update"
    /\ on_trapdoor_update(update_uri)
    /\ Record(name, FALSE, received_content)
    /\ UNCHANGED <<producer_vars, names, registered, name, update_uri, report>>

\* choose() has no name to return: its unwrap() fails.
NothingToChoose ==
    /\ pc = "request" /\ i < NUM_REQUESTS
    /\ names = << >>
    /\ pc' = "panicked"
    /\ UNCHANGED <<router_vars, producer_vars, names, registered, i, name, update_uri,
                   received_content, request_details, report>>

\* The requests that the average time of hits, or of misses, is taken over.
timed(was_cache_hit) ==
    {k \in DOMAIN request_details : request_details[k].was_cache_hit = was_cache_hit}

Report ==
    /\ pc = "request" /\ i = NUM_REQUESTS
    /\ cache_hits + cache_misses # 0
    /\ report' = [total_requests  |-> cache_hits + cache_misses,
                  cache_hits      |-> cache_hits,
                  cache_misses    |-> cache_misses,
                  hits            |-> Cardinality(timed(TRUE)),
                  misses          |-> Cardinality(timed(FALSE)),
                  cs_len          |-> Cardinality(DOMAIN cs),
                  table_len       |-> Len(trapdoor_table)]
    /\ pc' = "done"
    /\ UNCHANGED <<router_vars, producer_vars, names, registered, i, name, update_uri,
                   received_content, request_details>>

Next ==
    \/ LoadNames
    \/ UnreadableFile
    \/ RegisterLine
    \/ RegisterPrefix
    \/ RequestServed
    \/ RequestForwarded
    \/ ProducerAnswers
    \/ UpdateArrives
    \/ NothingToChoose
    \/ Report

Spec == Init /\ [][Next]_vars
FairSpec == Spec /\ WF_vars(Next)

-----------------------------------------------------------------------------
\* Between two requests nothing is left half done: no interest is pending,
\* no packet staged, every request counted once, every miss stored once,
\* and the table has a row for the prefix and one for each cached name.
NothingLeftOver ==
    pc = "request" =>
        /\ pending = EmptyMap /\ staged_data = EmptyMap
        /\ cache_hits + cache_misses = i
        /\ cache_misses = Cardinality(DOMAIN cs)
        /\ Len(trapdoor_table) = 1 + Cardinality(DOMAIN cs)

\* A request is a hit exactly when an earlier one was for the same content.
HitIffAskedBefore ==
    \A k \in DOMAIN request_details :
        request_details[k].was_cache_hit <=>
            \E j \in 1..(k-1) : Alias(request_details[j].name, request_details[k].name)

\* "Content mismatch" is printed for no name but one that the file spells in
\* two ways; the content is then that of the other spelling.
ContentAsExpected ==
    \A k \in DOMAIN request_details :
        \E line \in Range(names) :
            /\ Alias(line, request_details[k].name)
            /\ request_details[k].received_content = line

\* The report counts every request once, takes its averages over as many as
\* the router has counted, and its sizes are those of the contents requested.
ReportAddsUp ==
    pc = "done" =>
        /\ report.total_requests = NUM_REQUESTS
        /\ report.hits = report.cache_hits /\ report.misses = report.cache_misses
        /\ report.cs_len = Cardinality({parse_name(d.name) : d \in Range(request_details)})
        /\ report.table_len = 1 + report.cs_len

\* The demonstration runs to its report, unless the file cannot be read,
\* holds no name, or one that does not parse: then main panics before the
\* first request.
Finishes ==
    <>(IF names # << >> /\ \A line \in Range(names) : parse_name(line).ok
       THEN pc = "done"
       ELSE request_details = << >> /\ (producer_panicked \/ pc = "panicked"))

-----------------------------------------------------------------------------
ParsedNames == {n \in UNION {Range(file) : file \in Files} : parse_name(n).ok}

\* What can be asked for, as the sequences of components that the names have.
Contents == {parse_name(n).val : n \in ParsedNames}

\* Where the content is in cs.
key_of(c) == name_to_trapdoor(private_key, <<"">> \o c).val

\* The data of every spelling of a name is data of its content.
Cache == INSTANCE ReadThroughCache WITH
    Content <- Contents,
    Origin  <- [c \in Contents |-> {n \in ParsedNames : parse_name(n).val = c}],
    cached  <- [c \in {d \in Contents : key_of(d) \in DOMAIN cs} |-> cs[key_of(c)].content],
    answers <- [k \in DOMAIN request_details |->
                   [asked |-> parse_name(request_details[k].name).val,
                    hit   |-> request_details[k].was_cache_hit,
                    data  |-> request_details[k].received_content]]

\* The requests of main, in their order, are answered as a read-through cache
\* of the components asked for answers them, whatever encryptions of the
\* names the router is shown.
ImplementsCache == Cache!Spec

-----------------------------------------------------------------------------
\* PROTOCOL.md, cold path ("first time for a content name"), step 4: "The
\* prefix trapdoor is found as the longest match; no exact match yet."  The
\* row of a cached name that has more components in common with the name
\* requested gets in front of it.
PrefixIsLongestMatch ==
    pc = "forwarded" =>
        LET nc == name_to_ciphertext(public_key, name, nonce[i + 1]).val
            match == match_exhaustive(trapdoor_table, nc)
        IN  /\ match.exact_match = 0
            /\ get_trapdoors(trapdoor_table, match.longest_prefix.row)
                  = SubSeq(name_to_trapdoor(private_key, <<"">> \o prefix).val, 1, 1)
=============================================================================
