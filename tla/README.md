# PEKS-NDN: a verification project

PEKS-NDN lets a consumer ask an NDN network for content under an *encrypted*
name.  Each component of the name is encrypted with a public-key scheme with
keyword search (PEKS); routers hold trapdoors made by the producer, test them
against the ciphertexts, and cache data under the trapdoors.  The code is a Rust
library, `src/peks_ndn/src`, and one program that plays all the parts,
`src/peks_ndn/examples/end_to_end.rs`.  `PROTOCOL.md` and `DESIGN.md` describe
the protocol it demonstrates, with several interests in flight at once
(`PROTOCOL.md:139-140`).

Paths below are relative to `src/peks_ndn/`.

## 1. Inventory

| component | code | state | operations | what makes it correct |
|---|---|---|---|---|
| PEKS scheme | `src/peks.rs`, `hash.rs`, `utils.rs` | none (keys and scalars drawn at random) | `generate_key_pair`, `encrypt`, `generate_trapdoor`, `test`, serialisation | the test succeeds for equal keywords and no others; trapdoors are deterministic, ciphertexts are not |
| names | `src/ndn/helper.rs`, `name.rs` | none | `parse_name`, `name_to_trapdoor`, `name_to_ciphertext`, `sort_key` | testing component by component compares names |
| wire formats | `src/ndn/wire.rs` | none | four encoders, four decoders | each decoder inverts its encoder and takes no other format |
| trapdoor table | `src/ndn/table.rs` | sorted vector of rows | `insert`, `match_exhaustive`, getters | stays sorted; Algorithm 1 returns the first exact row, or the first longest prefix |
| content store | `src/ndn/cs.rs` | map: trapdoor sequence -> packet | `insert` (overwrites), `lookup` | pairs trapdoors with their own packet; never regresses |
| pending tracker | `src/ndn/pending.rs` | map: SHA-256 of a URI -> URI | `insert`, `lookup_and_remove` | an entry lives as long as its answer is outstanding |
| router | `examples/end_to_end.rs:119-220` | the three above, staged data, two counters | `on_trapdoor_registration`, `on_interest`, `on_data`, `on_trapdoor_update` | table, cache, pending and staged data agree, for any order of calls |
| producer | `:53-112` | trapdoor table, content map, keys | `register_content`, `prefix_registration_uri`, `on_interest` | finds the newest content of the name asked for |
| consumer | `:233-247` | the public key | `create_interest` | gets data of the name it encrypted |
| main | `:254-380` | the demonstration's locals | setup, 50 requests, report | every request is answered, the metrics mean what they say |
| network | none | messages in transit | external | - |

Interaction: the consumer hands an interest URI to the router.  The router
records it as pending, matches it, and either drops it, serves it from its
content store, or forwards it with its hash to the producer.  The producer
answers with a data packet, which the router stages under the hash, and a
trapdoor update URI that carries the same hash; on the update the router joins
the two, caches the packet and inserts a row.  The hash is all that ties the
four messages together.

What is hard: several interests for one name are in flight at once and all of
them miss; registrations arrive in between; messages may be reordered,
duplicated or lost; the same trapdoors end up in several rows; names that are
spelt differently share their trapdoors; a decoder's `expect` brings the router
down; keys are bytes run together; a prefix is registered by its first component;
a names file that is unreadable or unusable; zero scalars, for some components of a
name or for all.  `PROJECT.json` lists each hazard at its line, with the
properties that cover it.

Sequential facts with a bearing on the model:

* There is no eviction, no timeout and no retry in the code; nothing is
  persisted, so there is no restart to recover in.
* `main` is one process and carries each request through before the next one
  starts.  `Demo` models that.  The library's own claims are about concurrent
  interests, and `PeksNdn` models those: there the *handlers* stay atomic (they
  take `&mut self`), and the messages between them interleave.

## 2. Modules

    Peks -> Names -> Wire ----------+-> Router ---+-> RouterOpen
                 \-> TrapdoorTable -+             |
    HashMaps ------------------------+-> Producer -+-> PeksNdn  ==implements=>  ContentService
                                                  \-> Demo     ==implements=>  ReadThroughCache
    TrapdoorTable -> MatchLoop,  SortKeys -> NamePairs
    Peks -> PeksSession    Wire -> UriInTransit

Proofs, each module extending the one to its left and the module it is about:

    Layers_proofs -+-> PeksSession_proofs, UriInTransit_proofs, MatchLoop_proofs
                   +-> NamePairs_proofs
                   +-> RouterOpen_proofs <--instance of-- PeksNdn_proofs
                   +-> PeksNdn_proofs
                   \-> Demo_proofs

| module | models | how |
|---|---|---|
| `Peks` | `peks.rs` | Group elements are their discrete logarithms, so scalar multiplication and pairing are both the field's multiplication `Mul`; `Sha256` is an injective wrapper. The field, its zero and the hash to G1 are constants with named assumptions. |
| `Names` | `helper.rs`, `name.rs` | A raw name is what `split('/')` makes of it. `parse_name` with its three errors; `Without` is the filter of empty components. `name_to_ciphertext` takes the scalars drawn, one for each component. |
| `Wire` | `wire.rs` | A URI is a flag for `/peks_strategy/` and the rest split at slashes. Bytes remember what serialised to them, which stands for length and point validation. All error paths, in the code's order. |
| `TrapdoorTable` | `table.rs` | `insert` returns the *set* of tables possible, as a binary search may stop at any of several equal rows. `match_exhaustive` is defined by what it returns. |
| `HashMaps` | `std::collections::HashMap` | external |
| `Router` | router, `cs.rs`, `pending.rs` | One action per handler, `on_interest` as its three decisions `Drop`, `ServeFromCache`, `Forward`. A failed `expect` sets `panicked`, after which no handler runs. |
| `Producer` | producer | `on_interest` changes nothing: it is an operator, the set of its at most one reply. A failed `unwrap` on a name that does not parse sets `producer_panicked`. |
| `RouterOpen` | the router in any environment | Handlers called in any order with any members of constant sets. It has no bounds: `MCRouterOpen` has them, for TLC. |
| `PeksNdn` | the whole protocol, concurrent | Router + Producer + messages in transit + history variables. `Faults` says what the network may do. |
| `ContentService` | the promise to the consumers | Registrations and queries by name. A query is answered with data registered under its name, or refused while there is none. Says nothing of encryption, routers or messages, nor that an answer comes. |
| `Demo` | `main` | Sequential, same Router and Producer. The names file is read in `LoadNames`, or cannot be (`UnreadableFile`); the three ways in which it makes `main` panic are modelled. `Report` sets the numbers that are printed, except for times. |
| `ReadThroughCache` | the promise | Records for each request what was asked for, whether it was a hit, and the data handed over. The first request for some content is a miss, answered by the origin and stored; later ones are hits, answered with what was stored for that content. |
| `MatchLoop` | `match_exhaustive` as a loop | One action per branch of the loop body, checked against the operator. |
| `SortKeys` | `sort_key`, `trapdoors_to_key` | The bytes of a point are a constant, a function of which only a fixed length and the order are assumed; keys are bytes run together. |
| `PeksSession`, `UriInTransit`, `NamePairs` | the pure layers in use | Small machines that build up ciphertexts and trapdoors, slashes in URIs, and names. |
| `*_proofs` | theorems | See section 4. |
| `MC*` | instances for TLC | `MCField` is the field of five scalars. |

Abstractions.  Names of the Rust code are kept.  Data bytes are a registration
number (`PeksNdn`) or the name (`Demo`, where the data is "Data for <name>").
A draw is the sequence of the scalars for the components of one name, any of
which may be zero, independently (`Nonces`).  The first scalars of
two requests' draws are never the same (`NoncesAssumption`), so no interest is a copy of another;
since the scalars other than zero are interchangeable, `Request` takes the draws without a
zero in order.  Sort keys and cache keys are
compared as trapdoor sequences; `NamePairs` checks, with the keys of `SortKeys`,
that this is what comparing their bytes does.  Scalars are numbered in the order in which
their points' bytes compare; nothing else depends on the numbers, as `Mul` is any
multiplication.  `from_bytes`
ignores bytes after the 48 of a point; no encoder makes such input.  A consumer
whose name does not parse panics in `create_interest` before sending anything:
such a request is simply not made.  In `Demo` the two `continue` branches
(`:326-335`), and the division by the number of requests (`:364`) when that is zero, have no action: `main` never reaches them, and if it did, the model
would stop there and `Finishes` would fail.

## 3. Runs

Constants common to all: scalars 0..4 with multiplication modulo 5, keywords
`p`, `a`, `b` hashed to 1, 2, 4, private key 2 (3 in `names`).  In the network an interest is encrypted with one of two or
three pairs of scalars, none of them zero but in `zero_scalar`, where the pairs are
1, 2 (no zero), 2, 0 (one for the second component), and 0, 0.
Five scalars are the smallest prime field with a nonzero scalar each for three
encryptions and distinct nonzero images for three keywords.

| run | question | bounds |
|---|---|---|
| `reliable` | With an orderly network and concurrent interests, does anything leak, panic or regress, and is the newest content served? | names `/p`, `/p/a` (the first has the trapdoors of the registered prefix); 3 requests, 2 registrations, one interest that does not decode |
| `faults` | Can reordered, duplicated or lost messages corrupt the cache, make a cached packet unfindable, or give a wrong answer or refusal? | 2 requests, 2 registrations, 1 duplication or loss, any order |
| `zero_scalar` | What do interests with some or all components encrypted with zero do to the others, and which interests does the router match when the prefix is `/p/a`? | names `/p/a`, `/p/b`, `/b`; 3 requests, 2 registrations, any order |
| `lossy` | Do losses strand anything without trace, and do `/p/a`, `/p//a` and a name that does not parse keep the producer's table and content map together? | 2 requests, 2 registrations, 2 losses, a foreign URI |
| `liveness` | Is every interest settled, and every answer cached? | 2 requests, 2 registrations, 1 duplication |
| `router` | Do table and cache agree in any environment? | 9 URIs, of every format and rejected ones; 4 rows, 2 lookups, 1 pending interest: at a bound `MCNext` no longer calls the handler |
| `demo` | Does `main` implement the read-through cache, does its report add up, and which names files does it report on? | 6 files: one that cannot be read; a name twice and the prefix itself, two spellings of one name, no line, a blank line, a name without a slash; 4 requests |
| `match` | Does the loop return what the operator says? | all tables of up to 3 rows of 1 or 2 trapdoors, sorted or not; ciphertexts of length 1 and 2 |
| `peks` | When does the test decide equality? | every key, 3 ciphertexts, all scalars including zero |
| `wire` | Does each decoder invert its encoder, and reject the others? | names of 1 and 2 components, up to 2 slashes added, hashes that are a digest, a trapdoor, or empty |
| `names` | Do component-wise tests compare names, and do the byte keys tell them apart and keep their order? | all pairs of names of up to 3 components; points of 3 bytes of 2 values, so that without leading zeros keys would run into each other |
| `cold_prefix` | Is the prefix row the longest match of a cold request? (expected to fail) | `main` with the names `/p/a/a` and `/p/a/b`, 2 requests |

Why the bounds are enough.  Two interests for one name are needed for duplicate
rows and for a hit racing a commit; a third for an interest that meets the
duplicate, or for a commit after a re-registration; two names, one a prefix of
the other, for a match to stop at the wrong row.  One duplication is enough for
every message to be handled twice, in `faults` on top of any order of delivery.
Two losses are needed to strand one packet
and orphan another update.  `MatchLoop`'s three rows are a best match, a tie, and
a longer one.  Names of two components with scalars of their own are the
smallest of which a part can be encrypted with zero.

**What the runs show.**

* `CacheSound`: the hash joins only what belongs together, whatever the network
  does.  Without zero scalars, that is.
* `ImplementsService`: `PeksNdn` refines `ContentService`, with a query known by the
  hash of its interest.  In `faults` that means no wrong answer; in `lossy` also
  that the producer never answers None for content it has under another spelling.
  `AnswerSound` is its part about answers, stated for zero scalars as well.
* `zero_scalar`: a component encrypted with zero passes the test of every trapdoor, so
  an interest matches rows that agree with it in its other components, and if all
  were, the first row of its
  length.  The consumer may get data of such a name (`AnswerSound` says that it agrees
  wherever the scalar is not zero), but the update that comes with
  the data carries *that* name's trapdoors, so the cache stays sound and no other
  consumer is affected.  One combination is not covered because it is not true
  there: if the network duplicates such an interest on its way to the producer
  *and* reorders the producer's messages, and content is registered in between, the two replies
  are for two names under one hash, and the data of one can be cached
  under the other.  The code's answer would be to reject zero, as `DESIGN.md` says.
* `RoutedByFirstComponent`: with the prefix `/p/a` registered the router has a
  row for `/p/b` too, and for nothing under another first component but what is
  cached.  No interest under the prefix is left without a row.
* `OutstandingIsPending`: what a loss strands (a staged packet whose update never
  comes, an interest that never reached the producer) keeps its pending entry, so
  a sweep over old pending entries, which the code does not have, would find it all.
* `MonotoneCache`, `PendingAccounted`, `StagedAccounted` need a network with some
  order, and say so; section 4 has the weakest assumption each is proved from
  (`MonotoneCache` survives losses, `PendingAccounted` reordering).  With reordering an update that arrives first is spent, its data
  stays staged; with duplication an older packet can overwrite a newer one.
  The code has no defence against either; the documents promise none.
* `PendingAccounted` pins down the leaks: dropped interests and those refused by
  the producer stay pending for ever, no others do.
* `CacheReachable`, `WarmStaysWarm`: duplicate rows are harmless, as all rows with
  one key lead to one cache entry.
* `TestDecides` says what a zero scalar does: every test succeeds.
  `DESIGN.md` asks for zero to be rejected; `generate_random` does not.
  `Producer` and `Demo` assume nonzero scalars, `PeksNdn` a nonzero key only.
* `ImplementsCache`: what each request asked for, by the components of its name, is part
  of the history that is mapped.  A request answered from the entry of
  another name, a first one served from cache, or one fetched twice is no step of
  `ReadThroughCache`.
* `ReportAddsUp`: the report takes its counts from two places, the router's counters and
  the list of requests, and its sizes from the two containers; they agree.
* `ContentAsExpected`: with two spellings of one name in the file, `main` does print
  "Content mismatch" - the content is then that of the other spelling.
* Not stated as properties, as the documents promise neither: a consumer may get
  newer data from the producer and older data from the cache afterwards, until the
  update of the newer has arrived; and cached data is never refreshed.
* `RoundTrip`, `OnlyItsOwnFormat`: an update with an empty hash loses its last
  trapdoor to the hash, and a trapdoor name passes for an update. No handler
  sends either.
* `cold_prefix`, the one divergence found: `PROTOCOL.md:76-77` has the prefix
  trapdoor as the longest match of the first request for a name, and by step 5 (`:78-79`) the
  FIB routes on it.  The row of a cached name that shares more components with the name
  requested gets in front of it: in the counterexample one of `/p/a/a` and `/p/a/b` is cached, and
  the first request for the other matches its row up to the second component, while the
  prefix row matches one.  `examples/names.txt` has such names,
  `/producer/alice/messages/inbox` and `/producer/alice/messages/sent`.  Nothing
  in the code uses the longest match (the router forwards in any case); a FIB keyed by it
  would.

**Fairness.**  `PeksNdn` assumes weak fairness of `RouterReads`, `ProducerReads`
and `Delivery`: whoever holds a message for a handler calls it, as `main` does
right after obtaining it.  Nothing is assumed of requests, registrations and the
network's faults.  `Demo` assumes that `main` keeps running.

`CHECK_DEADLOCK FALSE` is set where the system stops by itself: all requests and
registrations used up, `main` at its end, the loop of `match_exhaustive` at its end, bounds of the
environment reached, a panicked router.

## 4. Proofs

Every safety invariant and action property that the passing runs check, and both
refinements, are theorems: for all names, fields, hashes to them, scalars, bounds and
sequences of steps.  The inductive
invariants were checked with TLC on the instances of the runs before they were
proved.

Assumed throughout are the named assumptions of the modules: a field without zero
divisors, a hash to G1 that is injective and never zero, a nonzero private key, a
prefix of at least one component.  `UriInTransit` assumes that encrypted
names and trapdoor sequences have a component, as no name parses to none
(`helper.rs`), and that digests are SHA-256 values; `SortKeys`, that a compressed point
has one size, and its bytes the order of its number; `PeksNdn` and `RouterOpen`,
that a URI which may come from anywhere has a path.  TLC evaluates all of them in
every run.  What a theorem
needs beyond them is in its `ASSUME`, and in the table below.

**The layers** (`Layers_proofs`).  `TestIsEquality`: the pairing
test compares keywords, unless a scalar is zero; from it `NamesTested`: testing component
by component finds the names that agree with the encrypted one wherever its scalar is not
zero, and have as many components; with no zero drawn that is equality of names (`NamesCompared`).  `InterestRoundTrip`, `RegistrationRoundTrip`, `UpdateRoundTrip`: each
decoder inverts its encoder, for sequences of any length.  They rest on what
the filter of empty components leaves: `Without`, defined by counting positions,
leaves a sequence alone that has none, and distributes over
concatenation (`WithoutConcat`).  `InsertKeepsSorted`: at any position the
binary search may return.  `MatchFound`: when Algorithm 1 finds a row at all.
`InsertKeepsExact`: an insert never changes the trapdoors that an encrypted name
finds, because rows that match one name exactly have one key (`ExactKeyUnique`) - the reason
why duplicate rows are harmless.

**`MatchLoop_proofs`.**  `LoopTypeOK`, `LoopIsOperator`.  The invariant says what is
known of the rows left behind (none matches exactly; `longest_prefix` is the
first of the longest among them) and of the row the walk is at (as many tests
passed as were counted).

**`PeksSession_proofs`.**  `SessionTestDecides`, `SessionDeterminism`: what was made
was made with the one key drawn.

**`UriInTransit_proofs`.**  `UriRoundTrip`, `UriOwnFormat`.  The invariant (`Carries`) says
that the path without its empty components is what the encoder made of the
message.  An inserted slash keeps it, as the filter distributes over the parts before
and behind; the rest is what each decoder makes of such a path.

**`NamePairs_proofs`.**  `TestsCompare`, `KeysCompare`, `BytesOrder`, for names of any length
and points of any size.  The last two are cases of `KeysOrderSequences`: keys made by running
points together compare as the trapdoor sequences do, and are equal for equal sequences
only, although nothing in a key says where a point ends.  The argument is that two sequences
first differ somewhere; up to there their keys agree, there they have points of one
size and different bytes, and whatever follows does not matter (`KeyLessExtended`).
If one ends there, the other goes on with a byte at least.  With equality
excluded in this way for one order and for the other, equal keys have equal sequences.
`FlattenSeq` of the community modules is a recursive function: that there is one such
function, and only one, is proved first (`RunsTogetherExists`, `FlattenRuns`), by the
least position at which it would fail, in place of an induction.

**`RouterOpen_proofs`.**  `RouterTypeOK`, `RouterTableSorted`, `RouterCacheIndexed` from
`IInv == TypeOK /\ TableSorted /\ CacheIndexed`.  `TypeOK` is needed for the insertion
lemmas to apply (rows are entries, keys are sequences of scalars), and for that in
turn the decoders must be known to return points only.  `CacheIndexed` is kept by
`on_trapdoor_update` because it caches and inserts in one call.
`RouterWarmStaysWarm` follows from `InsertKeepsExact`.

**`PeksNdn_proofs`**, for a network that does anything it can.  What is joined
by hash at the router was never together before, so `CacheSound` and `AnswerSound`
are not inductive: the invariant (`Inv`, `JoinInv`) *follows the hash*.  Whatever carries one
- an interest forwarded, a data packet, an update, staged data, a refusal, an
answer - belongs to an interest that was sent and has this hash, and the
trapdoors it goes with match the ciphertexts of that interest exactly.  Two things
that carry one hash then have the same trapdoors unless a component of the interest was
encrypted with zero.  `NetworkImplementsService` adds what the producer knows (`ServiceStep`: each
step of the network is a query, a registration, an answer or a refusal of
`ContentService`, or a stutter).

The second half is for a network that copies no message.  There a hash is
*in one place at a time* (`PlaceInv`): with the interest on either side of the router, with
the data and the update on their way back, with the staged data, or with the
refused interests.  On top of it `RowsInv` (the rows of the router's table are the prefix's and
those of cached names), `PendingInv` and `StagedInv` (what the places account for), `OrderInv`
(an update is behind its data in the queue) and `AgeInv` (the packets of one key are
cached, staged and queued in the order of their registration).

The last part brings the router's own theorems in.  `NetworkImplementsRouter`: with
the interests, the registration and the updates that this network can make for `Uris`, and
their hashes for `Hashes`, every step of `PeksNdn` is a step of
`RouterOpen`, or none of the router's.  The invariant is needed for that, as it says which
messages can be in transit.  `NetworkTableSorted`, `NetworkCacheIndexed` and `NetworkWarmStaysWarm`
follow by instantiating the theorems of `RouterOpen_proofs`; the lemmas named `Same...` say that
the operators of the instance are those of the module.  So the router
that the network lies around keeps its table sorted and never turns a
warm interest cold, under reordering, duplication and loss.

**`Demo_proofs`.**  `Inv` is about one request at a time: between two the content
store holds the data of exactly the names requested so far (`HistoryInv`), the
table a row for each and one for the prefix (`CountInv`); during one, everything
pending or staged belongs to it (`FlowInv`).  `DemoLeavesNothing`, `DemoHits`, `DemoContent`
are parts of it.  `DemoReport` adds that the requests recorded as misses are as many as the
entries of the content store (`TimedInv`, `StoreCounted`).  `DemoImplementsCache` maps each step to a
hit or a miss for the components of the name recorded, or a stutter.  It needs that data under a
key is of a name with just these components, and that the key is absent until the first of them
was requested.

| theorem | property | assumes | instances that satisfy it |
|---|---|---|---|
| `NetworkTypeOK`, `RouterNeverPanics` | `TypeOK`, `NoPanic` | - | all |
| `NetworkCacheSound`, `NetworkCacheReachable` | `CacheSound`, `CacheReachable` | `ProperNetwork`: no component of an interest was encrypted with zero, foreign URIs included | `faults`, `reliable`, `lossy`, `liveness` |
| `NetworkAnswerSound`, `NetworkImplementsService` | `AnswerSound`, `ImplementsService` | `Nonces \subseteq Proper`: no component was encrypted with zero; `NoForeignInterests`: what consumers did not send are no interests | `faults`, `reliable`, `lossy`, `liveness` |
| `ProducerServesLatest` | `LatestServed` | `NoAliases`: each name is written in one way | `reliable`, `faults`, `zero_scalar` |
| `OnceCacheSound`, `OnceCacheReachable` | the same two, with zero scalars | `AtMostOnce`: nothing is copied; `Apart`: foreign URIs are none of ours | `zero_scalar`, `reliable`, `lossy` |
| `OnceAnswerSound` | `AnswerSound`, with zero scalars | `AtMostOnce`, `NoForeignInterests` | the same |
| `NetworkRoutes` | `RoutedByFirstComponent` | `AtMostOnce`, `NoneLost`, `Apart` | `zero_scalar`, `reliable` |
| `OutstandingStaysPending` | `OutstandingIsPending` | `AtMostOnce`, `InOrder`, `Apart` | `lossy`, `reliable` |
| `NetworkMonotone` | `MonotoneCache` | the same | `lossy`, `reliable` |
| `NetworkPending` | `PendingAccounted` | `AtMostOnce`, `NoneLost`, `NoForeignInterests` | `zero_scalar`, `reliable` |
| `NetworkStaged` | `StagedAccounted` | `AtMostOnce`, `InOrder`, `NoneLost`, `Apart` | `reliable` |
| `RouterWarmStaysWarm` | `WarmStaysWarm` | `ProperInterests`: as `ProperNetwork` | `router` |
| `NetworkImplementsRouter`, `NetworkTableSorted`, `NetworkCacheIndexed` | `Spec`, `TableSorted`, `CacheIndexed` of `RouterOpen` | - | all of `PeksNdn` |
| `NetworkWarmStaysWarm` | `WarmStaysWarm` of `RouterOpen` | `ProperNetwork` | `faults`, `reliable`, `lossy`, `liveness` |

The assumptions about the network are about the environment, not the code:
`PROTOCOL.md` describes every exchange as carried through once and in order, and the code has
no sequence numbers, no timeouts and no retries that would give more.  The
assumptions about zero are what `DESIGN.md` asks of `generate_random`; where
they can be done without, a theorem on the network that copies nothing does.  `Apart` says
that two interests do not have one hash by accident: a foreign URI equal to an
interest of ours would be a copy of it.

Only model-checked: liveness (`EveryInterestSettles`, `EveryAnswerIsCached`, `Finishes`), as fairness is out of the prover's reach; and the one property that is
violated, by a counterexample.

## 5. Not modelled

Group and pairing arithmetic, hash-to-curve and SHA-256 themselves (assumed ideal);
whether encrypted names hide anything (no behaviour of the program states it);
printed timings; `is_empty` and `contains`, which only tests
read; the `continue` branches of `main`, which it cannot reach; FIB, a chain of routers, key distribution, signatures and the other parts `PROTOCOL.md` lists
as not implemented.

## 6. Plan

Done first, the router and the protocol around it; then the layers below it,
then the program above it; then the proofs, in the same order, and last the keys
and the router inside the network.  What would follow a change of the code: a
second router needs `Router` with its variables indexed by node, and `RouterOpen` is
then what each of them implements; eviction or a timeout is an action of its
own in `Router`, and `WarmStaysWarm` and `OutstandingIsPending` are the first to revisit.
