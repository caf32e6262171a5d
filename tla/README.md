# Verification of natsclient-cpp

natsclient-cpp is a header-only C++23 wrapper of the NATS C library (cnats): move-only classes that own C handles,
a client class, key-value calls, and two latency benchmarks. This directory holds TLA+ models of it, TLC
configurations that check them on small instances, and TLAPS proofs for every value of the constants.

Run a check with `tlc -config <run>.cfg <module>` and the proofs of a module with `tlapm <module>.tla`.

## 1. The system

| Component | State it keeps | Operations | What is hard about it |
|---|---|---|---|
| Handle wrappers: `NatsOptions`, `NatsSubscriptionSync`, `NatsMessageView`, `KvStore`, `KvEntry`, `KvWatcher`, `KvKeysList` | one C handle `ptr` (a list `kl` with a count) | construction around a handle, destruction, move construction, move assignment | sequences of moves: leak, double destruction, use after destruction; each class has its own hand-written members |
| `NatsClient` life cycle (`Client.hpp`) | `conn`, `opts`, `js`, `s` | `create`, `connect`, `jet_stream`, moves, destruction | three handles released together; an explicit destructor call; a move that leaves one handle behind; a status read before it is written |
| `NatsOptions` setters (`Options.hpp`) | `ptr`, `s` | some forty setters, each storing its status in `s` | errors in a chain of setters; `connect` reads `s` |
| `KvWatcher` (`Kv.hpp`) | `ptr`, `s` | `next`, `stop` | `stop` is meant for another thread while `next` waits, and both write `s` |
| `NatsSubscriptionSync` (`SubscriptionSync.hpp`) | `ptr`, `s` | `next_msg`, `auto_unsunscribe`, `drain`, `wait_for_drain_completion`, limits and counters | the same shared `s`; drains that need a concurrent consumer; dropped messages; error texts built from a null subject |
| Publish/subscribe calls (`Client.hpp` 424-501) | `s` | `publish`, `subscribe_sync`, `queue_subscribe_sync`, `unsubscribe` | delivery and queue groups |
| Key-value calls (`Client.hpp` 187-419) | `s` | `kvs_*`, `kv_*` | create-if-absent among several clients; calls that time out and take effect late; `string_view` passed as C string |
| `bench_lat_pub_sub.cpp` | two clients in two threads | producer and consumer loops | gaps in what is received; a clock that need not be steady; an end that depends on an error |
| `bench_zeromq.cpp` | `timestamp`, `ready`, `should_exit` in shared memory | producer and consumer loops | a handshake over atomics whose trigger goes through an endpoint in one ZeroMQ context to a socket in another; error exits that leave the other thread spinning |
| Callbacks, `NatsError`, scratch program, build files | none that matters | printing, formatting | - |

Interaction: a client hands out wrappers (subscription, message, store, entry, watcher, key list) that live on their
own; options belong to the client and move with it; `connect` reads the status the setters left; the C library calls
the client's static callbacks, which only print. Threads share a wrapper only when the program decides to
(`KvWatcher::stop` documents it); the benchmarks use one client per thread.

What makes each part correct:

* wrappers: every handle is held by one object until it is destroyed, once; a key list is readable whenever it says
  it has keys;
* client: the same for its three handles; no mixture of one client's connection with another's JetStream context;
  an error of the options is not forgotten on the way to `connect`;
* watcher: no update lost or reported twice, the end of the initial state announced once and in its place, each
  caller told what the library answered it, `stop` ends waiting calls;
* subscription: every message that arrived is in the queue, handed to one caller, or counted as dropped; a caller of a
  drain is told how it ended; no more messages than the maximum; the end of a subscription wakes whoever waits;
* key-value calls: on keys and values as the callers spell them, each call takes effect at one instant while it runs, or
  not at all if it fails, or at most once later if it timed out; one of several creators of a key succeeds;
* NATS benchmark: latencies belong to their messages and are negative only if the clock is set back, an average is over
  the messages of its window, the library is closed last, and the program ends;
* ZeroMQ benchmark: it ends and has measured something. It does neither: its two sockets live in different contexts.

## 2. Modules

| Module | Models | Correspondence |
|---|---|---|
| `Ownership` | abstract: exclusive ownership of handles | per handle: `Acquire`, `Transfer`, `Release`, `Keep` |
| `RaiiHandle` | the seven wrapper classes | `ptr`, `count` are the members; `alive` are the storage locations that hold an object; one action per special member function; one `...Step` per class |
| `NatsClient` | the client and its option status | `conn`, `opt`, `js`, `optS` are `conn`, `opts.ptr`, `js`, `opts.s`; one action per member function |
| `WatchContract` | abstract: what a watcher promises | a call begins, takes effect at one instant, and its caller is told what happened then; the status of an error is exact unless another call overlapped |
| `KvWatcher` | `next` and `stop`, statement by statement | `s` is the shared member, `e` and `ret` the locals of a call, `step` the position in it |
| `ZmqBench` | `main` and both threads of `bench_zeromq.cpp` | `ready`, `should_exit`, `i` by their names; `context` says which ZeroMQ context a thread's socket lives in, `inbox` what the consumer's socket holds; one action per access to shared memory or socket, and one for what throws |
| `CSubscription` | the C library's subscription, as a record with operators on it | external: what `SubscriptionSync.hpp` and the benchmark rely on |
| `Subscription` | one `NatsSubscriptionSync` used by several threads, statement by statement | `s` is the shared member, `ret` and `out` the locals of a call; every function is call, test of the status, and return or error |
| `CString` | `string_view` and what a C function reads at its `data()` | `Text` is what the view says, `Reads` what C sees |
| `CBucket` | a bucket in the server, as a record with operators on it | external: what the key-value calls rely on |
| `KvMap` | abstract: an atomic map from keys to values, with calls that time out and take effect later | a call begins, takes effect or is refused or times out, and its caller is told |
| `KvBucket` | the key-value calls of threads with a client each or a shared one | `s` is the member of each client, `reload` the kind of build, `ret` and `e` the locals of a call, `step` the position in it; `asked` is a call in the caller's words, `sent` what C reads |
| `Topic` | abstract: what a subscriber of a subject may rely on | `Publish`, `Receive` |
| `LatBench` | both threads and `main` of `bench_lat_pub_sub.cpp`, with `publish`, `subscribe_sync`, `next_msg` as they use them | locals by their names; one action per call that other threads can notice; `clock` is the machine's, `back` the history of how far it was set back |
| `MC...` | TLC instances of the above | |
| `OwnershipProofs`, `RaiiHandleProofs`, `NatsClientProofs`, `KvWatcherProofs`, `SubscriptionProofs`, `KvBucketProofs`, `LatBenchProofs`, `ZmqBenchProofs` | theorems about the module of that name (section 4) | |

The C libraries are modelled by what the code relies on: `Destroyed`, the queue behind a watcher (`Put`, `Woken`,
`Taken`, `TimedOut`, `kvWatcher_Stop`), the subscription (`CSubscription`), the bucket and the way to it
(`CBucket`, `Reply`, `Timeout`, `LateRequest` of `KvBucket`), the server between two clients
(`Register`, `Transmit` of `LatBench`), and what ZeroMQ says of contexts (`Joined` of `ZmqBench`: an inproc endpoint
joins sockets of one context). Definitions whose comment says
*Mutant* belong to no behaviour: each is a plausible bug, put in place of the definition it mutates to see that a
property notices it.

Modelling decisions:

* Operations of wrappers and clients are single steps: an object is used by one thread while it is moved or
  destroyed, in the code as in its users. `KvWatcher`, `Subscription` and the benchmarks are the concurrent parts and
  are fine-grained.
* `NatsClient::cleanup` runs `opts.~NatsOptions()` and the member is destroyed (or assigned) again later. Whether the
  second pass sees a null pointer depends on the compiler: the store in the destructor is dead. `LifetimeDSE = TRUE`
  are the builds that drop it (g++ 12 at -O2 and -O3 does), `FALSE` those that keep it (-O0 does).
* A status that nothing initialised (`opts.s`, `KvWatcher::s`) starts with an arbitrary value.
* The race on `KvWatcher::s` is undefined behaviour in C++; the model has the outcomes the builds produce: the test
  reads memory again (`Reload = TRUE`, unoptimised) or uses the value the call returned (`Reload = FALSE`,
  optimised), and the error object reads memory in both.
* `Subscription` has the same race on its `s`. It knows three statuses (ok, timeout, any other error), counts limits
  in messages, lets one getter stand for all, and leaves out the texts of errors and the calls of `subject()` that
  make them. Its run is of optimised builds (`Reload = FALSE`); in the others a caller may, in addition, take the
  answer of another thread for its own and return a null message; `watcher_stop_race` shows a milder form of the race.
* All setters are one action, `set_option`: which setter ran matters to no property, only whether it failed. Each
  overwrites `opts.s`, so the failure of one is forgotten when a later one succeeds; `LastErrorBlocksConnect` claims the
  last one only.
* `KvBucket` has the same race on the member `s` of a client, and the store to `s`, its test and the reading of it for
  an error are steps of their own. `reload` says whether the test reads `s` again (as in the -O0 presets) or uses the
  value the C call returned; it and which threads share a client are chosen at the start. `OwnStatus` are the
  choices in which a test cannot meet the status of another call. The
  statuses are ok, timeout and any other error. The server's answer is one step: it deals with the request and the
  reply arrives. A request whose caller gave up may be dealt with later, and that includes a lost reply, which a caller
  cannot tell from it. Delete markers, revisions and the content of key lists are left out, and so is
  `description`, an argument `kvs_create` does not use. Buffers that hold no NUL after a key are left out as well: the
  C library would read past their end.
* A second `connect` or `jet_stream` overwrites a handle that nobody destroys afterwards. It goes to the
  pseudo-holder `Lost`, so that the ownership properties say "nothing leaks but this".
* In `LatBench` a published message may be lost before the subscription exists, on the way, or in a full queue; the
  server gets to know of the subscription at some moment after `subscribe_sync`; `next_msg` may fail at any time.
  100'000'000 messages become `Rounds`. `measured` and `reported` are histories, which the program does not have.
* `high_resolution_clock` need not be steady (in libstdc++ it is `system_clock`): between two readings of `LatBench`,
  whichever threads take them, the clock moves by any member of `Ticks`, forwards or back.
* `ZmqBench` leaves out the stamps and the statistics, because no latency is ever measured; the steps that would measure
  one are there (`Recv`, `Await`, `Lower`) and are proved to be out of reach. 10'000'000 rounds become `Rounds`.
  `timestamp`, of which the model has no value, is covered by `Raise` and `Lower`. `bind`, `connect`, `set` and `recv`
  may throw and end their thread; the constructors of threads and sockets and `send` may throw and end the process.

## 3. Runs

| Run | Instance | What it shows |
|---|---|---|
| `wrappers` | 3 objects, 3 handles, counts up to 2 | `HandlesSound`, `KeysReadable`, and that the classes implement `Ownership`, under every sequence of operations |
| `client` | 2 clients, 2 handles of each kind, symmetric | `HandlesSound`, `JetStreamMatchesConnection`, `LastErrorBlocksConnect`, implementation of `Ownership`; builds without `LifetimeDSE` |
| `watcher_shared` | two consumers that may also stop, 2 updates, optimised | `ExactlyOnce`, `InOrder`, refinement of `WatchContract`; `StopWakesNext` (liveness) |
| `subscription` | a consumer and a controller, 2 messages, limits and maxima up to 2, optimised | `NothingLost`, `DrainTold`, `AtMostMax` (action property); `EndWakesCallers` (liveness) |
| `kv_bucket` | two threads, one of which also manages the bucket, with a client each in builds that read `s` again and sharing one in optimised builds; one key, two values (one with a NUL in it), 1 deletion, 1 late request | `OneCreator`, refinement of `KvMap` |
| `lat_bench` | 3 messages, pending limit 1, a clock that goes on or back by one unit with every reading, a second of 2 units | `NegativeOnlyByClock`, `AverageOfWindow`, `ClosedLast`, refinement of `Topic`, `Terminates` (liveness) |

Runs that end in a counterexample, each a disagreement between the code and what it says of itself:

| Run | Claim | What happens |
|---|---|---|
| `client_double_release` | destructors guard with `if (ptr)` and null the pointer (`Options.hpp` 87-91) | `create`, destroy: the options are destroyed twice when the compiler drops the dead store |
| `client_jetstream_lost` | "Enable JetStream for the connection" (`Client.hpp` 158), "Allow moving" (85) | after a move the connection has moved and the JetStream context has not |
| `client_refusal` | "NATS options has an error." (`Client.hpp` 132) | `create`, `connect`: refused, because `opts.s` was never written |
| `watcher_stop_race` | "new and existing calls to `next` [...] will return error with `NATS_ILLEGAL_STATE`" (`Kv.hpp` 232-233) | the stopped call returns an error with the status `stop` has just stored, `NATS_OK` |
| `kv_views` | "Places the new value for the key into the store." (`Client.hpp` 386, 318) | a key that is the first part of a longer string: the value is stored under the longer key |
| `zmq_bench` | the report "{} msgs/s, avg. latency {} ns\n" and the "Done\n" at the end (`bench_zeromq.cpp` 130, 188) | no call fails; the trigger is dropped, because the consumer's socket is in another context (lines 49 and 82); the producer waits for `ready`, the consumer polls, and `main` stays in `join` |

Why the bounds are enough. `wrappers`: an operation involves two objects and two handles; a third of each lets
something happen elsewhere in between. `client`: two clients exhaust what one move can do; two handles of each kind
allow a second `connect` and a full client on both sides of an assignment; the proofs below remove the bound.
Watcher: one call accesses `s` at most three times and races pairwise, so two threads show every race; with two
updates the initial state may end before, between and after them. `zmq_bench`: the program does not get past its
first round; two are there so that it could. `subscription`: two messages fill a limit of one and pass it, reach a
maximum before and after it is set, and leave one in the queue when a drain begins; two threads show every race on
`s`, which two calls at a time access. `kv_bucket`: keys do not interact in the code, so one is enough; two values tell
a stale or foreign value from the right one; one late request meets both threads' later calls, and one deletion allows
a second creation. `kv_bucket` leaves out two combinations: sharing a
client in builds that read `s` again, about which nothing is claimed, and a client each in optimised builds, where the
two kinds of build do the same. `lat_bench`: three messages with room for one allow drops at the start, between and at
the end, windows of one and of several messages, and negative latencies; the proofs remove the bounds.

The runs of the watcher, the subscription and the bucket check for deadlock. The others set `CHECK_DEADLOCK FALSE`: the
handles of an instance run out, and the benchmarks stop.

Fairness. `KvWatcher`: weak fairness of the C library waking a call once the watcher is stopped (`Woken`; a condition
variable), and of a thread that is inside `next` or `stop` (the scheduler); nothing forces a caller to call, the bucket
to change or a timeout to end. `KvBucket` claims safety only. `Subscription`: the same two, the C library waking a call
whose subscription has ended and a thread inside a function. `LatBench`: each of the three threads; a call of `next_msg`
comes back because its timeout is finite, and nothing is assumed of the transport. `ZmqBench`: each thread and `main`;
nothing is assumed of ZeroMQ. `Ends` asks nothing of a program in which a call failed, because a thread that returns an
error leaves `should_exit` unset and the other thread spinning (the threads' failures and the process's end by an
exception are the exceptions it names).

## 4. Proofs

* `OwnershipProofs`: the abstract specification keeps its promise (`OwnershipSound`), by cases over the four things a
  step does to a handle.
* `RaiiHandleProofs`: `TypeCorrect`, `HandlesAlwaysSound`, `KeysAlwaysReadable`, `OwnershipImplemented`, from
  `NullAssumption` and `CountAssumption`. `HandlesSound` speaks of sets of holders and is not convenient to induct on;
  the invariant `AccountedFor` says it pointwise (two holders are equal, a holder's handle is made and not released, an
  unreleased handle has a holder) and `CountNeedsKeys` carries the key list. The refinement needs one more fact about a
  step, `NoRevival`: a handle without holder never gets one again.
* `NatsClientProofs`: two layers. `HInv` (types, who holds what, `JetStreamAlone`: a client with a JetStream context
  and no connection has no options, so it cannot connect again) is inductive in every build and gives `TypeCorrect`,
  `JetStreamAlwaysMatches`, `LastErrorAlwaysBlocks`. `Counted` adds the number of releases under the hypothesis
  `LifetimeDSE = FALSE` and gives `HandlesAlwaysSound`, `ReleasedAtMostOnce`, `OwnershipImplemented`; the run
  `client_double_release` shows that the hypothesis is needed.
* `ZmqBenchProofs`: `NothingEverMeasured` and `DoneOnlyByFailure`, for any positive number of rounds. A context is new
  when it is made, so the two sockets are never in one (`Apart`); so the consumer's socket never holds a trigger
  (`Unheard`); so nobody lowers `ready`, the producer does not get past its first round unless `should_exit` is set, and
  nobody sets it (`Stuck`). That the program then runs for ever is what the run `zmq_bench` shows; what is proved is
  that "Done" is not said unless both threads have failed.
* `LatBenchProofs`: `TypeCorrect`, `LatencyNegativeOnlyByClock`, `LatencyNeverNegative`, `AlwaysClosedLast`,
  `AverageAlwaysOfWindow`, `TopicImplemented`, for any number of messages, any pending limit and any `Ticks`
  (`LatencyNeverNegative`: any without a negative one, which is a steady clock). The invariant looks at `Line`, the
  queue of the subscription followed by the wire: the numbers in it rise from the message at hand to the last one
  published (`Lined`), and no stamp in it, in the producer or in the message at hand is later than the clock plus all
  that it was set back (`Stamped`). A step appends to the line (`publish`), takes its head (`next_msg`), loses one of
  its messages or leaves it as it is (a message passes from the wire to the queue); each of the four is a lemma about
  sequences. `Owned` and `Joined` say which handles are open where. `AverageOfWindow` adds up the latencies since the
  last report by a recursive function. `Windowed`, which a step preserves, says the same without recursion: there are
  sums of the first 0, 1, 2, ... latencies, and `latency_sum` is the difference of two of them. That the recursive
  function exists and is that difference (`RemainingExists`, `RemainingSum`) is an induction over the messages; it is
  carried out with `LeastElement`, the library's theorem that a well-founded relation has minimal elements, applied to
  the set of counterexamples.
* `KvWatcherProofs`: `TypeCorrect` in every build; `ExactlyOnceAlways`, `InOrderAlways`, `ContractImplemented` for any
  threads and updates under `OwnStatus`: a call tests its own status (`Reload = FALSE`), or the watcher is used by one
  thread. The run `watcher_shared` is made under it; without it the test may see another call's status and a caller
  may be refused an update it has been given. The invariant has two halves that do not mention each other: `Control`
  (what a thread inside a call can rely on: the status it tests is its own, and `s` is its status unless another call
  met it), and `Shared`, how the history of the bucket is divided. `ExactlyOnce` is not inductive, because it counts
  places and not what is in them; `Shared` says that the queue is the end of the history, that what the threads have
  been given is the rest of it, each thing once, and that each thread's part is in order. The lemmas about it speak of
  arbitrary sequences and assignments: one thing is added to the history, or the head of the queue goes to a thread.
* `SubscriptionProofs`: `TypeCorrect`, `NothingLostAlways`, `DrainToldAlways`, and the action property
  `AtMostMaxAlways`, for any threads and messages under `OwnStatus` as above; here even the types need it, because in
  the other builds `next_msg` may return a null message as a success. `Placed` says pointwise what `NothingLost`
  counts: the messages that arrived are divided between the queue, what was returned, what was dropped and the hands
  of the threads. `Counted` relates the counters of the C subscription to its queue and end, `Local` is what a thread
  inside a call can rely on, and `Promises` carries what `auto_unsunscribe` and `wait_for_drain_completion` promise
  from the C call that succeeded, over the store to `s` and its test, to the caller.
* `KvBucketProofs`: `TypeCorrect`, `OneCreatorAlways` and `MapImplemented`, for any threads, clients, keys and values,
  under `WholeViews`: every view that is passed without its size ends where its buffer has a NUL, and `OwnStatus`.
  `kv_views` shows that the first is needed: otherwise a value is stored under a key nobody named. Without the second a
  test may meet the status of another call, which is what the mutant `TestedShared` does in every build. They also use
  `NullAssumption`: the null pointer is not a string. `OneCreator` looks at callers that have been told; `Counted`
  includes those that will be (the reply has come, the caller has not), and balances them against the deletions and the
  key that is there, so that a creation, a deletion, and a late request each keep the balance. `Lost` says that a late
  request is one that its caller made. For the refinement, the server's dealing with a request is `TakeEffect` or
  `Refuse`, giving up is `TimeOut`, a late request is `TakeLateEffect`, and the return, or the reading of `s` for an
  error, is `Tell`; storing `s` and the inner call of `kvs_create` are no steps of the map. `Inner` has what `Tell`
  needs: a failing call finds its own status in `s`, or has met another call.

Only model-checked: the liveness properties `StopWakesNext`, `EndWakesCallers` and `Terminates`, and that the
watcher, the subscription and the bucket do not deadlock: fairness and ENABLED are out of the prover's reach. Every
other property that a passing run checks is a theorem, most of them for every value of the constants, the others under
the hypothesis named above.

## 5. Plan

What is left, in this order:

1. Sharing in the builds that `OwnStatus` excludes: what of `NothingLost` and `ExactlyOnce` remains true when the test
   reads `s` again and several threads call.
2. The absence of deadlock of the watcher, the subscription and the bucket as a state predicate without ENABLED, for
   any number of threads.
3. The key-value calls without `WholeViews`, when keys that are spelt alike are read alike: which keys a call may touch.

Not modelled: queue groups (`queue_subscribe_sync` differs from `subscribe_sync` in the library call it makes; which
member of a group gets a message is the server's choice and nothing in the client depends on it), the values the
setters hand to the library, text formatting, the accessors that only read, the callbacks (they print), the scratch
program and build files, and `bench_zeromq.cpp` 196-547 (commented-out earlier versions).
