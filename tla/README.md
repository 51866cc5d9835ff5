# A TLA+ verification project for ys

ys is an HTTP server library in C: a program makes routers, binds handlers and
middlewares to them, and starts a server that accepts connections, hands each of
them to a thread of a pool, parses one request, routes it, and sends one response.
This directory models the library's own logic, checks the models with TLC and
proves the central ones with TLAPS. Paths below are relative to the repository
root (`src/server.c` is `src/src/server.c` in PROJECT.json).

## 1. The system

| Part | Source | State it keeps | Operations | Hard behaviour |
|-|-|-|-|-|
| accept loop | `src/server.c`, `src/sighandler.c` | listening socket, TLS context, the connection at hand | select, accept, SSL_accept, dispatch | blocks for each connection |
| thread pool | `deps/lib.thread/thread_pool.c`, `thread.c` | list of suspended threads, `pool->mutex`, a condition variable and a job per thread | insert, get, dispatch, exec, resuspend | signal without a mutex, wait without a loop, job object reused |
| semaphore | `deps/lib.thread/semaphore.c` | counter, mutex, condition variable | init, wait, post, destroy | freed by the waiter while the poster is still inside |
| intrusive list | `deps/lib.cartilage/glthread.c` | next and prev of every node | insert after, remove, dequeue first | cases on NULL links, links from malloc |
| exchange | `src/request.c`, `src/response.c`, `deps/picohttpparser` | a 4096 byte buffer, the response, the socket | read and parse, serialise, send, close | segmentation, partial writes, peers that leave |
| route trie | `src/trie.c`, `src/path.c`, `src/url.c`, `src/util.c` | nodes, labels, handlers per method | insert, search | leaf rule, no backtracking, hash order, queries |
| router | `src/router.c`, `src/middleware.c` | attributes, routers, sub-routers, middleware arrays | set-up calls, `router_run` | shared arrays, the `done` flag, nested dispatch |
| CORS | `src/cors.c` | options, one static configuration | options, `cors_init`, `cors_handler` | global state, uninitialised fields, wildcards |
| headers | `src/header.c`, `src/response.c` | the header tables | insert, serialise, canonical spelling, taking a list of names apart | singletons, spelling, framing |
| start-up | `src/config.c`, `src/logger.c`, `src/server.c` | `server_conf`, log level, server attributes | parse, apply, attributes, init, start | reloaded per router, integer widths |
| cookies | `src/cookie.c` | the cookies in the making, the header lines of both directions | make, set attributes, serialise, parse, find | two ways to read a line, null pointers for empty texts, characters that are dropped |
| queries | `src/url.c`, `src/request.c` | the table of a request | parse, decode, look up | bad settings among good ones |
| IP addresses | `src/ip.c` | the bytes of an address while it is parsed | validate | ellipsis, trailing IPv4, limits |
| hash table, hash set | `deps/libhash` | slots, count, capacity | insert, search, delete, resize | collisions, tombstones, full tables, negative hashes |
| arrays, buffers, strings | `deps/libutil` | | cut, split, trim | null pointers where a part is empty |

How they interact: `ys_server_start` builds the pool and enters the accept loop.
For each connection the loop calls `thread_pool_dispatch`, which gives a job to a
thread and waits on a semaphore until the thread has run `client_thread_handler`
and is back in the pool. The handler reads the request (exchange), calls
`router_run` (router, trie, CORS, headers) and sends the response. Everything the
handlers touch is shared without locks: the trie's regex cache, the static buffers
of strtok and of the log timestamp, the CORS configuration. Nothing is stored on
disk, so there is no recovery after a crash.

What makes each part correct: the pool loses no signal, never mixes jobs up, never
runs out, and keeps handlers apart; the exchange answers every decided request
whatever TCP does; the trie returns what the routes promise; the router runs the
right handlers in the right order; CORS grants what the options allow; messages
are framed correctly; a cookie comes back as it was set, a query as it was
written, an address is accepted exactly when it is one; the configuration that is in
force is the file's and the program's.
PROJECT.json lists the hazards line by line.

## 2. Modules

| Module | Models | State and actions |
|-|-|-|
| `Pointers` | the null pointer | the constant `NULL` |
| `SerialServer` | abstract: one connection at a time, first come first served | `backlog`, `cur`, `phase` |
| `ThreadPool` | accept loop, pool, semaphore | program counters of main and workers; one action per step between two synchronisation points; a mutex that is held across steps has an owner |
| `Glthread` | the list of the pool, link by link | `next`, `prev`, `removed`, and `undef` once a removal wrote through a wild link |
| `Exchange` | one request and its response; `phr_parse_request` with its `last_len` | bytes counted: `buflen`, `sent`, `out`; the client sends, leaves, stops reading (`stalled`) |
| `Trie` | registration as actions, search as a function | `nodes`, `actions`, `routes` |
| `Router` | attributes, routers, `router_run` | set-up actions, then one action per step of a request |
| `Cors` | options of each router, the one configuration, handler | `opts`, `used`, `cors_conf`, `corsReq`, `reqd`, `corsRes` |
| `CStrings` | the string functions of `src/util.c` and libutil that the parsers use | none; a string is a sequence of characters, NULL the null pointer |
| `Headers` | request and response tables, serialisation | `reqTable`, `resTable`, `out` |
| `HeaderKeys` | canonical spelling of names, `derive_headers` | `keyText`, the text at hand |
| `Ipv4`, `Ip` | `parse_ipv4` as a function; `validate_ip` with the loop of `validate_ipv6` as actions | `ipText`, `cp`, `ix`, `ellipsis`, `wrote` |
| `Cookies` | a cookie from the program to the client and back | `cookie`, `setCookies`, `cookieLines`, `found` |
| `Query` | `parse_query`, one action per setting, and the accessors | `query`, `queries` |
| `Startup` | configuration file to listening server | `file`, `local`, `server_conf`, `serverAttr`, `server`, `pool`, and `attrCalls`, the history of calls on the attributes |
| `HashTable` | libhash's table and set | `tab` (capacity, count, slots, `wild`), and `content`, what the calls promise |
| `ThreadPoolProofs`, `ExchangeProofs`, `RouterProofs`, `CorsProofs`, `StartupProofs` | theorems about the module of that name | |
| `StructureProofs` | theorems about `Trie`, `Glthread` and `HashTable` | |
| `MessageProofs` | theorems about `Headers`, `HeaderKeys`, `Ip`, `Cookies` and `Query` | |
| `ProofLemmas` | what the proofs share: induction on natural numbers, functions defined by recursion, Max, Min, sequences, division | |
| `MCTrie`, `MCHashTable`, `MCCors`, `MCStartup`, `MCMessages` | values of constants for TLC; `MCMessages` also puts the modules about the text of messages side by side | |
| `MCConnections`, `MCRequests` | the two passing runs: components side by side | `part`, the component at work |

The modules meet at named points: `ThreadPool` treats a handler as two actions
(HandlerStart, HandlerReturn), `Exchange` is what happens between them, its action
`router_run` is what `Router` models, `Router` leaves the result of the search open,
which is what `Trie` computes, and the effect of `cors_handler` on the chain is what
`Cors` gives. `ThreadPool` represents the list as a sequence; `Glthread` shows that
the pointers implement that sequence (`StackDiscipline`). `Cookies` uses `Ipv4` for
domains, and its texts are the values `Headers` treats as opaque; `Trie` decides
whether a path has a query, `Query` what is in it; the keys `Cors` compares are those
`HeaderKeys` computes. Because `HandlersExclusive`
is proved, `Exchange`, `Router`, `Cors`, `Headers`, `Cookies` and `Query` may look at one request at a time.

Abstractions. A request, a header value or a path segment is a member of a small
set; bytes are counted. Where a parser is modelled a text is a sequence of
characters, one for each class the code tells apart: an attribute name of a cookie, a
date and a percent escape are one character each. Cookies and queries end in CRASH or
"crashed" where the code hands a null pointer to a C library function. A regular
expression is the set of segments it matches. The order of a hash table is left open.
Of picohttpparser the models have what the result of a parse depends on beyond the
bytes themselves: `last_len`, with which a request whose first bytes were parsed before
is only searched for its blank line. The grammar of a request is left out: a request is
well formed, has a duplicate singleton header, or has a byte that is refused.

Memory from malloc is a nondeterministic choice where the code reads it before it writes
it, and every run lets it hold more than zeros: the links of a thread (`InitialLinks`,
null or wild), the fallback handlers (`Unset`), the fields of `cors_opts` and `cors_conf`
and the byte in front of a name's terminator (`Garbage`; `Leftover` in `HeaderKeys`),
the label of the trie's root. What a wild pointer leads to is not modelled: the
component ends there (`undef`, "crashed"), and likewise where a hash table is read in
front of its array (`wild`).

`pthread_cond_wait` of the model returns only when it is signalled.
`maybe_request` is a union: the error code shares its place with the low bits of the
request pointer and is compared with 1..4, which no pointer from malloc has, so
`Exchange` keeps the two apart. The order of locking inside one action follows the
code; `semaphore_destroy` unlocks a mutex its caller does not hold, which the model
resets. SSL_read and SSL_write are treated as read and write.

Where a sentence of the documentation or a comment promises something that the code
does not do, the properties of the passing runs say nothing of that case, and a property
of its own states the sentence in a violation run. Each property's comment names what it
leaves out.

## 3. Runs

Two runs check that the models have their properties. Each puts components side by
side that share no variable: one of them is chosen at the start (`part`) and works while
the others rest, so the states of a run are those of its components one after the other.

`connections` (112 300 distinct states):

| Component | Bounds | Shows |
|-|-|-|
| `ThreadPool` | 3 threads, 3 connections, listen queue of 2 | all safety invariants and the inductive invariant; refinement of `SerialServer`; every queued connection is served |
| `Exchange` | buffer 3, body 2, response 2 | no overflow, answers independent of the segments, bytes in order, every request ends |
| `Trie` | 2 routes of depth 2, 2 literals, 3 parameters, 2 methods | trie content, search against the routes |
| `Glthread` | 5 nodes, links null or wild | list well formed, removed nodes unlinked, stack behaviour |
| `HashTable` | 5 keys, 3 of them on one slot, some hashes negative; first capacity 5, sets of capacity 3; 1 deletion | map and set behaviour, count, termination |

`requests` (2 966 975 distinct states):

| Component | Bounds | Shows |
|-|-|-|
| `Startup` | files of 2 lines out of 11, 2 routers, 3 calls on the attributes | effective configuration, port, TLS |
| `Router` | 1 attribute object, 2 middlewares, 3 routers, paths of 2 | order, `done`, Preflight, nested sub-routers |
| `Cors` | 2 routers, the setters called for one of them, 2 origins, lists with and without `*`, memory not cleared | what all options allow is granted, what none allows is refused |
| `Headers` | 3 request lines, 2 calls of the setters | table content, singletons, framing |
| `HeaderKeys` | names and lists of 5 characters, a byte left over or not | one spelling per name; lists taken apart |
| `Ip` | addresses of 5 pieces | addresses against their definition, writes in bounds |
| `Cookies` | 2 cookies with 2 attribute calls | domains, texts, a cookie found as it was set |
| `Query` | 3 settings out of 14 | queries as written |

Why the bounds suffice. Two threads already interleave with the main thread, the
third shows that idle ones stay idle (and the theorems cover every number). A queue
of two with three connections reaches a full queue and a client that returns. A
buffer of 3 with heads of 1 to 4 bytes reaches the exact fit and the overflow by
one, and all splits, an error in the segment that was read first or in a later one; a
response of 2 is written in one piece, in two, or breaks in the middle. Five nodes
exercise each case of the list's operations next to
each other. Two routes of depth two meet every pair of literal, matching, other and
broken labels on a level and below it. Two nested sub-routers on two prefixes give
siblings, nesting and replacement; two middlewares give an order. Two lines reach
repeated keys, three call on the attributes a port that is refused after a valid
one, and HTTPS enabled, disabled and asked for again with one file. Five keys fill a
table of 5 slots to the load at
which it is resized to 11, and a set of 3 slots completely; 5 is the least capacity
that the 70% rule keeps from filling up, as it does the real 53. A negative hash occurs
in each of the two polynomials, as start and as step of a probe sequence. Values at
boundaries (ports 1024, 65534, 65535, 0; 65536 threads; statuses 199, 204, 299) are taken
as they are. The sizes of
addresses and labels are parameters: an IPv6 address has 6 bytes instead of 16, three
groups, so that a text of five pieces can be one group short or exact,
with the ellipsis at either end, in the middle or twice, and an IPv4 address in every
place; octets go to 3 and groups to 15, with two digits beyond both; labels to 3 and
names to 10 characters. Two cookies are the least that meet on a line or on two; the
values contain each kind of character that is dropped, quoted or both. Settings of
every kind `parse_query` treats differently occur in every order of three. Five
characters hold two names with a separator, or a dash with letters on both sides.

Assumptions on constants. TLC evaluates each of them in these runs, and they hold
for the code's own values:

- `CapacityAssumption` (`HashTable`): a table starts with a capacity of at least 4 (50
  in the code), below which the rule of 70% would let it fill up, and no set starts
  with 1 (3 and 39), which has the same next prime as its double. `PrimesAssumption`
  is Bertrand's postulate up to `MaxBase`, the bound on capacities. `HashAssumption`
  says that the polynomials are natural numbers; which keys have a negative hash, at
  which capacity, is free (`NegA`, `NegB`).
- `IpAssumption`, `Ipv4Assumption`: lengths of addresses are even, the IPv4 one is the
  shorter (16 and 4), limits of numbers lie below the one of the scanner (0xFFFFFF).
  `OctetAssumption`: the square of the largest octet is at most the largest group
  (255 * 255 < 0xFFFF).
- `TextAssumption`, `PassedAssumption`, `KeyCharsAssumption` and those of `Query`: texts
  are sequences of characters, and the null pointer is none.
- `CommonHeadersAssumption`: `init_common_headers` spells its names in the canonical way.
- `CookieAssumption`: the limits of labels and domains are natural numbers.
- `LinksAssumption`, `NodesAssumption` (`Glthread`), `OptsAssumption`, `ListsAssumption`
  (`Cors`), `NullAssumption`, `FilesAssumption` (`Startup`): kinds of values are apart.

Fairness. The accept loop has weak fairness of the main thread and of every
worker, which the operating system's scheduler gives, and of the steps that wait for
a client (the handshake, the handler's return). The code has no timeout there, so that part
is an assumption about clients; the run `threads` goes without it (`SlowClientSpec`).
A failed accept and a failed pthread_create are never forced. The exchange has weak
fairness of the handler's thread only; it is not assumed that the client sends
anything: `EveryRequestEnds` starts when the deciding byte is on the wire, and is stated
for clients that do not stop reading for good, since a write blocks as long as they do.
Deadlock is checked in every run; a process that has ended stutters explicitly.

Violation runs. Each states a sentence of the documentation or of a comment and
shows a behaviour of the code against it; PROJECT.json `findings` quotes the
sentence and the line.

| Run | Property | The code |
|-|-|-|
| `exchange_body` | `BodyComplete` | the body is what came with the headers |
| `trie_only_matches` | `OnlyMatchesServed` | a leaf serves longer paths that repeat its label |
| `threads` | `IdleThreadsServe` | a silent client keeps the next one waiting while threads are idle |
| `router_query` | `QueryKeepsRouter` | `/api?k=v` does not reach the sub-router at `/api` |
| `router_done` | `NothingAfterDone` | a fallback handler runs behind a middleware that set `done` |
| `cors_policy` | `OwnPolicy` | the options of the last `ys_use_cors` answer for every router |
| `cors_memory` | `UnlistedIsDenied` | a flag that was never cleared grants every origin |
| `cookies` | `CookieProvided` | a cookie set and sent back is not found: it has an empty value and no attribute, or is the second on a line |
| `queries` | `QueriesComplete` | an empty setting in front of an `&` ends the process; a setting without `=` is skipped |
| `config_keys` | `EveryKeyEffective` | a number of threads that a short does not hold; a log level |

In the last three the code goes against the property in two places. TLC's trace shows the
one that takes fewer steps, which is the first named.

Every property of a passing run has a mutant in PROJECT.json: an operator next to
the one it replaces, marked "Mutant" in the module, that breaks the property.

## 4. Proofs

Every theorem below holds for every value of the constants that satisfies the named
assumptions; the runs of section 3 check the same properties on one instance. Each
proof gives an inductive invariant, one lemma per action, and a theorem per property
that follows from the invariant.

| Module | Theorem | Property of a run | For every |
|-|-|-|-|
| `ThreadPoolProofs` | `Invariance`, `TypeCorrect`, `Exclusion`, `NoLostSignal`, `JobsIntact`, `NoPostAfterFree`, `NeverExhausted` | `IInv`, `TypeOK`, `HandlersExclusive`, `SignalFindsWaiter`, `JobIntact`, `SemaphoreAlive`, `PoolNeverExhausted` | set of threads and connections |
| | `Refinement` | `ImplementsSerialServer` | |
| `StructureProofs` | `ListStaysWellFormed`, `ListIsStack` | `ListWellFormed`, `StackDiscipline` | finite set of threads, content of memory |
| | `TrieKeepsRoutes`, `SearchFindsRoutes` | `TrieHoldsRoutes`, `SearchMeetsRoutes` | set of labels and methods, number and length of routes |
| | `HashCorrect` (the invariant), `HashCount`, `HashCallsReturn`, `HashTableIsMap`, `HashSetIsSet` | `CountIsOccupied`, `CallsReturn`, `TableIsMap`, `SetIsSet` | hash function, negative hashes, capacity, number of keys and calls |
| `ExchangeProofs` | `TypeCorrect`, `AnswerDependsOnRequest`, `ResponseDelivered` | `ExchangeTypeOK`, `AnswerDeserved`, `ResponseInOrder` | size of buffer, body and response |
| `RouterProofs` | `MiddlewaresInOrder`, `DeepestRouterAnswers`, `PreflightsAnswered`, `DoneIsRespected` | `MiddlewareOrder`, `RightRouter`, `PreflightAnswered`, `DoneRespected` | number of attribute objects, middlewares, routers, prefixes, length of paths |
| `CorsProofs` | `NothingAllowedIsRefused`, `NothingForbiddenIsGranted` | `AllowedIsGranted`, `ForbiddenIsRefused` | set of origins, headers and lists, number of routers, content of memory |
| `StartupProofs` | `ConfigurationTakesEffect`, `ServerMatchesCalls` | `ConfEffective`, `ServerAsCalled` | content of the file, number of routers and calls |
| `MessageProofs` | `RequestHeadersAreKept`, `ResponsesFramed` | `RequestHeadersKept`, `ResponseFraming` | number of header lines and calls, any statuses |
| | `IpInvariance`, `WritesInBounds`, `AddressesValidated` | `BytesInBounds`, `ValidatesAddresses` | text and length of addresses |
| | `HeaderNamesHaveOneKey`, `ListsAskForNames` | `OneSpelling`, `ListMatchesNames` | text, set of common names, content of memory |
| | `QueriesParsed` | `QueriesAsWritten` | number of settings, their characters |
| | `DomainsAccepted` | `DomainsKept` | text, limits of labels and domains |
| | `TextsHaveAttributes` | `TextHasAttributes` | texts a program passes, number of cookies and calls |

### The pool

`ThreadPoolProofs` proves for every finite or infinite set of threads and
connections, with at least one thread (`WorkersAssumption`), NULL outside both sets
and a natural number as the length of the listen queue:

- `Invariance`: `Spec => []IInv`;
- from it `TypeCorrect`, `Exclusion`, `NoLostSignal`, `JobsIntact`,
  `NoPostAfterFree`, `NeverExhausted`;
- `Refinement`: `Spec => Serial!Spec`, with the refinement mapping `Cur`, `Phase`.

The invariant. None of the safety properties is inductive. Whether a signal finds
its thread depends on the thread having released `pool->mutex` in its wait; that
depends on `thread_pool_get` having taken that mutex after the worker put itself into
the list; that the worker is there at all depends on the semaphore. `IInv` therefore
says, for each place of the main thread, what all threads, the semaphore of the
thread at hand and the head of the list look like: `SetupInv`, `AcceptInv` (all
threads idle except one that may be on its way into the wait, and it holds the
mutex), `HandOverInv` (all idle), `DispatchInv` (the counter is 0, -1 or 1 according to
who came first), `LocksInv` (who holds which mutex). A process that has died keeps
`Safety` only. The proof has one lemma per action and one for the steps that end the
process; the refinement maps each action to a step of `SerialServer` or to a stutter.

### The list

`Glthread` keeps links, its properties speak of `List`, what following them from the
head yields. `ListInv` says that there is a sequence of distinct nodes, the head
first, along which both links lead, with a loose link at the end and in the links of
other nodes, and that the thread taken out last is not on it (`Threaded`,
`OutOfList`). A link is `Loose` if it is null or what malloc left: `thread_init` assigns
neither link, and an insertion behind an empty head does not assign the one that goes
on. `ListIs` shows that `List` is then this sequence without the head: its
recursive function exists (the sequence itself gives it) and is unique (induction on
the number of links followed, `NatInductionIn`); the sequence is shorter than the
number of nodes because it repeats none (`FewNodes`, from `NodesAssumption`: the
threads are finitely many and none is null, a wild pointer or the head).

Nothing is assumed of the memory. What the theorems leave out is what follows a write
through a wild link (`undef`). It can only come from removing the thread that was
inserted into the empty list: every other thread got its link in `glthread_insert_after`.
In the pool that is the last thread of the list, which is taken only if the pool has a
single one.

### The trie

`TrieInv` is `TrieHoldsRoutes` with the type of `routes`. That a registration
replaces exactly the handlers of its own path and methods needs the last index of a
route (`MaxAdded`), and that a path that is no node was never registered
(`NoNodeNoHandler`): every registered path is among its own prefixes.

`SearchFindsRoutes` follows the loop of `trie_search` by induction on the segments left.
`Open` is the set of routes below the node at hand that match these segments; `Sound` says
that the result of the search from there finds a handler exactly if one of them has one,
that it is the handler of such a route, that each parameter of the route is bound to a
segment it stands for (`Bindings`), and that the answer is not 404 while `Open` has a
route. In an unambiguous trie the child that the search takes keeps `Open` as it is.
Neither the property nor the theorem says anything of paths in which a segment repeats,
of queries that the search does not strip, and of paths that are not the text of their
segments (`//`): there the code and the documentation disagree (section 5).

### The hash table

`HashCorrect` is the inductive invariant `HashInv`. Its first half, `HashTyped`, holds
through deletions: the capacity is a prime, every slot is free or holds a record, and the
count is the number of records (`Slotted`). Its second half, `Undeleted`, is about tables
from which nothing was deleted: no call loops, the slots hold exactly the promised
records (`Mirrors`), each where the loops over its key first stop (`Reached`), and a table
has a free slot.

A key may have a negative hash with either polynomial and at any capacity (`NegA`,
`NegB`), for `h_hash` adds signed characters, and its powers overflow for
long keys. A loop that comes to a negative index before it stops has left the array, and what it reads there is not the table's: the
statements end with the first insertion or deletion that does so (`wild`), and until
then leave out the keys with which a search would (`Leaves`). They say that the other
keys are not disturbed, whatever their hashes are.

That the loops stop there rests on number theory the provers do not have: because the
capacity is prime and the step of the probe sequence is not a multiple of it, the first
`cap` attempts visit every slot. `Euclid` (a prime does not divide a product of smaller
numbers, by the least counterexample) makes a probe sequence injective, and an injection
of a finite set into itself is onto; the lemmas about division are in `ProofLemmas`.
A growth moves the records one after the other: the new table mirrors the
part of the content whose records have been moved (`Below`), each move is an insertion into
a table with room, and that there is room follows from the load at which the table grows and
from Bertrand's postulate. Deletions are left out of the properties, since the sentinel they
leave loses keys (section 5); the server never deletes.

### The exchange

Whether an answer depends on segmentation is decided in several steps, so `ExchangeInv`
says for each place in `req_read_and_parse` what was read: the loop goes on only in front of
the byte that completes the head (`ReadInv`), an error has a cause in the request or in
the client (`ErrorInv`), and what the socket took is a prefix of the response
(`WriteInv`). `AnswerDeserved` is about answers that are given. When one is given does
depend on segments: `phr_parse_request` has `last_len` from the second read on and
parses nothing before the blank line is there, so a byte it refuses is noticed at
once in the first segment and later, or never, in another.

### The router

`MiddlewareOrder` compares the calls with the middlewares that the request wants, each
at its turn (`Wanted`, `Turn`: the number of wanted ones registered later, plus one).
`ChainInv` is its loop invariant: the calls made in `invoke_chain` are the turns of the
middlewares behind the loop variable. `RightRouter` asks for the deepest sub-router;
`WayInv` says that the router at hand is reached from the root by some number of
look-ups, each to the newest sub-router of a segment, and that the last found none; a
query at the prefix (`QueryAtPrefix`) is left out.
`PreInv` carries a Preflight that the CORS handler ended to the end of `router_run`.
`PrefixesAssumption` and `KindsAssumption` keep the names of prefixes, fallback kinds
and handlers apart.

### CORS

There is one configuration for all routers, and `ConfInv` says only that it is what
`cors_init` makes of the options of some router that called `ys_use_cors` (`MadeOf`),
`ServeInv` that the response is the answer of `cors_handler` with it (`AnswerTo`).
`MadeOf` leaves open what memory held where `cors_init` assigns nothing, and nothing is
assumed of it. What holds then is between the policies of the routers: what each of
them allows is granted, what each of them forbids is refused, as far as an "allow all"
flag that was never cleared does not grant it. The two sentences of the documentation
that go further are refuted by `cors_policy` and `cors_memory`. `BeforeStar` is the list
in front of a `*`; the lemmas under "Lists" say what is in it.

### Start-up

`ParseInv` relates the locals of `parse_config` to the lines read so far: each is the
value of the last line with its key (Max of a set of positions) or the default.
`ConfInv` carries that over to `server_conf` through any number of loads, `AttrInv` to
the attributes and the history of calls, `ServerInv` to the server. The log level and
numbers of threads that a short does not hold are not covered: there the code does not
do what the file says (`config_keys`). Without TLS nothing is said of certificate and
key, which `ys_server_init` then does not copy.

### Headers

`KeptSoFar` is the loop invariant of `req_read_and_parse`: for every key the table
holds the values of the lines seen so far in their order, the value of a line at the
place given by the number of lines with its key up to it; a singleton has at most one
in its canonical spelling.
`TableInv` says that no key of the response's table spells Content-Length, since
`insert_header` refuses them all, so that the one that `response_serialize` adds is
alone.

Names (`HeaderKeys`). That spellings agree is an equality of functions, character by
character, with the early returns of `to_canonical_mime_header_key` as cases. For a
list, `ListsAskForNames` follows the loop of `derive_headers`: after any number of
characters the names taken are those that have ended (`NamesDone`), the one at hand holds
the characters since the last start (`NameOpen`). Behind each of them stands one
character more, or none, whatever memory held (`Unterminated`). The n-th name is that between
the n-th start and the n-th end; `Rank`, the number of smaller elements of a set, puts
the two in relation.

### Queries

`QueryInv` says where the text at hand stands: the texts from each setting on are given by
a function (`Tails`), the text left is the one from some setting on (`Left`), and the
table holds, for each key, the decoded values of the settings before it that count, the
value of a setting at the place given by the number of earlier ones with its key (`Tabled`).
That `str_cut` and the definition of a text's fields agree comes from the ranks of the
places where a separator stands (`InOrder`).

### IP addresses

`MessageProofs` proves for every set of pieces, every even length of an IPv6 address and
every shorter even length of an IPv4 address (`IpAssumption`, `Ipv4Assumption`: the
code has 16 and 4):

- `IpInvariance`: `IpSpec => []IpInv`;
- from it `WritesInBounds`: `IpSpec => []BytesInBounds`.

`BytesInBounds` is not inductive: that a group of two bytes fits below the end needs
`i` and the length to be even, and that the shift of the bytes behind the ellipsis
leaves no gap needs all bytes below `i` written and the ellipsis at or below `i`.
`IpInv` says that (`Filling`), and that nothing is written before the loop (`Typing`).
The proof has one lemma per action; in `ExpandInv` the array is the union of the bytes
in front of the ellipsis, the zeros and the bytes that were moved.

`AddressesValidated` compares the parser with the definition of an address by its fields.
`CutFirst` peels a field off the front; with it `Octets`, `Groups` and `Completes` describe
what may follow so many octets or groups, by induction on their number, and `ParsesIpv4`
is one such induction. `ParserInv` says that the text at hand
completes the bytes filled so far exactly if the whole text is an address, and that the
result is the right one where the parser has returned. The loop
asks for a group even where an IPv4 address stands; this is no loss because an octet can
be read as a group: the value of digits in hexadecimal is at most the square of their
decimal value, so `OctetAssumption` suffices.

### Cookies

`DomainsAccepted`. A name is read by one run of `DomainChar` over its characters
(`ScanRuns`). A run over a text is the run over its first label and, from the state in
front of a label, the run over the rest (`CutFirst` again); within a label the state is
given by the position (`SoFar`, `LabelEnds`). Induction on the length gives that the run
is not refused exactly if every label is one.

`TextsHaveAttributes`. `Shows` says that a text has a name and a set of attributes, each
once. It holds of name and value alone (`PairShows`), because neither has a semicolon:
the value and the path have passed their filters (`ValueIsPlain`, `PathIsPlain`), a
domain was accepted (`DomainIsPlain`). Each of the seven parts either is empty or starts
with a semicolon, names its attribute and has no other semicolon (`Sets`, `IsAttr`), and
`AttributeAdded` shows that appending it adds one attribute: the fields of the longer text
are those of the shorter one and one more (`FieldsJoined`), whose name is read back
through the trimming (`NameRead`). `CookieInv` ties the texts of a response to the
cookies put into it.

### What is only model-checked

- Liveness (`EveryConnectionServed`, `EveryRequestEnds`): the prover has no rules for
  fairness and ENABLED.
- `FoundAsSet`, that a cookie which comes back is found as it was set. It composes
  the text of a cookie with its parser, through folds over the lists of lines and
  attributes, trimming, cutting and reading numbers, and takes an induction for each of
  them. What `TextsHaveAttributes` proves is the half of it about writing.
- The violation runs: a theorem states what holds.

Induction over data in general is beyond the provers, because its theorems take an
operator as a parameter. Induction over one natural number is at hand with a set in
place of the predicate (`NatInductionIn`), and so are functions defined by recursion
over the positions of a text (`RecursionIn`); the theorems about the list, the search,
the hash table and the texts are built on these two.

## 5. Disagreements met while modelling

What the models were written from disagrees with a sentence of the documentation or
of a comment in many places. The models follow the code in each of them, and no passing
property asks for what a sentence contradicts: where it would, it leaves the case open.

Shown by a violation run (the sentences are in PROJECT.json):

- `src/request.c:96` (`exchange_body`): the body is what the buffer held.
- `src/trie.c:154` (`trie_only_matches`): a leaf absorbs its own label.
- `deps/lib.thread/thread_pool.c:106` (`threads`): the dispatch blocks the accept loop until
  the handler has returned, so that one silent client stops the server for all others,
  whatever the number of threads; the code marks the place with "TODO: FIX".
- `src/router.c:119` (`router_query`): the query stays in the prefix that selects a
  sub-router.
- `src/router.c:263` (`router_done`): the 404, 405 and 500 handlers run although `done` is
  set.
- `src/cors.c:272` (`cors_policy`): the configuration is one static object.
- `src/cors.c:272`, `:282`, `:287` (`cors_memory`): the two "allow all" flags are set to true
  or not at all, in memory that is not cleared.
- `src/cookie.c:402` and `:438` (`cookies`): a line without a semicolon makes all lines be
  read without their attributes, and drops cookies with an empty value; the second of two
  cookies on a line with a semicolon is read as an attribute of the first.
- `src/url.c:82` and `:97` (`queries`): an empty setting in front of an "&" ends the process;
  a setting without "=" or with an empty value is skipped.
- `src/config.c:123` and `src/logger.c:139` (`config_keys`): 65536 threads become 0, 40000 a
  negative number and then a huge unsigned; the switch on an index 0..2 has the cases 6, 7
  and 10, so the level is always info.

Without a run of their own:

- `deps/libhash/hash_table.c:209`: a search stops at the sentinel that a deletion leaves,
  so keys placed behind it are lost ("we replace the deleted record with a NULL
  sentinel record", `deps/libhash/libhash.h`). The server never deletes.
- `deps/lib.thread/thread_pool.c:135`: `pthread_cond_wait` is called once, without a
  loop, so a spurious wakeup would run the previous job again ("it is in a blocked
  state - thus, we resume it", line 159).
- `deps/lib.thread/thread.c:16`: `thread_init` does not initialise the links of the
  list node, and insertion behind an empty head does not write `next`; the removal of a
  thread that is alone in the list, as in a pool of one, writes through that link
  (`undef` of `Glthread`).
- `src/trie.c:234`: an inner node without handlers answers 405 except for the root
  path ("404 handling supersedes 405 handling", `docs/documentation/routing.md:172`).
- `src/trie.c:224`: the path is compared with "/" as text, so `//` ends at the root node
  but is not taken for the root path.
- `src/trie.c:147`: a literal child is taken for good and the first parameter child in
  hash order decides alone, so a registered route that matches may be answered 404
  ("Registered routes will be matched against incoming requests",
  `docs/reference/router.md:23`). `Unambiguous` is the condition without this.
- `src/url.c:129`: a `?` at the end, a second `?` or a `#` makes the query stay in the
  last segment ("anything subsequent to the first `?` is ignored",
  `docs/documentation/routing.md:114`).
- `src/router.c:277`: a custom fallback handler that sets no status answers 200, since
  `response_init` has set it ("it will be defaulted to 404",
  `docs/reference/router-attr.md:24`).
- `src/router.c:146`: the three fallback handlers of an attribute object are not
  initialised and are compared with NULL ("the default handler will be used",
  `docs/documentation/routing.md:7`).
- `src/router.c:163`: the router copies the pointer to the middleware array, NULL
  before the first middleware and shared afterwards: a middleware bound after
  `ys_router_init` runs or not depending on whether another was bound before
  ("Middlewares will be run in a LIFO fashion", `docs/reference/middleware.md:40`).
- `src/cors.c:239`: with a wildcard the response lists the headers in front of the `*`
  and Origin, not those asked for ("allow all values", `docs/documentation/cors.md:26`).
- `src/cors.c:340`: `ys_cors_allow_all` leaves the maximum age, the exposed headers and
  the passthrough unassigned ("max age|0", "exposed headers|none",
  `docs/documentation/cors.md:21`).
- `src/header.c:302-308`: the terminator of a name that a Preflight asks for comes one place
  too late, so the name may have one character more and its headers be refused (`reqd`
  of `Cors`, `Unterminated` of `HeaderKeys`).
- `src/header.c:245`: keys are compared with their case, so `Host` and `host` are two
  headers ("cannot be duplicated for a request per RFC 7230", `src/header.c:86`).
- `src/response.c:67`: the values of a key are joined with a comma, so two cookies
  share one header ("adds a Set-Cookie header", `include/libys.h:734`).
- `src/cookie.c:596`: an invalid cookie becomes the header value "(null)" ("Invalid
  cookies may be silently omitted", `include/libys.h:735`).
- `src/cookie.c:595`: `ys_set_cookie` does not free the cookie ("the original
  `ys_cookie*` object will be `free`d", `docs/documentation/cookies.md:31`).
- `src/cookie.c:478`: an age that is negative is sent as 0 and not read back.
- `src/header.c:257`: `ys_set_header` returns false for Content-Length ("would indicate
  a catastrophic memory error", `docs/reference/response.md:14`).

## 6. Not modelled

- Freeing of routers, trees, cookies and requests, and memory layout. Arrays that are
  allocated too small (`src/path.c:66`, `src/header.c:227`, `src/header.c:308`,
  `src/request.c:152`: bytes where pointers are stored, or no room for the terminator)
  are usually hidden by malloc's rounding; the byte that `derive_headers` leaves unassigned
  appears in `Cors` and `HeaderKeys` as a nondeterministic result. `strftime` of a year
  after 9999 does not fit its buffer
  (`src/cookie.c:299`).
- Null pointers that end the process in the models, where no sentence of the
  documentation promises more: a cookie with the domain "." (`src/cookie.c:116`) or with
  a value of dropped characters only (`src/cookie.c:233`).
- What follows undefined behaviour. Where the hash of a key is negative
  (`deps/libhash/hash.c:51`: `h_hash` adds signed characters, the powers of a key of ten
  and more characters overflow, and `%` keeps the sign; keys of clients hold any byte)
  a table is read in front of its array. What stands there is no
  record but, for `records[-1]`, the size that malloc keeps, which is not null and is
  taken for a pointer; `HashTable` ends there (`wild`). Likewise `Glthread` ends at a
  write through a wild link, `Cors` and `Router` at a wild pointer.
- `semaphore_destroy` unlocks a mutex its caller does not hold, which glibc allows for its
  default kind; every router after the first closes stderr again and leaks a
  descriptor when a log file is configured (`src/logger.c:162`).
- Accessors that only read a field (most of `src/request.c` after line 130, the getters
  of cookies and servers), the tables of `src/const.c`, wrappers around one library
  call (`src/file.c`, `src/time.c`, `src/xmalloc.c`), the prototypes of
  `include/libys.h`, tests and examples: there is no state or choice in them.
- The formatting of log lines, dates and numbers.
- Spurious wakeups of `pthread_cond_wait`, and an `SSL_write` that returns 0 for ever:
  the pool has no defence against the former (section 5), the latter depends on
  OpenSSL's error queue.
- The grammar of picohttpparser (`deps/picohttpparser`), of which `Exchange` has the
  three results and `last_len`. OpenSSL, PCRE and pthreads, which are not in the repository:
  what the code relies on is in the actions that call them.

## 7. Plan

Done, in this order: `SerialServer`, `ThreadPool` with its proofs, `Glthread`,
`Exchange`, `Trie`, `Router`, `Cors`, `Startup`, `Headers`, `HashTable`, then
`CStrings`, `Ipv4` and `Ip` with its proofs, `Cookies`, `Query`, `HeaderKeys`; then the
proofs about `Exchange`, `Startup`, `Router`, `Cors`, `Headers`, `Trie` and `Glthread`;
then those about the search of the trie, the hash table, names and lists of
headers, queries, addresses, domains and the texts of cookies.

Left: `FoundAsSet`, whose first step would be that `read_attribute`, folded over the
parts of a text that `Shows` describes, yields the attributes.
