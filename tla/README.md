# MA2A: a TLA+ model of resilient execution and its surroundings

MA2A lets a node hand a small job to another node, fail over to further nodes
when that one does not deliver, and end with signed evidence of what happened.
Around this sit a framed TCP transport, a signed JSON wire format shared by a C++
and a Python implementation, an admission handshake, a rule for resolving
conflicting updates, and a memory of routes that agents exchange. This directory models those parts in TLA+,
model-checks them on small instances and proves the main results for all values
of the parameters.

## The system

| Part | Source | State | Operations |
|---|---|---|---|
| Execution lifecycle | `cpp/include/ma2a/execution_orchestrator.hpp` | request id, attempts with outcomes, excluded nodes, completed, result | `begin_attempt`, `accept_authenticated_failure`, `accept_authenticated_result`, each all-or-throw |
| Resilient execution engine | `resilient_execution.hpp` | one lifecycle per call | `execute`: loop over route provider and attempt executor |
| Routing adapter | `resolutive_routing_adapter.hpp` | immutable node snapshot | filters excluded nodes, asks the (external) router |
| Authenticated TCP executor | `authenticated_tcp_executor.hpp` | none between attempts | resolve endpoint, sign, connect, send, receive, judge; local failures |
| Transport and framing | `tcp.hpp`, `framing.hpp`; `reference/python/ma2a/transport.py` | socket, bytes sent and received | `send_all`, `recv_exact`, frame codec, deadlines; `serve_one_job` |
| Contracts and signatures | `contracts.hpp`, `job.hpp`, `job_auth.hpp`, `failure_notice.hpp`; `job.py`, `capability.py` | none | validate, sign, verify |
| Wire envelopes and parser | `wire.hpp`, `wire_parse.hpp`, `canonical.hpp`, `crypto.hpp` | reader position | canonical JSON, envelope scanner, flat JSON reader, base64url |
| Admission handshake and PKI | `auth.py` | set of consumed challenges | issue certificate, make and sign challenge, `HandshakeVerifier.verify` |
| Conflict resolution | `conflict.py` | none (the caller holds the accepted state) | `resolve`, `ordering_key` |
| Route memory bridge, delta wire | `rm_bridge.py`, `wire.py` | two indexes, a counter | `resolve` with an external callback, export, import |
| Capability advertisements | `capability.py` | none | sign, verify |

The engine calls the route provider with the lifecycle's excluded nodes and the
executor with a request whose target it has filled in. The executor opens one
connection per attempt, and whatever happens on it becomes either the peer's own
signed evidence or a failure signed locally; the engine records it and goes
round. The lifecycle is local to a call, but calls run concurrently against the
same peers. The handshake and the conflict resolver are called by an admission
layer and by replicas that are not in the repository.

What is hard: a deadline that passes while a peer is executing, so that the job
runs twice; a peer that dies between executing and answering; answers repeated
from other jobs; evidence that one layer accepts and the next one throws on;
exact limits (attempts, frame sizes); short reads and writes; deltas in any
order and of any versions; a request executed again by a node without a memory; a
replay set that is read at the start of a call, written at its end and
forgotten on restart; text that must mean the same to two writers and two
readers; deadlines that start again; two dictionaries that calls update one after
the other. `PROJECT.json` lists each with its line.

## Modules

* `Contracts`: the three messages as records of the fields some decision reads;
  a signature is the pair of key and signed content, the empty string when there
  is none.
* `ExecutionState`: the lifecycle record. A mutator is a pair, the condition it
  throws on and the state it produces.
* `ResilientExecution`: one call of `execute`. The callbacks may return anything
  of their types, or throw. One action runs from a callback's return to the next
  callback, since the call is suspended nowhere else and its state is its own.
* `Failover`: the abstract contract (nodes tried one at a time, never one that
  failed, at most `MaxAttempts`); `ResilientExecution` implements it with
  `failed <- life.excluded_nodes`, `trying <- target` while executing.
* `AuthenticatedExecution`: several calls at once, with the shipped adapter and
  executor, against peers. `Endpoints[n]` is who may be listening at the address
  resolved for `n`. A correct peer is `serve_one_job` with the handler of
  `tests/test_job_transport.py`; a faulty one answers with anything it can sign
  itself, repeats what correct peers said, and hands a request it was given on to
  a correct peer over a connection of its own (`Replay`), which executes it if it
  is the node the request was signed for, as often as it is asked. A request
  outlives its connection; an answer does not. `ExecutorThrows` is what the
  executor does outside its `try` block. `Engine(j)` maps each call back to
  `ResilientExecution`.
* `FramedStream`: one direction of a connection, byte by byte. The header's
  radix and length and the frame limit are parameters (256, 4 and 1 MiB in the
  code), under the assumption that the limit, shifted right by every digit of the
  header, is 0.
* `Conflict`: replicas that apply `resolve` to a common set of deltas of any
  versions, in any order and repeatedly. The replay flag is the receiver's own
  record.
* `Handshake`: `verify` in two steps, the replay check and the rest, because
  they read and write the shared set; certificates and responses come from the
  genuine organization, another certified one, or somebody who alters them.
* `JsonText`: the JSON of the three messages as sequences of symbols: the C++
  writer and its escapes, the Python writer's escapes, the envelope scanner and
  the flat reader. A fixed word is one symbol. The width of `int64_t` is a
  parameter, and an integer beyond it is undefined.
* `Base64url`: encoder and decoder around OpenSSL's block functions, on the same
  symbols, and the Python decoder.
* `SignedWire`: one signed message from its writer to its reader, through
  `JsonText` and `Base64url`, in either language. On the way the signature may be
  put on another message, or a symbol of the text lost, replaced, spelt as an
  escape, or others written before it.
* `AttemptDeadlines`: the time one attempt takes. The non-blocking connect, its
  `poll` with the timeout as an `int`, the restored flags, then the loops of
  `send_all` and `recv_exact` under socket timeouts. Every system call has its own
  deadline, which a signal or a byte starts again.
* `RouteMemory`: the memories of several agents. `resolve` is one action per
  dictionary operation, since the external resolver runs in its middle and other
  callers run between any two, with a validator or without. The deltas exported so
  far and a set of made-up ones (`MadeUp`, any combination of fields) arrive again
  and again. An address is the pair it hashes, a digest the payload.
* `MC*`: instances. `*_proofs`: theorems.

Definitions ending in `_Something` after a mapped name are mutants: the same
operation with a plausible mistake, used to confirm that a property notices it.

Left out of the messages: message ids, protocol version, organization and
times, which no decision of the engine and the executor reads, except the validity
window of a request, which is the variable `expired`. `SignedWire` has every field. In `AuthenticatedExecution`
everything that can go wrong while connecting or sending is `ConnectFails`, and
while receiving or parsing `ReceiveFails`: the code has one `catch (...)` for
all of it. Failures inside OpenSSL and allocation are not modelled.

## Runs

| Run | Instance | Shows |
|---|---|---|
| `resilient_execution` | 4 nodes, 3 attempts, results and notices one field away from right | `NoNodeTwice`, `ExclusionExact`, `EveryAttemptAccounted`, `CompletedByEvidence`, `EvidenceOnlyGrows`, `CallEnds`, `ImplementsFailover` |
| `authenticated_execution` | 2 calls with the same request id from different senders, 2 correct peers and a faulty one, 2 attempts, 1 request handed on | `EngineNeverThrows`, `ResultGenuine`, `CompletedOnAttemptedNode`, `RequestsSignedForTarget`, `HonestPeerNotMisjudged`, `RepeatsConfined` |
| `calls_return` | 2 calls of one sender with the same request id, 2 peers, 2 attempts, jobs that expire, with fairness | `ResultGenuine`, `CallsReturn`, `CallsImplementEngine` |
| `framed_stream` | radix 3, two-digit header, limit 3, up to 3 writes | `StreamAligned`, `FramesIntact`, `FramesAdmissible`, `FrameEnds` |
| `conflict` | 2 replicas, 11 deltas: concurrent, skipping versions, not advancing, out of scope | `ApartOnlyBySkip`, `HistoryUnbroken`, `LocalIsGreatest` |
| `conflict_skip` | 2 replicas, deltas 1->2 and 1->3 | violated: see below |
| `handshake` | 1 thread, 1 challenge, 7 certificates of all kinds, clock 0..3, lifetime 1, 1 restart | `SingleUse`, `ConsumedExact`, `RestartForgetsOnlyLiving`, `RevokedStayOut`, `AdmittedIsGenuine` |
| `handshake_threads` | 2 threads, 2 challenges | violated: see below |
| `signed_wire` | 31 payloads, 2 ids, 4 times, 3 kinds of message, both languages, every edit of one symbol | `AcceptedIsSigned`, `ContentPreserved`, `UntouchedAccepted`, `StructureStrict` |
| `attempt_deadlines` | connect timeouts 3, 5 and 9 where an `int` has 8 values, I/O timeout 2, 2 and 3 bytes, 2 signals, with fairness | `AttemptBounded`, `TimedOutInFull`, `AttemptEnds` |
| `route_memory` | 2 agents, 2 callers on one memory (one without a validator) and 1 on the other, a valid and an invalid result, made-up deltas | `RoutesLearned`, `IndexLeadsToRecord` |
| `route_exchange` | 2 agents, 1 caller each | violated: see below |

Bounds. Two concurrent calls are enough for one call to be answered with the
other's evidence; three nodes and two attempts for a failover with a late
execution behind it; one request handed on for a node to execute it twice. `Expiring`
and `MaxReplays` keep the two instances of `AuthenticatedExecution` apart: jobs
expire in one, requests are handed on in the other, and the invariants are proved
for both together; four nodes and three attempts for the limit to be reached
before the nodes run out, and the other way round. In `FramedStream` the header
can say zero, the limit, and one more than the limit, and two frames can be in
the stream together. In `Handshake` a challenge can be used before and after a
restart and on both sides of its expiry and of its certificate's; challenges meet
only in the consumed set, and what is said of it is proved for any number of them.
The payloads of `SignedWire` are those on which an escape or the scanner could go
wrong (quotes, backslashes and braces in all pairs, control characters, every
width of UTF-8), the times sit at both ends of the integer and one beyond, and
the signature needs two groups, both padding characters and both characters
base64url replaces; the edits reach every other spelling the reader takes. In
`RouteMemory` the made-up deltas are all there can be, except that the consistent
ones have one marked result, so that a route that slips in otherwise shows. In `AttemptDeadlines` the three timeouts fit the `int`, turn
negative, and wrap to a short one. Two callers on one memory let every dictionary
operation of one fall between two of the other; one condition is enough, because
memories of different conditions share nothing. `MaxFrames`, `MaxTime`,
`MaxChallenges`, `MaxRestarts`, `MaxAdmissions`, `MaxSignals` and `Horizon` bound
the models only, and so does `MaxReplays`. No symmetry is used.

Fairness. `ResilientExecution` assumes that the callbacks return or throw, and
`AuthenticatedExecution` that a call takes its next step when it has one: connect,
send and receive all have deadlines, so `ConnectFails` and `ReceiveFails` are
always possible. `AttemptDeadlines` is where that is shown: it assumes that the
thread runs and that time passes, and of the peer, the network and the kernel
nothing; signals are bounded in number. Nothing is assumed of the router or of
the clock. `FramedStream` assumes the same of the reader. Deadlock checking is off
where the program ends: a call that returned, a stream that was closed, a message
that was judged, replicas that have settled; a caller of a memory always has a
next call.

### Where the code and its documents disagree

Shown by a run:

* `import_delta` points the condition at whatever was imported last. Two agents
  that resolved one condition differently and import each other's delta swap
  their answers, against `spec/trajectory-delta.md:39-40` and
  `spec/conflict-resolution.md:59` (`route_exchange`).
* `resolve` of `conflict.py` treats two deltas of one base as concurrent only if
  they propose the same version. With 1->2 and 1->3, the versions of
  `tests/convergence/test_conflict_resolver.py:27-28`, each is stale after the
  other, and replicas stay apart, against `spec/conflict-resolution.md:11` and
  `:59` (`conflict_skip`). It also accepts a delta that does not advance the
  version without comparing anything, so of two the last one wins.
  `ApartOnlyBySkip` says that there is no other way for
  replicas to stay apart, whatever the deltas: checked and proved.
* `verify` reads the consumed set first and writes it last, without a lock. Two
  threads on one verifier are both admitted with one response, against
  `security/handshake.md:79` (`handshake_threads`). With one call at a time a
  challenge admits once: checked and proved. The loss of the set on restart is
  documented by the repository; `RestartForgetsOnlyLiving` says how far it
  reaches.

Read off the models, as the limits of what the properties say:

* The C++ canonical text holds UTF-8 as it is, Python's escapes everything
  outside ASCII (and DEL). A message with such a character has two canonical
  texts, and its signature fails in the other language, against
  `SIGNED_ROUNDTRIP.md:7` and `:9`, whose test is in ASCII. `UntouchedAccepted` says
  that this and a timestamp the parser overflows on are the only reasons for an
  untouched message to be refused.
* `import_delta` checks a digest that has no key, against the delta's own payload,
  and never looks at the signature, which `export_delta` writes as a constant. A
  delta made up consistently is imported, against `spec/trajectory-delta.md:33-34`.
  `RoutesLearned` says that nothing less gets in.
* `exhausted` is computed from the number of attempts alone. A job that succeeds
  on its last permitted attempt returns `completed` and `exhausted` together,
  where `spec/resilient-execution-v0.2.md:243` has them as different terminal
  states and the stress test takes `completed && !exhausted` for success.
* `serve_one_job` remembers nothing of what it served, as
  `security/SECURITY_REVIEW_v0.2.md:122-124` says of the transport. A faulty peer
  at a node's address can have the request it was handed executed by that node,
  any number of times; `RepeatsConfined` says that nobody else can be made to
  execute it, and that without such a peer a node executes a job at most once.
* A connect timeout above `INT_MAX` milliseconds becomes negative for `poll`,
  which then waits for ever, or wraps to a short one; `AttemptBounded` and
  `AttemptEnds` except the negative ones, and `TimedOutInFull` measures against
  the `int`, so that a wrapped timeout counts as waited in full. And the deadlines are per system call: a
  peer that moves one byte per I/O timeout holds the attempt for as many timeouts
  as the frames have bytes, which is what `AttemptBounded` allows
  (`spec/resilient-execution-v0.2.md:253` speaks of bounded deadlines).
* `resolve` of `rm_bridge.py` does not look again after the external resolver has
  returned: of two overlapping resolves of one condition the later one's route
  stays, though the earlier one's has been returned (`rm_bridge.py:26` promises a
  stable route). In between, a call finds the condition without its record and
  raises: the exception in `IndexLeadsToRecord`.
* The reader verifies the canonical text of what it parsed, not the text it got.
  A string may come with `\/`, with any character as a `\u` escape and with
  upper-case hex digits; a signature with other unused bits before the padding, `+`
  for `-`, or blanks in front, four at a time; a timestamp with leading zeros.
  `StructureStrict` says that nothing may vary around the values,
  `AcceptedIsSigned` that they are the values signed.

## Proofs

`tlapm` checks eight modules.

* `ResilientExecution_proofs`, from `MaxAttempts \in Nat \ {0}`, non-empty
  identifiers, and `Nothing` being no node and no result. `NoNodeTwice` and
  `ExclusionExact` are not inductive: that a new attempt repeats no node needs
  that every earlier one has failed and is therefore excluded, and that a
  failure closes the right attempt needs that the last one is in flight on the
  target. `LoopPosition` says so per program counter; `ExclusionCount` ties the
  number of excluded nodes to the number of attempts, which the refinement of
  `Failover` needs for its limit. `LifecycleInv` is their conjunction. From it:
  type correctness, the two properties, `EveryAttemptAccounted`,
  `CompletedByEvidence`, the attempt limit, `EvidenceOnlyGrows` as an action
  property, and `EngineImplementsFailover`.
* `Conflict_proofs`, for any set of deltas with unique message ids. The invariant
  is that a replica that has accepted only deltas that advance has one for every
  version up to its own and is in the state of the greatest. If one settled replica
  were behind another that did not skip its version, a delta in the other's history
  starts at that version: the first cannot have accepted it and would accept it
  now. So they are at the same version, and there the ordering key decides.
* `Handshake_proofs`, from `IssuersAreHonest` and the like. `AdmissionInv` holds
  with any number of threads and gives `ConsumedExact`, `AdmittedIsGenuine`,
  `RevokedStayOut` and `RestartForgetsOnlyLiving`; it needs `PendingSound` about
  calls between their two steps. `SingleUse` needs in addition `PendingFresh`,
  that a call under way has an unused challenge, which is where one call at a
  time comes in.
* `RouteMemory_proofs`, from every caller having a memory, valid results being
  results, and `Nothing` being no condition, address or record. `RoutesLearned` and
  `IndexLeadsToRecord` are about the dictionaries, but what enters them comes from
  a call that took it elsewhere some steps ago: `CallSound` says what a call
  carries at each point, `DeltasSound` that an exported delta's digest is over a
  learned route, which with `import_delta`'s checks makes the payload that arrives
  a learned one, or one made up together with its digest and address. Nothing is
  assumed of the made-up deltas.
  `RouteInv` is the conjunction; the steps share lemmas on what one caller's step
  leaves to the others (`OthersStaySound`) and to the index (`IndexKept`,
  `IndexedKept`).
* `AttemptDeadlines_proofs`, from positive timeouts and sizes, for any width of
  `int`. `AttemptBounded` does not say where the time went, so no tick of the
  clock keeps it by itself: `Accounted` has the time paid for by the connect, by
  the bytes moved so far, by the signals and by the wait of the call in progress,
  which a byte or a signal then settles. `SocketSound` adds what `TimedOutInFull`
  needs: a socket that sends or receives is connected and blocking again.

* `AuthenticatedExecution_proofs`, for any jobs, nodes, addresses and number of
  concurrent calls, from: no faulty peer signs with another's key (`NoForgery`);
  no two jobs are the same request and no sender is a faulty peer
  (`JobsAreDistinct`); correct peers are nodes, and every address is somebody's or
  nobody's. None of the properties is inductive, because what a call reads was
  said some steps ago by a peer, about something it was handed some steps before.
  `ExecutionInv` follows one request around: `CallSound` has the nodes of a call's
  attempts distinct and excluded, but for the one in progress or successful;
  `InboxSound` has every request at a peer, or captured by a faulty one, made by an
  attempt of its call, which stays true when that attempt is over, since an
  attempt's node is never changed, and delivered at that node's address or handed
  on by a faulty peer that was there;
  `ExecutedSound` says the same of what correct peers executed, and `SentSound`
  that they said nothing but the result of an execution or a refusal; `Types` that
  a receive buffer holds something said or something made up. A signature then
  tells the two apart: under a correct node's key it is in `sent`
  (`SentIsEvidence`), so it is about a request of that very sender and identifier
  (`RequestsDiffer`), which is `ResultGenuine`. `JudgedIsGood` is that the executor
  hands over only evidence that passes the engine's checks, which gives
  `EngineNeverThrows` and, step by step, the refinement `CallsImplementEngine`:
  the steps of a call are steps of its engine, those of peers and other calls
  leave it alone. `RepeatsConfined` is `ExecutedSound` with the distinct nodes of
  `CallSound`. `HonestPeerNotMisjudged` needs `ReplySound`: what lies in the buffer
  of a call whose target is alone at its address was said by that target to this
  very attempt's request.
* `FramedStream_proofs`, for every radix, header length, limit, set of payloads
  and set of raw writes, from the header holding the limit. `FramesIntact` says
  nothing of bytes under way, so no read keeps it by itself: `Aligned` has the
  frames returned, the header read, the buffer, the channel, what is still to be
  written and what a closing writer dropped spell the frames sent, as long as
  nobody wrote raw bytes. When a header is complete, the next frame sent starts
  where the reader stands (`NextFrame`), so the number declared is its length
  (`DeclaredHeader`: the digits of a size below the limit add up to it again);
  when a body is complete it is that frame. `FrameRoundTrip` takes every
  admissible frame through encoder and decoder. The header's digits, the number
  it declares and the bytes of a list of frames are recursive functions: that they
  are defined everywhere and compute what they should is shown by induction on a
  set of naturals (`Induction`, `Recursion`), which needs no operator parameter.
* `SignedWire_proofs`, for payloads, identifiers, signatures and edits of any
  length and any integers as times: the constants need only be text, integers
  and bytes (`WireAssumption`). `AcceptedIsSigned` says nothing of the text, so
  `WireInv` adds that what was signed is the canonical text of the message sent,
  that what was parsed is a message of its type, and that an accepted one has the
  signed text. The theorem then rests on `CanonicalUnique`: two messages, of any
  types and from either language, have one canonical text only if they have the
  same fields, and between the languages only if no string has a character they
  spell differently. The code of a character is never the beginning of another's
  (`CodeUnique`), so from one position of a text at most one string can be read
  (`StringUnique`), one number, since what follows is no digit (`DecimalUnique`),
  one value, one object; the first field gives the type away. The other half is
  `ObjectRead`: on any text whatever, altered ones included, the recursions of
  the reader are defined, by a rank that each step lowers (`Recursion`), and give
  a value of the field's kind or throw; an overflowed integer is still an integer.

Only model-checked: everything temporal under fairness (`CallEnds`,
`CallsReturn`, `FrameEnds`, `AttemptEnds`), which the prover does not do; and
`ContentPreserved`, `UntouchedAccepted` and `StructureStrict` of `SignedWire`. These
say that the readers and decoders undo the writers and encoders, symbol by symbol:
what `ReadObject`, `EVP_DecodeBlock` and `CodePoints` compute from what was
written, where the theorem needs only that whatever they compute is a message.

## Not modelled

* The router, an external library, is modelled by its use (any eligible node or
  none). OpenSSL's Ed25519 is the pair of key and signed text.
* `connect_ipv4`, the connect without a deadline, which only tests call.
* The JSON of `wire.py`'s deltas and the range checks of its `validate`;
  `condition_key`'s normalisation, and the version of a delta, which is always 1.
* Capability advertisements: signed records that no code in the repository stores,
  orders or acts on.
* Failures inside OpenSSL and of allocation; the build, packaging and releases.

## Plan

1. Done: `ExecutionState`, `ResilientExecution`, `Failover` and proofs;
   `AuthenticatedExecution`; `FramedStream`; `Conflict` and proofs; `Handshake`
   and proofs; `JsonText`, `Base64url` and `SignedWire`; `AttemptDeadlines`
   and proofs; `RouteMemory` and proofs.
2. Done, proofs: every invariant and refinement of `AuthenticatedExecution` and
   every invariant of `FramedStream`.
3. Done, proofs: `AcceptedIsSigned` for any strings.
4. Next, proofs: that the readers undo the writers, which `ContentPreserved` and
   `UntouchedAccepted` need.
