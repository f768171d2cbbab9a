# A TLA+ model of distributed-llama

distributed-llama runs one large language model on several machines: a *root*
node reads the model, the other nodes are *workers*, and each node computes a
slice of every layer. This fork adds an HTTP API server with a *prefix cache*:
the key/value (KV) rows of earlier prompts are kept in the device slots and,
with `--cache-db`, in a RocksDB database on every node, and a request whose
prompt starts like an earlier one does not compute these rows again.

This directory models the parts of the program whose correctness depends on
order, interleaving, crashes and bookkeeping. TLC checks the models on small
instances, TLAPS proves some of the properties for all values of the constants.
Paths below are relative to the repository; `src/src/...` is the program's own
code.

## 1. Inventory

| Component | Source | State it keeps | Operations |
|---|---|---|---|
| Prefix cache manager | `src/src/nn/nn-cache.cpp` | trie of prefixes, slot table, metadata of saved ids, two counters | constructor, `lookup`, `pickSlot`, `getCacheId`, `updateDeviceSlot`, `updateNnCacheDatabaseMetadata` |
| Cache database | `src/src/rocksdb-cache.cpp` | RocksDB, staged write buffers | `open`, `read`, `getWriteBuffer`, `dirty`, `commit`, `loadMetadata`; cache of tokenized messages |
| API server | `src/src/dllama-api.cpp` | mutex; everything else is local to a request | `complete`, `provideContent`, `handleModelsRequest` |
| Inference control | `src/src/app.cpp` | control packet, pipes | `RootLlmInference`, `WorkerLlmInference`, `runInferenceApp`, `runWorkerApp` |
| Executor | `src/src/nn/nn-executor.cpp` | list of steps, batch size, slot, ids to load and save | `forward`, `executeStep`, `loadWeight` |
| Network set-up | `src/src/nn/nn-network.cpp:143-338` | sockets | `connect` (root), `serve` (worker) |
| Node synchronisation | `src/src/nn/nn-network.cpp:409-591` | what is in flight | `sync`, `syncWithRoot`, `syncNodeSlices`, `writeMany`, `readMany` |
| Configuration and weight transfer | `src/src/nn/nn-network.cpp:593-910` | what has been read and loaded so far | writers on the root, readers on the workers, acknowledgements |
| Network builder | `src/src/llm.cpp`, `nn-config-builder.hpp` | none | `buildLlmNet`, `loadLlmNetWeight` |
| Slicing | `src/src/nn/nn-core.cpp` | none | slicers and splitters of matrices |
| CPU device | `src/src/nn/nn-cpu.cpp` | buffers, KV rows | `createSegment`, `forward`, `syncCache` |
| Tokenizer | `src/src/tokenizer.cpp` | UTF-8 decoder, stop-sequence detector, random state | `encode`, `encodeContext`, `decode`, `EosDetector`, `Sampler` |
| CLI | `src/src/dllama.cpp` | position, next token | `inference`, `chat` |
| Kernels, quantization, Vulkan | `nn-cpu-ops.cpp`, `nn-quants.cpp`, `nn-vulkan.cpp` | none | arithmetic |

How they interact. An HTTP thread calls `provideContent`, which holds one mutex
for the whole request. It asks the manager for the longest cached prefix, picks
a slot, and runs forward passes: it sets slot, position, tokens and the ids to
load from and save to in the execution context and in the control packet, sends
the packet to all workers and runs the executor's steps. In a forward pass each
segment first loads saved rows into the slot, then computes, then stages the
rows to be saved; between segments the nodes exchange slices. Afterwards the
handler writes the metadata of what was saved and commits it.

What is hard here: the slot keeps the rows of the last request whatever the trie
says of it; clients disappear in the middle of an answer; rows, metadata in
memory and metadata on disk change at different moments, and the process may end
between any two of them; prefixes are truncated; counters are rebuilt from disk;
connections of different peers race with each other; nothing on the wire is
labelled, so that all nodes have to read and write in the same order; all nodes
write before they read; slices of different nodes and layers have the same size,
so that a mix-up is not noticed; characters and stops are split over tokens.

What makes each component correct:

* manager: trie, slot table and metadata agree; fresh ids are fresh; memory
  agrees with disk;
* database: what is described on disk is on disk;
* API server: the answer is computed from the tokens of its request and nothing
  else, and every request ends;
* network set-up: exactly one connection per pair of nodes, the root's first, in
  the order of the node indices;
* control: workers run the root's forward passes, in order, each with its own
  packet, and commit what the root relies on;
* synchronisation: every node gathers the slices of this step, of every peer, in
  the right place, and nobody waits forever;
* transfer, builder and slicing: both sides of a connection agree on every field;
  each node has its configuration and its parts of the weights; the parts make up
  the model; all nodes have the same list of synchronisations;
* tokenizer and CLI: what is shown is the text of the answer, whatever was held
  back in between; the context is the conversation; every prompt is answered.

The hazards, each at its line, are in `PROJECT.json`.

## 2. Modules

| Module | Models | Used by |
|---|---|---|
| `RocksDbCache` | `RocksDbCacheDatabase` as operators on a record (`stage`, `store`) | `PrefixCacheManager` |
| `PrefixCacheManager` | `NnPrefixCacheManager` as operators on a record, and a specification that calls them in any order | `ApiServer`, proofs |
| `Completion` | what a chat completion promises, without a cache | `ApiServer` (refinement) |
| `ApiServer` | `provideContent` with the manager, the database, the KV rows, crashes and restarts | proofs |
| `Handshake` | `connect` and `serve` | proofs |
| `Collective` | what the sync steps promise | `NodeSync` (refinement) |
| `NodeSync` | `sync` with its threads, rows, pieces and connections | proofs |
| `ControlLoop` | `RootLlmInference`, `WorkerLlmInference`, the loops of `runInferenceApp` and `runWorkerApp`, and the databases of root and workers | proofs |
| `Tokenizer` | `encode`, `decode` with the UTF-8 decoder, `EosDetector`, as operators | `Chat` |
| `Chat` | `inference` and `chat` of `dllama.cpp` | proofs |
| `Slicing` | slicers and splitters, the offsets of heads and rotations | `LlmNet`, proofs |
| `LlmNet` | `buildLlmNet` and its builders, the order of the weights, the executor's steps | `Transfer`, proofs |
| `Transfer` | the set-up of the workers: configuration, weights, acknowledgements, crashes | proofs |
| `PrefixCacheManager_proofs`, `ApiServer_proofs`, `Handshake_proofs`, `NodeSync_proofs`, `ControlLoop_proofs`, `Chat_proofs`, `TransferData_proofs` (about `Slicing`, `LlmNet` and the lists of `Transfer`), `Transfer_proofs` | theorems (section 5) | |
| `MC*` | constants and bounds for TLC | |

### RocksDbCache and PrefixCacheManager

The C++ objects are records (`cache`, `db`) and their methods operators from one
record to the next, because the API server calls several methods in what is one
step of the model. The trie is a function from keys to destinations; `Lookup`
returns the *set* of entries that share the longest common prefix, since the
order in which the HAT-trie would iterate over them is not something the code
may rely on. `updateDeviceSlot` and `updateNnCacheDatabaseMetadata` are modelled
whole, with the erase of the old entry, the truncation to
`NnPrefixCacheMaxLen`, and the early return for a duplicate.
`loadMetadata` visits the ids in descending order and `insert_ks` keeps an entry
that is there, hence the `Max` in `NewManager`. Every call of
`updateNnCacheDatabaseMetadata` in the program is followed by `commit`;
`SaveMetadata` does both.

`ManagerSpec` calls the methods in any order, with any issued id, and restarts
the process at any moment (`Reopened` drops the stage, `NewManager` reads what
is on disk). It is deliberately freer than the API server.

### ApiServer

A request goes through `Begin` (lines 81-162: tokens, lookup, slot and ids),
`Scan` (one iteration of the loop at 166-186), `Predict` (one iteration of the
loop at 195-236, with the save at the end of the prompt) and `Reply` (237-275).
`Crash` may happen between any two of them. The mutex is held throughout, so one
request is in the handler at a time and `req` holds its locals.

A KV row is represented by its *provenance*: the sequence of tokens it was
computed from, or `Garbage` when the rows below it do not come from one
sequence. `Forwarded` computes the rows of a batch from the rows before it,
`Loaded` and `SaveRows` move rows between slot and database as `syncCache` does,
and `logits` is the context the last sampled token was computed from. This is
what lets a property speak of *wrong answers* without any arithmetic. A client
that goes away is a second disjunct of the action in which the handler notices
(`sink.is_writable()`, lines 158, 227 and 250); the constant `Disconnects` says
which of them a run allows.

A path that changes nothing is left out: when the context is too long for
`encodeContext` (95-108) the handler answers without touching the cache.

### Handshake

One process for the root, one per worker. A connection is *made* when the kernel
of the listening side has queued it; `accept` takes the oldest. The
configuration is one message, as is each ack. A worker may be started at any
time, or never; a connection to a port nobody listens on is refused, and ends
the one who tried. When the root has ended, its connections read as closed.

### NodeSync

Every node is at some sync step; each of its threads has a task: the row, the
phase (writing or reading) and what is left to do per socket. A connection is a
bounded FIFO queue of pieces. Blocking sockets are served in turn, non-blocking
ones as they are ready (`InTurn`); the mode is an arbitrary constant per node,
because a worker switches it when the first packet comes.

A thread of the program is not an OS thread but a task of the node's arena.
`arena` may have up to `nThreads` OS threads (`set_max_concurrency`,
`nn-executor.cpp:122-124`), and `parallel_for` (line 178) hands them the tasks of a
step. `taken` holds the tasks that an OS thread has begun (`Takes`); it runs a
begun task to its end, the waiting in `send` and `recv` included. How many OS threads
there are, when they join and which task they take is left open.

A piece carries the
step, the row and its number within the slice, which the program does not send:
they are there for `SlicesGathered` to tell right from wrong. Sockets are
assumed to be in the order of the node indices, which is what `Handshake` shows
to fail with three or more workers (section 4). `NextStep` is the barrier of
`parallel_for` and, with it, everything the node computes up to its next sync
step.

### ControlLoop

The root drives the workers with control packets; between them nothing tells a
worker what to do. A packet is two halves on the wire, so that a worker can find
none, one or both of them when it polls (`ReadsHalf`, `GivesUp`). A forward pass
is reduced to what `NodeSync` shows of it: a worker gets through it only after
every worker has begun it, the root only after every worker is through
(`PassEnds`, `Returned`). Rows saved under an id are the sequence of passes that
saved them: `Packet` carries the rows the pass will save and those that the
root's metadata promises of the id it loads, which the program does not send;
they are there for `LoadsFindTheirRows`. A read of a closed connection throws, and
so does a write that finds it reset; a write after that raises SIGPIPE, since
`send` is called without `MSG_NOSIGNAL` (`nn-network.cpp:86`, `425`). Either ends the
root (`RootFails`). A worker that gets the exception goes back to `serve`
(`LeavesSession`) or, when it is not in its loop yet, ends (`SessionFails`). A
worker that gets the signal ends (`DiesOfPipe`): the process of a worker does not ignore it
(`dllama.cpp:216-239`; only `dllama-api.cpp:409-411` does). Only a worker in a forward pass
writes; one that polls only reads.
Either process may be killed; what was staged is gone then.

### Tokenizer and Chat

Text is a sequence of bytes. `Encoding` makes the two passes of `encode`: the
characters and special tokens, then the merges, best score first. The result
keeps the whole array, `cells` next to `n`, because `dllama.cpp` reads behind the
last token (section 4). `Decoder` runs the state machine of `detokUtf8` byte by
byte, with the checkpoint up to which text is complete; `Decode` adds the rules
for `<bos>` and the end-of-sequence tokens and returns the bytes that stay in
`strBuffer`. `Detect` is `EosDetector::append` as it is constructed in the
program: all stops are pieces of end-of-sequence tokens, and both paddings are
the length of the longest. `TokenizerChatStops` gives it these.

`Chat` is one process: `Ask` takes a prompt, `EvalBatch` is an iteration of the
evaluation loop, `Evaluated` the `resetDecoder` behind it, `Predict` an iteration
of the prediction loop. The network is abstracted to the tokens it was fed; any
token of `Sampled` may come out. The assertions of `encode` and `decode` end the
process (`DecoderAborts`, `"aborted"`). An uninitialised token is any token.

### Slicing, LlmNet and Transfer

`Slicing` has the pure functions of `nn-core.cpp:198-303`. A byte count is a
number of *cells*, a cell being a float or a block of `BlockSize` quantized
numbers; `RowFrom` and `ColFrom` say which cell of the matrix a cell of a node's
slice is. `Partitioned`, `HeadsFindKeys` and `RopeCovers` state what a correct
division is; the second and third follow the offsets in `multiheadAtt_F32` and
`ropeLlama_F32`. `Accepted` is what the checks of `runInferenceApp` (`Supported`) and the
assertions of slicers and splitters (`Divides`) let through; `IsModel` says that no
size is zero, which `loadLlmHeader` takes on trust from the model file.

`LlmNet` builds the configuration of every node as a record with the shape of
`nn-core.hpp`. Of the configuration of an operation the fields that are indices
or slices are kept. In the code two buffers of a quantized network are both
called `"d"`; the second is `"dq"` here, since the model looks buffers up by name
where the code has their indices in variables.

In `Transfer` the root has a program, the list of all it writes, awaits and loads
in order (`Program`), and a worker a list of what it is going to read, which
grows with what it learns (`Expand`: an array of `nPipes` pipes, a string of the
length just read). The structures a worker has allocated are known by the array
they are in, their segment and their number in the array (`Ids`), so that `Ids` and
`StructFields` give the structures of a node flat, with no recursion over paths; a
string has only a length, `strlen`. A field on a connection has a size and a value; a reader that
asks for another size than was written would read parts of two fields, which is
what `NothingRejected` excludes. Weight data are represented by the weight and
the node they were cut for. Either side may be killed while it is running; the
other finds its connection closed and ends, because these exceptions are caught
by nobody. `Program` has no step for a weight file of the wrong size ("Missing bytes in weight
file", `llm.cpp:486-488`): the root throws and ends before `finish`, which for the workers is
a root that is killed at this point.

## 3. Runs that pass

All bounds are in the `.cfg` files. Bounded counters (`MaxLruScore`,
`MaxCacheId`) bound the number of requests through a `CONSTRAINT`.

| Run | Bounds | What it shows |
|---|---|---|
| `manager` | 2 tokens, 2 slots, 4 prefixes of 2-4 tokens, `MaxLen` 4, 2 ids, 3 updates | the bookkeeping properties under every order of calls and restarts |
| `server` | 4 prompts of 3-4 tokens, context of 5, `MaxLen` 4, batches of 2, `max_tokens` absent or 2, one slot, 3 ids, `lruScore` up to 7, weak fairness of the handler | with clients that stay (or leave before the answer starts), rows in slots and on disk are the rows of the prefix they are listed under, at every moment, crashes included; `ApiServer` implements `Completion`; every request ends |
| `handshake` | 5 workers | full mesh, root first, nobody refused after "root is ready", the network comes up |
| `sync` | 3 nodes with 2, 1 and 3 threads, 2 rows, 2 pieces per slice, connections of 2 pieces | gathering is right, the wire is empty at the end, `NodeSync` implements `Collective`, the forward pass ends unless a task waits for ever for an OS thread of its arena |
| `chat` | 10 tokens, with a three-byte character in pieces, a stop that regular tokens spell and one merge; 4 prompts, 2 messages; context of 6, batches of 2, `--steps` 4 and 8 | the text shown is the text of the answer; the context is the conversation; every prompt is answered, refused or ends at an assertion |
| `transfer` | three models (two nodes with two layers, quantized weights and grouped heads; three nodes with floats; a root alone), connections of 2 fields, one process killed at any moment | both sides agree on every field; each node has its configuration and its parts of the weights; the parts make up the model; all nodes synchronise in the same order; nobody waits for ever |
| `control` | 2 workers, 2 ids, 3 forward passes, the non-blocking mode on, weak fairness of the loops | workers run exactly the passes of the root, with its packet; what the root's metadata describes is on every worker's disk when it is loaded, although each node commits by itself; a forward pass ends when a worker is gone, and when the root is gone all workers leave the session, to serve again or dead |

Why these bounds are enough. Two tokens and four prompts give every relation two
prefixes can have (nested, diverging at the first, in the middle, at the last
token). Three ids and eight updates allow a prefix to be saved, extended, lost
in a crash, reloaded and saved again with other requests in between. The context
is one or two tokens longer than the prompts, so that answers end by length, by
end-of-sequence and at the end of the context; it is longer than `MaxLen`, so that
keys are truncated and two ids can share one. The server has one
slot because the program does: `nSlots` is 1 (`app.cpp:31`) and no option
changes it; section 5 says what depends on it. `manager` has two. A handler
without a database is the same code with fewer calls. In `sync`, one node has fewer
threads than sockets, one as many, one more; a batch of two rows and a connection
that holds one slice let a node be a row ahead of its peers and blocked by them.
Five workers let the two sides of the mesh (accepting and connecting) be of
every size from 0 to 4. Three passes let an id be saved, lost or committed on some of
the nodes, extended in another session and loaded. In `chat` the context holds
one prompt with a longer answer, or two short rounds of a conversation, and the
vocabulary has every class of bytes that the decoder tells apart except sequences
of two and four bytes, which take the same transitions. The models of `transfer`
have every kind of weight, of slice and of buffer; two fields per connection are
the least with which a writer is ahead of its reader and can be blocked by it.

`control` has a limit that is a property of the code: `KilledAt` does not contain
`"commit"`. A worker that is killed between the end of its forward pass and its
own commit loses rows that the root goes on to describe, and with `"commit"` in
`KilledAt` TLC reports `LoadsFindTheirRows` violated. The comment at
`app.cpp:382` calls the arrangement a hack; the run shows that this is the only
crash it does not survive.

`CHECK_DEADLOCK FALSE` is used where the system may stop: bounded counters end
the runs of the cache, the assertion on start-up ends the server, a finished or
refused handshake, a finished forward pass, a finished transfer and a
conversation at the end of its context have no further step. A lock-up of these
would show as a violation of `RequestsFinish`, `NetworkComesUp`, `ForwardEnds`,
`TransferEnds` or `AnswersEnd`, and one of
`control`, which stops after its last pass, of `ForwardReturns` or
`WorkersLeave`.

Fairness. `FairServerSpec`: the handler runs on a thread of its own and never
waits for another one, so its next step is taken. `FairHandshakeSpec`: processes
that were started are scheduled; nobody is obliged to start a worker, hence the
premise of `NetworkComesUp`. `FairControlSpec`: the root's forward pass
returns or fails when it can, and a worker's loop takes its next step; sessions,
requests and crashes need not happen. `FairControlSpec` also takes it that a forward pass which all nodes have begun ends; that
is `ForwardEnds` of `NodeSync`, with its exception. `FairSyncSpec`: an OS thread goes on
with the task it has taken, an idle arena takes one of the tasks that are left, and the
node goes on when all have returned. Nothing obliges a second OS thread to join the arena.
`TransferSpec`: root and workers are one thread each, blocked only in
reads and writes. `FairChatSpec`: the loops go on; nobody is obliged to type
another prompt.

What `ForwardEnds` excepts is real. `<>ForwardDone` alone does not hold: on three nodes
two arenas that run their tasks one after the other, in different orders, wait for each
other, and with a batch of three rows it is enough that one node does (TLC finds both;
the second with two threads on the root and one on the workers). It does hold with one thread
on each node, and whenever every arena has an OS thread for each task, which is what the
advice "Don't set a higher value than number of CPU cores" (`README.md:79` of the repository)
leaves to oneTBB. `ForwardEnds` says that this is the only way to hang: tasks that run never
wait for each other in a circle. It also needs connections that hold a slice. The model
allows smaller ones; with `Capacity` 1 and `Units` 2 TLC reports `ForwardEnds` violated,
since all nodes write before any reads (`nn-network.cpp:536-558`). The run takes the smallest
connections that are large enough.

`WorkersLeave` does not promise that workers serve the next root: one that is in a forward
pass when a peer goes may die of SIGPIPE, and has to be started again. What it
excludes is a worker that stays in a session that is over.

## 4. Runs that end in a violation

| Run | Property | What happens |
|---|---|---|
| `disconnect` | `AnswersFromOwnPrompt` | A streaming client goes away; `provideContent` returns at line 227 without `updateDeviceSlot`. The slot now has rows of the abandoned request under the prefix of the one before, and a request that matches this prefix is answered from them. With a database the wrong rows can be saved and outlive the process. |
| `context_full` | `PositionInContext` | An answer that reaches the end of the context leaves the loop at `pos == seqLen`; with a database one more forward pass is run at that position, against `assert(position + execution->batchSize - 1 < header->seqLen)`, `app.cpp:186`. |
| `long_prefix` | `NextStartLoads` | A prefix truncated to `NnPrefixCacheMaxLen` tokens is saved; the next start asserts `meta.prefixLen < NnPrefixCacheMaxLen` (`rocksdb-cache.cpp:127`). |
| `chat_prompt` | `PromptIsFed` | After a batch of the prompt `inference` and `chat` take the next token from `inputTokens[pos + 1]`, one behind the last token of the prompt. The last token is never fed, and the first prediction starts from whatever is behind it: a zero, a token that a merge left there, or an uninitialised cell. |
| `handshake_order` | `SocketsInOrder` | With three workers, worker 2 accepts workers 0 and 1 in either order, but numbers its sockets as if it knew. `syncNodeSlices` takes the number for the node. |

The passing run of the server leaves out what these runs show where it would
drown everything else: `server` allows a disconnect only before the answer
starts. `ContextIsConversation` says "one token" where `PromptIsFed` says which. `PositionAssertFails` (the failing
assertion ends the process) is part of every run of the server.

## 5. Proofs

TLAPS proves, for all values of the constants that satisfy the named assumptions
of the modules:

* `PrefixCacheManager_proofs`: `TypeCorrect`, `SlotsAgreeWithTrie`,
  `DbAgreesWithTrie`, `IdsAreFresh`, `SlotsOrderedByUse` and
  `RestartLosesNoMetadata`, that is all invariants of the run `manager` for every
  number of slots and every set of tokens and prefixes. The inductive invariant
  `ManagerInv` is their conjunction with two facts they need of each other: the
  trie's slot entries do not tie (which needs the counter to be ahead of all
  scores) and what is staged or stored was issued. A restart is the hard case:
  the counters are maxima over what is on disk, and that a finite set of issued
  ids has a maximum is taken from the well-foundedness of the natural numbers.
* `ApiServer_proofs`: three invariants, each on top of the one before.
  `ServerInv` needs no assumption: the manager's invariant `ManagerInv` holds in
  the server too (`ServerKeepsManager`), since the handler calls its methods in an
  order that `ManagerSpec` allows, together with the shape of the locals of a
  request (`Shape`) and of the rows in files (`Files`), and with how far a
  request has got in its prompt (`Progress`). It gives `ServerTypeCorrect` and, for a context
  shorter than `NnPrefixCacheMaxLen` tokens, `ShortContextsLoad`: the assertion on
  start-up that the run `long_prefix` violates cannot fail.
  `IdsInv` is about ids: a slot is listed under the very prefix its id was saved
  with, unless it is the slot of the request in hand (`SlotIdsSaved`), and the
  request in hand writes to an id that no other slot is listed with and whose
  prefix its prompt begins with (`OwnId`). It gives `ConversationsOnlyGrow`.
  `RowsInv` is about contents: every saved row is the row of the prefix it is
  described under (`SavedRowsMatchPrefix`), the slot holds the rows of the prefix
  the trie lists for it, and while a request is in hand, those of the part of
  its own tokens that has been fed (`InHand`). It gives `RowsOnDiskAreRight`,
  `SlotsAreRight`, `AnswersAreOwn` and the refinement `CacheDoesNotShow`: every
  step of the server is a step of `Completion`, which has no cache, or stutters.
  The last two invariants assume that clients do not go away once the answer has
  begun (`Disconnects \subseteq {"prompt"}`), which `disconnect` shows to be
  needed. `RowsInv` also assumes one slot. With two slots TLC finds
  `SlotsHoldTheirPrefix` violated with no disconnect at all: `setSlot`
  (`dllama-api.cpp:178`) is called in the loop over the prompt only, so that the
  answer to a prompt that is cached as a whole is computed in the slot of the
  request before. This is not reachable in the program as it is, which never
  creates a second slot, but nothing else in the handler guards against it.
* `Handshake_proofs`: `FirstSocketIsRoot`, `HandshakeTypeCorrect`, `NoWorkerRefused`
  (`WorkersFindEachOther`) and `MeshIsFull` (`FullMesh`), for every
  number of workers. One invariant follows the root's loop: workers before
  `rootAt` wait for the ready packet, the one at `rootAt` is being configured, the
  ones after it are untouched (`InOrder`); from the first ready packet on all are
  configured (`AllConfigured`); only then can a worker be connecting to another.
  `MeshInv` is about the connections: behind the root's, the sockets of a
  worker are those it accepted, each from a worker that has connected to it,
  and then those it connected to, in their order (`SocketsLead`); what is in a
  backlog was made by the other side (`BacklogLeads`); no peer is
  twice in the sockets and the backlog of a worker (`NobodyTwice`). A worker that is done
  has as many sockets as it has peers (`DoneHasAll`), hence all of them.
* `NodeSync_proofs`: `SyncTypeCorrect`, `SocketsArePartitioned`,
  `SlicesAreGathered`, `WireIsCleanAfterwards` and the refinement
  `SyncImplementsCollective`, for any number of nodes, threads, rows and pieces,
  any capacity of the connections and any mode of the sockets. The invariant has
  one central part, `Carries`: the content of every connection is exactly what
  its sender has written minus what its receiver has read, in the order of
  steps, rows and pieces. With it the head of a connection is the piece the
  receiver is waiting for. `Less` in `NodeSync` is the update of a task by one
  piece, named so that lemmas can speak of it.
* `ControlLoop_proofs`: `ControlTypeCorrect`, `PacketsStayWhole`,
  `WorkersFollowRoot` and `LoadsAreComplete`, for any number of workers, ids and
  passes. `ControlInv` relates the halves of a packet on a connection to the
  state of root and worker, `RowsInv` the rows promised by the root's metadata to
  what each worker has staged or committed. `LoadsAreComplete` assumes
  `"commit" \notin KilledAt` (section 3); the others assume nothing about crashes.
* `Chat_proofs`: `ChatTypeCorrect`, `ContextFollowsConversation` and `ShownIsText`
  (`ShownIsDecoded`), for every vocabulary, every prompt, any batch size, context
  length and number of prompts, and whatever is sampled. The argument about the
  text has three layers. The decoder can be stopped at any byte and resumed from
  its checkpoint: what `x` and `y` decode to together is what `x` decodes to, and
  then what the bytes kept of `x` followed by `y` decode to (`DecodesInPieces`, by
  induction over `y`, from `DetokBehind`: a step of the decoder does not depend on
  what was decoded before the checkpoint). So the pieces of an answer add up to
  the text of its bytes (`StreamOfOneMore`, `DecodedOnward`). The detector holds back, shows or
  cuts off at a stop, and never anything else (`DetectCases`, `StopIsBehind`).
  `ChatText` puts them together: while tokens are sampled `strBuffer` is exactly
  what cannot be decoded yet, and the detector's buffer what is not shown yet.
  `ChatContext` relates the rows of the context to prompt and answer token by token.
  The type invariant needs that `encode` yields at least one token for the first
  prompt, because of `<bos>`, and for a message that is not empty
  (`EncodingType`), as otherwise the position would move back; and that
  the vocabulary is `0 .. vocabSize - 1` (`VocabAssumption`), so that the longest token and
  the longest stop exist.
  Induction here means: the set of numbers, or of sequences, that have the
  property contains the first one and is closed under the next one (`UpTo`,
  `OverSequences`). Both lemmas take a set where the library's induction theorems take
  an operator, and rest on the well-foundedness of the natural numbers.
* `TransferData_proofs`: `RowSlicesPartition` and `ColSlicesPartition`, for matrices of
  any size, any block size and any number of nodes that pass the assertions of
  `sliceRowMatmul`, `sliceColMatmul` and the splitters: every cell of the matrix is
  in exactly one place of one node. The row, the column and the node of a cell are
  digits of its number in a mixed base, and the proof is the uniqueness of
  quotient and remainder, used twice for columns. `RopeCacheCovers` needs only
  that `dim` is at least `kvDim`. `HeadsFindTheirKeys` assumes that the KV heads
  divide evenly among the nodes. The code does not check this: it asserts that
  `kvDim` does, and compares the number of nodes with the number of KV heads. The
  assumption is needed: 3 KV heads of 4 dimensions on 2 nodes pass all assertions,
  and then a node's part ends in the middle of a head. The same module has the facts
  about `LlmNet` that the transfer rests on: the counts in a configuration are the
  lengths of its arrays (`ConfigShape`), all nodes have segments with the same
  synchronisations, and weights and operations belong together: every weight that
  a node is given has exactly one operation of its name and layer, with the size of
  the weight's slice (`OperationOfWeight`), and every operation with weights has
  such a weight (`WeightOfOperation`). And it has those about the lists of `Transfer`:
  what the root writes for one node, and what a reader's items stand for.
* `Transfer_proofs`: `TransferTypesHold`, `NothingIsRejected`, `ConfigurationArrives`,
  `WeightsArePlaced`, `RootBeginsLast` and `PartsMakeModels`, that is all invariants of
  the run `transfer`, for every set of models that make sense (`IsModel`) and pass the
  assertions (`Accepted`), all names, any number of nodes and any capacity of the
  connections, with any process killed at any moment. That one number of nodes is the largest
  (`TransferAssumption`) holds because these numbers have 32 bits.
  The inductive invariant, `TransferInv`, has one part per worker
  (`Consistent`), about its `View`: what it has read, what it is going to read, and
  `Coming`, which is what is on its connection followed by what the rest of the
  root's program will write to it. So what the other workers are sent, and how far
  the root is ahead, does not matter. A worker is in one of three phases.
  In `ReadingNet` and `ReadingNode` it has a list `X` of items left, and what is coming is
  what these items stand for (`Said`), the acknowledgement, and the next phase; items
  that depend on a field come after it (`InOrder`); what has been read and what
  `X` covers is the whole configuration (`Coverage`), and what has been read is
  right (`Told`). Reading an item takes one field off both sides (`ReadingReads`), and
  expanding one leaves what it stands for as it is (`ReadingExpands`). The latter rests on
  `BuiltExpansion`, which goes through the arrays: for each of them the items that the
  reader makes of an element stand for the fields that the writer makes of it. In `WeightPhase` the
  worker has its configuration and is between two weights, at one of eight stages within one,
  or at the end; `Placed` says that of the weights so far exactly those meant for this
  node are in the operations they belong to. The same `Placed` holds of the root
  and its own weights (`RootInv`).
  `PartsMakeModels` assumes in addition that the heads divide evenly (`HeadsDivide`, the
  assumption of `HeadsFindTheirKeys` for every model); `Accepted` does not imply it.
  The other theorems have no assumption but `TransferAssumption`.

Only model-checked: the liveness properties (`RequestsFinish`, `NetworkComesUp`,
`ForwardEnds`, `ForwardReturns`, `WorkersLeave`, `AnswersEnd`, `TransferEnds`), since
liveness under fairness and `ENABLED` are out of the prover's reach. All invariants
of the passing runs and both refinements are proved.

Every property that is proved was checked by TLC first, on the bounds of its run, and
so were the inductive invariants that TLC can evaluate. `TransferInv` is not one of them:
it says that some list of items is left, of which TLC would have to enumerate all.

## 6. Not modelled

* Arithmetic: kernels, quantization, sampling. A forward pass is represented by
  what it depends on.
* The Vulkan device, which is not part of the default build and has no cache
  steps.
* HTTP, JSON, RocksDB, oneTBB and the HAT-trie: external or vendored. Of oneTBB's scheduler
  the model only knows that an arena has at most `nThreads` OS threads and does not leave
  all its tasks waiting. The HAT-trie
  is modelled as a map with longest-prefix search; RocksDB as a store with atomic
  batches.
* The cache of tokenized messages (`putMessageTokens`, `tryGetMessageTokens`) and
  `encodeContext`: a sequential read-through cache whose key is compared with the
  stored text and whose two entries are written in one batch; requests begin with
  their tokens.
* The chat templates, parsing of requests, and the HTTP thread pool. Two requests
  share the sampler: the seed of the second is set while the first is answered
  (`dllama-api.cpp:320`, a hazard without a property).
* The sampler: any token may be sampled.
* 32-bit sizes: sizes are counted in cells and stay small. A matrix whose slice
  has 4 GiB overflows the `NnUint` of `allocate` (a hazard without a property).
* Devices other than one CPU per node, timers, statistics, argument parsing.

## 7. Plan

1. `PrefixCacheManager`, `RocksDbCache`, proofs: done.
2. `ApiServer` with the refinement of `Completion`, proofs: done.
3. `Handshake`, proofs: done. Left: `SocketsInOrder` for at most two workers.
4. `NodeSync` with the refinement of `Collective`, proofs: done.
5. `ControlLoop`, proofs: done. Left: an abstract specification in which all nodes
   run one forward pass after the other.
6. `Slicing`, `LlmNet`, `Transfer`, proofs: done; the step list of the executor is part of `LlmNet`.
   Left: the division of the rows of a matrix among the threads of a node.
7. `Tokenizer`, `Chat`, proofs: done. Left: `encodeContext` with the cache of
   tokenized messages.
8. Two HTTP requests that share the sampler.
