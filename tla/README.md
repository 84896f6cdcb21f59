# A TLA+ model of squoze

squoze sits between a coding agent and a model provider: it rewrites request
bodies so that machine output (logs, diffs, JSON, repeated file reads) takes
fewer tokens, and keeps the originals on disk. This directory holds TLA+ modules
for its core, TLC configurations that check them on small instances, and proofs,
checked by TLAPS, of what holds for every value of the constants. Every module
is read off the Go source; `PROJECT.json` maps each definition to the lines it
stands for.

    tlc -workers 2 -config MCMemo.cfg MCMemo     # a run
    tlapm Memo_proofs.tla                        # the proofs of a module

Contents: 1 inventory, 2 modules, 3 abstractions, 4 runs and bounds,
5 fairness, 6 proofs, 7 what the documents promise and the code does not do,
8 not modelled, 9 plan.

## 1. Inventory

A request travels `agent -> wrap's listener -> proxy -> engine.Apply -> provider`.
`Apply` detects the wire format, walks the messages, asks the cross-turn dedup
for repeated blocks, and distils each remaining text through the pass cascade,
whose decision it pins in the memo; the text it replaces goes to the originals
store. The CLI wires an agent's config file to the listeners and unwires it.

| Component (src/) | State | Operations | Talks to | Hard part | Correct when |
|---|---|---|---|---|---|
| decision memo (`internal/store/memo.go`) | map + recency list under one mutex | Get, Put, Len | engine goroutines | interleaving, capacity, unlocked Len | list and map agree, it is an exact LRU cache, never more than Cap outside Put |
| originals store (`internal/store/originals.go`) | map per process, append-only file | Open, Put, Get, Resolve, Close | engine; the disk | failed and torn writes, crash, two processes on a file | only a bounded, explained set of originals is lost |
| engine (`internal/engine/engine.go`, `stream_scanner.go`, `limits.go`) | memo, originals; counters per request | Apply and its three scanners | memo, originals, dedup, passes | concurrent requests, pin before store, eviction between calls | answers are a pure function of the body; what is replaced can be found again |
| user message scanner (`user_tool_scanner.go`) | the text as rewritten so far, a position in it | find machine regions in a user text, distil each | engine | the search goes on in a text it has changed; nesting | what stands around the regions is kept, the search ends |
| a conversation over its turns | history; what the provider has seen | one more turn | engine | gates and detection look at the whole body | an earlier message is sent as before (prefix cache) |
| wire format (`internal/wire/format.go`) | none | Detect | engine | substring tests on a body | stable for a conversation |
| cross-turn dedup (`internal/distill/dedup.go`) | a map of hashes per request | DeduplicateHistoricalReads | engine | which copy is named, hash equality | a reference names an earlier, untouched, equal block |
| pass cascade (`engine.go` distillText, `prescan.go`) | none | four passes, pre-scan | passes, memo, originals | order and early returns | skips cost nothing, the marker's ref is stored |
| terminal hygiene (`distill/terminal.go`) | none | ANSI, CR, repeat folding | cascade | runs at a boundary | folded runs can be expanded again |
| diff distiller (`distill/diff.go`) | section accumulator | DistillDiff | cascade | section boundaries | every changed line is kept or accounted for |
| squeezer (`compress/compress.go`) | none | head/tail, rescue of failures | cascade | caps and window arithmetic | no failure is lost below the cap |
| JSON distiller (`distill/json_tabular.go`, `json_prescan.go`) | none | scan, tabular lifting, pruning | cascade | the scan speaks of bytes, the transforms of values; budgets | the scan skips nothing, what a table or a pruned document leaves out is known |
| classifier (`router`) | none | verdict | cascade | sampling, and the order of the tests | source code is never taken for something to squeeze |
| profiles (`profile`) | none | family, parameters | engine | string matching | - |
| proxy (`proxy/proxy.go`) | per request; the log | refuse, process, forward, log | engine, provider, client | panics, bad bodies, failing upstreams, shutdown under load | what goes upstream is the engine's answer or the original; the log is true |
| wrap (`wrap/wrap.go`) | listeners, child process | Run, OnExit | proxy, harness, agent | order of setup and defers, signals at any point | the config is unwound, squoze exits |
| harness (`harness/wire.go`) and agent command (`cmd/squoze/agent.go`) | config file, backup | Wire*, Unwire* | the user's file, other sessions | no lock: read, save, write are separate steps; kill | the user's config comes back; each provider is still reached |
| other CLI commands, agent tables, Go API, evaluation harness | none | - | - | - | not part of the core, see 8 |

## 2. Modules

| Module | Stands for | Composes |
|---|---|---|
| `MemoOps` | get and put as operators on a record of list and map | |
| `Memo` | concurrent Get, Put and Len, step by step under the mutex | `MemoOps` |
| `LRUCache` | *abstract*: what a memo of capacity Cap promises, without list, map or mutex | |
| `MemoHistory`, `MCMemo` | a history variable, and `Memo` shown to implement `LRUCache` | both |
| `Originals`, `MCOriginals` | several processes on one originals file | |
| `Transform` | *abstract*: Detect, gates, dedup and distillation as pure functions of a body | |
| `Squeeze` | *abstract*: each request is answered once, by a pure function of its body | |
| `Engine`, `MCEngine` | concurrent Apply, text by text, over a shared memo and store; implements `Squeeze` with `Outcome` = `Transform`'s | `MemoOps`, `Transform`, `Squeeze` |
| `Turns`, `MCTurns` | a growing conversation, and what the provider saw | `Transform`, `Dedup` |
| `Dedup` | both loops of the dedup, with the hash as a parameter, compared with `Transform`'s definition by contents | `Turns` |
| `Router` | Classify: probe, code header, sampled windows, scores | |
| `Passes`, `MCPasses` | distillText's cascade, hygiene, canDistill | `Router` |
| `JSONTable`, `MCJSON` | the JSON pass: scan, lifting, pruning | |
| `UserText`, `MCUser` | the search for wrappers in a user text | |
| `DiffPass`, `Compress` | one pass each, line by line | |
| `Proxy` | one `wrap.Run`: handlers of concurrent requests, the agent, signals, the defers; implements `Squeeze` | `Squeeze` |
| `Wiring` | what wiring does to a config | |
| `Session`, `MCSession` | sessions of `sq opencode` or `sq omp`, the user's editor and `--unwire` on one config file | `Wiring` |
| `*_proofs` | theorems of the module of that name; `Turns_proofs` also those of `Dedup`, `Passes_proofs` those of `Compress`, `DiffPass`, `JSONTable` and `UserText`, which share its lemmas | |

How state and actions correspond to the code:

- **Memo.** `cache.order` is the `container/list`, `cache.m` the map, `mu` the
  holder of the mutex, `pc` where each goroutine is. Lock and unlock are steps;
  so are the list push and each eviction, because `Len` reads the list without
  the lock.
- **Engine.** `request`, `reply` and `pc` per call of Apply; `todo` holds the targets the
  scanner has still to visit, `cur` and `piece` where it is, `res` what it has so far.
  The memo lookup, `originals.Put` and `memo.Put` are a step each. The memo and the store are
  used as atomic objects, which `Memo` (shown to implement `LRUCache`) and the mutex in
  `originals.go` justify. The lookup and the pin after it are separate steps, so
  requests interleave between them and the memo may evict there.
  `Recover` is safeProcess: a panic at any point of a request, after which the original body
  is the answer and whatever was stored or pinned stays.
- **Turns.** `conv` is the history the client holds, `sent` what it became on the
  wire the last time. `Path` is the way a body takes through Apply: bailed
  out, over the cap, or one of the scanners.
- **Originals.** `mem` is a process's map, `lines` and `tail` the file: a torn write
  leaves a tail without newline onto which the next append is glued, and the
  scanner then rejects both records. Put is two steps, map then file, as in
  the code; a process may stop, or the write fail, between them.
  A record in `Big` is longer than the scanner's 64 MB buffer: it is written, and from then on
  the store does not open.
- **Dedup.** No state: `FirstTurns` is the first loop over the blocks a request hands over, as a
  recursive function of the blocks passed, `Deduplicated` is the second. Evaluated on every conversation of `Turns`.
- **Passes, JSONTable, DiffPass, Compress.** The input is chosen in `Init`, so TLC enumerates every
  text up to the bound; the algorithm then runs pass by pass or line by line. `is` in Passes
  holds the verdicts of the passes whose inside is modelled elsewhere; the classifier's is computed.
- **Router.** A line carries marks (`Traits`: an opener, a test hit, a time stamp, ...); which
  strings carry which is a constant, the counting, sampling and ordering is the code's.
- **JSONTable.** A document is a tree with its fields in document order, each key of an object there
  once; `ValuesTo` builds the trees level by level, up to `Depth` (10000 in encoding/json). `Parse`, `PruneValue` and
  `Leaves` are recursive functions on them. `Scan` is the scan of the
  raw bytes, `Lift` and `Prune` the two transforms of the parsed value; whether a result
  saves enough bytes is a choice.
- **UserText.** `result` is the text as rewritten so far, `searchPos` the position in it, `todo`
  the wrappers still to be looked for. What a pass makes of a region is any elision.
- **Proxy.** `job[r]` is one call of ServeHTTP, `phase` where `Run` is: agent running, then
  the defers in their order. `Interrupt` kills the process unless NotifyContext holds the signal.
  Reading a body, the transport and the copy of the reply may each fail; `srv.Close` cuts clients off.
  `PassThrough` is the branch for GET and HEAD: a body they may carry is not read, counted or changed, and
  the transport reads it from the client as it sends it (`Sent`). Every other request has its body
  read, be it `Empty` (net/http gives each request of a server a body).
- **Session.** `cfg` and `bak` are the two files. A session reads, saves the backup,
  writes, listens and starts its agent (`Serve`), and restores when the agent ends.
  Wiring that fails (`GiveUp`: the file does not parse, or `WiringFails`: a read, the backup or the
  write stops half way, `Stops` and `Torn`) is followed, when it was of all providers, by `Choose` and an attempt to wire one, and
  after that by serving `--upstream` alone. `Killed` is a `SIGKILL`, a crash or a failed restore,
  at any point or in the middle of a write; `RunFails` every error return of
  wrap.Run that precedes its deferred OnExit, `Edit` the user's editor.
  `Routes` are a session's listeners with the upstream each has by itself, the table that agent.go builds and
  wrap.Run serves. `Answers` says where a call ends: at the URL in the routing header if the agent's SDK sends
  the header, which those of custom providers do not, else where the listener goes by itself; both cases are
  checked. `asWired` records that the agent has read just what its session wrote.

## 3. Abstractions

A text is a model value with a size, and a function of family and text says what
the passes make of it (`Distilled`), with `Nothing` for "leave it". Lines are kinds
(`ctx`, `mod`, `git.lock`, ...), not characters. A content hash is the content, except in
`Dedup`, whose 64-bit hash is a parameter. JSON syntax, formatting of markers (their
counts are kept where a property is about them), savings statistics and logging are
left out. URL paths are left out of `Wiring`, ports are numbers.

Byte limits become limits in lines or tokens: the classifier's probe and windows are cut
between lines, wrappers between tokens, escapes stand at the start of a line. In `JSONTable` a scalar has a
value as parsed (`Float`) and a text as printed (`Printed`): json.Unmarshal makes a float64 of every number, which a
table cell prints by `%v` (seven digits and more with an exponent) while the headline's siblings are
spelled as in the document. One `Long` stands for the limits of 80 characters of a cell and 60 of
a sibling. The sorted keys of json.Marshal are left out.

## 4. Runs, bounds, and why they are enough

| Run | Instance | Shows |
|---|---|---|
| `memo` | 2 goroutines, 4 keys, 2 values, Cap 2; symmetric | list and map agree and stay within Cap outside a Put, a Put is found by the next Get, Len is off by one at most, the memo is an LRU cache |
| `originals` | 2 processes, 4 refs, one of them too long to be read back, 1 fault; symmetric | until such a record is written one fault loses at most the record being written and the one glued to it |
| `compress` | head and tail 1, context 2, cap 4, up to 11 lines of 3 or 10 bytes | below the cap no failure line is lost, order is kept, silent loss is bounded |
| `engine` | 2 requests, 3 bodies, 2 families, 5 texts, Cap 1, a panic anywhere | Apply implements its pure specification, pins only what is stored, every reference has a recoverable referent, every call returns |
| `turns` | up to 9 messages, all gates active, injective hash | on a path history is sent unchanged; paths only advance; references lead to earlier unreplaced copies; the dedup's loops do what comparing contents would |
| `turns_rewritten` | tools declared, no system prompt, no cap | violated: history is rewritten at the first tool result |
| `diff` | up to 7 lines of 6 kinds; thresholds scaled | every line is kept or accounted for; in a git diff no changed line outside lockfiles is touched |
| `passes` | up to 4 lines of up to 2 segments, or of 9 contents; probe 2 lines, windows of 1 | folding is exact, skips only cost folds, the named reference is stored, code changes only as a diff |
| `json` | arrays of 3 rows over 2 columns, a table inside 1 or 2 objects with up to 3 siblings; 12 columns scaled to 2, 8 headline fields to 1 | the scan turns away nothing a transform changes, a table's cells read back, only late columns are lost, pruning keeps data |
| `user` | 2 wrappers between 3 human words, up to 3 tokens in the first, tags and fences among them | only what is inside wrappers changes, the search ends |
| `proxy` | 2 requests, GET or not, a body that shrinks or an empty one, routing header none, valid or malformed, with and without static upstream | what is forwarded, that the log is true, interrupts unwind, squoze exits |
| `session` | opencode, 2 sessions (all providers from port 2 on, one on port 1, manual on port 2), 2 providers of which one is in the catalog, a user who configured both or has no file or a broken one, 1 edit, kill or I/O error; symmetric | the backup is the user's, restoring leaves no local address, a first wiring reaches each provider, with and without the headers where every provider has its listener |

- *memo.* Cap 2 is the least that makes the eviction choose between keys, and four keys
  let a list that was not cut back grow beyond Cap + 1; two goroutines give every overlap of Get, Put and Len with an eviction.
- *originals.* A torn tail damages the next append only; one fault, two
  writers and four refs let it be followed by appends of either process and a reopening.
- *compress.* The thresholds are scaled: eleven lines hold
  two failure windows that overlap, meet the cap, or reach the tail. Sizes 3 and
  10 fall on both sides of the floors.
- *engine.* Cap 1 forces an eviction between lookup and pin. The bodies hold a
  repeated log, a repeat of a text no pass accepts, a region that is also a block,
  and texts below the floors. Two requests of one body race on the same
  keys, two of different bodies evict one another's.
- *turns.* Nine messages, one of up to 4 bytes per text, fall on both sides of the floor of 3 and the cap of 16,
  take the switch from chat to blocks, and read a block again in later turns; a message may carry the same block twice, which the dedup keeps.
- *diff.* Seven lines hold two sections (git header, `+++ b/` alone, or no header the pass knows), a lockfile section
  above `LockLines` and an unchanged run above `MaxContext`; the real
  20/15/8 relate to each other as the scaled 2/5/3, and
  `2 * KeepContext + 1 <= MaxContext` is assumed as in the code (2 * 3 + 1 <= 8).
- *passes.* A fold needs three equal lines; four give a fold and a neighbour. Four lines are
  longer than three windows of one line, so sampling skips a line, and than the probe.
- *json.* Three rows are the least a table has; a third row is where a column can be late. Two
  columns and one headline field put documents on both sides of the limits, 13 columns and nine scalars in the code.
- *user.* Three tokens hold a complete wrapper inside a wrapper, a closing tag too many, and one too few.
- *proxy.* Two requests give one that is served while the other is refused, fails or is cut off.
  Handlers share only the log and the engine, so more add no new pair.
- *session.* Two sessions give every overlap of read, save, write and restore on the
  files; one upset is one edit, one kill or one failed or half-done file operation at any point.
  Two providers give a table in which the wrong upstream can stand at a port. Two `all` sessions on different
  ports and the omp agent are outside this run; its invariants are proved for both agents
  and every set of command lines.

Where the code has a last state (a pass returns, all requests are answered, the conversation
is over) an explicit stuttering action stands for it, so deadlock is checked in every run.

## 5. Fairness

`Engine`: `WF_vars(\E r \in Requests : Step(r))`, that
*some* request being served takes a step. The Go scheduler guarantees more (every
runnable goroutine runs), but no less is needed: each request has finitely many
texts and no step waits for another request, the mutexes being held inside a step. No
fairness is put on the arrival of requests. `AllReply` then says that a received
request is answered.

`UserText`: `WF_userVars(UserNext)`, one sequential function that goes on as long as it can. `ScanEnds` is
about `searchPos` and the text that shrinks or grows under it.

`Proxy`: `WF_vars(Return)`, the main goroutine after the agent has gone. Nothing is assumed of the
agent, the client, the upstream or the handlers, as none has a timeout: `ExitsAnyway`
says that squoze ends without them.

The other modules state safety only.

## 6. Proofs

| Module | Theorem | Says |
|---|---|---|
| `Memo_proofs` | `TypeCorrect`, `ListAndMapAgree`, `MemoIsBounded`, `PutPins`, `LenIsOffByAtMostOne` | the invariants of run `memo` and the typing they rest on, for any keys, clients and capacity |
| `Memo_proofs` | `MemoImplementsLRU` | Memo, with list, map and mutex, implements LRUCache |
| `Originals_proofs` | `TypeCorrect`, `LossStaysBounded`, `NothingLostWithoutFaults` | a fault costs at most two originals and no fault costs none, for any processes, restarts and number of faults |
| `Engine_proofs` | `TypeCorrect`, `PinnedOriginalsAreStored`, `AnswersAreReversible`, `ReferencesAreRecoverable` | the invariants of run `engine`, for any bodies, floors, capacity and number of requests |
| `Engine_proofs` | `EngineImplementsSqueeze` | Engine implements Squeeze: concurrency, memo and eviction never show in an answer |
| `Turns_proofs` | `TypeCorrect`, `PrefixIsKept`, `ReferencesAlwaysLead`, `PathsOnlyAdvance` | the properties of run `turns`, for any set of turns, sizes and floors |
| `Turns_proofs` | `StableClientsAreNeverRewritten` | a client with tools declared, a system prompt, no body cap and a body above the floor never has its history rewritten: the condition under which "cache-safe" is true |
| `Turns_proofs` | `DedupIsExact` | under a hash that tells the texts apart, the loops of the dedup do what comparing contents would |
| `Passes_proofs` | `TypeCorrect`, `ChangesAreReversible`, `FoldingLosesNothing`, `SkippingCostsOnlyFolds`, `CodeIsLeftToDiff` | the invariants of run `passes`, for texts of any length, any line sizes and classifier parameters |
| `Passes_proofs` | `SqueezeTypeCorrect`, `OrderIsKept`, `NothingLostBelowCap`, `SilentLossIsBounded` | those of run `compress`, for any text and any head, tail, cap and context |
| `Passes_proofs` | `DiffTypeCorrect`, `EveryLineIsAccounted`, `ModificationsAreKept` | those of run `diff`, for any text and thresholds |
| `Passes_proofs` | `TheGateIsNeutral`, `TablesReadBack`, `LiftsLoseOnlyLateColumns`, `PruningKeepsData` | the invariants of run `json`, for documents of any size and depth, any metadata keys and all limits |
| `Passes_proofs` | `ExactNumbersAreKept` | pruning changes no scalar of a document whose numbers float64 gives back as spelled |
| `Passes_proofs` | `UserTypeCorrect`, `SurroundingsAreKept` | the safety property of run `user`, for any wrappers, message and elisions |
| `Proxy_proofs` | `TypeCorrect`, `InterruptsUnwind`, `LogsAreTrue`, `ProxyImplementsSqueeze` | the safety properties of run `proxy`, for any number of requests, and that Proxy implements Squeeze |
| `Session_proofs` | `TypeCorrect`, `BackupStaysUsers`, `RestoringUnwires`, `FirstWiringIsTransparent` | the invariants of run `session`, for both agents, any sessions, providers and command lines |
| `Session_proofs` | `CarefulUseForwards` | with one session at a time, no kill, setup failure or I/O error, a listener never forwards to a listener |
| `Session_proofs` | `CarefulUseRestores` | if besides the user edits only before the first wiring, a session leaves the file as its wiring found it |

*Assumptions.* The `ASSUME`s of the modules, nothing else, and TLC evaluates each:

- Memo: `Cap` is a positive natural and `Nobody`, `Miss` are no client and no value.
- Originals: `Junk`, `TooLong` and `Empty` are no refs and distinct; `Big` is a set of refs.
- Engine, Transform: `Cap` is natural, `None` no request, conversations are sequences of messages;
  sizes, floors and the cap are natural, pieces sequences of texts.
- Turns, Dedup: deltas are sequences of messages, each text has a hash. That no two texts share one
  is a hypothesis of `DedupIsExact` alone.
- Router, Passes: a text is a non-empty sequence of lines; probe, header and window have a line at
  least; a blank line is not shown; no line both opens code and starts JSON, as no prefix in
  `codeOpeners` does in the classifier (a property of its table that `CodeIsLeftToDiff` needs).
- Compress, DiffPass: parameters are natural, the cap positive, and `2 * KeepContext + 1 <= MaxContext`.
- JSONTable: documents are objects and arrays at most `Depth` deep in which an object has a key once (of a repeated
  key gjson finds the first and encoding/json keeps the last; no encoder writes one); what json.Unmarshal makes of a
  scalar is one; a table needs at least two rows (three in the code).
- UserText: messages are sequences of tokens, tags and fences sequences of names.
- Proxy: `None` is no body, request or answer; the empty body is one and does not shrink; the response buffer is positive.
- Session, Wiring: providers and ports are finitely many, URLs and this machine's ports are
  disjoint, the three file states are no configs, a user's file names no port of squoze, jobs are
  well formed, the default provider is one of the providers.

*Memo.* The invariant is `TypeOK /\ MutexExclusive /\ ListMatchesMap /\ BoundedOutsidePut /\
PutIsPinned /\ PinnedInFront`. Boundedness alone is not inductive: a Put
relies on being alone (`MutexExclusive`) for the list it found to be the list it
pushes onto, and a pinned key survives the eviction because it is in front
(`PinnedInFront`) and Cap is at least 1. For the refinement `MemoHistory` remembers what was evicted,
in order, and the last value pinned for each key: the cache's list followed by what was evicted is
the abstract recency order, so a push is an abstract step and an eviction a stutter.

*Originals.* `LossIsBounded` is not inductive: a torn write that lost one record leaves a tail onto which a
later, successful append is glued, which loses another. `Bounded` counts that one in advance
(`AtStake`): what is lost now and what the tail puts at stake stay within twice the faults.

*Engine.* A panic (`Recover`) is a step like the others: what it leaves half done is a text stored and not pinned,
which the invariant allows. The invariant is `Typed /\ MemoIsPure` and, for each request, `Local(r)`. `MemoIsPure`
says that a pinned decision is the one the passes would make: this is why a hit, an
eviction or another request's pin never shows. `Local` says that the part of the
answer built so far is the pure outcome of the texts passed so far. The refinement
maps a reply to Squeeze's answer and every other step to a stutter.

*Turns.* `sent` is always the transform of `conv` (`IInv`). `Transform_proofs` shows that
dedup and distillation of a message depend only on it and the messages before it, so
appending changes nothing as long as the path is the same; for a stable client
the path is a constant. Paths advance because sizes and the set of block types only grow.

*Dedup.* The first loop is a recursive function over the blocks. Its loop invariant says that
the table holds exactly the hashes of the large blocks passed, each with the least turn it was seen in;
without collisions a hash stands for a text, and the second loop then replaces what Transform's
definition by contents would.

*Passes.* `Ended` says which pass a result comes from and what that pass took to be so; the
properties follow from it and from lemmas about the passes' operators. Folding is a loop over
lines: `HasRead` says that what it has written, expanded, followed by the run it holds, is
what it has read, and the flush behind the loop gives the run out.

*Compress.* `KeptInOrder`, `NoLossBelowCap` and `SilentLossBounded` hold together with `Placed`: what is rescued lies
behind the scan and within the cap, so a window that is cut short has filled it.

*DiffPass.* In what git writes, the section being read starts with the `diff --git` line that opened it and is
taken for that file's kind (`SectionIsKnown`); nothing else tells the flush that a summarized section is a lockfile.
The compaction of context is a loop inside a flush, with `HasCompacted` as its loop invariant.

*JSONTable.* The program is a few steps, so the invariant only says how the document was distilled (`EndsAs`); without it a
result says nothing of the document it came from. The work is in the trees. `ValueInduction` goes up the levels of
`ValuesTo`, and `ParseIsStep`, `PruneIsStep`, `LeavesIsStep` and `WithinIsStep` show that the recursive functions are what
their definitions say. The pre-scan is neutral because a value none of whose parts carries a mark is its own pruning
(`NothingToPrune`). Pruning keeps the leaves because a field that goes has none (`NoLeaves`, `PruningKeepsLeaves`), and
what is left has no mark (`PruningOnce`). A table reads back because the columns are keys of the first row, each
once, and hoisting splits them in two (`ColumnsSplit`); cells that were clipped are never hoisted, so counting those of
the varying columns counts all (`ClippedAreCounted`). For the lift, `CandidatesLead` says where the array it finds stands: at
the root, in a field, or in a field of a field. In each place the scalars of the document are those of the headline, as
the siblings were accounted for, plus those of the array (`SiblingsTell`), and each row's are those in columns plus
those in none (`RowsSplit`). An array under a metadata key tells more than pruning keeps: hence an inequality.
A document of exact numbers is its own parse (`ExactIsParsed`), so what pruning keeps of the parse it keeps of the document.

*UserText.* Each search runs over the text the ones before have made, so the shape of the text is part of
the invariant: wrappers that follow one another go on to do so (`Flat(result)`), and what is outside them is as
it was. In a flat text a region is exactly what stands between an opener and the closer that matches it, and
putting plain tokens in its place changes neither the shape nor the outside (`SwapKeepsFlat`, `SwapKeepsOutside`).
`~rewritten => result = message` is needed for the last branch, which looks at the result's first line.

*Proxy.* `Fits` says what each program point of a handler has set: the report and the body together, the upstream
that body or nothing, an error status before the line. `Written` says that a line is the last thing a
handler does, and `Staged` what is left of the agent and its config at each defer. The
refinement maps what the upstream gets to Squeeze's answer.

*Session.* `BackupFirst` links a session's program counter to the file it has read: once
it has saved, a backup exists, so no content that squoze wrote can be saved later.
`JobsAreComplete` is the typing of the jobs of sessions that wire. What an interrupted write leaves of a file
points at a listener only if the whole did (`TornIsTyped`).
`FirstWiringReaches` needs two facts of the session: its ports are its own (`Apart`, as a second listener on a port
does not start), and no two providers have the same port (`PortsAreDistinct`, by counting those before each), so that the table
sends what arrives at a provider's port to that provider (`TableAgrees`). The header is not used in mode `all`.
The two `CarefulUse` theorems take as hypotheses on the behaviour what the code leaves to the user: `Alone` (no two
sessions at once), `~GoesWrong` (no session is killed or fails in setup, no file operation fails) and `EditsEarly` (no edit once there is a
backup). Under the first two the file names a listener only while a session that will restore it is there (`Clean`), so what a
session reads is free of them. Under all three each session reads, and leaves, the content the first backup holds (`Faithful`).
TLC refutes `UnwireRestores` under the first two alone.

*Loops over data.* A theorem of the library that takes the property as an operator cannot be used,
but one over sets can: `IntervalInduction` in `Passes_proofs` takes the set of the numbers for which a
formula holds, and `RecursionExists` gives the recursive function that a loop is written as its value at
each step. Folding, compaction, the dedup, `Outside`, `Flatten` and the
levels of documents are proved with the two, for inputs of any size.

*Model-checked only.* Liveness (`AllReply`, `ScanEnds`, `ExitsAnyway`), which is beyond the prover together with ENABLED.
Every safety property of a passing run is a theorem. The claims of section 7 are refuted by TLC, not by proof.

## 7. What the documents promise and the code does not do

Met while modelling; `NeverRewritten` has a run of its own, each of the others is a definition
that TLC refutes when it is added to the run named. `PROJECT.json` quotes the sentences.

| Claim | Where | What happens |
|---|---|---|
| `AckedIsDurable` | `originals` | Put fills the map first: after a failed append the text is "stored" but never written |
| `StoreOpens` | `originals` | a record over 64 MB is accepted, and the store never opens again |
| `NeverRewritten` | run `turns_rewritten` | the format flips at the first `tool_use_id`; likewise at the 256-byte floor and at MaxBodyBytes |
| `ForwardsToProvider` | `session` | after a session that did not unwire, the captured upstream is a local port; holds under the hypotheses of `CarefulUseForwards` |
| `NoSilentLoss`, `DetailSurvives` | `compress` | the jump behind a window cut by MaxKept skips failures; a failure at the end of another's window gets no context |
| `ReferentIntact` | `engine` | the copy a reference names is itself distilled |
| `HitsWereServed` | `engine` | MemoHits is inferred from an unchanged Len, which a full memo always has |
| `AllModificationsVerbatim` | `diff` | without `diff --git` lines a lockfile swallows the sections behind it |
| `TwiceIsOnce` | `diff` | a summary carries no header, so a second pass merges it |
| `SummaryNamesStored` | `diff` | the summary of a lockfile names its section, the store holds the whole diff |
| `PrescanIsNeutral` | `passes` | canDistill turns away plain repeated lines that pass 4 would fold |
| `EveryMarkerNamesStored` | `passes` | pass 3's marker names the cleaned text, the store holds the original |
| `SourceSafe` | `passes` | a source file that mentions `diff --git ` is distilled as a diff |
| `JSONNeverSqueezed` | `passes` | a JSON text longer than the probe does not parse, and is squeezed if it quotes test output |
| `ProseSafe` | `passes` | prose goes on to terminal hygiene, which folds repeated lines |
| `LiftKeepsAll`, `RowsOverlap` | `json` | columns are the first row's keys and a row needs one of them: later keys vanish uncounted |
| `ElementsKept`, `PrunedOffersNoTable` | `json` | a null in an array is dropped: indices shift, and a table appears where none was |
| `NumbersKept` | `json` | integers over 2^53 change, and no scalar but such (`ExactNumbersAreKept`) |
| `HumanWordsKept` | `user` | an empty fence, a tag only mentioned, or one in pasted output makes a region of human words |
| `UnreadableGoesUpstream` | `proxy` | an unreadable body is answered 400 and not forwarded |
| `EveryResponseReports` | `proxy` | the headers are set for processed bodies only |
| `FullLog` | `proxy` | the log is closed before the handlers are done |
| `BytesAreCounted` | `proxy` | the body of a GET or HEAD is forwarded uncounted: its line says 0 bytes |
| `EventsArrive` | `proxy` | the status recorder hides Flush: streamed events wait in a buffer |
| `EachToItsProvider` | `session` | a provider wired alone whose SDK drops the headers is answered from `--upstream` |
| `UnwireRestores` | `session` | the first backup, or the half of it that a failed write left, is kept for ever and overwrites later edits; holds under the hypotheses of `CarefulUseRestores` |
| `ManualLeavesConfig` | `session` | a `--manual` session restores an earlier backup |
| `ExitUnwinds` | `session` | OnExit is deferred only after setup: a taken port leaves the wiring |
| `RestoredParses` | `session` | the backup of a missing file is a YAML comment, written into JSON |

Four more are read off the code without a definition: `Memo.Len` reads the list unlocked
(`LenOffByAtMostOne` bounds what it sees); blocks are compared by a 64-bit hash alone
(`DedupLosesNothing` fails with `Hash <- Colliding`); `ExitCode` is 1 for a nil
error; MaxBodyBytes sends distilled history in full.

Each property of a passing run is paired, in `PROJECT.json`, with a mutant of a definition
(marked *mutant* in the modules) that breaks it the way a plausible edit of the code would.

## 8. Not modelled

- `Resolve`'s prefix search: a pure lookup, ambiguous prefixes are refused; refs of 12 digits and
  of 64 are not told apart.
- Proxy: headers other than the routing header, the merging of query and path. In multi-listener mode
  one listener that fails returns before OnExit is deferred, like a single one, and leaves those before it open until
  the process ends.
- `srv.Close` does not wait, so the process may end inside an append to the originals: `Originals` has it as a crash.
- Which strings make a marker, an opener or a time stamp, and the probes of `profile.Detect`: constants.
- Byte counts of tables and pruned JSON: whether they save enough is a choice.
- Exit codes, stdio and the environment of the agent.
- `livecheck`, `harness`, flag parsing, agent tables, Go API: no state.
- Evaluation harness: fixtures and a report.
- `squeezeText` and the two message walkers that the stream scanner replaced: no caller.
- Environment-driven agents: no file is touched; a call of wrap.Run.

## 9. Plan

Done, in this order: memo (with its abstract cache), engine with Transform and Squeeze, turns,
originals, dedup, squeezer, diff, cascade, sessions, the JSON pass, user texts, panics, the
proxy with wrap's lifecycle, the classifier; proofs of every safety property the runs check, and of the
three refinements.

Next:

- `Engine` and `UserText` composed: the regions of a text as found by the search instead of given.
