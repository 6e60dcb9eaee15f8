# ollama_mitm: models, checks and proofs

`ollama_mitm` is a proxy in front of an Ollama server. It relays everything
except `POST /api/chat`. A chat goes through `CChunkedContentProvider`, which
puts a list of backend *keywords* before the user's messages, watches the
stream Ollama returns, serves a reply that is nothing but a keyword itself (the
model gets the date and time, the user sees "Working....") and relays any other
reply to the user.

This directory holds TLA+ models of that program, the TLC configurations that
check them, and proofs for TLAPS. Paths below are relative to the root of the
repository's source. "cpp" alone means `network/chunkedcontentprovider.cpp`.

To run: `tlc -config chat.cfg MCChatProvider` (any pair of the table of runs),
`tlapm ThreadPoolProofs.tla`.

## 1. Inventory

| component | state | operations | met by |
|---|---|---|---|
| content restorator, `network/contentrestorator.*` | `lastDetected` (nothing, a keyword, `cend()`), `lastData` | `Update(chunk)`, `Reset()` | the chat provider, once per chunk of Ollama |
| chat provider, `network/chunkedcontentprovider.*` | queue `ollamaToUser`, flag `disconnectAll`, the next request, promise and future, pinger, loop detector, the thread | constructor, `operator()`, destructor, `RunOllamaThread` and its two handlers, `SendToUser` | httplib's server thread on one side, ollama-hpp on the other |
| user pings, `network/user_ping_generator.hpp`, `CPinger` | a `once_flag` in an optional | `Restart`, `Ping`, `Finish` | the chat provider's thread |
| commands, `commands/ollama_commands.*` | none (a static list) | the keyword-only heuristic, date and time | restorator and chat provider |
| loop detector, `CAiLoopDetector` | last command, counter | `Update`, `Reset`, `IsLooping` | the chat provider's thread |
| safe queue, `common/safe_queue.h` | a queue and its mutex | `push`, `pop`, others without a caller | both threads of a chat |
| runners, `common/runners.h` | a stop flag, a thread | `startNewRunner`, a deleter that stops and joins | chat provider, `main` |
| thread pool, `common/threads_pool.hpp` | queue, mutex, condition variable, flag per worker | `enqueue`, worker loop, destructor | its tests; the program does not use it yet |
| proxy server, `network/ollama_proxy.*` | httplib server, configuration | `Start`, `Stop`, `HandlePostApiChat`, `DefaultProxyEverything` | `main`, httplib |
| configuration, `network/ollama_proxy_config.hpp` | host, port, verbosity | `Validate`, `CreateOllamaUrl` | the proxy server |
| program entry, `main.cpp` | the server thread's pointer, the exit code | `main`, `HandleSignal` | the operating system |

How they interact in one chat. httplib calls `HandlePostApiChat`, which builds a
`CChunkedContentProvider`; its constructor starts the *Ollama thread*. From then
on two threads run. The Ollama thread sends requests, is called back for every
chunk, and pushes what the user should see into `ollamaToUser`. The *server
thread* calls `operator()` again and again, which pops that queue into the
client's connection; when the client has gone it destroys the provider, and the
destructor raises two flags and joins the Ollama thread.

What is hard, and what makes the parts correct:

* *Chunks.* A keyword can be cut anywhere, can be shorter than a chunk, can be
  all there is or only a beginning. No text may be lost or shown twice; a
  command may not be shown; a reply may not be held back or given up too early.
* *Two threads and a flag.* The flag may rise between a test and a push, while
  Ollama streams, or between two rounds. The destructor must find an end
  wherever the other thread is, and text that is queued when the flag rises
  must still be delivered to a client that stays.
* *Partial failure.* Ollama may end a stream at any place, say that it failed,
  or send a chunk without `done`. A client may leave at any time.
* *Rounds.* Restorator, pinger and loop detector live longer than one reply.
  What they remember must not decide the next one wrongly.
* *Condition variable.* In the pool, flags rise without the mutex, and
  notifications come after the unlock.
* *Many chats.* Each chat holds a worker of httplib while its client stays.
  Threads may not pile up, and departed clients may not stop the server.
* *Shutdown.* Static destruction, a signal handler and a thread that blocks in
  `listen` meet in `main.cpp`.

Each of these is listed with its line and the properties that watch it under
`hazards` in `PROJECT.json`.

## 2. Modules

| module | models | lines it stands for |
|---|---|---|
| `OllamaCommands` | `trim` and the keyword-only heuristic (pure) | `commands/ollama_commands.cpp` |
| `AiLoopDetector` | the class, as a record and three operators | `commands/ollama_commands.hpp` |
| `UserPinger` | `CPinger` around `CUserPingGenerator`, three states | `user_ping_generator.hpp`, `chunkedcontentprovider.hpp` |
| `ContentRestorator` | the class, with any caller | `contentrestorator.cpp` |
| `ChatProvider` | one chat: both threads, Ollama, the client | `chunkedcontentprovider.cpp`, `safe_queue.h`, `runners.h` |
| `ChatRequest` | the constructor's checks and `MakeCommandsAvailForAi` (pure) | `chunkedcontentprovider.cpp:111-177` |
| `ChatConstruction` | one request and what `ChatRequest` makes of it | `chunkedcontentprovider.cpp:96-142` |
| `ProxyServer` | routes and handlers, over httplib's workers, many chats | `ollama_proxy.cpp` |
| `Shutdown` | `main`, the server thread, a signal | `main.cpp`, `runners.h` |
| `ThreadPool` | workers, producers, the owner | `threads_pool.hpp` |
| `ReplyVerdict`, `UserChannel`, `ChatLife` | abstract specifications | |
| `ContentRestoratorProofs`, `ChatProviderProofs`, `ChatStreamProofs`, `ChatConstructionProofs`, `ProxyServerProofs`, `ShutdownProofs`, `ThreadPoolProofs` | theorems and proofs | |
| `TextLemmas` | facts about sequences the proofs share | |
| `MC...` | constants for TLC | |

`ChatProvider` composes the first four by `INSTANCE`: the restorator is a state
machine whose variables are variables of the chat, the other three are pure.
`ProxyServer` composes `ChatRequest` and `ChatLife`. Operators marked "Faulty
variant" are not part of the models. Each stands before the definition it
distorts, and shows that some property notices.

How the levels meet:

```
                                                      ProxyServer
                                                       |      |
                                                     uses    uses
                                                       v      v
  ReplyVerdict              UserChannel          ChatLife    ChatRequest
       ^                         ^                  ^
   implements                    +---- implements --+
       |                                  |
  ContentRestorator <---- uses ---- ChatProvider

  Shutdown: the thread in which the server runs      ThreadPool: on its own
```

### ContentRestorator

`Update` is a disjunction with one disjunct per way through the function, in
the order of its early returns: no `done` field (`NoDone`), already decided
(`AlreadyDecided`), a keyword recognized earlier (`FullyReceived`,
`PartlyReceived`), and the search (`Recognize`, `StillTooShort`,
`NothingFound`). `result` is the value returned, `received` a history of the
text since the last `Reset`. The caller is arbitrary: any chunk at any time.

A text is a sequence of abstract characters; only equality and `isspace` (the
set `Blanks`) matter. The vector sorted by length is a set of words, and "the
first match" is the shortest one. `GetAiCommandsList().at(key)` asks the global
list, whatever list the object was built from, so it can throw: `AiCommands` is
a constant of its own and `Threw` one of the results. The debug build's asserts
are left out.

`ReplyVerdict` is the promise the chat provider relies on: hold text back,
decide once and hand out all of it, ignore the rest, start again at `Reset`.
`VerdictKept` maps the collected text to `lastData`, "decided" to the mark
`CEnd`, and what was handed out to the text of a `PassToUser` or `Detected`.

### ChatProvider

`thread` says where the Ollama thread is: at the head of the outer loop,
inside `chat()`, between the handler's decision and its verdict, in the
inner loop (`wait`), about to call `get()` (`get`), serving what it got (`serve`),
at the end of a round, closing, done, or `terminated`.
`server` says where httplib's thread is: between two calls, popping, holding a
message, and then through the destructor to `joined`.

One step of a thread reads or writes the shared state once. `SendToUser` is a
test and a push (`SendCheck`, `SendPush`), with anything in between. What a
handler sends in a row is in `outbox`, and the thread goes on when that is
empty. Two loads of a flag that only rises, with nothing shared between them,
count as one: any outcome of two loads is an outcome of one load at some time.
Between the test at cpp 368 and `get()` the thread is at `get`, and the flag may rise
there, as it may in every step that follows up to the next test.
A `push` or `pop` of `SafeQueue` is one step, as it holds the mutex throughout.

Ollama is a process of the model: it may deliver any chunk of `Pieces` with
`done` true, false or absent, or end its stream. Messages to the user are
records of a kind and a text; the JSON around them is left out. Requests to
Ollama are the lists of messages after the system prompt: the user's, and the
backend's answer (`value`, or `stop` when the loop detector says so).

An exception that leaves a thread ends the process; that is `terminated`, and
then no action but stuttering is left. These are modelled:

* the conversion of the request's model to a string (`ModelMissing`, cpp 363; every
  round uses the same request, so only the first one can fail);
* `chat()` itself (`ChatThrows`, cpp 343);
* `get()` of a broken promise (`GetThrows`, cpp 373);
* whatever needs the time (`TimeThrows`): the two pings before the command is asked
  and around its answer (cpp 446-457), the answer itself, whose result provider looks
  up the time zone, the message to the user and the `Finish` after it (cpp 379-381),
  the appeal to stop (cpp 389), and the `Finish` that closes a line of pings at the
  end of the round (cpp 404).

Pings and `Finish` throw only when they build a message: a `Finish` that finds no line
to close builds none. That is why the last one (cpp 407) is safe, as the end of the
round has always been there before it, and why the `Finish` of a round that served no
command is. An exception inside the handler is caught and taken for a failure of
Ollama (`HandlerThrows`). Memory that runs out is not modelled. Destroying the
provider (`joined`) ends the behaviour as well.

Two abstract specifications say what a chat is from outside. `UserChannel`: a
stream of messages that are sent, delivered in order, and closed, after which at
most one more gets in. Its stream is everything written, popped and queued; its
`closed` is `disconnectAll`. `ChatLife`: a thread that runs, is over or dead, a
worker of httplib that streams, releases or has released, and a client that is
there or gone. Its worker is released only after the thread is over.

### ChatRequest and ChatConstruction

The constructor as a function of the request: not JSON, no `stream`, a `stream`
that is not true, no `messages` (then the insertion into a null value throws) are
`Rejected`; otherwise the list of keywords goes behind the message
`adjacent_find` returns. That iterator is advanced before it is compared with
`end()`, from `end()` too, so the function has a third result: `Undefined`. A
message is its role, or `Missing`: the search reads roles with the const
`operator[]`, which asserts or is undefined for a message without one, so that is
`Undefined` too, but only where the search gets to that message
(`ReadsMissingRole`). The test `it == end()` behind the increment (cpp 153), which
is to fall back to the front of the list, never holds: what `adjacent_find` finds
has a successor, and from `end()` the increment goes past `end()`.

`ChatConstruction` is the specification around that function: a behaviour is a
request and the constructor's answer to it. In `ProxyServer` an undefined insertion
may go well or end the process.

### ProxyServer

Each client sends one request of `Requests`. `waiting` is the queue of httplib's
thread pool; a worker takes a request (`TakeRequest`) when fewer than
`NumWorkers` are held, and is held while a handler runs or a chat streams.
`Route` is the table of `InstallHandlers`. The handlers end in a status, or in a
chat: a record that goes on as `ChatLife` says (`ThreadGoes`, `WorkerGoes`,
`ClientGoes`). `DefaultProxyEverything` passes on any of the codes of `Forwarded`, 200
among them, or answers 502. `HandlePostApiChat` takes two steps, as the code does: it
writes 200 and goes to `constructing` (`BeginChat`), and then the constructor throws
and 504 overwrites the 200 (`RefuseChat`), or the chat starts (`StartChat`). When a
chat's thread dies the whole process does (`up`), with everybody else's chat. An undefined insertion of the list of keywords may go
well, which starts the chat, or not (`PromptCrashes`). Clients send one request
each: keep-alive would only bring a client back into the queue as a new one.

### Shutdown

`main`, the server thread and one signal, each with a place; `pointer` is the
global `shared_ptr`: null, held, being released by static destruction,
destroyed. The handler runs on top of one of the two threads, which stands still
meanwhile. `listen` may return or throw, or not end at all.

Resetting a `shared_ptr` during its own destruction and calling `exit` during
`exit` are undefined; the outcomes are those of libstdc++ and glibc, on which the
program builds: a use count that is zero already releases nothing; a second
`exit` on the same thread goes on with the remaining handlers and ends the
process, one on another thread waits (`HandlerBlocks`). A thread that joins
itself throws out of a destructor and ends the process (`ResetAborts`).

### ThreadPool

`worker[w]` is the program counter of the worker's loop. `cv_.wait` is split:
`Predicate` evaluates with the mutex held, `Park` goes to sleep and releases it
in one step. A notification between the two reaches nobody, which is what a
condition variable promises when the notifier does not hold the mutex. Spurious
wakeups may happen. `Take` is the pop with the unlock behind it, and `Start` the
call of the task, which comes without the mutex: between the two, other workers may
pop and start theirs, and flags may rise. `enqueue` is a push under the mutex and a
notification after it; the destructor raises the flags one by one, notifies, joins.

## 3. Runs

| run | module, cfg | question | states |
|---|---|---|---|
| `restorator` | `MCContentRestorator`, `restorator.cfg` | Does any chunking lose text, decide too early, falsely or twice, or hold back too much? | 4 438 |
| `restorator_header` | same, `restorator_header.cfg` | Is a recognized beginning always consumed to the end? **No** | |
| `chat` | `MCChatProvider`, `chat.cfg` | What does the user see, can a client read it, when does the process die? Is a chat what `UserChannel` and `ChatLife` say? Does it end, is it released, does the reply arrive? | 297 228 |
| `chat_rounds` | same, `chat_rounds.cfg` | How are repeated commands answered over five rounds? | 270 154 |
| `chat_sink` | same, `chat_sink.cfg` | Does the response end when the chat is over? **No** | |
| `chat_future` | same, `chat_future.cfg` | Does a ready future hold a command? **No** | |
| `chat_answers` | same, `chat_answers.cfg` | Does a request carry all answers so far? **No** | |
| `request` | `MCChatConstruction`, `request.cfg` | Where does the list of keywords go, and when is that defined? | 21 856 |
| `server` | `MCProxyServer`, `server.cfg` | Do threads stay bounded, whom does a request wait for? | 129 627 |
| `shutdown` | `Shutdown`, `shutdown.cfg` | How does the process end, with and without a signal? | 134 |
| `pool` | `MCThreadPool`, `pool.cfg` | Order, empty pops, stranded tasks, late takes and starts; is every task started? | 241 231 |
| `pool_destruction` | same, `pool_destruction.cfg` | Does a destruction that has begun end? **No** | |

The runs of the restorator, of a chat and of the pool check for deadlock; the
models stutter explicitly where the system is over (`Over`, `Destroyed`). It is
switched off for `request` (one step per request), for the server (every client
served, or the process dead) and for `shutdown` (the process has ended), where
the system really stops.

### What the properties say

*Restorator.* `NothingLost`: until the decision the collected text is the whole
reply, and a decision hands out the whole reply. `PassToUserIsFinal`: a reply
that is given up could not have become a command. `DetectionIsGenuine`: a
detection names a keyword the text begins with. `HeldBackIsShort`: without a
recognized keyword only texts shorter than some keyword are held back.
`VerdictKept`: the restorator implements `ReplyVerdict`, so no reply is decided
about twice before a `Reset`.

*Chat, safety.* `ShownIsReply`: all text on its way to the user is a beginning
of the reply of the present round, and the whole reply once Ollama has said
that it is done and the thread has finished. `CommandsStayHidden`: while a reply
is nothing but a keyword no text is on its way. `StreamReadable`: a client can
read the stream as it comes; every "Working" line is continued by dots and
closed once, before any text, and nothing follows a message that says `done`.
`ChannelKept` and `LifeKept`: the chat implements `UserChannel` and `ChatLife`.
`PlainRepliesAreSafe`: a reply that is complete or failed and that begins with no
keyword never ends the process. The thread dies while the end of a reply is still to
come (no model, `chat()` throws, a stream that was cut), or while it serves a reply
that begins with a keyword. In the latter case the reply may be complete, and in
both the user may have left.
`RepeatsAreStopped`: a command is told to stop
exactly from its third repetition in a row.

*Chat, liveness.* `ClosedIsReleased`: when the client has gone the destructor's
join ends. `ReplyDelivered`: from the chunk on that completes a reply, a client who
stays is written all of it although the flag rises, unless it was a command or
serving it ended the process. That the thread comes to its end under a client who
stays is no property of this code: a model that asks for commands for ever keeps
it going.

*Request.* `PromptEndsSystemRun`: the list of keywords ends the first run of
system messages and changes nothing else. `DefinedAfterSystem`: the undefined
insertion happens only in a conversation in which no system message is followed
by another role, or a message has no role. A plain user's question is such a conversation.

*Server.* `ThreadsBounded`: never more Ollama threads than workers, however
clients arrive, and leave while their chats go on. `RequestsServed`: a
request waits for ever only if every worker streams to a client who stays.

*Shutdown.* `OrderlyExit`: without a signal the process ends only after the
server thread. `FailureEndsProcess`: a server that cannot listen does not stay
behind as a process, unless the signal handler holds its thread. `SignalEndsProcess`: Ctrl-C ends the program while `main` hangs in the
join of its static destructor.

*Pool.* `TakenInOrder`: tasks leave the queue in the order of `enqueue`, each once,
and none is lost; nothing orders their starts. `TakeFindsTask`: no `front()` of an
empty queue. `NoneStranded`: queued tasks and only sleeping workers means that a
notification is on its way. `FewLateTasks`: once all flags are up at most one more
task is taken, and each worker starts at most one task after its own flag rose; so
as many tasks as there are workers may start late. `TasksStart` (liveness): every
task is started, unless the pool is destroyed.

### Bounds

* `restorator`: two keywords of different lengths (2 and 3), one of them outside
  the global list, nine different contents of a chunk, `MaxText = 5` characters
  between two `Reset`s. A text longer than the longest keyword plus a blank
  behaves like any longer one, and the proofs below hold for any bound.
* `chat`: one keyword of two characters, `MaxText = 3`, and at most three rounds.
  So a reply can be shorter than the keyword, the keyword, the keyword and a
  blank, the keyword and more text, or something else, in one to four chunks. As the reply of the last round may not be a
  command, three rounds are needed for a second reply to be one, however it is
  cut and whatever the first round left behind in restorator and pinger.
* `chat_rounds`: two keywords of one character, `MaxText = 1`, `MaxRounds = 5`,
  so that a command can be repeated past the limit of three, interrupted and
  begun again. `chat_answers` needs three rounds, `chat_sink` and `chat_future`
  one.
* `MayArrive` bounds Ollama: a chunk that is not the last one carries text while
  somebody listens (otherwise empty chunks may come for ever), and the reply of
  the last round is not a command. Neither has a counterpart in the code, which
  limits neither replies nor rounds, so no property may rest on a chat being
  finite. The liveness properties do not: a client who has gone raises the flag in
  whatever round, and a complete reply is delivered, or is followed by a round.
* `request`: every list of up to five messages of three roles or none, so that a run of
  system messages can stand at the start, in the middle, at the end, or twice.
* `server`: three clients and two workers, eight requests: each route, each way
  through `HandlePostApiChat`, and the two that have no route. Three clients on
  two workers are enough for a chat to end while another one goes on and a third
  one waits.
* `shutdown`: no constants; one signal.
* `pool`: three workers, two producers, three tasks; `pool_destruction`: two
  workers. Two workers can compete for one task while a third one sleeps, and two
  notifications can cross. No run uses symmetry, as most check liveness.

### Fairness

`ChatProvider!FairSpec`: both threads are scheduled (weak fairness); Ollama
goes on with its stream or ends it (weak fairness: `chat()` returns at the
latest with the timeout of the HTTP client); httplib finds out that a client has
gone, or that it has taken nothing for longer than httplib waits to write (strong fairness: it asks at each turn of its loop around the content
provider, so it is enabled again and again but not continuously). Nothing makes
a client hang up. Ollama's action says nothing about *how* it goes on, so
`ReplyDelivered` starts from a reply that is complete.

`ProxyServer!FairSpec`: a worker that is free takes what waits, a handler returns
(the HTTP client has timeouts), and a chat whose client has gone is released
(`Release`). The latter is what `ClosedIsReleased` establishes for `ChatProvider`.
Nobody must come, nobody must leave, and nothing is asked of the chat of a client
who stays.

`Shutdown!FairSpec`: `main`, the handler and the polling loop run, and `Start`
is reached. Nothing makes `listen` return, and no signal must come.

`ThreadPool!FairSpec`: every worker runs, a task ends, a notification that was
begun is made, the destructor goes on. Nobody must enqueue, nobody must destroy
the pool, and no spurious wakeup is counted on. Locking needs no strong fairness
here: `TasksStart` needs some worker to take a task, not a particular one.

## 4. What is proved

Everything here is proved for all values of the constants, from the
assumptions named in the modules. Every invariant and every refinement the
passing runs check is also a theorem; what is left to TLC is at the end.

**`TextLemmas`** holds what the proofs about texts and streams keep needing:
prefixes by position (`PrefixByIndex`, `PrefixOfLonger`, `PrefixesAgree`,
`PrefixTransitive`), and what `FlattenSeq` returns for one more text or for two
sequences of texts (`FlattenAppend`, `FlattenConcat`). `FlattenSeq` is a recursive
function, so the latter are inductions. They are done with the smallest
counterexample: a set of numbers that is not empty has a smallest element
(`SmallestExists`, from the well-foundedness of `<`), and the number before it is
no counterexample.

**`ContentRestoratorProofs`** (assumes `RestoratorAssumption`: keywords and
chunks are texts and the two marks are no keywords; and `KeywordAssumption`:
keywords are not empty, neither begin nor end with a blank, and none is a prefix
of another, true of the program's one keyword and of the tests' lists).

| theorem | states |
|---|---|
| `TypeCorrect` | `[]TypeOK` |
| `LosesNothing` | `[]NothingLost` |
| `DetectsGenuinely` | `[]DetectionIsGenuine` |
| `PassesFinally` | `[]PassToUserIsFinal` |
| `HoldsShortTexts` | `[]HeldBackIsShort` |
| `KeepsVerdict` | `VerdictKept`, the refinement of `ReplyVerdict` |

`TypeOK`, `NothingLost` and `DetectionIsGenuine` are proved one on top of the
other, each inductive given those before it. `PassesFinally` needs more: that a
text of which no keyword is a prefix, and which is as long as every keyword, can
become none of them (`StillTooShort` and `NothingFound` together exclude the
short texts); and that a recognized keyword which the text has outgrown was the
only one the text could be, which is where the assumption on prefixes enters.
For `KeepsVerdict`
(`UpdateIsVerdict`) each way through `Update` is a `Hold`, a `Decide` or an
`Ignore`, and `Reset` is a `Restart`; it needs no invariant.

**`ChatProviderProofs`** (assumes `ChatAssumption`: keywords and chunks are
texts, the marks differ, and the bounds are numbers).

| theorem | states |
|---|---|
| `LivesAsPromised` | `LifeKept`, the refinement of `ChatLife` |
| `ChatTyped`, `TypeCorrect` | the inductive invariant `ChatTypes`, and `[]TypeOK` |
| `KeepsChannel` | `ChannelKept`, the refinement of `UserChannel` |
| `StopsRepeatedCommands` | `[]RepeatsAreStopped` |

`LivesAsPromised` needs no invariant: a step of either thread leaves the other
one's place alone (`ThreadSide`, `ServerSide`), and `Join` is the only step to
`joined`. `TypeOK` is not inductive: that the loop detector gets a keyword needs
to know that a promise which is set holds one (`FutureHoldsCommand`).
`KeepsChannel` rests on `ChannelInv`: the message popped is the only one between
queue and client, and a thread inside `SendToUser` with the flag up has not yet
had its late message, so there is no second one. `DieInv`, which `DiesOnlyThen`
below needs, is what each place of the thread knows of the future and of the
restorator's last result: a request that is still to be sent finds a restorator that
is new or reset, and a broken promise that `get()` is asked for is that of a cut
stream, as the end of a reply has raised the flag before the test at cpp 368.
`StopsRepeatedCommands` needs to know what the counter counts (`RepeatInv`): over
the requests sent and the one still to be sent, the last `counter` of them answer
`lastCommand` and the one before does not. It must hold only while the thread
still serves commands, as a disconnected thread may drop a request the detector has
counted. The number of rounds is not bounded by the proof: `MaxRounds` is any
number.

**`ChatStreamProofs`** (the assumptions of `ChatProviderProofs`, and
`KeywordAssumption` as for the restorator).

| theorem | states |
|---|---|
| `ReadableForUser` | `[]StreamReadable` |
| `ShowsTheReply` | `[]ShownIsReply` |
| `HidesCommands` | `[]CommandsStayHidden` |
| `DiesOnlyThen` | `[]PlainRepliesAreSafe` |

None of these is inductive: what a step adds to the stream is right because
of what was sent before, and of what the restorator has decided. The argument has
these parts, each an invariant TLC found true of the constants of `chat.cfg` first.

* `UpdateKeepsContract`: seen from the chat, the ways through `Update` come
  down to five (`Contract`): the chunk is unreadable, or its text is taken and then
  relayed, held back, passed on as a whole, or handed over as a command. What is
  passed on can become no keyword, and what is held back at the end of a reply
  begins with none. This needs that the collected text is everything received
  and that a recognized keyword begins it (`DetectorKnows`).
* `StreamInv`, for the readable stream: what is written, popped, queued and about
  to be sent (`Traffic`) ends in a closed line (`Quiet`), in a line of pings that
  the pinger is sure to close (`Pinging`), or in the reply (`Telling`); in the
  reply the restorator has decided and no further round can start, and a message
  that says `done` is the last. Once the flag is up this need not hold, as what
  is about to be sent is dropped: then only what is in the stream counts, and the
  one late message that `ChannelInv` allows.
* `Leaving`: while the client is there only the Ollama thread raises the flag, and
  then nothing it still has to send carries text. So nothing of the reply is
  dropped under a client who stays, which the second half of `ShownIsReply` needs.
* `InStep`: during a reply the restorator has received just the reply, and a
  request that is to be sent finds it reset. Forgetting that `Reset` would show in
  the second round (`ResetTextOnly` is the mutant). A reply that is passed on is no
  command and does not become one (`NotACommandGrows`); that a keyword followed by
  blanks is still a possible command is `CommandCouldBecome`.
* `ShownInv`: without a disconnect nothing has been shown while the restorator is
  undecided and everything once it is not (`ShownSoFar`); in any case what was
  shown is a prefix of the reply, and empty while the reply is a command
  (`OfTheReply`).
* For `DiesOnlyThen`, `InStep` also says that a keyword begins the reply whenever the
  promise is set; `DieInv` says that otherwise the thread dies only with the end of a
  reply still to come.

**`ChatConstructionProofs`** (assumes `LengthAssumption`: the bound is a number).

| theorem | states |
|---|---|
| `PromptWellPlaced` | `[]PromptEndsSystemRun` |
| `DefinedWhereExpected` | `[]DefinedAfterSystem` |

The lemma that carries both is `RunEnds`: between a system message and a later
message of another role there is a boundary `adjacent_find` sees. The first
theorem uses it for the messages before the place found: as no boundary comes
earlier, no system message is followed by another role there, so the system
messages are one run that ends at the place. `Inserted` says what `InsertAt`
returns and that `RemoveAt` undoes it.

**`ProxyServerProofs`** (assumes `ServerAssumption`: finitely many clients, at
least one worker, and `NoChat` is not a chat).

| theorem | states |
|---|---|
| `WorkersProtected` | the inductive invariant |
| `TypeCorrect` | `[]TypeOK` |
| `BoundsThreads` | `[]ThreadsBounded` |

The invariant adds that a chat whose thread runs has a worker that streams or
joins, so running threads are among the workers held, of which there are at most
`NumWorkers`.

**`ShutdownProofs`** (no constants, no assumptions).

| theorem | states |
|---|---|
| `TypeCorrect` | `[]TypeOK` |
| `EndsInOrder` | `[]OrderlyExit` |

TLC's run is complete here, as the model is finite; the proof says why it holds.
`OrderlyExit` needs `Progress`: the thread exists before `main` gets on, the flag
is up before the join, and after the join the thread is over; an end in the
signal handler is not an orderly one, since the handler is never idle again.

**`ThreadPoolProofs`** (assumes `PoolAssumption`: the number of workers is a
natural number, and `Free` is not a worker).

| theorem | states |
|---|---|
| `LocksProtect` | the inductive invariant `LockInv` |
| `TypeCorrect` | `[]TypeOK` |
| `TakesFindTasks` | `[]TakeFindsTask` |
| `TakesInOrder` | `[]TakenInOrder` |
| `StrandsNone` | `[]NoneStranded` |
| `StopsSoon` | `[]FewLateTasks` |

`TakeFindsTask` is not inductive: between predicate and pop another worker might
take the task. `LockInv` adds that a worker inside the critical section is the
one that holds the mutex, hence the only one, and what that worker knows of the
queue at each place. `NoneStranded` is strengthened to speak of workers that are
about to sleep or about to look. For `FewLateTasks` the worker between its last test
and its pop is counted (`LateTakes`), which the mutex makes unique, and of each worker
it is kept that a late start leads only to the end of the task, the test of the flag
and the exit (`LateStarts`).

**Only model-checked.** The liveness properties: `ClosedIsReleased` and
`ReplyDelivered` of a chat, `TasksStart` of the pool, `RequestsServed` of the
server, `FailureEndsProcess` and `SignalEndsProcess` of the shutdown. They need
fairness, hence `ENABLED`, which is beyond the proof system. The findings below are
counterexamples TLC finds. The theorems are about the models: that a model is
faithful to the code rests on reading, and the bound on Ollama (`MayArrive`) is part
of what is proved about, with any values of its two numbers.

## 5. Where code and comments disagree

1. `restorator_header`: the class comment says that after a recognized beginning
   the object keeps consuming and returns the whole message
   (`network/contentrestorator.hpp:16-17`). `Update` gives up with `TPassToUser`
   once the text is more than the keyword (cpp of the restorator, 133-139), and
   returns the rest chunk by chunk. Seen from the user this is right
   (`ShownIsReply` holds); the comment is out of date.
2. `chat_sink`: `operator()` answers true for ever. The comment wants the sink
   stopped "if we're done, otherwise client will keep repeating" (cpp 243-244).
   A client that waits for the end of the response never sees it.
3. `chat_future`: a future is ready too when its promise was dropped. When
   Ollama's stream ends without a last chunk, `get()` throws in a thread that
   catches nothing (cpp 366-373) and the process ends, with every other chat.
4. `chat_answers`: each follow-up request is made from the user's request and
   the newest answer (cpp 418), so the conversation the source itself notes,
   comparing two times, cannot work (cpp 494-498).
5. `pool_destruction`: the destructor raises the flags and notifies without the
   mutex, although its comment says it locks (`common/threads_pool.hpp:84`). A
   worker between predicate and sleep misses both, and `join` never returns.

Two more, which follow from the text and have no run. "Just pass everything to
ollama as-is" (`network/ollama_proxy.cpp:38`): the pattern `/(.+)` does not match
`/`, and only four methods have a handler, so the proxy answers the others
itself, with 404 (`Route`, `NotFound` in `ProxyServer`). "If stored value into
atomic is true, callable should exit" (`common/runners.h:17-18`): `main`'s own
callable blocks in `listen` and looks at the flag only when that has returned, so
the process, whose `main` has returned, lives until a signal or a failure
(`Shutdown`).

## 6. Not modelled

* `ollama_proxy_config.hpp`: no state. `Validate` is true of the one
  configuration `main` builds, so the constructor's exception cannot happen;
  `CreateOllamaUrl` concatenates.
* `SafeQueue`'s `emplace`, `clear`, `empty`, `size` and its condition variable:
  no caller.
* Logging, JSON layout, the wording of prompts, `cm_ctors.h`,
  `lambda_visitors.h`: no behaviour the properties tell apart.
* Messages that are not objects: where the search reads one it throws, and the
  request is rejected like one without messages. A message without a role is
  modelled, as undefined.
* Memory that runs out: it may end the process at any allocation of a thread.
* Several signals, or a signal on the thread of a chat: `Shutdown` has one signal
  and the two threads of `main.cpp`. Chats that run when the process ends are
  not part of it.
* `ollama-hpp` and httplib are not part of the repository. They appear as the
  code uses them: `chat()` returns when a handler answers false or the stream
  ends, or throws; a content provider is called until it answers false or the
  client has gone; a pool of workers serves one connection each.

## 7. Plan

1. What the refuted properties need to hold: `ReadyMeansRequest` if no stream is cut,
   and the lock a destructor would have to take for `DestructionEnds`, as an
   invariant of the pool ("flags up and not notified, or a worker about to sleep").
2. The safety half of the liveness properties, with guards in place of `ENABLED`: in
   every state of a chat that is not over somebody has something to do.
3. `ProxyServer` over whole chats: that the server with `ChatProvider` in place of
   `ChatLife` implements the server, by composing `LivesAsPromised` per client.
4. `Shutdown` with chats that run: what `exit` destroys under the threads of
   httplib, once the program stops the server at all.
