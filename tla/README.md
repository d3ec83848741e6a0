# Randevu: specifications, model checking and proofs

Randevu lets two or more agents meet in a session. In the *blind* tier each agent runs
a local server that holds the keys (`packages/local`), and a relay stores ciphertext
(`apps/relay`, one Durable Object per session). In the *hosted* tier the service holds
plaintext rooms and the agents use it directly (`apps/mcp`). This directory holds TLA+
models of both, the TLC runs that check them on small instances, and TLAPS proofs for
every value of the constants. Paths below are relative to the repository.

## 1. Inventory

| Component | State | Operations | What makes it correct |
|---|---|---|---|
| Relay session `apps/relay/src/session.ts` | `meta` (maxMembers, locked, epoch, creatorId), `seq`, `member:*`, `token:*`, `msg:*`, `gkey:*` in a key-value store | init, join, postMessage, getMessages, postKeys, getKey, status, members | answered posts stay; a poller misses and repeats nothing; epoch, lock and members agree; one key per epoch; all this across resets between two puts |
| Session Durable Object `session-do.ts`, waiters `packages/core/src/waiters.ts` | parked waiters, timers, running requests | fetch, handleWait, wakeAll, wait, longPoll | a message wakes who waits for it; a wait ends; nothing is left behind |
| Relay dispatch `dispatch.ts`, request signatures `core/reqauth.ts` | none | routing, authentication | only members are served |
| Local client `packages/local/src/server.ts`, `packages/relay-client` | session, members cache, epoch, group keys by epoch, chain head, log, fetchedSeq, inboxSeq | open/join, ensureKeys, pull, send, receive, waitForMessage, sendAndWait, status, SAS, export, credentials | each message folded and delivered once, sealed with the key of the epoch it names; all clients hold one key per epoch; verdicts on the chain agree |
| Transcript `packages/core/src/transcript.ts` | none (pure) | signTranscriptHead, verifyTranscript | what verifies is what was signed, in order and whole; what is whole verifies |
| Hosted room `apps/mcp/src/room.ts`, tools `index.ts` | members, roles, kind, seq, messages; the agents' cursors | open, join, send, receive, wait, status; send_and_wait and others | roles follow arrival and stay; cursors lose and repeat nothing |
| Kinds and roles `core/kinds.ts` | none | assignRole, roomContext | deterministic roles, the same in both tiers |
| Core crypto and encodings | none | sealing, wrapping, signatures, did, SAS, invites, credentials | taken as ideal |
| Keystore `packages/local/src/keystore.ts` | a file | load or create, write and rename | the file is never torn; the identity is stable across restarts |
| Node relay of the CLI `packages/cli/src/node-relay.ts` | an in-memory store and a promise chain per session | serialize, handle, dispatch | handlers of one session do not interleave; whoever asks is answered |
| macOS app Prata `apps/macos/Prata/Services` | per room: transcript, cursor, unread count, long-poll task, queue of instructions and its stored copy; the list of rooms and its order; MCP sessions | start, stop, restart, poll loop; queue, discard, resolve, the bridge's tools; select, forget, order rooms | what the cursor passed is shown, through restarts and late answers; what is marked sent was posted; the stored queue is the one seen |
| Settlement, web site, relay HTTP worker, MCP text glue, views | none of interest | | |

How they interact: a tool call of an agent runs one method of the local client; the
method awaits signed HTTP requests to the relay one by one, and several methods of one
client may be between two awaits at once. The relay's handlers run one at a time per
session; each awaits its puts one by one. `/wait` requests are parked on in-memory
waiters that a later POST wakes. A hosted room uses the same waiters.

What is hard: calls of one client that share fields across awaits; members that post
on the same chain head; a status answer that is old when keys are posted; answers that
are lost after the relay acted; resets between two puts and under parked requests; a
wake-up racing a deadline. Every such place is listed with its line under `hazards` in
`PROJECT.json`.

## 2. Modules

| Module | Models | Role |
|---|---|---|
| `MessageFeed` | what the relay promises about messages | abstract: an append-only log and readers that see prefixes |
| `RelaySession` | `apps/relay/src/session.ts` | detailed; implements `MessageFeed` |
| `RelaySessionProofs` | | theorems on `RelaySession` |
| `BlockingRead` | what `GET /wait` promises | abstract: a read that blocks, no waiters |
| `LongPoll` | `waiters.ts`, `session-do.ts` | detailed; implements `BlockingRead` |
| `LongPollProofs` | | theorems on `LongPoll` |
| `NodeRelay` | `packages/cli/src/node-relay.ts` | tasks that are instances of `RelaySession`; implements it |
| `NodeRelayProofs` | | theorems on `NodeRelay` |
| `Keystore` | `packages/local/src/keystore.ts` | several processes and two files |
| `KeystoreProofs` | | theorems on `Keystore` |
| `Hosts` | | `LongPoll`, `NodeRelay` and `Keystore` side by side |
| `SecureRoom` | `RandevuLocal` clients over the relay | composition of clients, calls and the relay's operations |
| `SecureRoomProofs` | | theorems on `SecureRoom` |
| `Kinds` | `packages/core/src/kinds.ts` | operators only: roles and guidance of both tiers |
| `HostedRoom` | `apps/mcp` rooms, tools and agents | its wait is the blocking read of `BlockingRead` |
| `HostedRoomProofs` | | theorems on `HostedRoom` |
| `Transcript` | export and `verifyTranscript` | the verifier over damaged bundles |
| `TranscriptProofs` | | theorems on `Transcript` |
| `SessionRecords` | | `RelaySession` and `Transcript` side by side |
| `PrataSession` | `RoomSession.swift`: loop and transcript | one room as the app follows it |
| `PrataQueue` | `RoomSession.swift`: instructions; `AgentBridge.swift` | the human's queue and the agent's calls |
| `PrataApp` | forgetting a room, a new process | composes the two |
| `PrataProofs` | | theorems on `PrataApp` |
| `MC*` | | instances for TLC |

### RelaySession
One variable per family of store keys, and `handler`: the handler between two puts, or
`Idle`. Each put is an action: `InitMeta`, `InitMember`, `InitToken`; `JoinMember`,
`JoinMeta`; `PostSeq`, `PostMsg`; `PostKeys`, one `PostWrap` per wrap, `KeysPosted`.
`GetMessages` and `Status` only read. No handler starts while one runs (the object's input
gate), and `Crash` may end a running one anywhere: puts made stay, the others are lost.
The key-holder posts keys from the last status answer it got, however old. Answers that
change nothing (401, 404, 409, 423) show as a handler that is not enabled.

`torn` and `tornKeys` are history: the joins and key posts that a reset cut short. What
the code guarantees is stated relative to them, and that is exact: a torn join leaves a
registered member that neither the epoch nor the lock counted, so that a session can
hold more members than `maxMembers`, one for each torn join, and the joiner's retry is
refused; a torn key post leaves an epoch with two keys until the holder posts again.

### LongPoll
`waiters` and `timers` are sets of requests; `pc` says whether a request is about to
read, parked, or not running. `Read` is one step, from the end of the storage read to
the answer or the parked waiter, because no await lies between (`waiters.ts`: "register
the waiter synchronously after your last await"). `Post` commits and `WakeAll` comes in
a later turn. `TimerFires` is the `setTimeout` callback, `Expire` the passing of a
deadline, `Reset` the loss of all memory.

### NodeRelay
Node has no input gate; `serialize` chains the requests of a session on a promise
instead (`node-relay.ts:21`). `requests` holds them in the order of the chain, and each has
a handler of its own: `Engine(n)` is `RelaySession` with `requests[n].handler` for `handler`, so
that the engine's own guard "no handler starts while one runs" says nothing about two
tasks. `Start` is `prev.then(task, task)`; `Work` takes a step of a handler, `Refuse` answers a
`SessionError`, a 401 or the 404 of `/wait`, and `Throw` is the handler that fails on a body that
is not JSON, whose promise is rejected. `ChainIsGate` is `RelaySession!Spec` for the handler
that is between two puts: what is shown of the engine holds on this host as well, and without
the exceptions for handlers that a reset cut short (`EngineHoldsOnNode`).

### Keystore
`file` and `tmp[p]` hold keys by number, `Torn` (opened and not written) or `NoFile`.
`loadOrCreateKeystore` is synchronous in its process and one step per call on the files here,
because several processes run, and each may be killed between any two. Process ids are used
again, so a process may meet the half-written temporary file of a dead one. `raced` is
history: a process found no file while another was making one. Then the process that
renames first goes on with keys that the file no longer holds, and `OneIdentity` excepts
exactly this.

### SecureRoom
Every method of the client is cut at its awaits: `call[p][s]` says which method runs in
slot `s` of client `p`, which relay request it awaits and what the relay answered. Nothing
in the server keeps two tool calls of one client apart, so several slots may be taken. The
relay's side of a request is one step (`Serve...`), the continuation up to the next
await another, so that calls of two clients, or of two slots of one client, interleave
exactly where JavaScript lets them. `Lose` fails one of the calls in `Lossy` before or after
the relay served it. A message records its sender, the epoch it names, the key that sealed it
and the numbers its `prevHash` folds; a log entry records what `pull` found: chain, signature,
readable. `createSession` is the initial state.

Three variables of the history state the exceptions of the properties. `overlapped` holds the
clients that have had two calls running at once: such a client may fold a message twice
(`RoomTwoCalls`), and then its head, its log and what it hands to the agent are off. `keysLost`
says that a call of `postKeys` failed. Both the retry after that and two calls of the key-holder that
overlap make a second key for an epoch (`server.ts:267-276`), while a member may keep the first;
`OneKeyMade` says that neither has happened. The properties of the other clients, and of all keys
until then, hold whatever else overlaps or is lost. `delivered` is a set of entries, so that it
does not count how often one was handed out.

`send_and_wait` posts and goes on as `wait_for_message`, which calls `receive`, then `/wait` from
`fetchedSeq`, and `receive` again, until something came or its time is up. A failed
`/wait` is caught in the code and answered by polling, so it goes on here. `join_room`
is repeated until it succeeds; a join whose answer was lost is answered 409 for ever
after, but the client is connected, and `entered` tells the two apart.

`OpenAgain` is a second `open_room` in the process, in one step and only when no call runs; a
call that overlaps with its `createSession` is not followed. It is no part of `Spec`, only of
`AgainSpec`, because it breaks what the other runs show (section 3, `RoomReopened`).
The model follows the new session; those still in the old one are followed again once they join.

### Kinds, HostedRoom
`open_room` is `Open` (a kind or custom roles from `Wish`), then the opener's own `JoinRoles`, which
tells it the code; a room whose `open_room` was cut short is abandoned, because its code is
random and told to nobody, and the next `Open` starts afresh. `join` and `send` are put by put,
with `Reset` between; `receive` and `wait` are single reads. Agents make one call at a time and
pass on the cursor they were returned last, as the server's instructions say. The tool `send`
returns no cursor; `send_and_wait` waits from its own message. `Talker` are the agents that
do more than join.

`Kinds` holds the role table and both ways of using it: the hosted room counts
arrivals, the key-holding client knows only whether it opens or joins. `TiersAgree` compares the
two. It holds because no predefined kind has three roles, so that every later member gets
the second one in either tier.

### Transcript
A session signs messages (possibly on a stale head), a member exports, and the bundle is
damaged: messages lost, repeated, renumbered, changed, signed anew with a foreign key or garbled,
keys, members or the head lost, the key or did of a member replaced, or another head put in, an
older one or one signed with a foreign key. `Valid` and `Agreements` follow `verifyTranscript`. A digest is a
number, a chain hash a sequence of digests, so hashes do not collide. `Ordered` and `ChainHead`
say by ranks what the code does with a stable sort and a loop that skips what cannot be decoded.

A signature is checked with the key that the bundle lists under the sender's name, before and
whether or not the entry passes its own check (`transcript.ts:138-142`). Agreements are
reported from messages with such signatures, and `membersValid` is not asked (`transcript.ts:232-233`). So a
bundle that lists another key under a member's name may report an agreement that this member
never signed; its `valid` and `membersValid` are false, and whoever reads the agreements has to look
at them. `AgreementsAreSigned` excepts exactly this case.

### PrataSession, PrataQueue, PrataApp
The app runs on the main actor, turn by turn; its long-poll loop leaves it in its awaits.
`task[i]` says where the i-th `run()` is; the one that is not `loop` was cancelled. `asked`
is a request in flight, which a cancellation ends; `answered` is an answer on its way back
to the main actor, which a cancellation no longer stops, so that `Apply` may come after a
restart. `Restart` is a reconnect or an edit of the endpoint. `mixed` is history: the
batch of a cancelled loop came from another endpoint or was its history. Then the
new loop finds `didLoadHistory` set or the cursor moved, and what lies below is not shown
until the next restart.

The app reads the room's text with `RoomTranscriptParser` (`RandevuClient.swift:25-90`), for which a line
that looks like `#9 Bob: hi` is the header of message 9, in the text of a message too, and a message
whose name leaves its header unreadable (an empty one, or one with a line break) is none. So a
message of the room is what the parser reads in it: the numbers of its header lines (`Message`,
with `Quotes` for those in its text). `Lines`, `Fresh` and `CursorMoves` then follow `parse` and `apply`: of
two lines with one number the first counts, and the cursor goes to the largest number read.
`Obscured(e, n)` says when message `n` may be missed for that reason: its own header cannot be
read, another message has a line with its number, or an earlier one a line with a larger number,
behind which the app goes on to ask. A line `cursor: 9` or `⏸` in a text only cuts the text short,
since the last cursor line of an answer is the server's own; this is left out.

`HistoryComplete` and `Heard` hold but for `mixed` and `Obscured`. In those cases the app does not
show messages that landed, against `apps/macos/README.md:4-5` ("the other agent's messages
the moment they land"); `Heard` therefore rests on the retry loop of the code, not on that sentence.

In `PrataQueue` `prata_send_reply` is three steps: `Reply`, the post `Lands`, and `Replied`,
which marks instructions in a turn of its own (or `ReplyFails`, before or after the post
landed). Of the ids an agent names those that are none are dropped (`uuids`), and when nothing is left
all that is pending is meant. The other tools and the human's operations are one turn each. `instructions` is
the queue of the session object, `stored` what the defaults hold. An instruction has an id of
its own, so a discard takes out the one position it is at. `PrataApp` joins the two
where a room is forgotten and where the app is relaunched. A reply that ends after its
room was forgotten writes the queue back into the defaults; no document speaks of it.

## 3. Runs

All runs use two workers and end within five minutes, most within two; deadlock checking is off where the
bounded system may stop for good (the bounds on messages, keys or damage are used up).

| Run | Instance | Checks |
|---|---|---|
| `Relay` | 3 identities, sizes 1..3, 2 keys, epochs 0..2, 3 messages, 2 resets; transcripts of 2 members, one late, up to 3 messages signed and damages done, 4 in all | `TypeOK`, `AckedPostsKept`, `EpochCountsJoins`, `CapacityRespected`, `LockedWhenFull`, `CreatorFirst`, `OneKeyPerEpoch`, `RefinesFeed`, `HeadCommits`, `ChainCommits`, `WholeVerifies`, `AgreementsAreSigned` |
| `Hosts` | 2 concurrent `/wait`s, 3 posts, resets; 2 identities, 4 requests on the Node relay, 2 of them posts; 2 process ids, 4 starts | `TypeOK`, `NoLostWakeup`, `WaitersAreParked`, `PushDelivers`, `RefinesBlockingRead`, `ChainIsGate`, `EveryoneAnswered`, `KeystoreWhole`, `OneIdentity` |
| `RoomSequential` | creator and 1 joiner: send, receive, status, SAS, export, 2 sends, 1 lost call of any kind; creator and 2 joiners: send and receive, 1 send, no loss; creator and 1 joiner, two calls of one of them overlapping, 1 send | `TypeOK`, `FoldedOnce`, `NothingSkipped`, `VerdictsAgree`, `SealedForEpoch`, `OneKeyHeld` |
| `RoomFair` | creator, 1 joiner, `send_and_wait` and `wait_for_message`, 2 sends, 1 lost call other than `postKeys`; before the first send one call of `status`, the safety string or the export at a time | `EveryoneHears`, `KeysConverge` |
| `HostedRoom` | opener and 2 guests, 2 of the 3 talk, every kind and custom roles, 2 messages, 1 reset | `TypeOK`, `RoleByArrival`, `TiersAgree`, `ShownInOrder`, `OnlySendAndWaitPasses`, `EveryoneListens` |
| `Prata` | 2 endpoints, 1 message, 2 restarts, 1 failure; 2 messages, texts with header lines, 1 restart; 3 instructions, 2 kept, 2 replies | `TypeOK`, `HistoryComplete`, `SentIsPosted`, `QueueIsStored`, `Heard` |
| `PrataLate` | no restart | violates `SentWasTyped` |
| `RoomForkedChain` | 2 sends | violates `FailureMeansTampering` |
| `RoomTwoCalls` | 2 calls of one client at once | violates `IdempotentPerSeq` |
| `RoomOldKey` | 2 calls of one client at once, 1 send, no loss | violates `SealedUnderOwnEpoch` |
| `RoomUnreadable` | 1 send, no loss | violates `WrappedIsReadable` |
| `RoomReopened` | 1 joiner, 1 send, a second `open_room` | violates `ReadyKeyIsShared` |

Six runs are bounded further, so that one instance stands for several that together would be too
large. `Relay` explores the relay and the transcript, which share no variable, one while the other
rests (`SessionRecords`), and of the relay keys with three identities and no message, and messages
with two identities and no key (`Apart`). `Hosts` explores its three parts, which share no
variable, one while the others rest (`Apart`). `RoomSequential` explores all its tools, or send
and receive after a lost call, with one joiner, talk with two, and overlapping calls of one client
with one joiner; of three members at most two have a call running (`InBounds`). `HostedRoom` explores
openings and joins of every kind, and talk in the custom room (`CustomTalk`), since no handler but
join looks at roles. `Prata` explores the session and the queue, which share no variable,
one while the other rests (`Apart`), and of the session two restarts and a failure with one message
that quotes nothing, and header lines and a second message with one restart (`Plain`, `Quoting`).
`RoomFair` lets the tools that only look begin before the first send, one at a time (`LooksFirst`).
In `RoomSequential`, `Prata` and `RoomFair` the bound is on the steps (`BoundedSpec`, `StaysApart`,
`LooksFirst`). In `Prata` it bars, while the queue rests, no step of the poll loop but failures, and
in `RoomFair` only beginnings that no fairness asks for, so that fairness means the same. In the
others it is on the states: states past it are checked but not extended.

Why the bounds are enough for the cases that matter. Three identities are a full session
of two with a third that is refused, and a session of three with two rekeys; two resets
tear two joins, which is one more than a session of two has room for. Two requests and three posts let one
request be woken for nothing while another is answered. Two sends are what a forked chain
needs; two joiners what a second rekey needs; with one lost call every single loss is
tried at every await. On the Node relay four requests are opening, a failed or refused one, and
two that race; four starts on two ids let a killed process be followed by one of its id while
another is at work. Three agents fill a kind with two roles and one more. In a transcript two damages are
what a swap of two messages needs, or a lost beginning or end together with a lost or replaced
head; with four steps in all they come to sessions of two messages, and one to those of three. A
member entry with a foreign key and a message signed with it take two as well.

In `Prata` two restarts let the answers of two cancelled loops meet a third; one message is enough
to be skipped or counted twice, and two for one to quote the other's number or one to come; three instructions overflow a queue of two; two replies
run at once.

Symmetry is used only in `RoomSequential`, among the joiners, whose properties are invariants. Its two
slots are alike, and the second is taken only beside the first (`SecondSlotLast`).

### Fairness
- `LongPoll!FairSpec`: weak fairness of `WakeAll`, `Read` and `TimerFires`: the event loop
  runs every turn that is ready, and timers that are due. No deadline need ever pass. The
  abstract `BlockingRead` is fair only in its answers.
- `NodeRelay!NodeFairness`: the event loop runs on while a task can. Nobody need make a request.
- `SecureRoom!FairSpec`: weak fairness of serving requests and of going on with an answer; strong
  fairness of `Join` until it succeeds and of `Receive`, because agents call `wait_for_message`
  again and again, as the instructions of the MCP server tell them, between other calls. No
  fairness of sending. One call may be lost, but not `postKeys`: then the holder posts a second key for the
  epoch, a member may keep the first, and `KeysConverge` fails (`RoomUnreadable` below).
- `HostedRoom!FairSpec`: handlers end; for those that talk, waits are delivered or time out when
  they are due and they wait again. Strong fairness, because other agents' handlers
  interrupt: the object takes queued calls in order.
- `PrataApp!FairSpec`: the main actor runs every turn that is ready, requests are answered or
  end at their timeouts (`MCPClient` sets one), and a back-off ends. Nobody need ever act.

### What the violations show
- `PrataLate`: `prata_send_reply` without `instruction_ids` marks what is pending when its post
  *returns* (`AgentBridge.swift:190`), so an instruction the human types while the post is
  awaited is marked sent, and `prata_pending` never lists it. `AgentBridge.swift:89` and
  `apps/macos/README.md:48` promise otherwise. `SentIsPosted` shows what does hold, and that
  naming the instructions avoids it.
- `RoomForkedChain`: two members pull the same head and both post. The later message has a
  stale `prevHash`, and every client reports it `verified: false` with an empty body,
  though `docs/MCP-API.md:42-43` says that such a failure means tampering or a misbehaving
  relay. `VerdictsAgree` shows the other half: all clients agree on which message it is.
  The same verdict meets a message whose sender joined between the status and the pull of
  a reader (`membersById` does not hold it yet, `server.ts:351`), which takes two joiners, as in
  `RoomSequential`, where such a message is folded and delivered all the same.
- `RoomTwoCalls`: `pull` reads `fetchedSeq` before its await and folds the answer without a
  second look, so two calls of one client at once fold a message twice; its head is wrong
  from then on. The comment at `server.ts:333-334` says "Idempotent per seq". `FoldedOnce` and `VerdictsAgree`
  show that the clients whose calls do not overlap do not suffer from it.
- `RoomOldKey`: `ensureKeys` sets `this.epoch` (`server.ts:268`) before it awaits `postKeys`, and the new key
  is held only after. A `send` of the key-holder that awaits `pull` meanwhile takes both fields when
  it goes on (`server.ts:386-387`): it seals with the old key and names the new epoch. Nobody can
  open the message, although `docs/ENCRYPTION.md:89` says it is sealed with `GK_epoch`. No call is lost
  for this. `SealedForEpoch` shows that it takes two overlapping calls.
- `RoomUnreadable`: a member asks for the epoch's key and gets a 404; key and message are
  posted; the member pulls. The message is cached with an empty body and never opened,
  though the key arrives with the next call. Two more ways lead there: a
  member that made no call during an epoch never fetches that epoch's key (`server.ts:291`),
  and a holder whose `postKeys` answer is lost, or two of whose calls overlap in
  `ensureKeys`, posts a second key for the epoch while a member keeps the first
  (`server.ts:267-284`). The run's instance, one joiner and no loss, shows the first way only; `OneKeyHeld`
  shows that there is one key for an epoch unless one of the last two happened.
- `RoomReopened`: `openRoom` (`server.ts:463`) makes a new session but keeps `groupKey` and
  `establishedEpoch` of the one before. When the second session reaches the epoch the first
  one was at, `ensureKeys` has nothing to do, and no key is ever posted for the member that
  joined, against `server.ts:256-257` "The creator (re)generates and posts the key when membership
  changes". `head`, `fetchedSeq` and `inboxSeq` are kept as well, so the first messages of the
  second session are not fetched.

In a hosted room an agent with an unread message that calls `send_and_wait` is returned a cursor
that lies behind the unread message, which is then never shown (`index.ts:272`, against
`index.ts:54` "so you never miss or repeat a message"). `OnlySendAndWaitPasses` says so, and
that nothing else passes a message over.

`WholeVerifies` also states a limit no document names: the exported proof of a member that
joined after messages were sent never verifies, since it has no key of the earlier epochs
(`docs/MCP-API.md:53-54`: "anyone can verify offline").

Each property of a passing run has a mutant in `PROJECT.json`: a definition changed the way
a plausible bug would change it, under which TLC finds the property violated.

## 4. Proofs

Every invariant that a run checks is proved for all values of the constants, and so are
`ChainIsGate` and the safety parts of the two refinements. The assumptions are the named `ASSUME`s of the
modules: sets of identities, members, guests or signers are finite, bounds are naturals, and the values
that stand for "nothing there" or "nobody" (`NoMeta`, `NoKey`, `NoAnswer`, `Nothing`, `Foreign`) are none of the things that can
be there. Nothing is assumed of sizes. Each inductive invariant was checked by TLC on small
instances before it was proved.

All theorems are of the specification as it stands; where the code breaks a statement in some
case, the exception is part of the statement and the `about` of the theorem names it:
`overlapped` and `OneKeyMade` in `SecureRoom`, `mixed` and `Obscured` in `PrataSession`, the foreign key under
the accepter's name in `Transcript`, `raced` in `Keystore` (the very race of two first starts; what is
shown is that nothing else changes the identity), and what a reset cut short in `RelaySession` and
`HostedRoom`.

`RelaySessionProofs`:
- `TypeCorrect`. `TypeOK` is inductive as it stands, with one fact added for it: a
  handler with puts still to make belongs to a session that has its meta.
- `AckedPostsAreKept`, from `MsgInv`: numbers in the store stop at `seq`, and a handler about
  to store a message owns a number nobody has seen. Without the second part a post could
  overwrite an answered one.
- `EpochIsJoinCount`, `CapacityIsRespected`, `FullIsLocked`, `CreatorComesFirst`, from
  `MemberInv`: before the creator is registered there is no token and so nobody else; the
  member whose join is running is not yet counted; an unlocked session has room, which is
  what makes the next join safe after any number of torn ones. `FullIsLocked` splits on whether a
  join is between its two puts.
- `OneKeyForEachEpoch`, from `KeyInv`: epochs and members only grow, so the holder's last
  status answer covers every wrap ever stored, and a key post that runs to its end
  overwrites all wraps of its epoch.
- `ImplementsFeed`: every step of `RelaySession` is a step of `MessageFeed` or a stutter,
  under the mapping of `msg` to the log and `got` to what readers have seen. `NothingMissed`
  is the abstract guarantee carried over: what a poller has got is a prefix of the log.

`LongPollProofs`:
- `LongPollTypeCorrect`, `NoWakeupIsLost`, `WaitersAreTheParked` from one inductive invariant.
  `NoLostWakeup` needs `WaitersAreParked` (a parked request is registered, so `WakeAll`
  finds it) and the count of posts that have not woken yet.
- `AnswersAreBlockingRead`: the safety part of the refinement of `BlockingRead`.

`KeystoreProofs`, from `KeystoreAssumption`, for any number of processes and starts:
- `KeystoreIsWhole`, from `WholeInv`: a process about to rename has a temporary file that holds
  what it generated. No other process writes there, because it has another process id.
- `IdentityIsStable`, from `IdentityInv`: without a race at most one process is making a keystore,
  and while one is, there is no file and nobody has used any keys.

`SecureRoomProofs`, from `RoomAssumption`, for any number of joiners, sends and lost calls:
- `RoomTypeCorrect`, from `TypeInv`, which adds to the types what the types rest on: the relay's epoch
  is one less than its members, who waits for `joinSession` has its session, who is about to post has
  a key.
- `MessagesAreFoldedOnce`, `NoMessageIsSkipped` and `ChainVerdictsAgree`, from `FoldInv`: the log of a
  client that has not overlapped is the relay's up to `fetchedSeq`, judged by what the relay stores,
  and a `pull` of it under way asks from `fetchedSeq`. Hence verdicts are a function of the number. `Alone`
  says that such a client has at most one call running, so that nobody else moves its fields.
- `MessagesAreSealedForTheirEpoch` and `MembersHoldOneKey`, from `KeyInv`, which claims something only while
  `OneKeyMade`: the holder makes a key only for an epoch later than any it has one for; the
  others have copies of the wraps, however their calls overlap; a wrap is the holder's key for the
  epoch, or one whose post it is about to learn of; a message of a client that has not overlapped
  keeps the key that its sender holds for its epoch.

`HostedRoomProofs`, from `HostedAssumption`, for any guests, wishes, messages and resets:
- `HostedTypeCorrect`, `RolesFollowArrival` and `HostedAndLocalAgree`, from `RoomInv`: a name is a member
  once, who is no member has no role, and the handler between two puts of a join is of a member that has
  arrived, in a room that was opened. `HostedAndLocalAgree` then looks at the role table.
- `MessagesAreShownInOrder` and `NothingElsePasses`, from `TalkInv`: what an agent was shown stops at
  its cursor, the answer to a wait starts after it, and each number it passed was shown, was its own,
  or lies before a message it made by `send_and_wait`.

`TranscriptProofs`, from `TranscriptAssumption`, for any signers, messages and damage:
- `HeadsCommit`, `ChainsCommit`, `WholesVerify` and `AgreementsHold`, from `TranscriptInv`: whatever
  became of a bundle, each of its signatures and its head was made in the session or with a foreign
  key, and where the members are valid no foreign key is listed. No induction
  over the chain is needed, because a genuine message names its place by its `prev`: where the
  message verifies, the head folded before it has that length. `EveryRankIsTaken` (in a finite linear order
  each rank is taken, by counting) gives that sorting loses no message.

`PrataProofs`, from `PrataSessionAssumption` and `PrataQueueAssumption`:
- `AppTypeCorrect` and `NothingIsSkipped`, from `SessionInv`, whose `NoGap` says what answers that are on
  their way can do to a transcript that is not mixed: the history of the loop that runs brings all up
  to the cursor it will set, and an answer to a wait starts where nothing is missing. A cursor may
  lie behind the end of the room, but only where a header line has brought it (`Reached`), and the
  messages that come to lie below it are `Obscured` from the start.
- `SentWasPosted` and `QueueSurvives`, from `QueueInv`: ids grow along the queue, and a mark
  refers to a reply that landed and named the instruction, or named none.

`NodeRelayProofs`, from `NodeAssumption`:
- `ChainReplacesGate` is all of `ChainIsGate`, from `ChainInv`: a task that was started has only
  settled ones before it, so that at most one runs, and the session's handler is the one of that task.
- `EngineHoldsOnNode` carries the theorems of `RelaySessionProofs` over, by instantiating that module.

Only model-checked is liveness (`PushDelivers`, the fair part of `RefinesBlockingRead`,
`EveryoneAnswered`, `EveryoneHears`, `KeysConverge`, `EveryoneListens`, `Heard`), which is out of the
prover's reach, and that the six statements of the runs with a violation fail.

## 5. Not modelled, and the plan

Not modelled: cryptography and encodings (ideal), HTTP forwarding, e-mail and pages, texts
of tools and kinds, settlement artefacts, views, starting the CLI's processes and its tunnel, and
what a loss of power does to a renamed file. Of the local client: `establishGroupKey` and
`syncGroupKey` (only tests call them), a second `join_room` in one process except after `OpenAgain`, a link to another
relay, credentials (no state). Of the hosted room: `status` (a read) and the pause note.

Next, in this order:
1. `SecureRoom`: what a client keeps after its calls have overlapped, and `OpenAgain` while calls run.
2. `HostedRoom`: its wait as an instance of `BlockingRead`, with the proof that it is one.
3. `PrataRooms`: the list of rooms against selection, refreshes and the frozen order
   (`RoomStore.swift`, `AppSettings.swift`); `MCPClient`: the MCP session that two
   concurrent sends share and renew (`MCPClient.swift:38-49`).
