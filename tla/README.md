# Verification of the customer-service agent platform

TLA+ models of the platform under `src/`, the TLC runs that check them and the
TLAPS proofs about them.  Source references are `file:line` under `src/`.

Every module says at its top what it stands for; `PROJECT.json` maps each
definition to the lines it translates, lists the runs, the mutants each property
is tried against, the theorems and the hazards.  To repeat a check:

    tlc -config AgentTurn.cfg MCAgentGraph        # any run of section 4
    tlapm AgentGraphProofs.tla                    # any *Proofs module

## 1. Inventory

A customer talks to a LangGraph agent over HTTP, server-sent events or a
WebSocket.  The agent screens and classifies the message, may call tools of a
separate MCP service, which reads and writes the shop's PostgreSQL behind a
Redis cache, and passes its answer through an output guard.

| Component | Where | State it keeps | Operations | What makes it hard | What makes it correct |
|---|---|---|---|---|---|
| Agent graph | `app/agent`, `app/guardrails/input_guard.py`, `output_guard.py`, `app/memory/summarizer.py` | one `AgentState` per thread, checkpointed after every node | nine nodes, six conditional edges, per-turn reset, rolling summary | two retry loops in one turn, state carried over turns, crashes between checkpoints, answers lost after the effect | bounded turns, exact budgets, limits on effects, whole message windows, replies of this turn |
| Chat API | `app/api/v1/chat.py` | the token buffer of a turn; the queue of a socket | POST, SSE, WebSocket turns, history, session list | turns of one session overlap on one checkpointed thread, disconnects, failures | own replies, what is told is what is kept, answered turns stay, requests settle |
| Rate limiter | `app/guardrails/rate_limiter.py`, `app/dependencies.py` | one Redis sorted set per user | `peek` in the API, `check` in the graph | two calls per turn, clocks read before the round trip, failing open | limit per window, bounded overshoot, justified refusals |
| Order and refund tools | `tools_mcp/tools`, `tools_mcp/db/queries` | orders, refunds, payments, status history | cancel, refund, cached reads | READ COMMITTED without locks, unknown commit outcome, retries after time-outs | true answers, no double refund, refunds after delivery |
| Cache | `app/cache` | Redis keys with a time to live | `cache_aside`, `invalidate` | fill races write, missed invalidation | reads show confirmed writes |
| Read-only tools | `tools_mcp/tools`, `tools_mcp/db/queries` | cached answers, one key family per tool | nine reads with filters, pages and names | keys that leave arguments or the customer out, several statements per fetch, others writing the tables, entries that only expire | true answers of bounded age, no way back in time |
| Tool registry, MCP client, start and stop | `app/mcp_client`, `app/main.py` | tool list and lock per role, in process | warm-up, look-up, clear; start-up, drain, stop | double-checked lock, failure or cancellation under the lock, two processes restarting | one fetch per role, lock always released, every call ends |
| Tool guard | `app/guardrails/tool_guard.py` | pending confirmations in Redis, write events | permission, limit, ask, confirm, decline | record and execution apart in time, read and deletion apart, substring keywords; called nowhere | one answer per question, however often the guard is called |
| Authentication | `app/api/v1/auth.py`, `app/auth`, `app/db/session.py` | users, `user_sessions`, tokens on devices | login, refresh, logout | the commit follows the response, tokens signed to the second, access tokens never looked up | bounded age of what a token says, refreshes follow the login |
| Evaluation | `eval` | one task per record, one LLM object and its callback, results | seven suites, their metrics and verdicts | overlapping calls, exceptions and fallbacks among the results, rates over no record | tokens counted for their own call, exit code 0 means something |
| Long-term memory, feedback, health, prompts, configuration | `app/memory/long_term.py`, `app/api/v1`, `app/agent/prompts`, `app/config.py` | none that the system changes | reads and probes | — | — |

How they interact: a chat endpoint asks the limiter (`peek`), loads the
customer's context, builds the turn's input (`_TURN_RESET` plus one
HumanMessage) and runs the graph on `thread_id = session_id`.  The input guard
asks the limiter again (`check`).  The planner takes the tool list from the
registry, the executor calls the MCP service over HTTP with a time-out; the
service's tools share nothing but the database and Redis.  All locks of the
system are PostgreSQL's row locks and the registry's `asyncio.Lock`s; everything
else that runs concurrently is unsynchronised.

## 2. Modules

    detailed       uses                             implements     proofs
    AgentGraph     AgentVocabulary, SessionMemory   Conversation   AgentGraphProofs
    ChatTurns                                       SocketLines    ChatTurnsProofs
    RateLimiter                                     WindowLimit    RateLimiterProofs
    OrderTools                                      OrderLedger    OrderToolsProofs
    CachedReads                                                    CachedReadsProofs
    ToolRegistry                                    FetchOnce      ToolAccessProofs
    ToolGuard                                                      ToolAccessProofs
    LoginSessions                                                  LoginSessionsProofs
    EvalHarness    EvalMetrics                                     EvalHarnessProofs

Every module of the first column is a specification of its own, of one component
and its interleavings.  For a component `X`, `MCX` gives values to constants and
`XProofs` holds theorems; both extend `X`.  (`ToolAccessProofs` extends the two
that stand between a turn and a tool, which is why the guard's `Init`, `Next`,
`Spec`, `TypeOK` and its stages have names of their own.)  The modules under "implements" are
abstract specifications: what the component promises to whoever uses it, in a
page and without any of its machinery.  The detailed module instantiates the
abstract one with a refinement mapping, and both TLC and the prover check that
its every behaviour is one of the abstract module's.  `OrderToolsClaims` holds a
sentence of the repository that the code does not keep.
Operators marked "Mutant" are faulty forms of the operator behind them and are
used by no specification: each shows that one property can fail.

### AgentGraph (with AgentVocabulary and SessionMemory)

One session, one turn at a time.  LangGraph merges a node's partial update,
evaluates the conditional edge on the merged state and checkpoints the result,
so a node and the edge behind it are one action: `GuardrailsIn`,
`CustomerDelegator`, `Classifier`, `HumanHandoff`, `ToolPlanner`,
`ToolExecutor`, `Memory`, `ResponseGenerator`, `GuardrailsOut`, plus `StartTurn`
(`_build_turn_input`) and `Abort` (the process dies, or the event stream is
cancelled, between two checkpoints).  The variables carry the names of the
fields of `AgentState`; the six after "History variables" exist only for the
properties.

What is nondeterministic: every answer of an LLM (the delegator's domain, the
classifier's intent, the planner's text, call, calls or failure), every verdict
of a guard, every outcome of a tool call, lost answers included.  What is
deterministic: every route, reset, counter, limit, tool scope and cursor
computation.  The scope (`Scope`) decides which tools the planner's LLM is shown
and which calls are validated, not which it may name: a call of any other tool,
listed by the server or by nobody, passes (`tool_planner.py:69`) and goes to the
executor, which looks it up in the full list.  Messages are records of kind, turn, tool, number of calls and the
plan they answer; texts are left out.  Patterns and thresholds of the guards
(which text is an injection, PII, ungrounded) are left out with the texts.

`SessionMemory` is the arithmetic of the rolling summary: where the safe horizon
lies, when the summary fires and where the LLM's window begins.
`AgentVocabulary` is the tables: intents, domains, tool scopes, tool classes.

`Conversation` is the session as the customer has it: a log of questions,
answers and inner messages, a turn, and what the tools did to the world.  The
mapping (`Log`, `State`, `Conversed`) forgets the nodes, the two loops, every
counter and flag, the summary and its cursor; `log` is each message's turn and
role, `ran` is `effects`.

### ChatTurns

Several requests of one session over POST, SSE and WebSockets.  `Arrive` and
`Send` are the clients; `Receive` is the socket's loop back at `receive_text`;
`Load` is the graph reading the newest checkpoint once; the node actions are
those of AgentGraph reduced to the texts they write and stream; `Finish`,
`Fail`, `ContextFails`, `Disconnect` and `Crash` are the ways a turn ends.
`channel` is a run's own copy of the messages, `checkpoint` the thread's newest
checkpoint, which is also what `get_chat_history` (`chat.py:545`) returns.

A checkpoint is written in the action that makes it.  LangGraph may write it a
little later, in the background, but the runs' checkpoints carry ids ordered by
time, and the newest id is what a reader gets, so the order is that of the
actions.

`SocketLines` is a socket as its client has it: a line whose messages are settled
from the front, each once.  The mapping (`Outcome`, `Line`, `Lines`) puts the
message at work before the queue and forgets nodes, texts, checkpoints and runs.

Not in it: a socket message that names another session, the session list, the
page limit of the history, and `tool_start` / `tool_end` events, which change
nothing.

### RateLimiter

One user's key.  Every handler reads `time.time()` (`StartPeek`, `StartCheck`)
before its pipeline reaches Redis (`Refuses`, `Admits`, `Check`), at most
`MaxDelay` later; a RedisError may come before or after the pipeline ran
(`PeekFails`, `CheckFails`).  `Tick` is the clock and the key's expiry.  The
limiter of write operations is the same class; it is met in `ToolGuard`.

`WindowLimit` is a sliding window that knows nothing of clocks, keys and
pipelines: messages that count, pass or are held up, and a door in front.  The
mapping `Promised` sets its two tolerances to `Window - MaxDelay` and
`Window + MaxDelay`.

### OrderTools

All tool calls on one order.  A call is one attempt and walks through its
statements (`ReadOrder`, `CheckActive`, `FindPayment`, `CheckAmount`, `Flush`,
`Commit`, `Invalidate`; `Lookup`, `Fetch`, `Fill` for cached reads); a retry is
another call.  Statements see what is committed when they start (READ
COMMITTED), an UPDATE waits for the row's writer, and nothing else waits.
`RollBack`, a commit of unknown outcome, a missed invalidation, `Crash`, and the
expiry of cache entries are actions.  The warehouse and the refund desk write
the same tables and are not part of the repository; they are marked external and
are taken from the status values the tables and their dump hold.  A cached or
answered view is abstracted to the set of calls whose writes it shows.

`OrderLedger` is the order as a ledger of requests: each takes effect at one
moment or never, after it qualified and before its answer, and the answer does
not lie about it.  The mapping (`Wants`, `Stage`, `Told`, `Ledger`) forgets
statements, transactions, locks, the cache and the refund desk.

### CachedReads

The nine read tools with their arguments, their refusals, the key each makes of
its arguments, the queries behind it and the time to live it asks for.  `Start` is
a call, `Resolve` the look-up of a product by name, `Hit` / `Miss` / `Fill` /
`FillFails` are `cache_aside`, `ReadAddresses` is the part of the account that is
never cached, `ReadFails` a database error or a foreign order.  A fetch is a
statement at a time, each on the database as it is by then (READ COMMITTED):
`Checks` (`verify_order_belongs_to_user`, of the items and the shipment), `Fetch`
(the rows) and `LoadMore` (what `selectinload` adds to them).  `ShopWrites` moves
the database to its next state, and nobody invalidates for it; `Tick` expires
entries.

The customers are part of the calls, and the keys are those of
`app/cache/keys.py`: the keys of an order, its items and its shipment hold the
order alone.  The tools share no key, so a behaviour chooses one tool.  The
database is a sequence of states, each a record of short tables, and a query is
an operator on one.  Columns that are only passed on are one revision number; the
rows that belong to a row (`more`) are fetched by one statement where the code
may use two or three; the look-up of a user's primary key, which never changes,
is not a step.  (Entries the write tools delete are in OrderTools.)

### ToolRegistry and FetchOnce

One agent process and one MCP server process.  Callers are the planners of
running turns and the warm-up.  `CacheHit` and `CacheMiss` are the look without
the lock, then the queue of the role's lock (`asyncio.Lock` is first come, first
served), the second look under it, the fetch and the store.  A fetch may fail, a
turn may be cancelled anywhere (`Cancelled`), and `Environment` starts and stops
either process.  `StartUp` is the lifespan of `main.py`: a failing database or
checkpointer ends it, a failing Redis or warm-up does not; `Shutdown` drains and
clears.  A tool list is represented by the number of the server process that
gave it: tools are registered at import.

`FetchOnce` is what the planner relies on: one cell per role, filled by one
fetch, never replaced, never older than the process.  `Once == INSTANCE
FetchOnce WITH cell <- registry, asks <- role, fetching <- Fetching, got <-
answer, ...`: the locks, the queues, the warm-up and the redeployed server are
the implementation's business.

### ToolGuard

`apply_tool_guard`, one action per Redis round trip: `Blocks`, `AllowsRead` and
`StartsWrite` (permission, class), `Limits` / `LimitFails` (the write limiter's
`check`), `Reads` (the pending record), `Asks`, `Declines`, `Grants`; any of the
round trips may fail before or after it took effect, and the guard goes on.
`Send` and `Leaves` are the turn around it.  No node of the graph calls the
guard, so its caller is any: a turn calls it as often as it likes, for any tool,
whatever it was told before (asked, declined, granted, refused), always with the
one message the turn is about.  A pending record is the call that stored it
(`Question`), so that two questions of one turn are told apart.  A message is the
set of keywords found in it.

### LoginSessions

One user on several devices.  `Login`, `Logout`, `AskRefresh` and `AnswerRefresh`
are the endpoints; a refresh is two statements (the session row, then the role).
`get_db` commits after the response has left (`app/db/session.py:50`), so a login
and a logout put a transaction into `commits`, and `Commits` / `CommitFails`
follow.  A refresh token is the user and the second it was signed in.
Passwords and signatures are taken to check out.

### EvalMetrics and EvalHarness

`EvalMetrics` is the arithmetic of the seven suites: per-suite operators from a
sequence of results to a verdict, rates as integer ratios in ten thousandths,
including what each metric answers for an empty class and how it rounds to four
places.  `EvalHarness` runs a
suite: `run_all` starts a task per record, a semaphore lets two in at a time, the
node under test calls an LLM object all tasks share and whose one callback finds
the task's handler through a ContextVar; nodes turn an LLM's failure into a
fallback; results are collected and the verdict becomes the exit code.  A record
of the executor's dataset says itself whether success and a counted call are
expected: a limit record may be one below the limit, to be let through
(`run_tool_executor_eval.py:188-191`).

## 3. What the properties say

AgentGraph

- `StepsBounded`, `TurnEnds`: however the tool loop and the rewrite loop mix with
  errors, a turn takes no more super-steps than the two constants account for
  (14 with the code's values, below LangGraph's default limit of 25, which
  `MCAgentGraph` asserts) and, under fairness, ends.
- `RetriesCountExecutions`, `ApologyAfterBudget`, `UnsafeOnlyAfterBudget`: the
  counters that planner, executor, guard and edges share are neither early nor
  late by one.
- `EffectsWithinLimits`: the limits on destructive and write tools hold for what
  the MCP service *ran*, though the graph counts what it *knows*.
- `ToolsRunBehindTheGates`: no answer of any LLM brings a tool to run, or to be
  planned, in a turn the input guard refused, outside the two domains that use
  tools, under an intent of another domain, or beside a hand-over.  It says
  nothing of *which* tool: that the code does not settle (section 7).
- `GroundedInThisTurn`, `ReplyIsForThisTurn`: nothing of an earlier or a dead
  turn (violation, result, error) reaches the response LLM or the client;
  `RetriesCountExecutions` is checked over two turns as well, for what is left in
  the retry counter.
- `TurnsKeepTheConversation` (the refinement of `Conversation`): no turn touches
  what an earlier one said, a turn that ends has the last word, and effects stay
  within the limits at every step, also of turns that die.
- `WindowPairsIntact`, `WindowBounded`: the window never opens on a tool's answer
  whose call it has cut off, and does not grow past the batch size by more than
  a pair and the drafts of the turn.

ChatTurns

- `AnsweredTurnsStay`: a turn answered while no other was under way stays in the
  history whatever comes after it.  The proviso is the code's: turns of one
  session are not serialised across requests, so of two that overlap the last to
  write wins and the other's answer may be gone from the history (`chat.py:270`).
- `RepliesAreOwn`, `RepliesAreWhatIsKept`: whose text a client is given, and
  whether the session keeps the same.  The exceptions are stated in the
  property: a turn that wrote no text, a rewritten response (all drafts are
  joined, `chat.py:275-281`), a stream that broke off.
- `SocketTurnsAreSerial`, `RequestsAreSettled`: a client that keeps to one socket
  never overlaps itself, however far it sends ahead; and no request waits for
  ever, whatever happens to the one before it.
- `SocketsAnswerInOrder` (the refinement of `SocketLines`): what a client sends
  ahead is answered in the order it was sent, each message once, and is passed
  over only with the whole connection.

RateLimiter

- `AllowedBounded`: of the messages recorded in any span of `Window - MaxDelay`
  seconds at most `Limit` were allowed, in whatever order clocks and pipelines
  come.  `OvershootBounded` is what two separate calls may overshoot.
- `RefusalsJustified` (an action property): a 429 only while a full limit of
  messages is recent.
- `LimiterKeepsItsWindow` (the refinement of `WindowLimit`): the same of every
  decision, the guardrail's refusals inside a turn included, and that each
  message counts once.

OrderTools

- `AnswersMatchTheTables`, `OnlyRivalsRefundTwice`, `RetriesAreRefused`: what an
  unlocked check still guarantees.
- `WritesKeepTheLedger` (the refinement of `OrderLedger`): each call takes effect
  at most once and all at once, where it qualified, and no effect is undone.
- `RefundsFollowDelivery`; `ReadsShowConfirmed` (with the two ways a cache may
  hide a write); `CallsReturn`.

CachedReads

- `AnswersAreTrue`: an answer was fetched, behind the check of the owner, for this
  very call or for one its key takes for the same, from rows that were true at
  most a time to live and two delays ago; what was loaded with them is no older.
  What a key takes for the same is the code's: the order list's leaves out
  `limit` and `status_filter` (`order_lookup.py:43`), that of the first page of
  reviews the limit (`review_lookup.py:59`), and those of an order, its items and
  its shipment the customer (`app/cache/keys.py:63-76`), so that a call the check
  would turn away is answered from the owner's entry while that lives.
- `ReadsGoForward`: nobody is shown an older state after a newer one, unless two
  calls fetched one key at once or Redis failed in between.

ToolRegistry

- `FetchesOnce`: the refinement of `FetchOnce`.  At most one turn fetches a
  role's list at a time, a cached list is not replaced while the process lives,
  a failure is not cached, every answer is the cached list.
- `CallsEnd`: no failed or cancelled fetch leaves a lock nobody releases.

ToolGuard

- `OneAnswerPerQuestion`: a pending question is answered twice only by turns that
  overlap (read and deletion are two round trips) or when its deletion failed.
  The turn that asked may call again and answer its own question; even then the
  question is spent.

LoginSessions

- `AccessTokensAreRecent`: what an accepted access token says was so at most its
  lifetime and the time of a refresh ago: how long a logout or a change of role
  may go unnoticed.
- `RefreshFollowsTheLogin` (an action property): a refresh is granted only while
  its login stands and refused only when it does not.  The exceptions are stated:
  a login answered before its commit, a logout that overtook it or failed to
  commit, two logins of one second.

EvalHarness

- `TokensAreTheirOwn`: a result has exactly the tokens of its own calls, however
  the calls overlap.
- `GreenRunsSawIt`: exit code 0 means that the node did what the suite is there
  to see, for every dataset and everything the node may answer or raise, in the
  records the verdict is over.  Those are not all: the executor's verdict leaves
  out skipped records and that of the product tools those that raised, and a run
  with no other record is green and has seen nothing.  Section 7 lists the other
  weakenings.

## 4. Runs

| Run | Instance | Distinct states | Shows |
|---|---|---|---|
| `agent_turn` | one turn, the code's budgets and limits, four registered tools, any of which or an invented one the planner may name, every LLM answer that leads to another route | 1,434,473 | budgets, limits, gates |
| `agent_session` | two turns on the tool path, batch of 3, one retry, fairness | 743,899 | nothing leaks between turns; windows; `TurnEnds`; the refinement |
| `chat_turns` | two requests, three transports, one socket, fairness | 218,478 | replies, history, sockets, settling; the refinement |
| `rate_limiter` | two handlers, limit 2, window 4, delay 1, six seconds, four events, one failed peek; handlers symmetric | 2,459,978 | the limit, its overshoot, the refinement |
| `order_tools` | three calls of any kind, two outside steps; calls symmetric | 446,130 | what the tools keep without locks; the refinement |
| `order_tools_live` | two calls, one outside step, fairness, no symmetry | 14,222 | nobody waits for ever |
| `tool_registry` | three planners and the warm-up, two roles, two starts of either process, fairness, no symmetry | 31,305 | the refinement; no lock is left behind |
| `tool_guard` | three turns of two guard calls each, three messages, three tools, write limit 1, one Redis failure; turns symmetric | 4,036,709 | questions and their answers |
| `cached_reads` | two clients calling for two customers, every read tool, a database that changes once in every table, time to live 1, delay 1, four seconds; clients symmetric | 1,964,263 | keys, ages and order of answers |
| `login_sessions` | two devices, two logins, two roles (or none), access life 1, refresh life 2, delay 1, three seconds; all symmetric | 2,822,926 | tokens, commits, refreshes |
| `evaluation` | seven suites, up to three records of every class (two for the tool executor, of the seven kinds its dataset has), two at a time, thresholds scaled to three records | 2,100,185 | tokens and verdicts |
| `claim_one_active_refund` | two refund calls on a delivered order | — | section 7 |

Why the bounds are enough for what they are to show:

- *One turn* is where the budgets live; a turn starts from a state that
  `_TURN_RESET` makes independent of the turn before, and `agent_session` checks
  that it does.  `LLMDomains` and `LLMIntents` in `agent_turn` hold one intent for
  each class of behaviour: a read, a read none of whose tools is registered (the
  scope is then the whole list), each of the two writes, the escalation intent and
  one that needs no tool.  The four registered tools are two that write and two
  that read; the other seven differ from them in nothing the graph looks at.
- *Two turns* are the first at which a leftover can be seen.  A batch of 3 makes
  the summary fire within them, on and off a ToolMessage, and
  `MAX_TOOL_RETRIES = 1` keeps a loop in each turn.  The proofs cover any number
  of turns.
- *Two requests* are the least that overlap, *one socket* the least that queues;
  a third request adds no new pair.  The proofs cover any number of both.
- A *window* of 4 with a *delay* of 1 has every order of two clocks and two
  pipelines, expiry included; six seconds leave room for a whole window to pass.
- *Three calls* are a pair of rivals and a third that meets what they left: two
  active refund rows, a retry, or a read.  *Two outside steps* let an order be
  shipped and delivered, or a refund be decided, between any two statements.
- *Three planners* on a role are one that fetches, one that waits and is
  cancelled and one that waits behind it; with *two roles* the locks are told
  apart; *two servers and two starts* give a list from before a redeployment and
  one from before a restart.
- *Three turns* in the guard are one that asks, one that answers and one that
  finds the record gone or its successor; *two calls* a turn let one that has
  asked, declined or been granted call again.  The three messages are none of the
  keywords, a yes, and the confirmation phrase "cancel it", which contains
  "cancel".  A *write limit* of 1 is met within a turn and, as the window moves,
  lets others pass.
- *Two clients* fetch one key at once; *two states* of the database are one
  change; four seconds outlast an entry filled as late as the delay allows.  The
  calls differ in every argument a key leaves out or clamps, and *two customers*
  are an owner and one whom the check turns away.
- *Two logins* share a second or do not; three seconds outlast both tokens.
- *Three records* are one of a class, none, all, and a mixture; *two at a time*
  is what a shared callback needs to mix records up.

`CHECK_DEADLOCK FALSE` stands where the bounded system stops: all requests,
turns or calls are over, the bounded clock has run out, both processes stay down,
or the evaluation has exited.  In `AgentGraph` the end of the session is the
explicit step `Quiet`, and deadlock is checked.

## 5. Fairness

- `AgentGraph.FairSpec`: weak fairness of `NodeStep`.  LangGraph schedules the
  next node as soon as the one before has returned, and each node returns: Redis
  and MCP calls have configured time-outs (`app/config.py:85`), LLM calls the
  client library's.  `StartTurn` and `Abort` owe nothing.
- `ChatTurns.FairSpec`: weak fairness of each request's `Handling` and each
  socket's `Receive`, for the same reason: the event loop resumes a handler whose
  await is over.  Clients, refusals, failures and departures owe nothing.
- `OrderTools.FairSpec`: weak fairness of each call's statements.  No fairness is given to roll-backs and crashes, so
  `CallsReturn` holds without relying on a time-out to end the wait for a row: it
  rests on the commit that a flush is followed by.
- `ToolRegistry.FairSpec`: weak fairness of each caller's `Call`, of `StartUp` and
  of `Shutdown`.  A coroutine whose await is over is resumed, an `asyncio.Lock`
  wakes its waiters in order, and the client's time-out ends every fetch.  Nobody
  need ask, and nothing is owed by either process's starts and stops.
- The other modules state no liveness property: the limiter, the guard, the
  sessions and the reads wait for nothing but one round trip, and the evaluation
  for its own tasks.

## 6. Proofs

All theorems hold for every value of the constants that satisfies the module's
`ConfigAssumption` (the guard's `GuardAssumption`): any registry, budgets,
limits, number of turns, requests, sockets, handlers, calls, roles, clients,
database states, devices, logins, and datasets.

Five theorems are refinements: `GraphImplementsTheConversation`,
`SocketsImplementLines`, `LimiterImplementsItsWindow`, `ToolsImplementTheLedger`
and `FetchesEachRoleOnce`.  Each says that every behaviour of the detailed
module is, through its mapping, one of the abstract module's, and each is proved
the same way: the initial states map to initial states, and, under the
component's inductive invariants, every action maps to one abstract action or
leaves the abstract state alone (`ConversationStep`, `LineStep`, `PromiseStep`,
`LedgerStep`, `NextImplements`).  The type invariants are proved (`TypeCorrect`
of each module, `GuardTypeCorrect`; in `EvalHarnessProofs` a part of `IInv`) and
not repeated by the runs.

Four of the refinements are put to use.  What every behaviour of the abstract
specification keeps is proved of its half a dozen small actions, and with the
refinement it is a theorem about the code's module, whose nodes, queues, locks
and transactions it need not look at again: `TheLogIsTurnByTurn` and
`NothingSaidIsAltered` (from `Conversation`), `MessagesAreSettledOnce` and
`NoMessageIsOvertaken` (`SocketLines`), `NothingIsUndone` (`OrderLedger`),
`PlannersDoNotRace` and `ListsAreOfThisProcess` (`FetchOnce`).  These
are theorems without a property of a run: TLC checks the refinements they follow
from.  So is `RolesKeepTheirTools`, which follows from the registry's invariant.

**AgentGraphProofs.**  `TypeCorrect`, `TurnsAreBounded`, `RetriesAreExact`,
`ApologiesAreLate`, `RefusalsSpendTheBudget`, `EffectsAreLimited`,
`WindowsAreWhole`, `WindowsAreBounded`, `AnswersAreGrounded`,
`ToolsRunGated`, `RepliesAreOfThisTurn`, `GraphImplementsTheConversation`,
`TheLogIsTurnByTurn`, `NothingSaidIsAltered`.

- `TypeOK` is not inductive.  `TypeInv` adds that the classifier never sees a
  domain that is handed off (its table has no entry for it), that the executor
  runs directly behind the plan it executes, and that a ToolMessage stands
  directly behind its plan (`PairsAdjacent`), which is why the walk back of the
  summarizer ends after one step.
- `BudgetInv` ties each counter to the place in the graph: at the planner
  `steps = 3 + 2 * executions`, at the generator
  `generations = output_retry_count`, and so on.  The four budget theorems read
  off it.
- `EffectsInv`: while a turn runs the counters dominate the effects, because a
  call is counted whether or not its answer arrives; a crash breaks the
  domination by one call, for which the limit just checked leaves room.
- `CursorInv`: the cursor never points at a ToolMessage.  With `PairsAdjacent`
  this is `WindowPairsIntact`.  `DraftsInv` is the bound right behind the
  summarizer, carried through the rewrites.
- `GroundInv`: there is no violation before the response and no result before
  the success that ends the tool loop; so what the generator finds was made in
  this turn.
- `GateInv`: between the gates it says which have been passed, and that nothing
  has run before the last of them.  `ToolsRunGated` reads off it, for any choice
  of a tool by the planner's LLM; that the tool is one of the intent's scope is
  not a theorem, because it is not so (section 7).
- `ReplyInv`: from the question it appended on, a running turn's last message is
  its own.
- The refinement of `Conversation` rests on three of these.  `TypeInv` gives
  that the input guard finds the turn's question last, so that its redaction
  changes no other entry; `ReplyInv` that whatever ends a turn is its own last
  word; `EffectsInv` that an effect, seen before the counter is, is within the
  limits.  `LogAppends` and `LogRedacts` carry the two changes of `messages` over
  to the log.
- `TurnByTurn` says of a log, by neighbours, that its turns are whole and in
  order; asking, saying and redacting each keep it (`AskingKeepsTurns`,
  `AnsweringKeepsTurns`, `RedactingKeepsTurns`).

**ChatTurnsProofs.**  `TypeCorrect`, `HistoryIsKept`, `SocketsAreSerial`,
`RepliesAreNotMixed`, `RepliesAreKept`, `SocketsImplementLines`,
`MessagesAreSettledOnce`, `NoMessageIsOvertaken`.

- `HistoryInv`: two running turns have met (at least one direction is enough
  only because `Load` enters both); a run that met nobody equals the newest
  checkpoint; and every run extends the messages of each answered unmet turn.
- `SocketInv`: a queue holds queued requests of its own socket, each once; at
  most one request of a socket is admitted or running; one that waits has met
  nobody.
- `QueuedInv`, the converse: what was sent and not yet read is in its socket's
  queue.  Without it a message could vanish and the line would still look right.
  `LineInv` (it, `SocketInv` and the types) makes the request at work and the
  queue behind it one line, whose head is the only one that is ever settled.
- `PlacesInv`, of the lines: a message stands in one line at one place, and is
  not settled yet (`JoiningKeepsPlaces`, `SettlingKeepsPlaces`).  With it a step
  settles nobody twice and answers nobody behind another.
- `OwnInv`: nobody has texts of a turn that has not asked; in a run's list what
  follows a text of its own is its own.  So the last AIMessage is the turn's own
  or the turn wrote none.
- `KeptInv`: nothing is streamed before the first draft, and the first draft's
  piece is the last message or broken.
- `Searchable`, a part of `TypeInv`, keeps as an invariant that a list with an
  AIMessage has a last one: the maximum `ExtractAIResponse` chooses.  Stated for
  all lists it would need induction over their length.

**RateLimiterProofs.**  `TypeCorrect`, `LimitHolds`, `OvershootHolds`,
`RefusalsAreJustified`, `LimiterImplementsItsWindow`.  `Punctual` (a pipeline under way is at most `MaxDelay`
late) and `Dated` (a score is at most `MaxDelay` before its record, and the key
outlives every member by its TTL) give `AllowedAreKept`: no allowed event of the
span has been pruned.  The member counted last then sees all of them.
For the refinement `KeyHoldsThePassed` and `KeyIsRecent` turn what a handler
finds in the key into what the abstract window knows, the first from below, the
second from above; `Numbered` (a uuid is never met again) makes each message
count once.

**OrderToolsProofs.**  `TypeCorrect`, `AnswersAreTrue`, `DoublesAreRivals`,
`RetriesNeverPayTwice`, `RefundsAreOfDeliveredOrders`, `ReadsAreFresh`,
`ToolsImplementTheLedger`, `NothingIsUndone`.
`ShapeInv` says what a call's place tells of its kind, answer, writes and lock;
`RivalInv` that two calls past their check are rivals, or the later one found
the earlier one's row; `KnownInv` that a call confirmed before another began is
no rival of it; `DeliveryInv` that a refund past its first read stands before an
order that has arrived; `ReadInv` that a view about to be cached, and a cached
one, lacks nothing confirmed, but for the two exceptions of the property.  The
refinement needs `ShapeInv` alone: a call that has written nothing is at its
commit at the latest, and one that has is behind it, so a commit is the one
moment at which a request takes effect, and only an answer of unknown outcome
(`db_error`, `lost`) says nothing.  `LedgerInv` is the ledger's own: an effect
was qualified, and an answer does not lie about it.

**CachedReadsProofs.**  `NothingStaleIsServed`, `NobodyIsLedBack`,
`TypeCorrect`.  Assumed of the constants: the calls are calls of the nine tools'
signatures, the database's states are records of the tables the queries read,
and the lifetimes and the delay are natural numbers; how many calls, states and
clients there are, and what the tables hold, is free.

- `TruthInv` (`TypeOK`, `Keyed`, `Truth`): a kept entry is what some call of its
  key fetched (`IsFetch`): the check let that call pass (`Passed`), the rows are
  of a state no older than the check's and what was loaded with them of one no
  older than that; and the rows' state was current at most a lifetime and a delay
  before the entry ends (`EntryIsTrue`).  What a call carries to its answer is
  the same, aged by what it waited (`CarriesTruth`).  `AnswersAreTrue` adds the
  two ages.  The lemmas on keys say, tool by tool, which arguments two calls with
  one key may differ in.
- `ForwardInv` (`TruthInv` and `Forward`): for a key nobody fetched side by side
  and no failure touched (`key \notin mixed`), at most one call is between its
  miss and its fill, and meanwhile there is no entry (`OneFills`); and neither
  the entry nor what is about to be kept is older than what any call holds or
  has shown (`NotBehind`).  Neither half is inductive without the other: the
  first keeps an old fetch from overwriting a newer entry, the second says that
  what it keeps is the newest known.

**ToolAccessProofs**, of the registry.  `FetchesEachRoleOnce`,
`RegistryInvariant`, `TypeCorrect`, `PlannersDoNotRace`, `ListsAreOfThisProcess`,
`RolesKeepTheirTools`.  The refinement needs the lock:
`LocksOrdered` (of two callers of a role one is ahead of the other, and not
conversely), `FetchersHoldTheLock` (whoever fetches has nobody ahead, and the
role is not cached), `CallsWellFormed`, `FetchedWereOffered` (a list under way
came from a server of this process's time) and `DownIsCold` (a process that is
down has no callers and no lists).  Every step of the registry is then a step of
`FetchOnce` or leaves its variables alone.

Of the guard: `QuestionsAreSpent`, `GuardTypeCorrect`.
`OverlapsRecorded` (turns under way have met), `RecordsWerePut`, `FoundWerePut`
and `AnsweredWerePut` (what is pending, read or answered is the question of an
earlier call, the turn's own earlier calls included, so that the question a call
is about to put is none of them), `WritersHaveTools`, and `AnsweredAreSpent` (an
answered record is gone, unless its deletion failed or an overlapping turn still
holds it).

**LoginSessionsProofs.**  `TokensAreRecent`, `RefreshesFollowLogins`,
`TypeCorrect`.  The invariants place each login between its transaction and its
row (`FreshAreUnknown`, `RowsAreSigned`, `LoginsArePlaced`), each logout between
its answer and its commit (`CommitsAreOrdered`, `LogoutsArePlaced`), and each
token after the statements that made it (`HeldAreSigned`, `TokensAreOfTheirTime`,
`RefreshesAreQuick`).

**EvalHarnessProofs.**  `RoundingLiftsNothing`, `ResultsCarryTheirOwnTokens`,
`ExitZeroMeansIt`.

- `IInv`: each task's ContextVar holds its own handler or none
  (`HandlersAreTheirOwn`), a task has an answer as soon as its call is over
  (`AnsweredAreDone`), and there is one verdict, given when every task is done,
  on the answers that stand (`VerdictStands`).
- What a passing verdict says of the answers it is over is a lemma per suite
  (`GreenDelegators` ... `GreenSummaries`), for datasets of any content: a rate
  is the cardinality of a set of records over that of another, so no recursion
  over the dataset is needed.
- Most metrics round a rate to four places before it meets its threshold, and a
  rate just below could be rounded up to it.  `RoundingLiftsNothing` excludes
  that under `Coarse(t, n)`: the threshold is a multiple of a step of which half
  exceeds what rounding adds over `n` records.  `ConfigAssumption` of
  `EvalHarness` requires it of the sizes and thresholds of each suite.  With the
  code's thresholds that means up to 999 records at 0.95, up to 799 at 0.92 and
  up to 19,999 at 1.0; the repository's largest dataset has 218.

Model-checked only: the liveness properties `TurnEnds`, `RequestsAreSettled`,
`CallsReturn` and `CallsEnd`.  Liveness under fairness, and the
ENABLED it stands on, are out of the prover's reach.  Every safety property that
a passing run checks is also a theorem.

## 7. Where the repository says one thing and the code does another

A run that TLC ends with a counterexample (`findings` of `PROJECT.json` quotes
both sides): `ClaimOneActiveRefund`.  Two refund calls that both check before
either commits leave two active refunds (`refunds.py:129`, against
`refunds.py:109`), after which `scalar_one_or_none` raises for that order.

Met while modelling, visible in the modules, without a run of their own.

The agent:

- A message that is redacted and refused in one turn gets no rejection
  (`input_guard.py:398`, against `edges.py:38`): the exception in
  `ReplyIsForThisTurn`.
- When the rewrites are used up, the last message is the refused response and no
  fallback (`edges.py:276`); and the budget of 2 allows one rewrite
  (`edges.py:264` compares after the guard has counted).
- A second call in one AIMessage, and a call whose arguments fail validation, are
  never answered by a ToolMessage (`tool_planner.py:218`, against
  `summarizer.py:197`).
- The scope narrows what the planner's LLM is shown, and no more: a call that
  names another registered tool has no schema to fail (`tool_planner.py:69-74`)
  and is run from the full list (`tool_executor.py:206-216`), against "eliminates
  wrong-category selections" (`tool_scope.py:8`).
- A planner that fails is not retried although it sets `tool_error`
  (`tool_planner.py:186`, `edges.py:159`).
- On the tool path the message about to be answered is not the last one, so the
  summarizer may count it among the summarised (`summarizer.py:194`); an empty
  summary text is taken for none while the cursor has moved
  (`summarizer.py:137`).
- `_derive_flags` escalates on an intent no domain's set holds
  (`classifier.py:53`).

The chat API and its surroundings:

- The streaming transports show a response before the output guard has looked at
  it (`chat.py:322`, against `output_guard.py:368`).
- "Omit to start a new session — server will generate a UUID" (`chat.py`): every
  access token carries a login session's id, which is used instead.
- Start-up only warns when Redis is absent, `/ready` then answers 503.
- The conversation tables that `long_term.py` reads are written by nothing.

The tools:

- A refund needs a payment with status "paid", the repository's database holds
  "success" (`refunds.py:144`): no delivered order of the dump is refundable.
- A call for an order that is not the caller's is denied, or not found, by the
  fetch only: while the owner's entry lives it is answered from it, although the
  tools' descriptions say "owned by the authenticated customer"
  (`order_lookup.py:64`, `order_items.py:22`; keys: `app/cache/keys.py:63-76`).
- The guard against cached products that were taken off the shelf looks at the
  cached status, "active" when it was stored (`product_detail.py:66`).
- A product's name is looked up with `LIMIT 1` and no order: which of two matches
  is answered is the database's choice.

The tool guard:

- The documented confirmation of write tools (`README.md:370`) is implemented in
  `tool_guard.py` and called nowhere.
- `apply_tool_guard` calls itself idempotent, "calling it multiple times with the
  same state is safe" (`tool_guard.py:312`).  A turn that calls it again finds the
  record of its first call, and its message, written before the question, is
  judged as the answer: a "yes" in it grants the write (`tool_guard.py:395-467`).
  And every call counts as a write, those that only ask included.
- The confirmation phrase "cancel it" declines, because refusals are looked for
  first and "cancel" is one; a hash of the arguments that differs is logged and
  let through (`tool_guard.py:438`).

The evaluation ("exit code 1 — any threshold fails"):

- `product_tools` prints a p95 threshold that its verdict leaves out, and is green
  when every record raised; the first line of its dataset starts with a byte
  order mark and is skipped.
- `tool_executor`: a successful read is also one whose answer is an MCP error, and
  a run in which every record was skipped is green.
- `classifier`: an exception or a fallback on a record that expects the fallback
  intent counts as a true positive; a domain without a record raises KeyError
  before the report; the fallback rate is not in the verdict.
- `customer_delegator`: a record that raised and expected `need_advice` counts as
  a true positive, and the run is green only with a record to escalate and one to
  block.
- `memory`: a record that raised and expected no summary counts as correct; when
  nothing triggered the report raises KeyError.
- `response_generator`: a run during an outage is green when no record asks for
  anything or is off-topic.

## 8. Not modelled, and why

- Texts: patterns of the guards, prompts, summaries, wording.  Their verdicts are
  nondeterministic choices.
- Amounts of refunds (`refunds.py:155`): accepted or refused.
- Long-term memory: a read of tables nothing in the system writes.
- Feedback and health: one stateless call and probes.
- In the chat API the session list, the page limit of the history and a socket
  message that switches the session.
- In authentication forged or malformed tokens, and passwords.
- In the evaluation the GEval scores, which no verdict reads, the dashboard, and
  the seed, token and password scripts.
- LangGraph, PostgreSQL and Redis themselves: they are what the code relies on,
  and are marked external in the map where a definition stands for them.

## 9. What could come next

1. Abstract specifications of the tool guard (a question, its answer, one run)
   and of the login sessions (a login that stands until it is ended or expires),
   with their refinements proved; a read-through register that CachedReads
   implements where no key is mixed.
2. The session list and the session switch of ChatTurns.
3. A serial refund desk that OrderTools implements when calls do not overlap
   their checks.
4. Pure algorithms as operators against a reference: refund amounts
   (`refunds.py:155`), the normalised feedback score (`feedback.py`), the history
   of `long_term.py`.
