------------------------------ MODULE ChatTurns ------------------------------
(***************************************************************************)
(* The chat API in front of the agent graph: turns of one session          *)
(* (thread_id) that arrive over POST /chat, POST /chat/stream and          *)
(* WebSockets, and run concurrently on one checkpointed thread.            *)
(*                                                                         *)
(* A run loads the newest checkpoint once, works on its own copy of the    *)
(* state and makes a new checkpoint after every node; the newest one is    *)
(* the session's history.  The nodes are those of AgentGraph, reduced to   *)
(* the texts they write.                                                   *)
(***************************************************************************)
EXTENDS Sequences, Integers

CONSTANTS
    Requests,            \* the chat requests, each sent once (bound)
    Sockets,             \* the open WebSocket connections
    MAX_OUTPUT_RETRIES

ASSUME ConfigAssumption ==
    /\ MAX_OUTPUT_RETRIES \in Nat
    /\ Sockets \cap {"none", "post", "sse"} = {}

VARIABLES
    status,              \* where each request stands
    via,                 \* the transport it came over: "post", "sse", a socket
    at,                  \* the node its run has reached
    channel,             \* the messages in its run's state
    shown,               \* the texts streamed to its client, in order
    told,                \* the reply its client was given at the end
    queue,               \* per socket: messages sent and not yet received
    open,                \* sockets whose loop is running
    checkpoint,          \* the messages of the thread's newest checkpoint
    drafts,              \* runs of response_generator, per request: when one
                         \* is refused, all were, and output_retry_count is this
    met                  \* history: the runs under way together with this one

clientVars == <<via, told, queue, open>>
vars == <<status, via, at, channel, shown, told, queue, open, checkpoint,
          drafts, met>>

-----------------------------------------------------------------------------
Transport == {"post", "sse"} \cup Sockets

Status == {"idle", "queued", "admitted", "running", "answered", "unanswered"}

Pending == {"queued", "admitted", "running"}

Nodes == {"ask", "guardrails_in", "think", "response_generator",
          "guardrails_out", "END"}

\* A notice is a canned text (rejection, handoff, fallback), a remark the text
\* of another node's LLM, a broken draft one whose stream stopped half-way.
Kind == {"question", "notice", "remark", "draft", "broken"}

Text == [turn : Requests, kind : Kind, n : Nat]

T(r, kind) == [turn |-> r, kind |-> kind, n |-> drafts[r]]

IsAI(m) == m.kind # "question"

Running == {r \in Requests : status[r] = "running"}

-----------------------------------------------------------------------------
(* The reply.                                                              *)

\* _extract_ai_response: the last AIMessage of the state; no text at all
\* stands for the canned apology.
ExtractAIResponse(messages) ==
    LET ai == {i \in 1 .. Len(messages) : IsAI(messages[i])}
    IN  IF ai = {} THEN <<>>
        ELSE <<messages[CHOOSE i \in ai : \A j \in ai : j <= i]>>

\* _assemble_response_text: what was streamed, all of it, else the state.
AssembleResponse(streamed, messages) ==
    IF streamed # <<>> THEN streamed ELSE ExtractAIResponse(messages)

\* Mutant: the reply is read back from the newest checkpoint.
ReplyFromCheckpoint(r) == ExtractAIResponse(checkpoint)

Reply(r) ==
    IF via[r] = "post" THEN ExtractAIResponse(channel[r])
    ELSE AssembleResponse(shown[r], channel[r])

-----------------------------------------------------------------------------
Init ==
    /\ status = [r \in Requests |-> "idle"]
    /\ via = [r \in Requests |-> "none"]
    /\ at = [r \in Requests |-> "ask"]
    /\ channel = [r \in Requests |-> <<>>]
    /\ shown = [r \in Requests |-> <<>>]
    /\ told = [r \in Requests |-> <<>>]
    /\ queue = [s \in Sockets |-> <<>>]
    /\ open = Sockets
    /\ checkpoint = <<>>
    /\ drafts = [r \in Requests |-> 0]
    /\ met = [r \in Requests |-> {}]

-----------------------------------------------------------------------------
(* Arrival and admission.                                                  *)

\* A request that is over without an answer leaves nothing but checkpoints.
Unanswered(rs) ==
    /\ status' = [r \in Requests |-> IF r \in rs THEN "unanswered" ELSE status[r]]
    /\ via' = [r \in Requests |-> IF r \in rs THEN "none" ELSE via[r]]
    /\ at' = [r \in Requests |-> IF r \in rs THEN "ask" ELSE at[r]]
    /\ channel' = [r \in Requests |-> IF r \in rs THEN <<>> ELSE channel[r]]
    /\ shown' = [r \in Requests |-> IF r \in rs THEN <<>> ELSE shown[r]]
    /\ drafts' = [r \in Requests |-> IF r \in rs THEN 0 ELSE drafts[r]]
    /\ met' = [r \in Requests |-> IF r \in rs THEN {} ELSE met[r]]
    /\ UNCHANGED <<told, checkpoint>>

runVars == <<at, channel, shown, told, checkpoint, drafts, met>>

\* The HTTP endpoints: the rate limit is looked at before the handler runs.
Arrive(r) ==
    /\ status[r] = "idle"
    /\ \E transport \in {"post", "sse"} : via' = [via EXCEPT ![r] = transport]
    /\ \E s \in {"admitted", "unanswered"} : status' = [status EXCEPT ![r] = s]
    /\ UNCHANGED <<runVars, queue, open>>

\* A client may send its next message before the last one is answered.
Send(r) ==
    /\ status[r] = "idle"
    /\ \E s \in open :
         /\ via' = [via EXCEPT ![r] = s]
         /\ queue' = [queue EXCEPT ![s] = Append(@, r)]
    /\ status' = [status EXCEPT ![r] = "queued"]
    /\ UNCHANGED <<runVars, open>>

\* Mutant: every message gets a task of its own.
AlwaysFree(s) == TRUE

\* The socket's loop is back at receive_text.
LoopIsFree(s) ==
    \A r \in Requests : via[r] = s => status[r] \notin {"admitted", "running"}

\* Mutant: a message turned away ends the loop and leaves the socket open.
LoopEnds(s) == open \ {s}

\* An empty message and a full rate limit are answered with an error frame and
\* the loop continues.
LoopContinues(s) == open

Receive(s) ==
    /\ s \in open /\ queue[s] # <<>> /\ LoopIsFree(s)
    /\ queue' = [queue EXCEPT ![s] = Tail(@)]
    /\ \/ status' = [status EXCEPT ![Head(queue[s])] = "admitted"]
          /\ UNCHANGED open
       \/ status' = [status EXCEPT ![Head(queue[s])] = "unanswered"]
          /\ open' = LoopContinues(s)
    /\ UNCHANGED <<runVars, via>>

-----------------------------------------------------------------------------
(* A run.  Every node's step makes a checkpoint.                           *)

\* Mutant: the run starts without the thread's messages.
LoadNothing == <<>>

\* The graph reads the newest checkpoint of the thread.
LoadNewest == checkpoint

Load(r) ==
    /\ status[r] = "admitted"
    /\ status' = [status EXCEPT ![r] = "running"]
    /\ channel' = [channel EXCEPT ![r] = LoadNewest]
    /\ met' = [q \in Requests |->
                 IF q = r THEN Running
                 ELSE IF q \in Running THEN met[q] \cup {r} ELSE met[q]]
    /\ UNCHANGED <<clientVars, at, shown, checkpoint, drafts>>

\* Mutant: tokens of every LLM call are forwarded, whatever its node.
ForwardAll(node) == TRUE

Forwarded(node) == node = "response_generator"

\* What an LLM call of this node adds to the client's stream.
Stream(r, node, text) ==
    shown' = IF via[r] # "post" /\ Forwarded(node)
               THEN [shown EXCEPT ![r] = Append(@, text)] ELSE shown

\* The node returns, its message is added and the state checkpointed.
Write(r, text) ==
    /\ channel' = [channel EXCEPT ![r] = Append(@, text)]
    /\ checkpoint' = channel'[r]

WriteNothing(r) ==
    /\ UNCHANGED channel
    /\ checkpoint' = channel[r]

GoTo(r, node) == at' = [at EXCEPT ![r] = node]

At(r, node) ==
    /\ status[r] = "running" /\ at[r] = node
    /\ UNCHANGED <<status, clientVars, met>>

\* _build_turn_input's HumanMessage is the run's first checkpoint.
Ask(r) ==
    /\ At(r, "ask")
    /\ Write(r, T(r, "question"))
    /\ GoTo(r, "guardrails_in")
    /\ UNCHANGED <<shown, drafts>>

\* A refusal that redacts its message as well writes no rejection.
GuardrailsIn(r) ==
    /\ At(r, "guardrails_in")
    /\ \/ WriteNothing(r) /\ GoTo(r, "think")
       \/ (Write(r, T(r, "notice")) \/ WriteNothing(r)) /\ GoTo(r, "END")
    /\ UNCHANGED <<shown, drafts>>

\* Delegator to memory: a handoff ends the turn; on the other paths LLMs of
\* other nodes run, and the planner's may leave a text of its own.
Think(r) ==
    /\ At(r, "think")
    /\ \/ Write(r, T(r, "notice")) /\ GoTo(r, "END") /\ UNCHANGED shown
       \/ /\ WriteNothing(r) \/ Write(r, T(r, "remark"))
          /\ Stream(r, "tool_planner", T(r, "remark"))
          /\ GoTo(r, "response_generator")
    /\ UNCHANGED drafts

\* The LLM answers, fails before its first token, or breaks off; the last two
\* leave the canned fallback in the messages.
ResponseGenerator(r) ==
    /\ At(r, "response_generator")
    /\ \/ /\ Write(r, T(r, "draft"))
          /\ Stream(r, "response_generator", T(r, "draft"))
       \/ /\ Write(r, T(r, "notice"))
          /\ \/ UNCHANGED shown
             \/ Stream(r, "response_generator", T(r, "broken"))
    /\ drafts' = [drafts EXCEPT ![r] = @ + 1]
    /\ GoTo(r, "guardrails_out")

\* The text the guard looks at.
LastOf(r) == channel[r][Len(channel[r])]

\* A notice passes every check, a text of the LLM may fail one.
GuardrailsOut(r) ==
    /\ At(r, "guardrails_out")
    /\ WriteNothing(r)
    /\ \/ GoTo(r, "END")
       \/ /\ LastOf(r).kind = "draft"
          /\ GoTo(r, IF drafts[r] < MAX_OUTPUT_RETRIES
                       THEN "response_generator" ELSE "END")
    /\ UNCHANGED <<shown, drafts>>

RunStep(r) ==
    \/ Ask(r) \/ GuardrailsIn(r) \/ Think(r) \/ ResponseGenerator(r)
    \/ GuardrailsOut(r)

-----------------------------------------------------------------------------
(* How a turn ends for its client.                                         *)

\* The result, or the "done" event.
Finish(r) ==
    /\ status[r] = "running" /\ at[r] = "END"
    /\ status' = [status EXCEPT ![r] = "answered"]
    /\ told' = [told EXCEPT ![r] = Reply(r)]
    /\ shown' = [shown EXCEPT ![r] = <<>>]
    /\ UNCHANGED <<at, channel, checkpoint, drafts, met, via, queue, open>>

\* The graph raised: HTTP 500, or an "error" event and the loop goes on.
Fail(r) ==
    /\ status[r] = "running"
    /\ Unanswered({r})
    /\ UNCHANGED <<queue, open>>

\* Mutant: what is left in a socket's queue is nobody's.
NoneWaiting(s) == {}

\* What is left in a socket's queue is lost with it.
Waiting(s) == {r \in Requests : via[r] = s /\ status[r] = "queued"}

Hangup(r) ==
    IF via[r] \in Sockets
      THEN /\ Unanswered({r} \cup Waiting(via[r]))
           /\ open' = open \ {via[r]}
           /\ queue' = [queue EXCEPT ![via[r]] = <<>>]
      ELSE Unanswered({r}) /\ UNCHANGED <<open, queue>>

\* The customer's context cannot be loaded: outside the per-turn try, so the
\* exception is fatal to the socket's loop and to the event stream.
ContextFails(r) ==
    /\ status[r] = "admitted" /\ via[r] # "post"
    /\ Hangup(r)

\* A client that went away is noticed: the event stream is cancelled, or a
\* frame cannot be sent and the loop ends; the run stops where it is.  A POST
\* handler does not notice and runs on.
Disconnect(r) ==
    /\ status[r] \in {"admitted", "running"} /\ via[r] # "post"
    /\ Hangup(r)

\* The process dies, and its connections with it; the checkpoints stay.
Crash ==
    /\ \E r \in Requests : status[r] \in Pending
    /\ Unanswered({r \in Requests : status[r] \in Pending})
    /\ open' = {}
    /\ queue' = [s \in Sockets |-> <<>>]

Handling(r) == Load(r) \/ RunStep(r) \/ Finish(r)

Next ==
    \/ \E r \in Requests :
         \/ Arrive(r) \/ Send(r) \/ Handling(r) \/ Fail(r) \/ ContextFails(r)
         \/ Disconnect(r)
    \/ \E s \in Sockets : Receive(s)
    \/ Crash

Spec == Init /\ [][Next]_vars

\* A handler goes on while it can, and a loop that is back at receive_text
\* takes the next message; clients and failures owe nothing.
FairSpec ==
    /\ Spec
    /\ \A r \in Requests : WF_vars(Handling(r))
    /\ \A s \in Sockets : WF_vars(Receive(s))

-----------------------------------------------------------------------------
(* What the chat API promises.                                             *)

TypeOK ==
    /\ status \in [Requests -> Status]
    /\ via \in [Requests -> Transport \cup {"none"}]
    /\ at \in [Requests -> Nodes]
    /\ channel \in [Requests -> Seq(Text)]
    /\ shown \in [Requests -> Seq(Text)]
    /\ told \in [Requests -> Seq(Text)]
    /\ queue \in [Sockets -> Seq(Requests)]
    /\ open \in SUBSET Sockets
    /\ checkpoint \in Seq(Text)
    /\ drafts \in [Requests -> Nat]
    /\ met \in [Requests -> SUBSET Requests]

Extends(long, short) ==
    /\ Len(short) <= Len(long)
    /\ \A i \in 1 .. Len(short) : long[i] = short[i]

\* A turn that was answered while no other turn of the session was under way
\* stays in the history for good, with everything that was said before it:
\* whatever later turns overlap, fail, are dropped or die.
AnsweredTurnsStay ==
    \A r \in Requests :
        status[r] = "answered" /\ met[r] = {} => Extends(checkpoint, channel[r])

\* However turns overlap, a client is given texts of its own turn only.  The
\* exception is a turn that wrote none: its client gets the last text before.
RepliesAreOwn ==
    \A r \in Requests : status[r] = "answered" =>
        \/ \A i \in 1 .. Len(told[r]) : told[r][i].turn = r
        \/ \A i \in 1 .. Len(channel[r]) :
             channel[r][i].turn = r => ~IsAI(channel[r][i])

\* All three transports give a client the text that the run's state ends with,
\* unless the response was written more than once or its stream broke off.
RepliesAreWhatIsKept ==
    \A r \in Requests : status[r] = "answered" /\ drafts[r] <= 1 =>
        \/ told[r] = ExtractAIResponse(channel[r])
        \/ via[r] # "post" /\ \E i \in 1 .. Len(told[r]) :
                                 told[r][i].kind = "broken"

\* Turns sent over one socket never run side by side, however early the client
\* sends them: a client that keeps to one socket loses no answered turn.
SocketTurnsAreSerial ==
    \A r, q \in Requests :
        via[r] \in Sockets /\ via[q] = via[r] => q \notin met[r]

\* A request as it stands in the lines of SocketLines: the message a socket's
\* loop is at work on is still the first of its line.
AtWork(s) == {r \in Requests : via[r] = s /\ status[r] \in {"admitted", "running"}}

Line ==
    [s \in Sockets |->
        IF AtWork(s) = {} THEN queue[s]
        ELSE <<CHOOSE r \in AtWork(s) : TRUE>> \o queue[s]]

Outcome ==
    [r \in Requests |->
        IF status[r] = "idle" THEN "unsent"
        ELSE IF status[r] \in Pending
               THEN IF via[r] \in Sockets THEN "inline" ELSE "alone"
               ELSE IF status[r] = "answered" THEN "answered" ELSE "dropped"]

Lines == INSTANCE SocketLines WITH outcome <- Outcome, line <- Line

\* The messages of a socket are answered in the order they were sent, each at
\* most once, and one is passed over only by losing the connection: whatever
\* is refused, fails, or is sent ahead.
SocketsAnswerInOrder == Lines!Spec

\* Every request is over some time: a refusal, a failure or a departure ahead
\* of it in a socket's queue does not leave a later message unread.
RequestsAreSettled ==
    \A r \in Requests : status[r] \in Pending ~> status[r] \notin Pending

==============================================================================
