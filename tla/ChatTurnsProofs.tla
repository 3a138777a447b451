--------------------------- MODULE ChatTurnsProofs ---------------------------
(***************************************************************************)
(* Theorems about ChatTurns, for any number of requests and sockets.       *)
(* The actions fall into five shapes, each described by one lemma:         *)
(* arriving, being received, loading, a node's step, finishing, and ending *)
(* without an answer.                                                      *)
(***************************************************************************)
EXTENDS ChatTurns, TLAPS

\* A text of this turn.
Own(r) == {x \in Text : x.turn = r}

\* The run of r writes at most one text, of its own turn, and checkpoints.
Writes(r) ==
    /\ \/ channel' = channel
       \/ \E x \in Own(r) : channel' = [channel EXCEPT ![r] = Append(@, x)]
    /\ checkpoint' = channel'[r]

\* The stream of r gets at most one text, of its own turn.
Streams(r) ==
    \/ shown' = shown
    \/ \E x \in Own(r) : shown' = [shown EXCEPT ![r] = Append(@, x)]

\* A node's step concerns its own run only, writes and streams own texts.
LEMMA NodeSteps ==
    ASSUME TypeOK, NEW r \in Requests, RunStep(r)
    PROVE  /\ status[r] = "running"
           /\ UNCHANGED <<status, clientVars, met>>
           /\ Writes(r) /\ Streams(r)
           /\ \E node \in Nodes \ {"ask"} : at' = [at EXCEPT ![r] = node]
           /\ drafts' \in [Requests -> Nat]
           /\ at[r] = "ask" => Ask(r)
<1>1. \A kind \in Kind : T(r, kind) \in Own(r)
  BY DEF T, Own, Text, TypeOK
<1>2. \A text \in Own(r), node \in {"tool_planner", "response_generator"} :
        Stream(r, node, text) => Streams(r)
  BY DEF Stream, Streams
<1>3. \A text \in Own(r) : Write(r, text) => Writes(r)
  BY DEF Write, Writes
<1>4. WriteNothing(r) => Writes(r)
  BY DEF WriteNothing, Writes
<1>5. shown' = shown => Streams(r)
  BY DEF Streams
<1>6. CASE Ask(r)
  BY <1>1, <1>3, <1>5, <1>6 DEF Ask, At, GoTo, Nodes, Kind, TypeOK
<1>7. CASE GuardrailsIn(r)
  BY <1>1, <1>3, <1>4, <1>5, <1>7 DEF GuardrailsIn, At, GoTo, Nodes, Kind, TypeOK
<1>8. CASE Think(r)
  BY <1>1, <1>2, <1>3, <1>4, <1>5, <1>8 DEF Think, At, GoTo, Nodes, Kind, TypeOK
<1>9. CASE ResponseGenerator(r)
  <2>1. drafts' \in [Requests -> Nat]
    BY <1>9 DEF ResponseGenerator, TypeOK
  <2> QED
    BY <1>1, <1>2, <1>3, <1>5, <1>9, <2>1
       DEF ResponseGenerator, At, GoTo, Nodes, Kind
<1>10. CASE GuardrailsOut(r)
  BY <1>4, <1>5, <1>10 DEF GuardrailsOut, At, GoTo, Nodes, TypeOK
<1> QED
  BY <1>6, <1>7, <1>8, <1>9, <1>10 DEF RunStep

\* A request that ends without an answer leaves every other as it is.
Ends(rs) ==
    /\ Unanswered(rs)
    /\ open' \in SUBSET open
    /\ \/ queue' = queue
       \/ \E s \in Sockets : queue' = [queue EXCEPT ![s] = <<>>]
       \/ queue' = [s \in Sockets |-> <<>>]

\* Every way to end without an answer is of that shape, and only requests that
\* are under way or wait behind one on its socket can be concerned.
LEMMA Endings ==
    ASSUME TypeOK,
           \/ \E r \in Requests : Fail(r) \/ ContextFails(r) \/ Disconnect(r)
           \/ Crash
    PROVE  \E rs \in SUBSET Requests :
             /\ Ends(rs)
             /\ \A r \in rs : status[r] \in Pending
             /\ \A r \in rs : status[r] = "queued" /\ via[r] \in Sockets
                                => queue'[via[r]] = <<>>
<1>1. ASSUME NEW r \in Requests, Fail(r)
      PROVE  Ends({r}) /\ status[r] = "running"
  BY <1>1 DEF Fail, Ends, TypeOK
<1>2. ASSUME NEW r \in Requests, Hangup(r), status[r] \in {"admitted", "running"},
             via[r] \in Sockets
      PROVE  /\ Ends({r} \cup Waiting(via[r]))
             /\ {r} \cup Waiting(via[r]) \in SUBSET Requests
             /\ \A q \in {r} \cup Waiting(via[r]) : status[q] \in Pending
             /\ \A q \in {r} \cup Waiting(via[r]) : queue'[via[q]] = <<>>
  BY <1>2 DEF Hangup, Ends, Waiting, Pending, TypeOK
<1>3. ASSUME NEW r \in Requests, Hangup(r), via[r] \notin Sockets
      PROVE  Ends({r})
  BY <1>3 DEF Hangup, Ends, TypeOK
<1>4. ASSUME Crash
      PROVE  LET rs == {r \in Requests : status[r] \in Pending}
             IN  /\ Ends(rs) /\ \A r \in rs : status[r] \in Pending
                 /\ \A s \in Sockets : queue'[s] = <<>>
  BY <1>4 DEF Crash, Ends, TypeOK
<1>5. CASE Crash
  BY <1>4, <1>5
<1>6. CASE \E r \in Requests : Fail(r)
  <2>1. PICK r \in Requests : Fail(r)
    BY <1>6
  <2>2. Ends({r}) /\ \A q \in {r} : status[q] = "running"
    BY <1>1, <2>1
  <2> QED
    BY <2>2 DEF Pending
<1>7. CASE \E r \in Requests : ContextFails(r) \/ Disconnect(r)
  <2>1. PICK r \in Requests : ContextFails(r) \/ Disconnect(r)
    BY <1>7
  <2>2. Hangup(r) /\ status[r] \in {"admitted", "running"}
    BY <2>1 DEF ContextFails, Disconnect
  <2>3. CASE via[r] \in Sockets
    BY <1>2, <2>2, <2>3
  <2>4. CASE via[r] \notin Sockets
    <3>1. Ends({r}) /\ \A q \in {r} : q = r
      BY <1>3, <2>2, <2>4
    <3> QED
      BY <2>2, <2>4, <3>1 DEF Pending
  <2> QED
    BY <2>3, <2>4
<1> QED
  BY <1>5, <1>6, <1>7

-----------------------------------------------------------------------------
(* Types.                                                                  *)

\* The last AIMessage of a list that holds one.  That there is one is kept as
\* an invariant of the lists, which grow by one message at a time.
IsLastAI(m, i) ==
    /\ i \in 1 .. Len(m) /\ IsAI(m[i])
    /\ \A j \in 1 .. Len(m) : IsAI(m[j]) => j <= i

Searchable(m) ==
    (\E i \in 1 .. Len(m) : IsAI(m[i])) => \E i \in 1 .. Len(m) : IsLastAI(m, i)

TypeInv ==
    /\ TypeOK
    /\ Searchable(checkpoint)
    /\ \A r \in Requests : Searchable(channel[r])

LEMMA AppendSearchable ==
    ASSUME NEW m \in Seq(Text), NEW x \in Text, Searchable(m)
    PROVE  Searchable(Append(m, x))
<1>1. CASE IsAI(x)
  <2>1. IsLastAI(Append(m, x), Len(m) + 1)
    BY <1>1 DEF IsLastAI
  <2> QED
    BY <2>1 DEF Searchable
<1>2. CASE ~IsAI(x)
  <2>1. \A i : IsLastAI(m, i) => IsLastAI(Append(m, x), i)
    BY <1>2 DEF IsLastAI
  <2>2. \A i \in 1 .. Len(Append(m, x)) :
          IsAI(Append(m, x)[i]) => i \in 1 .. Len(m) /\ IsAI(m[i])
    BY <1>2
  <2> QED
    BY <2>1, <2>2 DEF Searchable, IsLastAI
<1> QED
  BY <1>1, <1>2

\* The reply is the last AIMessage, if there is one, else the canned apology.
LEMMA ExtractLast ==
    ASSUME NEW m \in Seq(Text), Searchable(m)
    PROVE  \/ /\ ExtractAIResponse(m) = <<>>
              /\ \A i \in 1 .. Len(m) : ~IsAI(m[i])
           \/ \E i \in 1 .. Len(m) :
                ExtractAIResponse(m) = <<m[i]>> /\ IsLastAI(m, i)
<1> DEFINE ai == {i \in 1 .. Len(m) : IsAI(m[i])}
           last == CHOOSE i \in ai : \A j \in ai : j <= i
<1>1. CASE ai = {}
  BY <1>1 DEF ExtractAIResponse
<1>2. CASE ai # {}
  <2>1. \E i \in ai : \A j \in ai : j <= i
    BY <1>2 DEF Searchable, IsLastAI
  <2>2. last \in ai /\ \A j \in ai : j <= last
    <3> HIDE DEF ai
    <3> QED
      BY <2>1
  <2>3. ExtractAIResponse(m) = <<m[last]>>
    BY <1>2 DEF ExtractAIResponse
  <2> HIDE DEF last
  <2> QED
    BY <2>2, <2>3 DEF IsLastAI
<1> QED
  BY <1>1, <1>2

LEMMA ReplyType ==
    ASSUME TypeInv, NEW r \in Requests
    PROVE  Reply(r) \in Seq(Text)
<1>1. ExtractAIResponse(channel[r]) \in Seq(Text)
  <2>1. channel[r] \in Seq(Text) /\ Searchable(channel[r])
    BY DEF TypeInv, TypeOK
  <2>2. CASE ExtractAIResponse(channel[r]) = <<>>
    BY <2>2
  <2>3. ASSUME NEW i \in 1 .. Len(channel[r]),
               ExtractAIResponse(channel[r]) = <<channel[r][i]>>
        PROVE  ExtractAIResponse(channel[r]) \in Seq(Text)
    <3>1. channel[r][i] \in Text
      BY <2>1
    <3> QED
      BY <2>3, <3>1
  <2> QED
    BY <2>1, <2>2, <2>3, ExtractLast
<1> QED
  BY <1>1 DEF Reply, AssembleResponse, TypeInv, TypeOK

LEMMA TypeStep ==
    ASSUME TypeInv, [Next]_vars
    PROVE  TypeInv'
<1>1. ASSUME NEW r \in Requests, Arrive(r)
      PROVE  TypeInv'
  <2>1. \A x \in {"admitted", "unanswered"} : x \in Status
    BY DEF Status
  <2>2. \A x \in {"post", "sse"} : x \in Transport
    BY DEF Transport
  <2>3. status' \in [Requests -> Status] /\ via' \in [Requests -> Transport \cup {"none"}]
    BY <1>1, <2>1, <2>2 DEF Arrive, TypeInv, TypeOK
  <2> QED
    BY <1>1, <2>3 DEF Arrive, runVars, TypeInv, TypeOK
<1>9. ASSUME NEW r \in Requests, Send(r)
      PROVE  TypeInv'
  <2>1. PICK s \in open : /\ via' = [via EXCEPT ![r] = s]
                          /\ queue' = [queue EXCEPT ![s] = Append(@, r)]
    BY <1>9 DEF Send
  <2>2. s \in Sockets /\ Append(queue[s], r) \in Seq(Requests)
    BY DEF TypeInv, TypeOK
  <2>3. via' \in [Requests -> Transport \cup {"none"}]
        /\ queue' \in [Sockets -> Seq(Requests)]
    BY <2>1, <2>2 DEF Transport, TypeInv, TypeOK
  <2> QED
    BY <1>9, <2>3 DEF Send, runVars, TypeInv, TypeOK, Status
<1>2. ASSUME NEW s \in Sockets, Receive(s)
      PROVE  TypeInv'
  <2>1. Head(queue[s]) \in Requests /\ Tail(queue[s]) \in Seq(Requests)
    BY <1>2 DEF Receive, TypeInv, TypeOK
  <2> QED
    BY <1>2, <2>1 DEF Receive, LoopContinues, runVars, TypeInv, TypeOK, Status
<1>3. ASSUME NEW r \in Requests, Load(r)
      PROVE  TypeInv'
  BY <1>3 DEF Load, LoadNewest, Running, clientVars, TypeInv, TypeOK, Status
<1>4. ASSUME NEW r \in Requests, RunStep(r)
      PROVE  TypeInv'
  <2> USE <1>4
  <2>0. TypeOK
    BY DEF TypeInv
  <2>1. /\ UNCHANGED <<status, clientVars, met>> /\ Writes(r) /\ Streams(r)
        /\ at' \in [Requests -> Nodes] /\ drafts' \in [Requests -> Nat]
    <3>1. PICK node \in Nodes : at' = [at EXCEPT ![r] = node]
      BY <2>0, NodeSteps
    <3>2. at' \in [Requests -> Nodes]
      BY <2>0, <3>1 DEF TypeOK
    <3> QED
      BY <2>0, <3>2, NodeSteps
  <2>2. shown' \in [Requests -> Seq(Text)]
    <3>1. CASE shown' = shown
      BY <3>1 DEF TypeInv, TypeOK
    <3>2. ASSUME NEW x \in Own(r), shown' = [shown EXCEPT ![r] = Append(@, x)]
          PROVE  shown' \in [Requests -> Seq(Text)]
      <4>1. Append(shown[r], x) \in Seq(Text)
        BY DEF Own, TypeInv, TypeOK
      <4> QED
        BY <3>2, <4>1 DEF TypeInv, TypeOK
    <3> QED
      BY <2>1, <3>1, <3>2 DEF Streams
  <2>3. /\ channel' \in [Requests -> Seq(Text)]
        /\ \A q \in Requests : Searchable(channel'[q])
    <3>1. CASE channel' = channel
      BY <3>1 DEF TypeInv, TypeOK
    <3>2. ASSUME NEW x \in Own(r),
                 channel' = [channel EXCEPT ![r] = Append(@, x)]
          PROVE  /\ channel' \in [Requests -> Seq(Text)]
                 /\ \A q \in Requests : Searchable(channel'[q])
      <4>1. x \in Text /\ channel[r] \in Seq(Text) /\ Searchable(channel[r])
        BY DEF Own, TypeInv, TypeOK
      <4>2. Append(channel[r], x) \in Seq(Text)
            /\ Searchable(Append(channel[r], x))
        BY <4>1, AppendSearchable
      <4> QED
        BY <3>2, <4>2 DEF TypeInv, TypeOK
    <3> QED
      BY <2>1, <3>1, <3>2 DEF Writes
  <2>4. checkpoint' \in Seq(Text) /\ Searchable(checkpoint')
    BY <2>1, <2>3 DEF Writes
  <2> QED
    BY <2>1, <2>2, <2>3, <2>4 DEF clientVars, TypeInv, TypeOK
<1>5. ASSUME NEW r \in Requests, Finish(r)
      PROVE  TypeInv'
  BY <1>5, ReplyType DEF Finish, TypeInv, TypeOK, Status
<1>6. ASSUME NEW rs \in SUBSET Requests, Ends(rs)
      PROVE  TypeInv'
  <2>1. Searchable(<<>>)
    BY DEF Searchable
  <2>2. \A r \in Requests : Searchable(channel'[r])
    BY <1>6, <2>1 DEF Ends, Unanswered, TypeInv
  <2>3. queue' \in [Sockets -> Seq(Requests)] /\ open' \in SUBSET Sockets
    <3>1. \A s \in Sockets : [queue EXCEPT ![s] = <<>>] \in [Sockets -> Seq(Requests)]
      BY DEF TypeInv, TypeOK
    <3>2. [s \in Sockets |-> <<>>] \in [Sockets -> Seq(Requests)]
      OBVIOUS
    <3> QED
      BY <1>6, <3>1, <3>2 DEF Ends, TypeInv, TypeOK
  <2>4. /\ status' \in [Requests -> Status] /\ at' \in [Requests -> Nodes]
        /\ via' \in [Requests -> Transport \cup {"none"}]
    BY <1>6 DEF Ends, Unanswered, TypeInv, TypeOK, Status, Nodes
  <2>5. /\ channel' \in [Requests -> Seq(Text)] /\ shown' \in [Requests -> Seq(Text)]
        /\ drafts' \in [Requests -> Nat] /\ met' \in [Requests -> SUBSET Requests]
    BY <1>6 DEF Ends, Unanswered, TypeInv, TypeOK
  <2> QED
    BY <1>6, <2>2, <2>3, <2>4, <2>5 DEF Ends, Unanswered, TypeInv, TypeOK
<1>7. CASE UNCHANGED vars
  BY <1>7 DEF vars, TypeInv, TypeOK
<1>8. ASSUME \/ \E r \in Requests : Fail(r) \/ ContextFails(r) \/ Disconnect(r)
             \/ Crash
      PROVE  TypeInv'
  BY <1>6, <1>8, Endings DEF TypeInv
<1> QED
  BY <1>1, <1>2, <1>3, <1>4, <1>5, <1>7, <1>8, <1>9 DEF Next, Handling

\* Every variable keeps its type, whatever requests arrive, overlap and end.
THEOREM TypeCorrect == Spec => []TypeOK
<1>1. Init => TypeInv
  BY DEF Init, TypeInv, TypeOK, Searchable, Status, Nodes
<1>2. TypeInv /\ [Next]_vars => TypeInv'
  BY TypeStep
<1>3. TypeInv => TypeOK
  BY DEF TypeInv
<1> QED
  BY <1>1, <1>2, <1>3, PTL DEF Spec

-----------------------------------------------------------------------------
(* The history.  A run that met no other is in step with the newest        *)
(* checkpoint; once it is answered, every later run starts from messages   *)
(* that extend its own, and runs only add.                                 *)

Unmet(r) == met[r] = {}

HistoryInv ==
    /\ \A r, q \in Running : r # q => q \in met[r]
    /\ \A r \in Running : Unmet(r) => checkpoint = channel[r]
    /\ \A r \in Requests : status[r] = "answered" /\ Unmet(r) =>
         /\ Extends(checkpoint, channel[r])
         /\ \A q \in Running : Extends(channel[q], channel[r])

LEMMA AppendExtends ==
    ASSUME NEW m \in Seq(Text), NEW x \in Text, NEW short \in Seq(Text),
           Extends(m, short)
    PROVE  Extends(Append(m, x), short)
BY DEF Extends

\* Steps that start no run, write nothing and answer nobody.
LEMMA HistoryFrame ==
    ASSUME HistoryInv,
           checkpoint' = checkpoint,
           \A r \in Requests : status'[r] \in {"running", "answered"} =>
             /\ status[r] = status'[r]
             /\ channel'[r] = channel[r] /\ met'[r] = met[r]
    PROVE  HistoryInv'
BY DEF HistoryInv, Running, Unmet, Extends

LEMMA HistoryStep ==
    ASSUME TypeInv, HistoryInv, [Next]_vars
    PROVE  HistoryInv'
<1> USE DEF Unmet
<1>0. TypeOK
  BY DEF TypeInv
<1>1. ASSUME NEW r \in Requests, Arrive(r) \/ Send(r)
      PROVE  HistoryInv'
  BY <1>0, <1>1, HistoryFrame DEF Arrive, Send, runVars, TypeOK
<1>2. ASSUME NEW s \in Sockets, Receive(s)
      PROVE  HistoryInv'
  <2>1. Head(queue[s]) \in Requests
    BY <1>0, <1>2 DEF Receive, TypeOK
  <2> QED
    BY <1>0, <1>2, <2>1, HistoryFrame DEF Receive, runVars, TypeOK
<1>3. ASSUME NEW r \in Requests, Load(r)
      PROVE  HistoryInv'
  <2>1. /\ r \notin Running /\ Running' = Running \cup {r}
        /\ checkpoint' = checkpoint
        /\ channel' = [channel EXCEPT ![r] = checkpoint]
        /\ met'[r] = Running
        /\ \A q \in Running : met'[q] = met[q] \cup {r}
        /\ \A q \in Requests : status'[q] = "answered" =>
             status[q] = "answered" /\ met'[q] = met[q] /\ q # r
    BY <1>0, <1>3 DEF Load, LoadNewest, Running, TypeOK
  <2>2. \A p, q \in Running' : p # q => q \in met'[p]
    BY <2>1 DEF HistoryInv
  <2>3. \A q \in Running' : met'[q] = {} => checkpoint' = channel'[q]
    BY <1>0, <2>1 DEF TypeOK
  <2>4. \A p \in Requests : status'[p] = "answered" /\ met'[p] = {} =>
          /\ Extends(checkpoint', channel'[p])
          /\ \A q \in Running' : Extends(channel'[q], channel'[p])
    <3> SUFFICES ASSUME NEW p \in Requests, status'[p] = "answered", met'[p] = {}
                 PROVE  /\ Extends(checkpoint, channel'[p])
                        /\ \A q \in Running' : Extends(channel'[q], channel'[p])
      BY <2>1
    <3>1. /\ Extends(checkpoint, channel[p])
          /\ \A q \in Running : Extends(channel[q], channel[p])
      BY <2>1 DEF HistoryInv
    <3>2. /\ channel'[r] = checkpoint
          /\ \A q \in Requests \ {r} : channel'[q] = channel[q]
      BY <1>0, <2>1 DEF TypeOK
    <3>3. p # r /\ \A q \in Running : q \in Requests \ {r}
      BY <2>1 DEF Running
    <3> QED
      BY <2>1, <3>1, <3>2, <3>3
  <2> QED
    BY <2>2, <2>3, <2>4 DEF HistoryInv
<1>4. ASSUME NEW r \in Requests, RunStep(r)
      PROVE  HistoryInv'
  <2>1. r \in Running /\ Writes(r) /\ UNCHANGED <<status, met>>
    BY <1>0, <1>4, NodeSteps DEF Running
  <2>2. Running' = Running
    BY <2>1 DEF Running
  <2>3. \A p \in Requests : status[p] = "answered" /\ met[p] = {} =>
          Extends(channel'[r], channel[p])
    <3>1. \A p \in Requests : status[p] = "answered" /\ met[p] = {} =>
            Extends(channel[r], channel[p])
      BY <2>1 DEF HistoryInv
    <3>2. CASE channel' = channel
      BY <3>1, <3>2
    <3>3. ASSUME NEW x \in Own(r),
                 channel' = [channel EXCEPT ![r] = Append(@, x)]
          PROVE  \A p \in Requests : status[p] = "answered" /\ met[p] = {} =>
                   Extends(channel'[r], channel[p])
      <4>1. x \in Text /\ channel \in [Requests -> Seq(Text)]
        BY <1>0 DEF Own, TypeOK
      <4>2. channel'[r] = Append(channel[r], x)
        BY <3>3, <4>1
      <4> QED
        BY <3>1, <4>1, <4>2, AppendExtends
    <3> QED
      BY <2>1, <3>2, <3>3 DEF Writes
  <2>4. /\ checkpoint' = channel'[r]
        /\ \A q \in Requests \ {r} : channel'[q] = channel[q]
    BY <1>0, <2>1 DEF Writes, TypeOK
  <2>5. \A p, q \in Running' : p # q => q \in met'[p]
    BY <2>1, <2>2 DEF HistoryInv
  <2>6. \A q \in Running' : met'[q] = {} => checkpoint' = channel'[q]
    BY <2>1, <2>2, <2>4 DEF HistoryInv
  <2>7. \A p \in Requests : status'[p] = "answered" /\ met'[p] = {} =>
          /\ Extends(checkpoint', channel'[p])
          /\ \A q \in Running' : Extends(channel'[q], channel'[p])
    <3>1. status[r] # "answered" /\ \A q \in Running : q \in Requests
      BY <2>1 DEF Running
    <3> QED
      BY <2>1, <2>2, <2>3, <2>4, <3>1 DEF HistoryInv
  <2> QED
    BY <2>5, <2>6, <2>7 DEF HistoryInv
<1>5. ASSUME NEW r \in Requests, Finish(r)
      PROVE  HistoryInv'
  <2>1. /\ r \in Running /\ Running' = Running \ {r}
        /\ UNCHANGED <<checkpoint, channel, met>>
        /\ \A p \in Requests \ {r} : status'[p] = status[p]
    BY <1>0, <1>5 DEF Finish, Running, TypeOK
  <2>2. met[r] = {} => Running' = {} /\ checkpoint = channel[r]
    BY <2>1 DEF HistoryInv
  <2>3. Extends(channel[r], channel[r])
    BY <1>0 DEF Extends, TypeOK
  <2>4. \A p \in Requests : status'[p] = "answered" /\ met'[p] = {} =>
          /\ Extends(checkpoint', channel'[p])
          /\ \A q \in Running' : Extends(channel'[q], channel'[p])
    BY <2>1, <2>2, <2>3 DEF HistoryInv
  <2> QED
    BY <2>1, <2>4 DEF HistoryInv
<1>6. ASSUME NEW rs \in SUBSET Requests, Ends(rs)
      PROVE  HistoryInv'
  BY <1>0, <1>6, HistoryFrame DEF Ends, Unanswered, TypeOK
<1>7. CASE UNCHANGED vars
  BY <1>7, HistoryFrame DEF vars
<1>8. ASSUME \/ \E r \in Requests : Fail(r) \/ ContextFails(r) \/ Disconnect(r)
             \/ Crash
      PROVE  HistoryInv'
  BY <1>0, <1>6, <1>8, Endings
<1> QED
  BY <1>1, <1>2, <1>3, <1>4, <1>5, <1>7, <1>8 DEF Next, Handling

\* A turn answered while it was alone is never lost from the history, whatever
\* any number of later turns do.
THEOREM HistoryIsKept == Spec => []AnsweredTurnsStay
<1>1. Init => TypeInv /\ HistoryInv
  BY DEF Init, TypeInv, TypeOK, Searchable, Status, Nodes, HistoryInv, Running
<1>2. TypeInv /\ HistoryInv /\ [Next]_vars => (TypeInv /\ HistoryInv)'
  BY TypeStep, HistoryStep
<1>3. HistoryInv => AnsweredTurnsStay
  BY DEF HistoryInv, AnsweredTurnsStay, Unmet
<1> QED
  BY <1>1, <1>2, <1>3, PTL DEF Spec

-----------------------------------------------------------------------------
(* Sockets.  A queue holds distinct messages that wait on its socket, at   *)
(* most one message of a socket is being handled, and a request that has   *)
(* not started met nobody.                                                 *)

Busy(r) == status[r] \in {"admitted", "running"}

Waits(r) == status[r] \in {"idle", "queued", "admitted"}

QueueInv ==
    \A s \in Sockets : \A i \in 1 .. Len(queue[s]) :
        /\ status[queue[s][i]] = "queued" /\ via[queue[s][i]] = s
        /\ \A j \in 1 .. Len(queue[s]) : queue[s][i] = queue[s][j] => i = j

BusyInv ==
    \A r, q \in Requests :
        Busy(r) /\ Busy(q) /\ via[r] \in Sockets /\ via[q] = via[r] => r = q

MetInv ==
    /\ \A r, q \in Requests : Waits(r) => met[r] = {} /\ r \notin met[q]
    /\ SocketTurnsAreSerial

SocketInv == QueueInv /\ BusyInv /\ MetInv

LEMMA QueueTypes ==
    ASSUME TypeOK
    PROVE  \A s \in Sockets : \A i \in 1 .. Len(queue[s]) : queue[s][i] \in Requests
BY DEF TypeOK

LEMMA QueueFrame ==
    ASSUME TypeOK, QueueInv, queue' = queue,
           \A r \in Requests : status[r] = "queued" =>
             status'[r] = "queued" /\ via'[r] = via[r]
    PROVE  QueueInv'
BY QueueTypes DEF QueueInv

LEMMA BusyFrame ==
    ASSUME BusyInv,
           \A r \in Requests : Busy(r)' =>
             (Busy(r) /\ via'[r] = via[r]) \/ via'[r] \notin Sockets
    PROVE  BusyInv'
BY DEF BusyInv

LEMMA MetFrame ==
    ASSUME MetInv,
           \A r \in Requests :
             /\ met'[r] \in {met[r], {}}
             /\ Waits(r)' => Waits(r)
             /\ via'[r] = via[r] \/ Waits(r) \/ via'[r] \notin Sockets
    PROVE  MetInv'
BY DEF MetInv, SocketTurnsAreSerial

LEMMA SocketStep ==
    ASSUME TypeInv, SocketInv, [Next]_vars
    PROVE  SocketInv'
<1>0. TypeOK /\ QueueInv /\ BusyInv /\ MetInv
  BY DEF TypeInv, SocketInv
<1>1. ASSUME NEW r \in Requests, Arrive(r)
      PROVE  SocketInv'
  <2>1. /\ queue' = queue /\ met' = met /\ status[r] = "idle"
        /\ status'[r] \in {"admitted", "unanswered"} /\ via'[r] \notin Sockets
        /\ \A q \in Requests \ {r} : status'[q] = status[q] /\ via'[q] = via[q]
    BY <1>0, <1>1, ConfigAssumption
       DEF Arrive, runVars, TypeOK, ConfigAssumption
  <2>2. QueueInv'
    BY <1>0, <2>1, QueueFrame
  <2>3. BusyInv'
    BY <1>0, <2>1, BusyFrame DEF Busy
  <2>4. MetInv'
    BY <1>0, <2>1, MetFrame DEF Waits
  <2> QED
    BY <2>2, <2>3, <2>4 DEF SocketInv
<1>2. ASSUME NEW r \in Requests, Send(r)
      PROVE  SocketInv'
  <2>1. PICK s \in open : /\ via' = [via EXCEPT ![r] = s]
                          /\ queue' = [queue EXCEPT ![s] = Append(@, r)]
    BY <1>2 DEF Send
  <2>2. /\ s \in Sockets /\ met' = met /\ status[r] = "idle"
        /\ status'[r] = "queued" /\ via'[r] = s
        /\ \A q \in Requests \ {r} : status'[q] = status[q] /\ via'[q] = via[q]
        /\ queue'[s] = Append(queue[s], r)
        /\ \A t \in Sockets \ {s} : queue'[t] = queue[t]
    BY <1>0, <1>2, <2>1 DEF Send, runVars, TypeOK
  <2>3. \A t \in Sockets : \A i \in 1 .. Len(queue[t]) :
          queue[t][i] \in Requests \ {r}
    <3>1. \A t \in Sockets : \A i \in 1 .. Len(queue[t]) :
            status[queue[t][i]] # status[r]
      BY <1>0, <2>2 DEF QueueInv
    <3> QED
      BY <1>0, <3>1, QueueTypes
  <2>4. QueueInv'
    <3> SUFFICES ASSUME NEW t \in Sockets, NEW i \in 1 .. Len(queue'[t])
                 PROVE  /\ status'[queue'[t][i]] = "queued"
                        /\ via'[queue'[t][i]] = t
                        /\ \A j \in 1 .. Len(queue'[t]) :
                             queue'[t][i] = queue'[t][j] => i = j
      BY DEF QueueInv
    <3>1. CASE t # s
      BY <1>0, <2>2, <2>3, <3>1 DEF QueueInv
    <3>2. CASE t = s
      <4>1. queue[s] \in Seq(Requests)
        BY <1>0, <2>2 DEF TypeOK
      <4>2. \A j \in 1 .. Len(queue'[s]) :
              \/ j \in 1 .. Len(queue[s]) /\ queue'[s][j] = queue[s][j]
              \/ j = Len(queue[s]) + 1 /\ queue'[s][j] = r
        BY <2>2, <4>1
      <4>3. status'[queue'[s][i]] = "queued" /\ via'[queue'[s][i]] = s
        BY <1>0, <2>2, <2>3, <3>2, <4>2 DEF QueueInv
      <4>4. ASSUME NEW j \in 1 .. Len(queue'[s]), queue'[s][i] = queue'[s][j]
            PROVE  i = j
        <5>1. CASE i \in 1 .. Len(queue[s]) /\ queue'[s][i] = queue[s][i]
          <6>1. queue[s][i] # r
            BY <2>2, <2>3, <5>1
          <6>2. j \in 1 .. Len(queue[s]) /\ queue'[s][j] = queue[s][j]
            BY <4>2, <4>4, <5>1, <6>1
          <6>3. queue[s][i] = queue[s][j]
            BY <4>4, <5>1, <6>2
          <6>4. \A k \in 1 .. Len(queue[s]) : queue[s][i] = queue[s][k] => i = k
            BY <1>0, <2>2, <5>1 DEF QueueInv
          <6> QED
            BY <6>2, <6>3, <6>4
        <5>2. CASE i = Len(queue[s]) + 1 /\ queue'[s][i] = r
          BY <2>2, <2>3, <4>2, <4>4, <5>2
        <5> QED
          BY <3>2, <4>2, <5>1, <5>2
      <4> QED
        BY <3>2, <4>3, <4>4
    <3> QED
      BY <3>1, <3>2
  <2>5. BusyInv'
    BY <1>0, <2>2, BusyFrame DEF Busy
  <2>6. MetInv'
    BY <1>0, <2>2, MetFrame DEF Waits
  <2> QED
    BY <2>4, <2>5, <2>6 DEF SocketInv
<1>3. ASSUME NEW s \in Sockets, Receive(s)
      PROVE  SocketInv'
  <2> DEFINE r == Head(queue[s])
  <2>1. /\ r \in Requests /\ status[r] = "queued" /\ via[r] = s
        /\ \A q \in Requests : via[q] = s => ~Busy(q)
    BY <1>0, <1>3 DEF Receive, LoopIsFree, Busy, QueueInv, TypeOK
  <2>2. /\ status'[r] \in {"admitted", "unanswered"}
        /\ \A q \in Requests \ {r} : status'[q] = status[q]
        /\ via' = via /\ met' = met
        /\ queue'[s] = Tail(queue[s]) /\ queue[s] \in Seq(Requests)
        /\ queue[s] # <<>>
        /\ \A t \in Sockets \ {s} : queue'[t] = queue[t]
    BY <1>0, <1>3, <2>1 DEF Receive, runVars, TypeOK
  <2>3. \A i \in 1 .. Len(queue'[s]) :
          /\ i + 1 \in 1 .. Len(queue[s]) /\ queue'[s][i] = queue[s][i + 1]
          /\ queue'[s][i] \in Requests /\ queue'[s][i] # r
    <3>1. \A i \in 1 .. Len(queue'[s]) :
            /\ i + 1 \in 1 .. Len(queue[s]) /\ queue'[s][i] = queue[s][i + 1]
            /\ queue'[s][i] \in Requests
      BY <2>2
    <3>2. 1 \in 1 .. Len(queue[s]) /\ r = queue[s][1]
      BY <2>2
    <3>3. \A j \in 1 .. Len(queue[s]) : queue[s][1] = queue[s][j] => 1 = j
      BY <1>0, <3>2 DEF QueueInv
    <3>4. \A i \in 1 .. Len(queue'[s]) : i + 1 # 1
      OBVIOUS
    <3> QED
      BY <3>1, <3>2, <3>3, <3>4
  <2>4. QueueInv'
    <3>0. \A t \in Sockets \ {s} : \A i \in 1 .. Len(queue[t]) :
            queue[t][i] \in Requests \ {r}
      <4> HIDE DEF r
      <4>1. \A t \in Sockets \ {s} : \A i \in 1 .. Len(queue[t]) :
              via[queue[t][i]] # via[r]
        BY <1>0, <2>1 DEF QueueInv
      <4> QED
        BY <1>0, <4>1, QueueTypes
    <3> SUFFICES ASSUME NEW t \in Sockets, NEW i \in 1 .. Len(queue'[t])
                 PROVE  /\ status'[queue'[t][i]] = "queued"
                        /\ via'[queue'[t][i]] = t
                        /\ \A j \in 1 .. Len(queue'[t]) :
                             queue'[t][i] = queue'[t][j] => i = j
      BY DEF QueueInv
    <3>1. CASE t # s
      <4>1. queue'[t] = queue[t] /\ queue[t][i] \in Requests \ {r}
        BY <2>2, <3>0, <3>1
      <4> HIDE DEF r
      <4> QED
        BY <1>0, <2>2, <4>1 DEF QueueInv
    <3>2. CASE t = s
      <4>1. /\ status'[queue'[s][i]] = status[queue[s][i + 1]]
            /\ via'[queue'[s][i]] = via[queue[s][i + 1]]
        BY <2>2, <2>3, <3>2
      <4>2. /\ status[queue[s][i + 1]] = "queued" /\ via[queue[s][i + 1]] = s
            /\ \A j \in 1 .. Len(queue[s]) :
                 queue[s][i + 1] = queue[s][j] => i + 1 = j
        BY <1>0, <2>3, <3>2 DEF QueueInv
      <4>3. \A j \in 1 .. Len(queue'[s]) :
              queue'[s][i] = queue'[s][j] => i + 1 = j + 1
        BY <2>3, <3>2, <4>2
      <4> QED
        BY <3>2, <4>1, <4>2, <4>3
    <3> QED
      BY <3>1, <3>2
  <2> HIDE DEF r
  <2>5. BusyInv'
    <3> SUFFICES ASSUME NEW p \in Requests, NEW q \in Requests,
                        Busy(p)', Busy(q)', via[p] \in Sockets, via[q] = via[p]
                 PROVE  p = q
      BY <2>2 DEF BusyInv
    <3>1. (p = r \/ Busy(p)) /\ (q = r \/ Busy(q))
      BY <2>2 DEF Busy
    <3> QED
      BY <1>0, <2>1, <3>1 DEF BusyInv
  <2>6. MetInv'
    BY <1>0, <2>1, <2>2, MetFrame DEF Waits
  <2> QED
    BY <2>4, <2>5, <2>6 DEF SocketInv
<1>4. ASSUME NEW r \in Requests, Load(r)
      PROVE  SocketInv'
  <2>1. /\ queue' = queue /\ via' = via
        /\ status[r] = "admitted" /\ status'[r] = "running"
        /\ \A q \in Requests \ {r} : status'[q] = status[q]
        /\ met'[r] = Running /\ r \notin Running
        /\ \A q \in Requests \ {r} :
             IF status[q] = "running" THEN met'[q] = met[q] \cup {r}
             ELSE met'[q] = met[q]
    BY <1>0, <1>4 DEF Load, clientVars, Running, TypeOK
  <2>2. QueueInv'
    BY <1>0, <2>1, QueueFrame
  <2>3. BusyInv'
    BY <1>0, <2>1, BusyFrame DEF Busy
  <2>4. SocketTurnsAreSerial'
    <3> SUFFICES ASSUME NEW p \in Requests, NEW q \in Requests,
                        via[p] \in Sockets, via[q] = via[p]
                 PROVE  q \notin met'[p]
      BY <2>1 DEF SocketTurnsAreSerial
    <3>1. q \notin met[p]
      BY <1>0 DEF MetInv, SocketTurnsAreSerial
    <3>2. \A x \in Requests : x # r /\ status[x] = "running" /\ via[x] \in Sockets
                                => via[x] # via[r]
      BY <1>0, <2>1 DEF BusyInv, Busy
    <3> QED
      BY <2>1, <3>1, <3>2 DEF Running
  <2>5. \A p, q \in Requests : Waits(p)' => met'[p] = {} /\ p \notin met'[q]
    BY <1>0, <2>1 DEF MetInv, Waits, Running
  <2> QED
    BY <2>2, <2>3, <2>4, <2>5 DEF SocketInv, MetInv
<1>5. ASSUME queue' = queue /\ via' = via /\ met' = met,
             \A r \in Requests : \/ status'[r] = status[r]
                                 \/ status[r] = "running" /\ status'[r] = "answered"
      PROVE  SocketInv'
  <2>1. QueueInv'
    BY <1>0, <1>5, QueueFrame
  <2>2. BusyInv'
    BY <1>0, <1>5, BusyFrame DEF Busy
  <2>3. MetInv'
    BY <1>0, <1>5, MetFrame DEF Waits
  <2> QED
    BY <2>1, <2>2, <2>3 DEF SocketInv
<1>6. ASSUME NEW r \in Requests, RunStep(r) \/ Finish(r)
      PROVE  SocketInv'
  BY <1>0, <1>5, <1>6, NodeSteps DEF Finish, clientVars, TypeOK
<1>7. ASSUME NEW rs \in SUBSET Requests, Ends(rs),
             \A r \in rs : status[r] \in Pending,
             \A r \in rs : status[r] = "queued" /\ via[r] \in Sockets
                             => queue'[via[r]] = <<>>
      PROVE  SocketInv'
  <2>1. /\ \A r \in rs : status'[r] = "unanswered" /\ via'[r] = "none" /\ met'[r] = {}
        /\ \A r \in Requests \ rs : /\ status'[r] = status[r] /\ via'[r] = via[r]
                                    /\ met'[r] = met[r]
    BY <1>7 DEF Ends, Unanswered
  <2>2. "none" \notin Sockets
    BY ConfigAssumption DEF ConfigAssumption
  <2>3. BusyInv'
    BY <1>0, <2>1, <2>2, BusyFrame DEF Busy
  <2>4. MetInv'
    BY <1>0, <2>1, <2>2, MetFrame DEF Waits
  <2>5. \A s \in Sockets : queue'[s] \in {queue[s], <<>>}
    BY <1>0, <1>7 DEF Ends, TypeOK
  <2>6. QueueInv'
    <3> SUFFICES ASSUME NEW s \in Sockets, queue'[s] = queue[s],
                        NEW i \in 1 .. Len(queue[s])
                 PROVE  /\ status'[queue[s][i]] = "queued"
                        /\ via'[queue[s][i]] = s
                        /\ \A j \in 1 .. Len(queue[s]) :
                             queue[s][i] = queue[s][j] => i = j
      BY <2>5 DEF QueueInv
    <3>1. /\ queue[s][i] \in Requests /\ queue'[s] # <<>>
          /\ status[queue[s][i]] = "queued" /\ via[queue[s][i]] = s
      BY <1>0 DEF QueueInv, TypeOK
    <3>2. queue[s][i] \notin rs
      BY <1>7, <3>1
    <3> QED
      BY <1>0, <2>1, <3>1, <3>2 DEF QueueInv
  <2> QED
    BY <2>3, <2>4, <2>6 DEF SocketInv
<1>8. CASE UNCHANGED vars
  BY <1>5, <1>8 DEF vars
<1>9. ASSUME \/ \E r \in Requests : Fail(r) \/ ContextFails(r) \/ Disconnect(r)
             \/ Crash
      PROVE  SocketInv'
  BY <1>0, <1>7, <1>9, Endings
<1> QED
  BY <1>1, <1>2, <1>3, <1>4, <1>6, <1>8, <1>9 DEF Next, Handling

LEMMA SocketInit == Init => SocketInv
BY DEF Init, SocketInv, QueueInv, BusyInv, Busy, MetInv, SocketTurnsAreSerial

\* The turns of one socket are handled one after the other, for any number of
\* sockets and of messages sent ahead.
THEOREM SocketsAreSerial == Spec => []SocketTurnsAreSerial
<1>1. Init => TypeInv /\ SocketInv
  BY SocketInit DEF Init, TypeInv, TypeOK, Searchable, Status, Nodes
<1>2. TypeInv /\ SocketInv /\ [Next]_vars => (TypeInv /\ SocketInv)'
  BY TypeStep, SocketStep
<1>3. SocketInv => SocketTurnsAreSerial
  BY DEF SocketInv, MetInv
<1> QED
  BY <1>1, <1>2, <1>3, PTL DEF Spec

-----------------------------------------------------------------------------
(* The sockets' queues implement lines.  No message is lost on the way: a  *)
(* request that is queued is in the queue of its socket, and one that is   *)
(* not yet sent has no transport.                                          *)

InQueue(r, s) == \E i \in 1 .. Len(queue[s]) : queue[s][i] = r

QueuedInv ==
    \A r \in Requests : status[r] = "queued" =>
        via[r] \in Sockets /\ InQueue(r, via[r])

LineInv == TypeInv /\ SocketInv /\ QueuedInv

\* A step that leaves the queues alone and queues nothing.
LEMMA QueuedFrame ==
    ASSUME QueuedInv, queue' = queue,
           \A r \in Requests : status'[r] = "queued" =>
             status[r] = "queued" /\ via'[r] = via[r]
    PROVE  QueuedInv'
BY DEF QueuedInv, InQueue

\* Appending keeps what is there, and receiving takes the head only.
LEMMA QueuedStep ==
    ASSUME LineInv, [Next]_vars
    PROVE  QueuedInv'
<1>0. TypeOK /\ QueueInv /\ BusyInv /\ QueuedInv
  BY DEF LineInv, TypeInv, SocketInv
<1>1. ASSUME NEW r \in Requests, Arrive(r)
      PROVE  QueuedInv'
  BY <1>0, <1>1, QueuedFrame DEF Arrive, TypeOK
<1>2. ASSUME NEW r \in Requests, Send(r)
      PROVE  QueuedInv'
  <2>1. PICK s \in open : /\ via' = [via EXCEPT ![r] = s]
                          /\ queue' = [queue EXCEPT ![s] = Append(@, r)]
    BY <1>2 DEF Send
  <2>2. /\ s \in Sockets /\ via'[r] = s /\ queue[s] \in Seq(Requests)
        /\ \A q \in Requests \ {r} : status'[q] = status[q] /\ via'[q] = via[q]
        /\ queue'[s] = Append(queue[s], r)
        /\ \A t \in Sockets \ {s} : queue'[t] = queue[t]
    BY <1>0, <1>2, <2>1 DEF Send, TypeOK
  <2>3. /\ Len(queue'[s]) = Len(queue[s]) + 1 /\ queue'[s][Len(queue[s]) + 1] = r
        /\ \A i \in 1 .. Len(queue[s]) : queue'[s][i] = queue[s][i]
        /\ Len(queue[s]) \in Nat
    BY <2>2
  <2>4. InQueue(r, s)'
    BY <2>3 DEF InQueue
  <2>5. ASSUME NEW q \in Requests, NEW t \in Sockets, InQueue(q, t)
        PROVE  InQueue(q, t)'
    <3>1. CASE t = s
      <4>1. PICK i \in 1 .. Len(queue[s]) : queue[s][i] = q
        BY <2>5, <3>1 DEF InQueue
      <4>2. i \in 1 .. Len(queue'[s]) /\ queue'[s][i] = q
        BY <2>3, <4>1
      <4> QED
        BY <3>1, <4>2 DEF InQueue
    <3>2. CASE t # s
      BY <2>2, <2>5, <3>2 DEF InQueue
    <3> QED
      BY <3>1, <3>2
  <2>6. ASSUME NEW q \in Requests, status'[q] = "queued", q # r
        PROVE  via'[q] \in Sockets /\ InQueue(q, via[q])' /\ via'[q] = via[q]
    BY <1>0, <2>2, <2>5, <2>6 DEF QueuedInv
  <2> QED
    BY <2>2, <2>4, <2>6 DEF QueuedInv, InQueue
<1>3. ASSUME NEW s \in Sockets, Receive(s)
      PROVE  QueuedInv'
  <2> DEFINE h == Head(queue[s])
  <2>1. /\ h \in Requests /\ status'[h] # "queued"
        /\ \A q \in Requests \ {h} : status'[q] = status[q]
        /\ via' = via /\ queue[s] \in Seq(Requests) /\ queue[s] # <<>>
        /\ queue'[s] = Tail(queue[s])
        /\ \A t \in Sockets \ {s} : queue'[t] = queue[t]
    BY <1>0, <1>3 DEF Receive, TypeOK
  <2>2. ASSUME NEW q \in Requests, q # h, InQueue(q, s)
        PROVE  InQueue(q, s)'
    <3>1. PICK i \in 1 .. Len(queue[s]) : queue[s][i] = q
      BY <2>2 DEF InQueue
    <3>2. i # 1
      BY <2>1, <2>2, <3>1
    <3>3. i - 1 \in 1 .. Len(queue'[s]) /\ queue'[s][i - 1] = queue[s][i]
      BY <2>1, <3>1, <3>2
    <3> QED
      BY <3>1, <3>3 DEF InQueue
  <2> HIDE DEF h
  <2>3. ASSUME NEW q \in Requests, status'[q] = "queued"
        PROVE  via[q] \in Sockets /\ InQueue(q, via[q])'
    <3>1. q # h /\ status[q] = "queued"
      BY <2>1, <2>3
    <3>2. via[q] \in Sockets /\ InQueue(q, via[q])
      BY <1>0, <3>1 DEF QueuedInv
    <3> QED
      BY <2>1, <2>2, <3>1, <3>2 DEF InQueue
  <2> QED
    BY <2>1, <2>3 DEF QueuedInv, InQueue
<1>4. ASSUME NEW r \in Requests, Load(r) \/ RunStep(r) \/ Finish(r)
      PROVE  QueuedInv'
  <2>1. queue' = queue /\ via' = via
        /\ \A q \in Requests : status'[q] = "queued" => status[q] = "queued"
    BY <1>0, <1>4, NodeSteps DEF Load, Finish, clientVars, TypeOK
  <2> QED
    BY <1>0, <2>1, QueuedFrame
<1>5. ASSUME NEW r \in Requests, Fail(r)
      PROVE  QueuedInv'
  BY <1>0, <1>5, QueuedFrame DEF Fail, Unanswered
<1>6. ASSUME NEW r \in Requests, ContextFails(r) \/ Disconnect(r)
      PROVE  QueuedInv'
  <2>1. Hangup(r)
    BY <1>6 DEF ContextFails, Disconnect
  <2>2. CASE via[r] \in Sockets
    <3>1. /\ \A q \in Requests : status'[q] = "queued" =>
               status[q] = "queued" /\ via'[q] = via[q] /\ via[q] # via[r]
          /\ \A t \in Sockets \ {via[r]} : queue'[t] = queue[t]
      BY <1>0, <2>1, <2>2 DEF Hangup, Unanswered, Waiting, TypeOK
    <3> QED
      BY <1>0, <3>1 DEF QueuedInv, InQueue
  <2>3. CASE via[r] \notin Sockets
    BY <1>0, <2>1, <2>3, QueuedFrame DEF Hangup, Unanswered
  <2> QED
    BY <2>2, <2>3
<1>7. CASE Crash
  BY <1>7 DEF Crash, Unanswered, Pending, QueuedInv
<1>8. CASE UNCHANGED vars
  BY <1>0, <1>8, QueuedFrame DEF vars
<1> QED
  BY <1>1, <1>2, <1>3, <1>4, <1>5, <1>6, <1>7, <1>8 DEF Next, Handling

\* A line of one message and a queue behind it.
LEMMA LineOf ==
    ASSUME NEW r \in Requests, NEW q \in Seq(Requests),
           NEW l, l = <<r>> \o q
    PROVE  /\ l # <<>> /\ Head(l) = r /\ Tail(l) = q
           /\ \A x \in Requests : Append(l, x) = <<r>> \o Append(q, x)
           /\ \A x : (\E i \in 1 .. Len(l) : l[i] = x)
                      <=> x = r \/ \E i \in 1 .. Len(q) : q[i] = x
<1>1. /\ l \in Seq(Requests) /\ Len(l) = Len(q) + 1 /\ l[1] = r
      /\ \A i \in 1 .. Len(q) : l[i + 1] = q[i]
  OBVIOUS
<1>2. l # <<>> /\ Head(l) = r
  BY <1>1
<1>3. Tail(l) = q
  <2>1. Tail(l) \in Seq(Requests) /\ Len(Tail(l)) = Len(q)
    BY <1>1, <1>2
  <2>2. \A i \in 1 .. Len(q) : Tail(l)[i] = l[i + 1]
    BY <1>1, <1>2
  <2> QED
    BY <1>1, <2>1, <2>2
<1>4. ASSUME NEW x \in Requests
      PROVE  Append(l, x) = <<r>> \o Append(q, x)
  <2>1. /\ Append(l, x) \in Seq(Requests) /\ Len(Append(l, x)) = Len(q) + 2
        /\ Append(l, x)[1] = r /\ Append(l, x)[Len(q) + 2] = x
        /\ \A i \in 1 .. Len(q) : Append(l, x)[i + 1] = q[i]
    BY <1>1
  <2>2. LET k == <<r>> \o Append(q, x)
        IN  /\ k \in Seq(Requests) /\ Len(k) = Len(q) + 2
            /\ k[1] = r /\ k[Len(q) + 2] = x
            /\ \A i \in 1 .. Len(q) : k[i + 1] = q[i]
    OBVIOUS
  <2>3. \A i \in 1 .. Len(q) + 2 : i = 1 \/ i = Len(q) + 2 \/ \E j \in 1 .. Len(q) : i = j + 1
    <3> SUFFICES ASSUME NEW i \in 1 .. Len(q) + 2, i # 1, i # Len(q) + 2
                 PROVE  \E j \in 1 .. Len(q) : i = j + 1
      OBVIOUS
    <3>1. i - 1 \in 1 .. Len(q) /\ i = (i - 1) + 1
      OBVIOUS
    <3> QED
      BY <3>1
  <2> QED
    BY <2>1, <2>2, <2>3
<1>5. \A x : (\E i \in 1 .. Len(l) : l[i] = x)
             <=> x = r \/ \E i \in 1 .. Len(q) : q[i] = x
  <2>1. \A i \in 1 .. Len(l) : i = 1 \/ (i - 1 \in 1 .. Len(q) /\ l[i] = q[i - 1])
    BY <1>1
  <2>2. \A i \in 1 .. Len(q) : i + 1 \in 1 .. Len(l)
    BY <1>1
  <2>3. 1 \in 1 .. Len(l)
    BY <1>1
  <2> QED
    BY <1>1, <2>1, <2>2, <2>3
<1> QED
  BY <1>1, <1>2, <1>3, <1>4, <1>5

\* A queue is its head with its tail behind it.
LEMMA HeadAndTail ==
    ASSUME NEW S, NEW q \in Seq(S), q # <<>>
    PROVE  Head(q) \in S /\ Tail(q) \in Seq(S) /\ <<Head(q)>> \o Tail(q) = q
<1> DEFINE k == <<Head(q)>> \o Tail(q)
<1>1. Head(q) \in S /\ Tail(q) \in Seq(S) /\ Len(Tail(q)) = Len(q) - 1 /\ Len(q) \in Nat \ {0}
  OBVIOUS
<1>2. /\ k \in Seq(S) /\ Len(k) = Len(q) /\ k[1] = q[1]
      /\ \A i \in 1 .. Len(q) - 1 : k[i + 1] = q[i + 1]
  BY <1>1
<1>3. \A i \in 1 .. Len(q) : i = 1 \/ \E j \in 1 .. Len(q) - 1 : i = j + 1
  <2> SUFFICES ASSUME NEW i \in 1 .. Len(q), i # 1
               PROVE  \E j \in 1 .. Len(q) - 1 : i = j + 1
    OBVIOUS
  <2>1. i - 1 \in 1 .. Len(q) - 1 /\ i = (i - 1) + 1
    BY <1>1
  <2> QED
    BY <2>1
<1> QED
  BY <1>1, <1>2, <1>3

\* At most one message of a socket is at work, and it is first in line.
LEMMA FirstInLine ==
    ASSUME LineInv, NEW r \in Requests, Busy(r), via[r] \in Sockets
    PROVE  /\ AtWork(via[r]) = {r} /\ Line[via[r]] = <<r>> \o queue[via[r]]
           /\ queue[via[r]] \in Seq(Requests)
<1>1. AtWork(via[r]) = {r}
  BY DEF AtWork, LineInv, SocketInv, BusyInv, Busy
<1>2. (CHOOSE q \in {r} : TRUE) = r
  OBVIOUS
<1> QED
  BY <1>1, <1>2 DEF Line, LineInv, TypeInv, TypeOK

\* A line is what its socket is at work on and its queue.
LEMMA LinesAsBefore ==
    ASSUME NEW A \in SUBSET Sockets,
           \A s \in A : AtWork(s)' = AtWork(s) /\ queue'[s] = queue[s]
    PROVE  \A s \in A : Line'[s] = Line[s]
BY DEF Line

\* The lines are the same when each of them is.
LEMMA SameLine ==
    ASSUME \A s \in Sockets : Line'[s] = Line[s]
    PROVE  Line' = Line
BY DEF Line

\* The lines differ in one place when one of them does.
LEMMA OneLine ==
    ASSUME NEW s \in Sockets, NEW l, Line'[s] = l,
           \A t \in Sockets \ {s} : Line'[t] = Line[t]
    PROVE  Line' = [Line EXCEPT ![s] = l]
<1>1. DOMAIN Line' = Sockets /\ Line' = [t \in Sockets |-> Line'[t]]
  BY DEF Line
<1>2. [Line EXCEPT ![s] = l] = [t \in Sockets |-> IF t = s THEN l ELSE Line[t]]
  BY DEF Line
<1> QED
  BY <1>1, <1>2

LineState == <<Outcome, Line, open>>

\* The request at the head of its line, or alone, is settled.
LEMMA OneSettles ==
    ASSUME LineInv, NEW r \in Requests, Busy(r), NEW how \in {"answered", "unanswered"},
           \A q \in Requests \ {r} : status'[q] = status[q] /\ via'[q] = via[q],
           status'[r] = how, how = "answered" => via'[r] = via[r],
           queue' = queue, open' = open
    PROVE  Lines!Next
<1> DEFINE end == IF how = "answered" THEN "answered" ELSE "dropped"
<1>1. \A s \in Sockets : AtWork(s)' = AtWork(s) \ {r}
  BY DEF AtWork
<1>2. Outcome' = [Outcome EXCEPT ![r] = end]
  BY DEF Outcome, Pending
<1>3. end \in Lines!Settled
  BY DEF Lines!Settled
<1>4. CASE via[r] \in Sockets
  <2>0. PICK s \in Sockets : via[r] = s
    BY <1>4
  <2>1. AtWork(s) = {r} /\ Line[s] = <<r>> \o queue[s] /\ queue[s] \in Seq(Requests)
    BY <2>0, FirstInLine
  <2>2. Line[s] # <<>> /\ Head(Line[s]) = r /\ Tail(Line[s]) = queue[s]
    BY <2>1, LineOf
  <2>3. Line'[s] = queue[s]
    BY <1>1, <2>1 DEF Line
  <2>4. \A t \in Sockets \ {s} : AtWork(t)' = AtWork(t)
    BY <1>1, <2>0 DEF AtWork
  <2>5. \A t \in Sockets \ {s} : Line'[t] = Line[t]
    BY <2>4, LinesAsBefore
  <2>6. Line' = [Line EXCEPT ![s] = Tail(Line[s])]
    BY <2>2, <2>3, <2>5, OneLine
  <2>7. Outcome[r] = "inline"
    BY <1>4 DEF Outcome, Busy, Pending
  <2>8. Lines!Settle(s, end)
    BY <1>2, <2>2, <2>6, <2>7 DEF Lines!Settle
  <2> QED
    BY <1>3, <2>8 DEF Lines!Next
<1>5. CASE via[r] \notin Sockets
  <2>1. \A t \in Sockets : AtWork(t)' = AtWork(t)
    BY <1>1, <1>5 DEF AtWork
  <2>2. \A t \in Sockets : Line'[t] = Line[t]
    BY <2>1, LinesAsBefore
  <2>3. Line' = Line
    BY <2>2, SameLine
  <2>4. Outcome[r] = "alone"
    BY <1>5 DEF Outcome, Busy, Pending
  <2>5. Lines!SettleAlone(r, end)
    BY <1>2, <2>3, <2>4 DEF Lines!SettleAlone
  <2> QED
    BY <1>3, <2>5 DEF Lines!Next
<1> QED
  BY <1>4, <1>5

\* Every step of the chat API is a step of the lines, or none.
LEMMA LineStep ==
    ASSUME LineInv, [Next]_vars
    PROVE  Lines!Next \/ UNCHANGED LineState
<1>0. TypeOK /\ QueueInv /\ BusyInv /\ QueuedInv
  BY DEF LineInv, TypeInv, SocketInv
<1>1. ASSUME NEW r \in Requests, Arrive(r)
      PROVE  Lines!Next
  <2>1. /\ queue' = queue /\ open' = open /\ status[r] = "idle"
        /\ status'[r] \in {"admitted", "unanswered"} /\ via'[r] \notin Sockets
        /\ \A q \in Requests \ {r} : status'[q] = status[q] /\ via'[q] = via[q]
    BY <1>0, <1>1, ConfigAssumption DEF Arrive, TypeOK, ConfigAssumption
  <2>2. \A t \in Sockets : AtWork(t)' = AtWork(t)
    BY <2>1 DEF AtWork
  <2>3. \A t \in Sockets : Line'[t] = Line[t]
    BY <2>1, <2>2, LinesAsBefore
  <2>4. Line' = Line
    BY <2>3, SameLine
  <2>5. /\ Outcome[r] = "unsent"
        /\ \E how \in {"alone", "dropped"} : Outcome' = [Outcome EXCEPT ![r] = how]
    BY <2>1 DEF Outcome, Pending
  <2>6. Lines!ComeAlone(r)
    BY <2>1, <2>4, <2>5 DEF Lines!ComeAlone
  <2> QED
    BY <2>6 DEF Lines!Next
<1>2. ASSUME NEW r \in Requests, Send(r)
      PROVE  Lines!Next
  <2>1. PICK s \in open : /\ via' = [via EXCEPT ![r] = s]
                          /\ queue' = [queue EXCEPT ![s] = Append(@, r)]
    BY <1>2 DEF Send
  <2>2. /\ s \in Sockets /\ status[r] = "idle" /\ open' = open
        /\ status'[r] = "queued" /\ via'[r] = s /\ queue[s] \in Seq(Requests)
        /\ \A q \in Requests \ {r} : status'[q] = status[q] /\ via'[q] = via[q]
        /\ queue'[s] = Append(queue[s], r)
        /\ \A t \in Sockets \ {s} : queue'[t] = queue[t]
    BY <1>0, <1>2, <2>1 DEF Send, TypeOK
  <2>3. \A t \in Sockets : AtWork(t)' = AtWork(t)
    BY <2>2 DEF AtWork
  <2>4. \A t \in Sockets \ {s} : Line'[t] = Line[t]
    BY <2>2, <2>3, LinesAsBefore
  <2>5. Line'[s] = Append(Line[s], r)
    <3>1. CASE AtWork(s) = {}
      BY <2>2, <2>3, <3>1 DEF Line
    <3>2. CASE AtWork(s) # {}
      <4> DEFINE w == CHOOSE q \in AtWork(s) : TRUE
      <4>1. w \in Requests
        BY <3>2 DEF AtWork
      <4>2. Line[s] = <<w>> \o queue[s] /\ Line'[s] = <<w>> \o queue'[s]
        BY <2>2, <2>3, <3>2 DEF Line
      <4> QED
        BY <2>2, <4>1, <4>2, LineOf
    <3> QED
      BY <3>1, <3>2
  <2>6. Line' = [Line EXCEPT ![s] = Append(Line[s], r)]
    BY <2>2, <2>4, <2>5, OneLine
  <2>7. Outcome[r] = "unsent" /\ Outcome' = [Outcome EXCEPT ![r] = "inline"]
    BY <2>2 DEF Outcome, Pending
  <2>8. Lines!Join(r, s)
    BY <2>1, <2>2, <2>6, <2>7 DEF Lines!Join
  <2> QED
    BY <2>2, <2>8 DEF Lines!Next
<1>3. ASSUME NEW s \in Sockets, Receive(s)
      PROVE  Lines!Next \/ UNCHANGED LineState
  <2> DEFINE h == Head(queue[s])
  <2>1. /\ queue[s] \in Seq(Requests) /\ queue[s] # <<>> /\ h \in Requests
        /\ status[h] = "queued" /\ via[h] = s
        /\ \A q \in Requests \ {h} : status'[q] = status[q]
        /\ via' = via /\ queue'[s] = Tail(queue[s]) /\ open' = open
        /\ \A t \in Sockets \ {s} : queue'[t] = queue[t]
    BY <1>0, <1>3 DEF Receive, QueueInv, TypeOK, LoopContinues
  <2>2. Head(queue[s]) \in Requests /\ <<h>> \o Tail(queue[s]) = queue[s]
    BY <2>1, HeadAndTail
  <2>3. AtWork(s) = {}
    BY <1>3 DEF Receive, LoopIsFree, AtWork
  <2>4. \A t \in Sockets \ {s} : AtWork(t)' = AtWork(t)
    <3> HIDE DEF h
    <3> QED
      BY <2>1 DEF AtWork
  <2>5. \A t \in Sockets \ {s} : Line'[t] = Line[t]
    BY <2>1, <2>4, LinesAsBefore
  <2>6. Line[s] = queue[s]
    BY <2>3 DEF Line
  <2>7. CASE status'[h] = "admitted"
    <3>1. AtWork(s)' = {h}
      <4> HIDE DEF h
      <4> QED
        BY <2>1, <2>3, <2>7 DEF AtWork
    <3>2. (CHOOSE q \in {h} : TRUE) = h
      OBVIOUS
    <3>3. Line'[s] = <<h>> \o queue'[s]
      BY <3>1, <3>2 DEF Line
    <3>4. Line' = Line
      <4>1. Line'[s] = Line[s]
        BY <2>1, <2>2, <2>6, <3>3
      <4> QED
        BY <2>5, <4>1, SameLine
    <3>5. Outcome' = Outcome
      <4> HIDE DEF h
      <4> QED
        BY <2>1, <2>7 DEF Outcome, Pending
    <3> QED
      BY <2>1, <3>4, <3>5 DEF LineState
  <2>8. CASE status'[h] = "unanswered"
    <3>1. AtWork(s)' = {}
      <4> HIDE DEF h
      <4> QED
        BY <2>1, <2>3, <2>8 DEF AtWork
    <3>2. Line'[s] = Tail(Line[s])
      BY <2>1, <2>6, <3>1 DEF Line
    <3>3. Line' = [Line EXCEPT ![s] = Tail(Line[s])]
      BY <2>5, <3>2, OneLine
    <3>4. Outcome[h] = "inline" /\ Outcome' = [Outcome EXCEPT ![h] = "dropped"]
      <4> HIDE DEF h
      <4> QED
        BY <2>1, <2>8 DEF Outcome, Pending
    <3>5. Lines!Settle(s, "dropped")
      BY <2>1, <2>6, <3>3, <3>4 DEF Lines!Settle
    <3> QED
      BY <3>5 DEF Lines!Next, Lines!Settled
  <2>9. status'[h] \in {"admitted", "unanswered"}
    BY <1>0, <1>3, <2>1 DEF Receive, TypeOK
  <2> QED
    BY <2>7, <2>8, <2>9
<1>4. ASSUME queue' = queue, open' = open, via' = via,
             \A q \in Requests : \/ status'[q] = status[q]
                                 \/ status[q] = "admitted" /\ status'[q] = "running"
      PROVE  UNCHANGED LineState
  <2>1. \A t \in Sockets : AtWork(t)' = AtWork(t)
    BY <1>4 DEF AtWork
  <2>2. \A t \in Sockets : Line'[t] = Line[t]
    BY <1>4, <2>1, LinesAsBefore
  <2>3. Line' = Line
    BY <2>2, SameLine
  <2>4. Outcome' = Outcome
    BY <1>4 DEF Outcome, Pending
  <2> QED
    BY <1>4, <2>3, <2>4 DEF LineState
<1>5. ASSUME NEW r \in Requests, Load(r)
      PROVE  UNCHANGED LineState
  BY <1>0, <1>4, <1>5 DEF Load, clientVars, TypeOK
<1>6. ASSUME NEW r \in Requests, RunStep(r)
      PROVE  UNCHANGED LineState
  BY <1>0, <1>4, <1>6, NodeSteps DEF clientVars
<1>7. CASE UNCHANGED vars
  BY <1>4, <1>7 DEF vars
<1>8. ASSUME NEW r \in Requests, Finish(r)
      PROVE  Lines!Next
  <2>1. /\ Busy(r) /\ status'[r] = "answered" /\ via' = via /\ queue' = queue /\ open' = open
        /\ \A q \in Requests \ {r} : status'[q] = status[q]
    BY <1>0, <1>8 DEF Finish, Busy, TypeOK
  <2> QED
    BY <2>1, OneSettles
<1>9. ASSUME NEW r \in Requests, Busy(r), Unanswered({r}), UNCHANGED <<queue, open>>
      PROVE  Lines!Next
  <2>1. /\ status'[r] = "unanswered"
        /\ \A q \in Requests \ {r} : status'[q] = status[q] /\ via'[q] = via[q]
    BY <1>9 DEF Unanswered
  <2> QED
    BY <1>9, <2>1, OneSettles
<1>10. ASSUME NEW r \in Requests, Fail(r)
       PROVE  Lines!Next
  BY <1>9, <1>10 DEF Fail, Busy
<1>11. ASSUME NEW r \in Requests, ContextFails(r) \/ Disconnect(r)
       PROVE  Lines!Next
  <2>1. Hangup(r) /\ Busy(r)
    BY <1>11 DEF ContextFails, Disconnect, Busy
  <2>2. CASE via[r] \notin Sockets
    BY <1>9, <2>1, <2>2 DEF Hangup
  <2>3. CASE via[r] \in Sockets
    <3>0. PICK s \in Sockets : via[r] = s
      BY <2>3
    <3> DEFINE rs == {r} \cup Waiting(s)
    <3>1. /\ Unanswered(rs) /\ open' = open \ {s} /\ queue'[s] = <<>>
          /\ \A t \in Sockets \ {s} : queue'[t] = queue[t]
      BY <1>0, <2>1, <3>0 DEF Hangup, TypeOK
    <3>2. /\ \A q \in Requests : q \in rs => status'[q] = "unanswered" /\ via'[q] = "none"
          /\ \A q \in Requests : q \notin rs => status'[q] = status[q] /\ via'[q] = via[q]
      BY <3>1 DEF Unanswered
    <3>3. AtWork(s) = {r} /\ Line[s] = <<r>> \o queue[s] /\ queue[s] \in Seq(Requests)
      BY <2>1, <3>0, FirstInLine
    <3>4. Lines!InLine(s) = {r} \cup {queue[s][i] : i \in 1 .. Len(queue[s])}
      <4>1. \A x : (\E i \in 1 .. Len(Line[s]) : Line[s][i] = x)
                     <=> x = r \/ \E i \in 1 .. Len(queue[s]) : queue[s][i] = x
        BY <3>3, LineOf
      <4> QED
        BY <4>1 DEF Lines!InLine
    <3>5. Waiting(s) = {queue[s][i] : i \in 1 .. Len(queue[s])}
      <4>1. \A q \in Waiting(s) : \E i \in 1 .. Len(queue[s]) : queue[s][i] = q
        BY <1>0 DEF Waiting, QueuedInv, InQueue
      <4>2. \A i \in 1 .. Len(queue[s]) : queue[s][i] \in Waiting(s)
        BY <1>0, QueueTypes DEF Waiting, QueueInv
      <4> QED
        BY <4>1, <4>2
    <3>6. \A q \in Requests : q \in rs <=> q \in Lines!InLine(s)
      BY <3>4, <3>5
    <3> HIDE DEF rs
    <3>7. Outcome' = [q \in Requests |-> IF q \in Lines!InLine(s) THEN "dropped" ELSE Outcome[q]]
      BY <3>2, <3>6 DEF Outcome, Pending
    <3>8. AtWork(s)' = {}
      <4>1. r \in rs
        BY DEF rs
      <4>2. \A q \in Requests : status'[q] \in {"admitted", "running"} /\ via'[q] = s => q \in AtWork(s)
        BY <3>2 DEF AtWork
      <4> QED
        BY <3>2, <3>3, <4>1, <4>2 DEF AtWork
    <3>9. \A t \in Sockets \ {s} : AtWork(t)' = AtWork(t)
      <4>1. \A q \in rs : via[q] = s
        BY <3>0 DEF rs, Waiting
      <4>2. "none" \notin Sockets
        BY ConfigAssumption DEF ConfigAssumption
      <4> QED
        BY <3>2, <4>1, <4>2 DEF AtWork
    <3>10. \A t \in Sockets \ {s} : Line'[t] = Line[t]
      BY <3>1, <3>9, LinesAsBefore
    <3>11. Line'[s] = <<>>
      BY <3>1, <3>8 DEF Line
    <3>12. Line' = [Line EXCEPT ![s] = <<>>]
      BY <3>10, <3>11, OneLine
    <3>13. Lines!HangUp(s)
      BY <3>1, <3>7, <3>12 DEF Lines!HangUp
    <3> QED
      BY <3>13 DEF Lines!Next
  <2> QED
    BY <2>2, <2>3
<1>12. CASE Crash
  <2>1. /\ open' = {} /\ queue' = [s \in Sockets |-> <<>>]
        /\ \A q \in Requests : status'[q] = IF status[q] \in Pending THEN "unanswered" ELSE status[q]
    BY <1>12 DEF Crash, Unanswered
  <2>2. \A t \in Sockets : AtWork(t)' = {}
    BY <2>1 DEF AtWork, Pending
  <2>3. Line' = [s \in Sockets |-> <<>>]
    BY <2>1, <2>2 DEF Line
  <2>4. \A q \in Requests : Outcome[q] \in {"inline", "alone"} <=> status[q] \in Pending
    BY DEF Outcome, Pending
  <2>5. Outcome' = [q \in Requests |->
                      IF Outcome[q] \in {"inline", "alone"} THEN "dropped" ELSE Outcome[q]]
    BY <2>1, <2>4 DEF Outcome, Pending
  <2>6. Lines!Collapse
    BY <2>1, <2>3, <2>5 DEF Lines!Collapse
  <2> QED
    BY <2>6 DEF Lines!Next
<1> QED
  BY <1>1, <1>2, <1>3, <1>5, <1>6, <1>7, <1>8, <1>10, <1>11, <1>12 DEF Next, Handling

\* At first nothing is sent and every line is empty.
LEMMA LineInit == Init => LineInv /\ Lines!Init
<1> SUFFICES ASSUME Init
             PROVE  LineInv /\ Lines!Init
  OBVIOUS
<1>1. TypeInv /\ SocketInv
  BY SocketInit DEF Init, TypeInv, TypeOK, Searchable, Status, Nodes
<1>2. QueuedInv
  BY DEF Init, QueuedInv
<1>3. \A s \in Sockets : AtWork(s) = {}
  BY DEF Init, AtWork
<1>4. Line = [s \in Sockets |-> <<>>] /\ Outcome = [r \in Requests |-> "unsent"]
  BY <1>3 DEF Init, Line, Outcome
<1> QED
  BY <1>1, <1>2, <1>4 DEF LineInv, Init, Lines!Init

\* The chat API answers the messages of a socket in the order sent, each at
\* most once, and passes one over only with the whole connection.
THEOREM SocketsImplementLines == Spec => SocketsAnswerInOrder
<1>1. Init => LineInv /\ Lines!Init
  BY LineInit
<1>2. LineInv /\ [Next]_vars => LineInv'
  BY TypeStep, SocketStep, QueuedStep DEF LineInv
<1>3. LineInv /\ [Next]_vars => [Lines!Next]_(Lines!lineVars)
  BY LineStep DEF LineState, Lines!lineVars
<1> QED
  BY <1>1, <1>2, <1>3, PTL DEF Spec, SocketsAnswerInOrder, Lines!Spec

-----------------------------------------------------------------------------
(* What a line promises, and with it the socket.                           *)

\* A message waits in one line and at one place of it, and is not settled yet.
EachInItsPlace(outcome, line) ==
    /\ DOMAIN outcome = Requests
    /\ line \in [Sockets -> Seq(Requests)]
    /\ \A s \in Sockets : \A i \in 1 .. Len(line[s]) : outcome[line[s][i]] = "inline"
    /\ \A s, t \in Sockets : \A i \in 1 .. Len(line[s]), j \in 1 .. Len(line[t]) :
           line[s][i] = line[t][j] => s = t /\ i = j

PlacesInv == EachInItsPlace(Outcome, Line)

\* One message joins, at the end.
LEMMA JoiningKeepsPlaces ==
    ASSUME NEW outcome, NEW line, EachInItsPlace(outcome, line),
           NEW r \in Requests, NEW s \in Sockets, outcome[r] = "unsent"
    PROVE  EachInItsPlace([outcome EXCEPT ![r] = "inline"],
                          [line EXCEPT ![s] = Append(line[s], r)])
<1> DEFINE o == [outcome EXCEPT ![r] = "inline"]
           l == [line EXCEPT ![s] = Append(line[s], r)]
<1>1. /\ DOMAIN o = Requests /\ l \in [Sockets -> Seq(Requests)]
      /\ \A q \in Requests : o[q] = IF q = r THEN "inline" ELSE outcome[q]
  BY DEF EachInItsPlace
<1>2. \A t \in Sockets : \A i \in 1 .. Len(line[t]) : line[t][i] \in Requests /\ line[t][i] # r
  BY DEF EachInItsPlace
<1>3. \A t \in Sockets \ {s} : l[t] = line[t]
  BY DEF EachInItsPlace
<1>4. /\ Len(l[s]) = Len(line[s]) + 1 /\ Len(line[s]) \in Nat
      /\ l[s][Len(line[s]) + 1] = r
      /\ \A i \in 1 .. Len(line[s]) : l[s][i] = line[s][i]
  BY DEF EachInItsPlace
<1> HIDE DEF o, l
<1>5. \A t \in Sockets : \A i \in 1 .. Len(l[t]) :
          \/ t = s /\ i = Len(line[s]) + 1 /\ l[t][i] = r
          \/ i \in 1 .. Len(line[t]) /\ l[t][i] = line[t][i]
  BY <1>3, <1>4
<1>6. \A t \in Sockets : \A i \in 1 .. Len(l[t]) : o[l[t][i]] = "inline"
  BY <1>1, <1>2, <1>5 DEF EachInItsPlace
<1>7. \A t, u \in Sockets : \A i \in 1 .. Len(l[t]), j \in 1 .. Len(l[u]) :
          l[t][i] = l[u][j] => t = u /\ i = j
  <2> TAKE t, u \in Sockets
  <2> TAKE i \in 1 .. Len(l[t]), j \in 1 .. Len(l[u])
  <2> HAVE l[t][i] = l[u][j]
  <2>0. /\ \/ t = s /\ i = Len(line[s]) + 1 /\ l[t][i] = r
           \/ i \in 1 .. Len(line[t]) /\ l[t][i] = line[t][i]
        /\ \/ u = s /\ j = Len(line[s]) + 1 /\ l[u][j] = r
           \/ j \in 1 .. Len(line[u]) /\ l[u][j] = line[u][j]
    BY <1>5
  <2>1. CASE l[t][i] = r
    <3>1. /\ i \in 1 .. Len(line[t]) => line[t][i] # r
          /\ j \in 1 .. Len(line[u]) => line[u][j] # r
      BY <1>2
    <3> QED
      BY <2>0, <2>1, <3>1
  <2>2. CASE l[t][i] # r
    <3>1. /\ i \in 1 .. Len(line[t]) /\ j \in 1 .. Len(line[u])
          /\ line[t][i] = line[u][j]
      BY <2>0, <2>2
    <3>2. \A x \in 1 .. Len(line[t]), y \in 1 .. Len(line[u]) :
              line[t][x] = line[u][y] => t = u /\ x = y
      BY DEF EachInItsPlace
    <3> QED
      BY <3>1, <3>2
  <2> QED
    BY <2>1, <2>2
<1>8. EachInItsPlace(o, l)
  BY <1>1, <1>6, <1>7 DEF EachInItsPlace
<1> QED
  BY <1>8 DEF o, l

\* A line is as it was, or shorter by its first, or empty.
Shortened(line, l) ==
    \A s \in Sockets : \/ l[s] = line[s]
                       \/ l[s] = <<>>
                       \/ line[s] # <<>> /\ l[s] = Tail(line[s])

AllInline(outcome, line) ==
    /\ DOMAIN outcome = Requests
    /\ line \in [Sockets -> Seq(Requests)]
    /\ \A s \in Sockets : \A i \in 1 .. Len(line[s]) : outcome[line[s][i]] = "inline"

\* Some messages are settled and leave their lines.
LEMMA SettlingKeepsPlaces ==
    ASSUME NEW outcome, NEW line, NEW o, NEW l,
           EachInItsPlace(outcome, line), Shortened(line, l), AllInline(o, l)
    PROVE  EachInItsPlace(o, l)
<1>0. /\ DOMAIN o = Requests /\ l \in [Sockets -> Seq(Requests)]
      /\ \A s \in Sockets : \A i \in 1 .. Len(l[s]) : o[l[s][i]] = "inline"
      /\ \A s \in Sockets : \/ l[s] = line[s]
                            \/ l[s] = <<>>
                            \/ line[s] # <<>> /\ l[s] = Tail(line[s])
  BY DEF AllInline, Shortened
<1>1. \A s \in Sockets : Len(line[s]) \in Nat
  BY DEF EachInItsPlace
<1>2. \A s \in Sockets : \E d \in {0, 1} : \A i \in 1 .. Len(l[s]) :
          i + d \in 1 .. Len(line[s]) /\ l[s][i] = line[s][i + d]
  <2> TAKE s \in Sockets
  <2>1. line[s] \in Seq(Requests)
    BY DEF EachInItsPlace
  <2>2. CASE l[s] = line[s]
    BY <2>1, <2>2
  <2>3. CASE l[s] = <<>>
    BY <2>3
  <2>4. CASE line[s] # <<>> /\ l[s] = Tail(line[s])
    BY <2>1, <2>4
  <2> QED
    BY <1>0, <2>2, <2>3, <2>4
<1>3. \A s, t \in Sockets : \A i \in 1 .. Len(l[s]), j \in 1 .. Len(l[t]) :
          l[s][i] = l[t][j] => s = t /\ i = j
  <2> TAKE s, t \in Sockets
  <2> TAKE i \in 1 .. Len(l[s]), j \in 1 .. Len(l[t])
  <2> HAVE l[s][i] = l[t][j]
  <2>1. PICK d \in {0, 1} : \A k \in 1 .. Len(l[s]) :
            k + d \in 1 .. Len(line[s]) /\ l[s][k] = line[s][k + d]
    BY <1>2
  <2>2. PICK e \in {0, 1} : \A k \in 1 .. Len(l[t]) :
            k + e \in 1 .. Len(line[t]) /\ l[t][k] = line[t][k + e]
    BY <1>2
  <2>3. s = t /\ i + d = j + e
    BY <2>1, <2>2 DEF EachInItsPlace
  <2>4. CASE d = e
    BY <2>3, <2>4
  <2>5. CASE d # e
    <3>1. /\ 1 \in 1 .. Len(l[s]) /\ l[s] = l[t] /\ l[s][1] = line[s][1 + d]
          /\ l[s][1] = line[s][1 + e] /\ 1 + d \in 1 .. Len(line[s])
          /\ 1 + e \in 1 .. Len(line[s])
      BY <2>1, <2>2, <2>3
    <3>2. \A a, b \in 1 .. Len(line[s]) : line[s][a] = line[s][b] => a = b
      BY DEF EachInItsPlace
    <3>3. 1 + d = 1 + e
      BY <3>1, <3>2
    <3> QED
      BY <2>5, <3>3
  <2> QED
    BY <2>4, <2>5
<1> QED
  BY <1>0, <1>3 DEF EachInItsPlace

\* Everything a step of the lines can do to messages that stand in them or are
\* settled: no settled message is settled again, and nobody behind another in a
\* line is answered.
SettledStays ==
    \A r \in Requests : Outcome[r] \in Lines!Settled => Outcome'[r] = Outcome[r]

NobodyIsOvertaken ==
    \A s \in Sockets : \A i \in 2 .. Len(Line[s]) : Outcome'[Line[s][i]] # "answered"

LEMMA LineFacts ==
    ASSUME PlacesInv, [Lines!Next]_(Lines!lineVars)
    PROVE  PlacesInv' /\ SettledStays /\ NobodyIsOvertaken
<1> DEFINE o == Outcome
           l == Line
<1>0. PlacesInv' <=> EachInItsPlace(o', l')
  BY DEF PlacesInv, EachInItsPlace
<1>1. /\ EachInItsPlace(o, l)
      /\ DOMAIN o = Requests /\ l \in [Sockets -> Seq(Requests)]
      /\ \A s \in Sockets : \A i \in 1 .. Len(l[s]) : l[s][i] \in Requests /\ o[l[s][i]] = "inline"
      /\ \A s \in Sockets : \A i, j \in 1 .. Len(l[s]) : l[s][i] = l[s][j] => i = j
  BY DEF PlacesInv, EachInItsPlace
<1>2. SUFFICES /\ EachInItsPlace(o', l')
               /\ \A r \in Requests : o[r] \in {"answered", "dropped"} => o'[r] = o[r]
               /\ \A s \in Sockets : \A i \in 2 .. Len(l[s]) : o'[l[s][i]] # "answered"
  BY <1>0 DEF SettledStays, NobodyIsOvertaken, Lines!Settled
<1>3. ASSUME NEW r \in Requests, NEW s \in Sockets, Lines!Join(r, s)
      PROVE  <1>2!1
  <2>1. /\ o[r] = "unsent" /\ o' = [o EXCEPT ![r] = "inline"]
        /\ l' = [l EXCEPT ![s] = Append(l[s], r)]
    BY <1>3 DEF Lines!Join
  <2> HIDE DEF o, l
  <2>2. EachInItsPlace(o', l')
    BY <1>1, <2>1, JoiningKeepsPlaces
  <2> QED
    BY <1>1, <2>1, <2>2
<1>4. ASSUME NEW s \in Sockets, NEW how \in Lines!Settled, Lines!Settle(s, how)
      PROVE  <1>2!1
  <2> DEFINE h == l[s][1]
  <2>1. /\ l[s] # <<>> /\ o[Head(l[s])] = "inline" /\ o' = [o EXCEPT ![Head(l[s])] = how]
        /\ l' = [l EXCEPT ![s] = Tail(l[s])]
    BY <1>4 DEF Lines!Settle
  <2> HIDE DEF o, l
  <2>2. /\ Head(l[s]) = h /\ 1 \in 1 .. Len(l[s]) /\ h \in Requests
        /\ l' \in [Sockets -> Seq(Requests)] /\ l'[s] = Tail(l[s])
        /\ \A t \in Sockets \ {s} : l'[t] = l[t]
    BY <1>1, <2>1
  <2>3. /\ DOMAIN o' = Requests /\ o[h] = "inline" /\ o'[h] = how
        /\ \A r \in Requests \ {h} : o'[r] = o[r]
    BY <1>1, <2>1, <2>2
  <2>4. \A i \in 1 .. Len(l'[s]) : i + 1 \in 1 .. Len(l[s]) /\ l'[s][i] = l[s][i + 1]
    BY <1>1, <2>1, <2>2
  <2>5. \A t \in Sockets : \A i \in 1 .. Len(l[t]) : l[t][i] = h => t = s /\ i = 1
    BY <1>1, <2>2 DEF EachInItsPlace
  <2> HIDE DEF h
  <2>6. \A t \in Sockets : \A i \in 1 .. Len(l'[t]) : o'[l'[t][i]] = "inline"
    <3> TAKE t \in Sockets
    <3> TAKE i \in 1 .. Len(l'[t])
    <3>1. CASE t = s
      <4> DEFINE k == i + 1
      <4>1. k \in 1 .. Len(l[s]) /\ k # 1 /\ l'[t][i] = l[s][k]
        BY <2>4, <3>1
      <4> HIDE DEF k
      <4>2. l[s][k] # h /\ l[s][k] \in Requests /\ o[l[s][k]] = "inline"
        BY <1>1, <2>5, <4>1
      <4> QED
        BY <2>3, <4>1, <4>2
    <3>2. CASE t # s
      BY <1>1, <2>2, <2>3, <2>5, <3>2
    <3> QED
      BY <3>1, <3>2
  <2>7. EachInItsPlace(o', l')
    <3>1. Shortened(l, l')
      BY <2>1, <2>2 DEF Shortened
    <3>2. AllInline(o', l')
      BY <2>2, <2>3, <2>6 DEF AllInline
    <3> QED
      BY <1>1, <3>1, <3>2, SettlingKeepsPlaces
  <2>8. \A t \in Sockets : \A i \in 2 .. Len(l[t]) : o'[l[t][i]] # "answered"
    BY <1>1, <2>3, <2>5
  <2> QED
    BY <2>3, <2>7, <2>8
<1>5. ASSUME NEW s \in Sockets, Lines!HangUp(s)
      PROVE  <1>2!1
  <2>1. /\ o' = [r \in Requests |-> IF r \in Lines!InLine(s) THEN "dropped" ELSE o[r]]
        /\ l' = [l EXCEPT ![s] = <<>>]
        /\ Lines!InLine(s) = {l[s][i] : i \in 1 .. Len(l[s])}
    BY <1>5 DEF Lines!HangUp, Lines!InLine
  <2> HIDE DEF o, l
  <2>2. /\ l' \in [Sockets -> Seq(Requests)] /\ l'[s] = <<>> /\ DOMAIN o' = Requests
        /\ \A t \in Sockets \ {s} : l'[t] = l[t]
    BY <1>1, <2>1
  <2>3. \A t \in Sockets \ {s} : \A i \in 1 .. Len(l[t]) : l[t][i] \notin Lines!InLine(s)
    BY <1>1, <2>1 DEF EachInItsPlace
  <2>4. \A t \in Sockets : \A i \in 1 .. Len(l'[t]) : o'[l'[t][i]] = "inline"
    BY <1>1, <2>1, <2>2, <2>3
  <2>5. EachInItsPlace(o', l')
    <3>1. Shortened(l, l')
      BY <2>2 DEF Shortened
    <3>2. AllInline(o', l')
      BY <2>2, <2>4 DEF AllInline
    <3> QED
      BY <1>1, <3>1, <3>2, SettlingKeepsPlaces
  <2> QED
    BY <1>1, <2>1, <2>5
<1>6. ASSUME NEW r \in Requests, \/ Lines!ComeAlone(r)
                                 \/ \E how \in Lines!Settled : Lines!SettleAlone(r, how)
      PROVE  <1>2!1
  <2>1. /\ l' = l /\ o[r] \in {"unsent", "alone"}
        /\ \E how \in {"alone", "dropped", "answered"} : o' = [o EXCEPT ![r] = how]
    BY <1>6 DEF Lines!ComeAlone, Lines!SettleAlone, Lines!Settled
  <2> HIDE DEF o, l
  <2>2. /\ DOMAIN o' = Requests /\ \A q \in Requests \ {r} : o'[q] = o[q]
    BY <1>1, <2>1
  <2>3. \A s \in Sockets : \A i \in 1 .. Len(l[s]) : l[s][i] # r
    BY <1>1, <2>1
  <2>4. \A s \in Sockets : \A i \in 1 .. Len(l[s]) : o'[l[s][i]] = "inline"
    BY <1>1, <2>2, <2>3
  <2>5. EachInItsPlace(o', l')
    <3>1. Shortened(l, l')
      BY <2>1 DEF Shortened
    <3>2. AllInline(o', l')
      BY <1>1, <2>1, <2>2, <2>4 DEF AllInline
    <3> QED
      BY <1>1, <3>1, <3>2, SettlingKeepsPlaces
  <2> QED
    BY <1>1, <2>1, <2>2, <2>4, <2>5
<1>7. CASE Lines!Collapse
  <2>1. /\ o' = [r \in Requests |-> IF o[r] \in {"inline", "alone"} THEN "dropped" ELSE o[r]]
        /\ l' = [s \in Sockets |-> <<>>]
    BY <1>7 DEF Lines!Collapse
  <2> HIDE DEF o, l
  <2>2. EachInItsPlace(o', l')
    BY <2>1 DEF EachInItsPlace
  <2> QED
    BY <1>1, <2>1, <2>2
<1>8. CASE UNCHANGED Lines!lineVars
  <2>1. o' = o /\ l' = l
    BY <1>8 DEF Lines!lineVars
  <2> HIDE DEF o, l
  <2> QED
    BY <1>1, <2>1
<1> QED
  BY <1>3, <1>4, <1>5, <1>6, <1>7, <1>8 DEF Lines!Next

LEMMA LinesBegin == Lines!Init => PlacesInv
BY DEF Lines!Init, PlacesInv, EachInItsPlace

\* What has been answered or dropped stays so: no message of a socket is
\* processed a second time, whatever the queue, the loop and the crashes do.
THEOREM MessagesAreSettledOnce == Spec => [][SettledStays]_LineState
<1>1. PlacesInv /\ [Lines!Next]_(Lines!lineVars) => PlacesInv' /\ [SettledStays]_LineState
  BY LineFacts
<1> QED
  BY <1>1, LinesBegin, SocketsImplementLines, PTL DEF SocketsAnswerInOrder, Lines!Spec

\* No message is answered while one sent before it over the same socket waits.
THEOREM NoMessageIsOvertaken == Spec => [][NobodyIsOvertaken]_LineState
<1>1. PlacesInv /\ [Lines!Next]_(Lines!lineVars) => PlacesInv' /\ [NobodyIsOvertaken]_LineState
  BY LineFacts
<1> QED
  BY <1>1, LinesBegin, SocketsImplementLines, PTL DEF SocketsAnswerInOrder, Lines!Spec

-----------------------------------------------------------------------------
(* Replies.  No list holds a text of a turn that has not begun, so a run   *)
(* loads none of its own, and what it writes stays behind what it loaded.  *)

Absent(m, r) == \A i \in 1 .. Len(m) : m[i].turn # r

Fresh(r) ==
    \/ status[r] \in {"idle", "queued", "admitted"}
    \/ status[r] = "running" /\ at[r] = "ask"

OwnSuffix(m, r) ==
    \A i, j \in 1 .. Len(m) : i < j /\ m[i].turn = r => m[j].turn = r

OwnInv ==
    /\ \A r \in Requests : Fresh(r) =>
         Absent(checkpoint, r) /\ \A q \in Requests : Absent(channel[q], r)
    /\ \A r \in Running : OwnSuffix(channel[r], r)
    /\ \A r \in Requests : \A i \in 1 .. Len(shown[r]) : shown[r][i].turn = r
    /\ RepliesAreOwn

\* What Finish gives the client is its own, or its turn wrote nothing.
LEMMA OwnReply ==
    ASSUME TypeInv, OwnInv, NEW r \in Running
    PROVE  \/ \A i \in 1 .. Len(Reply(r)) : Reply(r)[i].turn = r
           \/ \A i \in 1 .. Len(channel[r]) :
                channel[r][i].turn = r => ~IsAI(channel[r][i])
<1> DEFINE m == channel[r]
<1>0. r \in Requests /\ m \in Seq(Text) /\ Searchable(m)
  BY DEF Running, TypeInv, TypeOK
<1>1. CASE Reply(r) = shown[r]
  BY <1>0, <1>1 DEF OwnInv
<1>2. CASE Reply(r) = ExtractAIResponse(m)
  <2>1. CASE ExtractAIResponse(m) = <<>>
    BY <1>2, <2>1
  <2>2. ASSUME NEW i \in 1 .. Len(m), ExtractAIResponse(m) = <<m[i]>>,
               IsLastAI(m, i), m[i].turn # r
        PROVE  \A j \in 1 .. Len(m) : m[j].turn = r => ~IsAI(m[j])
    BY <1>0, <2>2 DEF OwnInv, OwnSuffix, IsLastAI
  <2>3. ASSUME NEW i \in 1 .. Len(m), ExtractAIResponse(m) = <<m[i]>>,
               m[i].turn = r
        PROVE  \A j \in 1 .. Len(Reply(r)) : Reply(r)[j].turn = r
    BY <1>2, <2>3
  <2> QED
    BY <1>0, <2>1, <2>2, <2>3, <1>2, ExtractLast
<1> QED
  BY <1>1, <1>2 DEF Reply, AssembleResponse

\* Steps that write nothing, show nothing and answer nobody.
LEMMA OwnFrame ==
    ASSUME OwnInv,
           checkpoint' = checkpoint,
           \A r \in Requests :
             /\ Fresh(r)' => Fresh(r)
             /\ shown'[r] \in {shown[r], <<>>}
             /\ channel'[r] \in {channel[r], <<>>}
             /\ status'[r] \in {"running", "answered"} =>
                  /\ status[r] = status'[r]
                  /\ channel'[r] = channel[r] /\ told'[r] = told[r]
    PROVE  OwnInv'
<1>1. \A r \in Requests : Fresh(r)' =>
        /\ Absent(checkpoint', r)
        /\ \A q \in Requests : Absent(channel'[q], r)
  BY DEF OwnInv, Absent
<1>2. \A r \in Running' : OwnSuffix(channel'[r], r)
  BY DEF OwnInv, Running
<1>3. \A r \in Requests : \A i \in 1 .. Len(shown'[r]) : shown'[r][i].turn = r
  BY DEF OwnInv
<1>4. RepliesAreOwn'
  BY DEF OwnInv, RepliesAreOwn
<1> QED
  BY <1>1, <1>2, <1>3, <1>4 DEF OwnInv

LEMMA OwnStep ==
    ASSUME TypeInv, SocketInv, OwnInv, [Next]_vars
    PROVE  OwnInv'
<1>0. TypeOK
  BY DEF TypeInv
<1>1. ASSUME NEW r \in Requests, Arrive(r) \/ Send(r)
      PROVE  OwnInv'
  BY <1>0, <1>1, OwnFrame DEF Arrive, Send, runVars, Fresh, TypeOK
<1>2. ASSUME NEW s \in Sockets, Receive(s)
      PROVE  OwnInv'
  <2>1. Head(queue[s]) \in Requests /\ status[Head(queue[s])] = "queued"
    BY <1>0, <1>2 DEF Receive, SocketInv, QueueInv, TypeOK
  <2> QED
    BY <1>0, <1>2, <2>1, OwnFrame DEF Receive, runVars, Fresh, TypeOK
<1>3. ASSUME NEW r \in Requests, Load(r)
      PROVE  OwnInv'
  <2>1. /\ checkpoint' = checkpoint /\ shown' = shown /\ told' = told
        /\ at' = at /\ status[r] = "admitted"
        /\ \A q \in Requests \ {r} : status'[q] = status[q] /\ channel'[q] = channel[q]
        /\ status'[r] = "running" /\ channel'[r] = checkpoint
    BY <1>0, <1>3 DEF Load, LoadNewest, clientVars, TypeOK
  <2>2. \A q \in Requests : Fresh(q)' => Fresh(q)
    BY <2>1 DEF Fresh
  <2>3. \A p \in Requests : Fresh(p)' =>
          /\ Absent(checkpoint', p)
          /\ \A q \in Requests : Absent(channel'[q], p)
    BY <2>1, <2>2 DEF OwnInv, Absent
  <2>4. OwnSuffix(checkpoint, r)
    BY <2>1 DEF OwnInv, OwnSuffix, Absent, Fresh
  <2>5. \A q \in Running' : OwnSuffix(channel'[q], q)
    BY <2>1, <2>4 DEF OwnInv, Running
  <2>6. RepliesAreOwn'
    BY <2>1 DEF OwnInv, RepliesAreOwn
  <2> QED
    BY <2>1, <2>3, <2>5, <2>6 DEF OwnInv
<1>4. ASSUME NEW r \in Requests, RunStep(r)
      PROVE  OwnInv'
  <2>1. /\ r \in Running /\ Running' = Running /\ Writes(r) /\ Streams(r)
        /\ status' = status /\ told' = told
        /\ checkpoint' = channel'[r]
        /\ \A q \in Requests : Fresh(q)' => Fresh(q) /\ q # r
    <3>1. PICK node \in Nodes \ {"ask"} : at' = [at EXCEPT ![r] = node]
      BY <1>0, <1>4, NodeSteps
    <3> QED
      BY <1>0, <1>4, <3>1, NodeSteps DEF Running, Writes, Fresh, clientVars, TypeOK
  <2>2. \/ channel' = channel
        \/ \E x \in Own(r) : /\ channel'[r] = Append(channel[r], x)
                             /\ \A q \in Requests \ {r} : channel'[q] = channel[q]
    BY <1>0, <2>1 DEF Writes, TypeOK
  <2>3. \A p \in Requests : Fresh(p)' =>
          /\ Absent(checkpoint', p)
          /\ \A q \in Requests : Absent(channel'[q], p)
    <3> SUFFICES ASSUME NEW p \in Requests, Fresh(p)'
                 PROVE  \A q \in Requests : Absent(channel'[q], p)
      BY <2>1
    <3>1. p # r /\ \A q \in Requests : Absent(channel[q], p)
      BY <2>1 DEF OwnInv
    <3>2. \A x \in Own(r) : Absent(Append(channel[r], x), p)
      <4> TAKE x \in Own(r)
      <4>1. Absent(channel[r], p)
        BY <3>1
      <4>2. channel[r] \in Seq(Text) /\ x \in Text /\ x.turn # p
        BY <1>0, <3>1 DEF Own, TypeOK
      <4> QED
        BY <4>1, <4>2 DEF Absent
    <3> QED
      BY <2>2, <3>1, <3>2
  <2>4. OwnSuffix(channel'[r], r)
    <3>1. \A x \in Own(r) : OwnSuffix(Append(channel[r], x), r)
      <4> TAKE x \in Own(r)
      <4>1. OwnSuffix(channel[r], r)
        BY <2>1 DEF OwnInv
      <4>2. channel[r] \in Seq(Text) /\ x \in Text /\ x.turn = r
        BY <1>0 DEF Own, TypeOK
      <4> QED
        BY <4>1, <4>2 DEF OwnSuffix
    <3>2. OwnSuffix(channel[r], r)
      BY <2>1 DEF OwnInv
    <3> QED
      BY <2>2, <3>1, <3>2
  <2>5. \A q \in Running' : OwnSuffix(channel'[q], q)
    BY <2>1, <2>2, <2>4 DEF OwnInv, Running
  <2>6. \A q \in Requests : \A i \in 1 .. Len(shown'[q]) : shown'[q][i].turn = q
    <3>1. \A x \in Own(r) : \A i \in 1 .. Len(Append(shown[r], x)) :
            Append(shown[r], x)[i].turn = r
      BY <1>0 DEF OwnInv, Own, TypeOK
    <3>2. \/ shown' = shown
          \/ \E x \in Own(r) : /\ shown'[r] = Append(shown[r], x)
                               /\ \A q \in Requests \ {r} : shown'[q] = shown[q]
      BY <1>0, <2>1 DEF Streams, TypeOK
    <3> QED
      BY <3>1, <3>2 DEF OwnInv
  <2>7. RepliesAreOwn'
    BY <2>1, <2>2 DEF OwnInv, RepliesAreOwn, Running
  <2> QED
    BY <2>3, <2>5, <2>6, <2>7 DEF OwnInv
<1>5. ASSUME NEW r \in Requests, Finish(r)
      PROVE  OwnInv'
  <2>1. /\ checkpoint' = checkpoint /\ channel' = channel
        /\ r \in Running /\ Running' = Running \ {r}
        /\ told'[r] = Reply(r) /\ shown'[r] = <<>>
        /\ \A q \in Requests \ {r} : /\ status'[q] = status[q]
                                    /\ told'[q] = told[q] /\ shown'[q] = shown[q]
        /\ \A q \in Requests : Fresh(q)' => Fresh(q)
    BY <1>0, <1>5 DEF Finish, Running, Fresh, TypeOK
  <2>2. RepliesAreOwn'
    BY <2>1, OwnReply DEF OwnInv, RepliesAreOwn
  <2>3. \A q \in Requests : \A i \in 1 .. Len(shown'[q]) : shown'[q][i].turn = q
    BY <2>1 DEF OwnInv
  <2> QED
    BY <2>1, <2>2, <2>3 DEF OwnInv
<1>6. ASSUME NEW rs \in SUBSET Requests, Ends(rs)
      PROVE  OwnInv'
  BY <1>0, <1>6, OwnFrame DEF Ends, Unanswered, Fresh, TypeOK
<1>7. CASE UNCHANGED vars
  BY <1>7, OwnFrame DEF vars, Fresh
<1>8. ASSUME \/ \E r \in Requests : Fail(r) \/ ContextFails(r) \/ Disconnect(r)
             \/ Crash
      PROVE  OwnInv'
  BY <1>0, <1>6, <1>8, Endings
<1> QED
  BY <1>1, <1>2, <1>3, <1>4, <1>5, <1>7, <1>8 DEF Next, Handling

\* A client is never given the text of another turn, however many overlap.
THEOREM RepliesAreNotMixed == Spec => []RepliesAreOwn
<1>1. Init => TypeInv /\ SocketInv /\ OwnInv
  BY SocketInit
     DEF Init, TypeInv, TypeOK, Searchable, Status, Nodes, OwnInv, Absent,
         Running, RepliesAreOwn
<1>2. TypeInv /\ SocketInv /\ OwnInv /\ [Next]_vars
        => (TypeInv /\ SocketInv /\ OwnInv)'
  BY TypeStep, SocketStep, OwnStep
<1>3. OwnInv => RepliesAreOwn
  BY DEF OwnInv
<1> QED
  BY <1>1, <1>2, <1>3, PTL DEF Spec

-----------------------------------------------------------------------------
(* What is told is what is kept.  Nothing is streamed before the first     *)
(* draft, and the first draft's piece is the last message or broken.       *)

OnePiece(r) ==
    \E x \in Text :
        /\ shown[r] = <<x>>
        /\ \/ x.kind = "broken"
           \/ Len(channel[r]) > 0 /\ x = LastOf(r) /\ IsAI(x)

KeptInv ==
    /\ \A r \in Requests : Waits(r) => drafts[r] = 0 /\ at[r] = "ask"
    /\ \A r \in Running :
         at[r] \in {"ask", "guardrails_in", "think"} => drafts[r] = 0
    /\ \A r \in Requests : drafts[r] = 0 => shown[r] = <<>>
    /\ \A r \in Running : drafts[r] = 1 /\ via[r] # "post" =>
         shown[r] = <<>> \/ OnePiece(r)
    /\ RepliesAreWhatIsKept

LEMMA KeptReply ==
    ASSUME TypeInv, KeptInv, NEW r \in Running, drafts[r] <= 1
    PROVE  \/ Reply(r) = ExtractAIResponse(channel[r])
           \/ via[r] # "post" /\ \E i \in 1 .. Len(Reply(r)) :
                                    Reply(r)[i].kind = "broken"
<1> DEFINE m == channel[r]
<1>0. r \in Requests /\ m \in Seq(Text) /\ Searchable(m) /\ drafts[r] \in Nat
  BY DEF Running, TypeInv, TypeOK
<1>1. CASE via[r] = "post" \/ shown[r] = <<>>
  BY <1>1 DEF Reply, AssembleResponse
<1>2. CASE via[r] # "post" /\ shown[r] # <<>>
  <2>1. Reply(r) = shown[r]
    BY <1>2 DEF Reply, AssembleResponse
  <2>2. drafts[r] # 0
    BY <1>0, <1>2 DEF KeptInv
  <2>3. OnePiece(r)
    BY <1>0, <1>2, <2>2 DEF KeptInv
  <2>4. PICK x \in Text :
          /\ shown[r] = <<x>>
          /\ \/ x.kind = "broken"
             \/ Len(channel[r]) > 0 /\ x = LastOf(r) /\ IsAI(x)
    BY <2>3 DEF OnePiece
  <2>5. CASE x.kind = "broken"
    BY <1>2, <2>1, <2>4, <2>5
  <2>6. CASE Len(m) > 0 /\ x = LastOf(r) /\ IsAI(x)
    <3>1. Len(m) \in 1 .. Len(m) /\ m[Len(m)] = x
      BY <1>0, <2>6 DEF LastOf
    <3>2. PICK i \in 1 .. Len(m) :
            ExtractAIResponse(m) = <<m[i]>> /\ IsLastAI(m, i)
      BY <1>0, <2>6, <3>1, ExtractLast
    <3>3. i = Len(m)
      BY <1>0, <2>6, <3>1, <3>2 DEF IsLastAI
    <3> QED
      BY <2>1, <2>4, <3>1, <3>2, <3>3
  <2> QED
    BY <2>4, <2>5, <2>6
<1> QED
  BY <1>1, <1>2

\* Steps that run no node and answer nobody.
LEMMA KeptFrame ==
    ASSUME KeptInv,
           \A r \in Requests :
             /\ Waits(r)' => Waits(r)
             /\ \/ UNCHANGED <<at[r], drafts[r], shown[r]>>
                \/ shown'[r] = <<>> /\ status'[r] = "unanswered"
             /\ status'[r] \in {"running", "answered"} =>
                  /\ status[r] = status'[r]
                  /\ UNCHANGED <<channel[r], via[r], told[r], drafts[r], shown[r]>>
    PROVE  KeptInv'
<1>1. \A r \in Requests : Waits(r)' => drafts'[r] = 0 /\ at'[r] = "ask"
  BY DEF KeptInv, Waits
<1>2. /\ \A r \in Running' :
           at'[r] \in {"ask", "guardrails_in", "think"} => drafts'[r] = 0
      /\ \A r \in Requests : drafts'[r] = 0 => shown'[r] = <<>>
  BY DEF KeptInv, Running
<1>3. \A r \in Running' : drafts'[r] = 1 /\ via'[r] # "post" =>
        shown'[r] = <<>> \/ OnePiece(r)'
  BY DEF KeptInv, Running, OnePiece, LastOf
<1>4. RepliesAreWhatIsKept'
  BY DEF KeptInv, RepliesAreWhatIsKept
<1> QED
  BY <1>1, <1>2, <1>3, <1>4 DEF KeptInv

\* What the nodes do to the drafts and the stream.
LEMMA DraftSteps ==
    ASSUME TypeOK, KeptInv, NEW r \in Requests, RunStep(r)
    PROVE  \/ /\ drafts' = drafts /\ shown' = shown
              /\ drafts[r] # 0 => channel' = channel
              /\ at'[r] \in {"ask", "guardrails_in", "think"} => drafts[r] = 0
           \/ /\ drafts' = [drafts EXCEPT ![r] = @ + 1]
              /\ at'[r] = "guardrails_out"
              /\ \/ shown' = shown
                 \/ \E x \in Text :
                      /\ shown' = [shown EXCEPT ![r] = Append(@, x)]
                      /\ \/ x.kind = "broken"
                         \/ /\ channel' = [channel EXCEPT ![r] = Append(@, x)]
                            /\ IsAI(x)
<1>0. r \in Running
  BY NodeSteps DEF Running
<1>1. ASSUME drafts' = drafts, shown' = shown,
             at[r] \in {"ask", "guardrails_in", "think"}
      PROVE  drafts[r] = 0
  BY <1>0, <1>1 DEF KeptInv
<1>2. CASE Ask(r)
  BY <1>1, <1>2 DEF Ask, At
<1>3. CASE GuardrailsIn(r)
  BY <1>1, <1>3 DEF GuardrailsIn, At
<1>4. CASE Think(r)
  BY <1>1, <1>4 DEF Think, At, Stream, Forwarded
<1>5. CASE ResponseGenerator(r)
  <2>1. drafts' = [drafts EXCEPT ![r] = @ + 1] /\ at'[r] = "guardrails_out"
    BY <1>5 DEF ResponseGenerator, GoTo, TypeOK
  <2>2. T(r, "draft") \in Text /\ T(r, "broken") \in Text
        /\ IsAI(T(r, "draft")) /\ T(r, "broken").kind = "broken"
    BY DEF T, Text, Kind, IsAI, TypeOK
  <2> QED
    BY <1>5, <2>1, <2>2 DEF ResponseGenerator, Stream, Write
<1>6. CASE GuardrailsOut(r)
  <2>1. at'[r] \in {"END", "response_generator"}
    BY <1>6 DEF GuardrailsOut, GoTo, TypeOK
  <2> QED
    BY <1>6, <2>1 DEF GuardrailsOut, WriteNothing
<1> QED
  BY <1>2, <1>3, <1>4, <1>5, <1>6 DEF RunStep

LEMMA KeptStep ==
    ASSUME TypeInv, SocketInv, KeptInv, [Next]_vars
    PROVE  KeptInv'
<1>0. TypeOK
  BY DEF TypeInv
<1>1. ASSUME NEW r \in Requests, Arrive(r) \/ Send(r)
      PROVE  KeptInv'
  BY <1>0, <1>1, KeptFrame DEF Arrive, Send, runVars, Waits, TypeOK
<1>2. ASSUME NEW s \in Sockets, Receive(s)
      PROVE  KeptInv'
  <2>1. Head(queue[s]) \in Requests /\ status[Head(queue[s])] = "queued"
    BY <1>0, <1>2 DEF Receive, SocketInv, QueueInv, TypeOK
  <2> QED
    BY <1>0, <1>2, <2>1, KeptFrame DEF Receive, runVars, Waits, TypeOK
<1>3. ASSUME NEW r \in Requests, Load(r)
      PROVE  KeptInv'
  <2>1. /\ UNCHANGED <<at, drafts, shown, told, via>>
        /\ status[r] = "admitted" /\ status'[r] = "running"
        /\ \A q \in Requests \ {r} : status'[q] = status[q] /\ channel'[q] = channel[q]
    BY <1>0, <1>3 DEF Load, clientVars, TypeOK
  <2>2. drafts[r] = 0 /\ at[r] = "ask" /\ shown[r] = <<>>
    BY <2>1 DEF KeptInv, Waits
  <2>3. \A q \in Running' : drafts'[q] = 1 /\ via'[q] # "post" =>
          shown'[q] = <<>> \/ OnePiece(q)'
    BY <2>1, <2>2 DEF KeptInv, Running, OnePiece, LastOf
  <2>4. RepliesAreWhatIsKept'
    BY <2>1 DEF KeptInv, RepliesAreWhatIsKept
  <2> QED
    BY <2>1, <2>2, <2>3, <2>4 DEF KeptInv, Waits, Running
<1>4. ASSUME NEW r \in Requests, RunStep(r)
      PROVE  KeptInv'
  <2>1. /\ r \in Running /\ Running' = Running
        /\ UNCHANGED <<status, via, told>> /\ Writes(r) /\ Streams(r)
    BY <1>0, <1>4, NodeSteps DEF Running, clientVars
  <2>2. PICK node \in Nodes : at' = [at EXCEPT ![r] = node]
    BY <1>0, <1>4, NodeSteps
  <2>3. \A q \in Requests \ {r} :
          /\ at'[q] = at[q] /\ channel'[q] = channel[q] /\ shown'[q] = shown[q]
    BY <1>0, <2>1, <2>2 DEF Writes, Streams, TypeOK
  <2>4. \A q \in Requests \ {r} : drafts'[q] = drafts[q]
    <3>1. drafts' = drafts \/ drafts' = [drafts EXCEPT ![r] = @ + 1]
      BY <1>0, <1>4, DraftSteps
    <3> QED
      BY <1>0, <3>1 DEF TypeOK
  <2>5. drafts'[r] \in {drafts[r], drafts[r] + 1} /\ drafts[r] \in Nat
    BY <1>0, <1>4, DraftSteps DEF TypeOK
  <2>6. /\ at'[r] \in {"ask", "guardrails_in", "think"} => drafts'[r] = 0
        /\ drafts'[r] = 0 => shown'[r] = <<>>
    BY <1>0, <1>4, <2>5, DraftSteps DEF KeptInv, TypeOK
  <2>7. drafts'[r] = 1 /\ via[r] # "post" => shown'[r] = <<>> \/ OnePiece(r)'
    <3>1. CASE drafts' = drafts /\ shown' = shown
               /\ (drafts[r] # 0 => channel' = channel)
      BY <2>1, <3>1 DEF KeptInv, OnePiece, LastOf
    <3>2. CASE drafts' = [drafts EXCEPT ![r] = @ + 1] /\ shown' = shown
      <4>1. drafts'[r] = 1 => shown'[r] = <<>>
        BY <1>0, <2>5, <3>2 DEF KeptInv, TypeOK
      <4> QED
        BY <4>1
    <3>3. ASSUME drafts' = [drafts EXCEPT ![r] = @ + 1],
                 NEW x \in Text,
                 shown' = [shown EXCEPT ![r] = Append(@, x)],
                 \/ x.kind = "broken"
                 \/ channel' = [channel EXCEPT ![r] = Append(@, x)] /\ IsAI(x)
          PROVE  drafts'[r] = 1 => OnePiece(r)'
      <4>1. drafts'[r] = 1 => shown'[r] = <<x>>
        <5>1. /\ drafts'[r] = drafts[r] + 1 /\ drafts[r] \in Nat
              /\ shown'[r] = Append(shown[r], x)
          BY <1>0, <3>3 DEF TypeOK
        <5>2. drafts[r] = 0 => shown[r] = <<>>
          BY DEF KeptInv
        <5>3. Append(<<>>, x) = <<x>>
          OBVIOUS
        <5>4. drafts'[r] = 1 => drafts[r] = 0
          BY <5>1
        <5>5. drafts'[r] = 1 => shown[r] = <<>>
          BY <5>2, <5>4
        <5> QED
          BY <5>1, <5>3, <5>5, Zenon
      <4>2. channel' = [channel EXCEPT ![r] = Append(@, x)] =>
              Len(channel'[r]) > 0 /\ x = channel'[r][Len(channel'[r])]
        BY <1>0 DEF TypeOK
      <4> QED
        BY <3>3, <4>1, <4>2 DEF OnePiece, LastOf
    <3> QED
      BY <1>0, <1>4, <3>1, <3>2, <3>3, DraftSteps
  <2>8. RepliesAreWhatIsKept'
    <3>1. \A q \in Requests : status[q] = "answered" => q # r
      BY <2>1 DEF Running
    <3> QED
      BY <2>1, <2>3, <2>4, <3>1 DEF KeptInv, RepliesAreWhatIsKept
  <2>9. \A q \in Requests : Waits(q)' => drafts'[q] = 0 /\ at'[q] = "ask"
    <3>1. \A q \in Requests : Waits(q)' => Waits(q) /\ q # r
      BY <2>1 DEF Waits, Running
    <3> QED
      BY <2>3, <2>4, <3>1 DEF KeptInv
  <2>10. \A q \in Running : q \in Requests
    BY DEF Running
  <2>11. \A q \in Running \ {r} : drafts'[q] = 1 /\ via[q] # "post" =>
           shown'[q] = <<>> \/ OnePiece(q)'
    BY <2>3, <2>4, <2>10 DEF KeptInv, OnePiece, LastOf
  <2>12. /\ \A q \in Running : at'[q] \in {"ask", "guardrails_in", "think"}
                               => drafts'[q] = 0
         /\ \A q \in Requests : drafts'[q] = 0 => shown'[q] = <<>>
    BY <2>3, <2>4, <2>6, <2>10 DEF KeptInv
  <2> QED
    BY <2>1, <2>7, <2>8, <2>9, <2>11, <2>12 DEF KeptInv
<1>5. ASSUME NEW r \in Requests, Finish(r)
      PROVE  KeptInv'
  <2>1. /\ UNCHANGED <<at, drafts, channel, via>>
        /\ r \in Running /\ Running' = Running \ {r}
        /\ told'[r] = Reply(r) /\ shown'[r] = <<>> /\ status'[r] = "answered"
        /\ \A q \in Requests \ {r} : /\ status'[q] = status[q]
                                    /\ told'[q] = told[q] /\ shown'[q] = shown[q]
    BY <1>0, <1>5 DEF Finish, Running, TypeOK
  <2>2. RepliesAreWhatIsKept'
    BY <2>1, KeptReply DEF KeptInv, RepliesAreWhatIsKept
  <2>3. \A q \in Running' : drafts'[q] = 1 /\ via'[q] # "post" =>
          shown'[q] = <<>> \/ OnePiece(q)'
    BY <2>1 DEF KeptInv, OnePiece, LastOf, Running
  <2> QED
    BY <2>1, <2>2, <2>3 DEF KeptInv, Waits
<1>6. ASSUME NEW rs \in SUBSET Requests, Ends(rs)
      PROVE  KeptInv'
  BY <1>0, <1>6, KeptFrame DEF Ends, Unanswered, Waits, TypeOK
<1>7. CASE UNCHANGED vars
  BY <1>7, KeptFrame DEF vars, Waits
<1>8. ASSUME \/ \E r \in Requests : Fail(r) \/ ContextFails(r) \/ Disconnect(r)
             \/ Crash
      PROVE  KeptInv'
  BY <1>0, <1>6, <1>8, Endings
<1> QED
  BY <1>1, <1>2, <1>3, <1>4, <1>5, <1>7, <1>8 DEF Next, Handling

\* All transports tell a client what the run's state ends with, unless the
\* response was rewritten or broke off.
THEOREM RepliesAreKept == Spec => []RepliesAreWhatIsKept
<1>1. Init => TypeInv /\ SocketInv /\ KeptInv
  BY SocketInit
     DEF Init, TypeInv, TypeOK, Searchable, Status, Nodes, KeptInv, Running,
         RepliesAreWhatIsKept
<1>2. TypeInv /\ SocketInv /\ KeptInv /\ [Next]_vars
        => (TypeInv /\ SocketInv /\ KeptInv)'
  BY TypeStep, SocketStep, KeptStep
<1>3. KeptInv => RepliesAreWhatIsKept
  BY DEF KeptInv
<1> QED
  BY <1>1, <1>2, <1>3, PTL DEF Spec

==============================================================================
