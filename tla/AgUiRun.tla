------------------------------- MODULE AgUiRun -------------------------------
(***************************************************************************)
(* The AG-UI translator (events/agui.py): what a run of the graph streams  *)
(* is turned, item by item, into the events of a protocol in which         *)
(* messages, tool calls and sub-agents are started and ended.              *)
(*                                                                         *)
(* Branches are the streams of one run that interleave: nodes of one       *)
(* superstep, Send branches of one node, proposers of one node.  A branch  *)
(* streams messages, each in chunks or whole, with at most one tool call;  *)
(* LangGraph does not stream again a message whose chunks were complete.   *)
(* Here a helper takes the context and returns it with what the client     *)
(* makes of the events in "told"; events of one type for several ids are   *)
(* sent at once, since their order tells nothing.  All include_* options   *)
(* are on.                                                                 *)
(***************************************************************************)
EXTENDS Naturals, Functions

CONSTANTS
    Branches,     \* interleaved streams of the run
    OwnerOf,      \* the namespace and node each branch streams for
    Unnamed,      \* branches whose model gives its messages no id
    Announced,    \* branches that announce a sub-agent
    Values,       \* values of the state the client may see
    MaxMessages,  \* bound: messages of a branch
    MaxChunks,    \* bound: chunks of a message
    None          \* no id

AgUiRunAssumption ==
    /\ DOMAIN OwnerOf = Branches
    /\ Unnamed \subseteq Branches /\ Announced \subseteq Branches
    /\ "run" \notin Branches
    /\ MaxMessages \in Nat /\ MaxChunks \in Nat \ {0} /\ None \notin Values

ASSUME AgUiRunAssumption

VARIABLES
    ctx,     \* AgUiContext; told: what the client makes of the events
    host,    \* "new", "running" or "over": the run as its host conducts it
    branch,  \* where each branch's stream stands
    state,   \* the exposed part of the graph's state; None: start_run was not given it
    lost     \* whether events were lost to an error

vars == <<ctx, host, branch, state, lost>>

-----------------------------------------------------------------------------
(* The client: the AG-UI protocol's rules for a stream of events. *)

Over == {"RUN_FINISHED", "RUN_ERROR"}
SubagentEnds == {"SUBAGENT_FINISHED", "SUBAGENT_ERROR"}
View == {"STATE_SNAPSHOT", "STATE_DELTA"}

Legal(k, type, ids) ==
    /\ k.phase = IF type = "RUN_STARTED" THEN "new" ELSE "running"
    /\ \/ type \in {"RUN_STARTED"} \cup View
       \/ type = "TEXT_MESSAGE_START" /\ ids \cap k.text = {}
       \/ type \in {"TEXT_MESSAGE_CONTENT", "TEXT_MESSAGE_END"} /\ ids \subseteq k.text
       \/ type = "TOOL_CALL_START" /\ ids \cap k.calls = {}
       \/ type \in {"TOOL_CALL_ARGS", "TOOL_CALL_END"} /\ ids \subseteq k.calls
       \/ type = "TOOL_CALL_RESULT" /\ ids \subseteq k.ended \ k.calls
       \/ type = "SUBAGENT_STARTED" /\ ids \cap k.subs = {}
       \/ type \in SubagentEnds /\ ids \subseteq k.subs
       \/ type \in Over /\ k.text = {} /\ k.calls = {} /\ k.subs = {}

\* What is open once something is started or ended for the ids.
Moved(open, type, ids, starts, ends) ==
    IF type = starts THEN open \cup ids ELSE IF type \in ends THEN open \ ids ELSE open

\* The events of one type for each of the ids.
Receive(k, type, ids) ==
    [k EXCEPT
      !.legal = @ /\ (ids # {} => Legal(k, type, ids)),
      !.phase = IF type = "RUN_STARTED" THEN "running" ELSE IF type \in Over THEN "over" ELSE @,
      !.text = Moved(@, type, ids, "TEXT_MESSAGE_START", {"TEXT_MESSAGE_END"}),
      !.calls = Moved(@, type, ids, "TOOL_CALL_START", {"TOOL_CALL_END"}),
      !.subs = Moved(@, type, ids, "SUBAGENT_STARTED", SubagentEnds),
      !.ended = Moved(@, type, ids, "TOOL_CALL_END", {}),
      !.view = IF type \in View THEN CHOOSE v \in ids : TRUE ELSE @]

Send(c, type, ids) == [c EXCEPT !.told = Receive(@, type, ids)]

NextId(c) == <<"run", c.seq + 1>>
Put(f, k, v) == [x \in DOMAIN f \cup {k} |-> IF x = k THEN v ELSE f[x]]
Without(f, S) == Restrict(f, DOMAIN f \ S)

-----------------------------------------------------------------------------
(* Closing. *)

CallsOf(c, mids) == {i \in DOMAIN c.calls : c.calls[i] \in mids}

EndTexts(c, mids) == Send([c EXCEPT !.text = @ \ mids], "TEXT_MESSAGE_END", c.text \cap mids)
EndTools(c, ids) == Send([c EXCEPT !.calls = Without(@, ids)], "TOOL_CALL_END", ids)

\* A message goes, with the id it was given and the index of its calls.
Forget(c, mids) ==
    [c EXCEPT !.messages = Without(@, mids),
              !.anon = Without(@, {o \in DOMAIN @ : @[o] \in mids}),
              !.index = Without(@, mids)]

\* A variant of CloseMessages that forgets the tool calls of the messages.
CloseMessagesOnly(c, mids) == Forget(EndTexts(c, mids), mids)

CloseMessages(c, mids) == Forget(EndTools(EndTexts(c, mids), CallsOf(c, mids)), mids)

CloseOwner(c, o) == CloseMessages(c, {m \in DOMAIN c.messages : c.messages[m] = o})

FailSubagents(c) == Send([c EXCEPT !.subs = {}], "SUBAGENT_ERROR", c.subs)

\* A variant of CloseAll that leaves the sub-agents active.
CloseAllButSubagents(c) ==
    LET d == CloseMessages(c, DOMAIN c.messages) IN EndTools(d, DOMAIN d.calls)

CloseAll(c) ==
    LET d == CloseMessages(c, DOMAIN c.messages)
    IN  FailSubagents(EndTools(d, DOMAIN d.calls))

-----------------------------------------------------------------------------
(* Messages.  msg has its id, or None; whether it has text; what it carries *)
(* of its tool call: "no", its "id", or its "rest"; the call's id; and      *)
(* whether it is marked as the last chunk.                                  *)

Open(c, m, o) ==
    IF m \in DOMAIN c.messages THEN c
    ELSE [CloseOwner(c, o) EXCEPT !.messages = Put(@, m, o)]

\* A message without an id is the one its owner has open without an id.
MessageId(c, msg, o) ==
    IF msg.id # None THEN msg.id ELSE IF o \in DOMAIN c.anon THEN c.anon[o] ELSE NextId(c)

Opened(c, msg, o) ==
    LET m == MessageId(c, msg, o)
        d == IF msg.id # None \/ o \in DOMAIN c.anon THEN c
             ELSE [c EXCEPT !.seq = @ + 1, !.anon = Put(@, o, m)]
    IN  Open(d, m, o)

\* The text of a message; START comes before its first content.
StartText(c, m) ==
    IF m \in c.text THEN c ELSE Send([c EXCEPT !.text = @ \cup {m}], "TEXT_MESSAGE_START", {m})
Content(c, m) == Send(c, "TEXT_MESSAGE_CONTENT", {m})

Args(c, i) == Send(c, "TOOL_CALL_ARGS", {i})
StartTool(c, m, i) ==
    Args(Send([c EXCEPT !.calls = Put(@, i, m)], "TOOL_CALL_START", {i}), i)

\* A variant of ToolChunk that makes up no id.
ToolChunkNoId(c, m, msg) ==
    LET i == IF msg.call = "id" THEN msg.cid
             ELSE IF m \in DOMAIN c.index THEN c.index[m] ELSE None
    IN  IF i \in DOMAIN c.calls THEN Args(c, i)
        ELSE StartTool([c EXCEPT !.index = Put(@, m, i)], m, i)

\* A chunk that carries no id continues the call that its message's index names.
ToolChunk(c, m, msg) ==
    LET known == IF msg.call = "id" THEN {msg.cid}
                 ELSE IF m \in DOMAIN c.index THEN {c.index[m]} ELSE {}
        i == IF known # {} THEN CHOOSE k \in known : TRUE ELSE NextId(c)
    IN  IF known # {} /\ i \in DOMAIN c.calls
        THEN Args(c, i)
        ELSE StartTool([c EXCEPT !.seq = IF known # {} THEN @ ELSE @ + 1,
                                 !.index = Put(@, m, i)], m, i)

AiChunk(c, msg, o) ==
    LET m == MessageId(c, msg, o)
        d == Opened(c, msg, o)
        e == IF msg.text THEN Content(StartText(d, m), m) ELSE d
        f == IF msg.call # "no" THEN ToolChunk(e, m, msg) ELSE e
    IN  IF msg.last THEN CloseMessages(f, {m}) ELSE f

\* The text cannot be made an event: the item's events are dropped, what was
\* done to the context before stands.
AiChunkRaises(c, msg, o) ==
    [StartText(Opened(c, msg, o), MessageId(c, msg, o)) EXCEPT !.told = c.told]

\* A variant of WholeTool that announces a call its chunks have announced.
WholeToolAgain(c, m, msg) ==
    IF msg.call = "no" THEN c ELSE EndTools(StartTool(c, m, msg.cid), {msg.cid})

\* A whole message repeats neither a text nor a call that chunks have begun.
WholeTool(c, m, msg) ==
    IF msg.call = "no" \/ msg.cid \in DOMAIN c.calls THEN c
    ELSE EndTools(StartTool(c, m, msg.cid), {msg.cid})

AiMessage(c, msg, o) ==
    LET m == MessageId(c, msg, o)
        d == Opened(c, msg, o)
        e == IF msg.text /\ m \notin d.text THEN Content(StartText(d, m), m) ELSE d
    IN  CloseMessages(WholeTool(EndTexts(e, {m}), m, msg), {m})

ToolMessage(c, i) ==
    Send(EndTools(c, {i} \cap DOMAIN c.calls), "TOOL_CALL_RESULT", {i})

-----------------------------------------------------------------------------
(* Updates and sub-agents. *)

\* A variant of StateDelta that does not remember the state it sent.
StateDeltaForgets(c, v) == IF v = c.last THEN c ELSE Send(c, "STATE_DELTA", {v})

\* The patch from the state last sent to the state with the update.
StateDelta(c, v) ==
    IF v = c.last THEN c ELSE Send([c EXCEPT !.last = v], "STATE_DELTA", {v})

Updates(c, o, v) ==
    LET d == CloseOwner(c, o) IN IF v = None THEN d ELSE StateDelta(d, v)

\* A start of an active sub-agent, or an end of one that is not, is RAW.
Custom(c, kind, s) ==
    CASE kind = "start" /\ s \notin c.subs ->
            Send([c EXCEPT !.subs = @ \cup {s}], "SUBAGENT_STARTED", {s})
      [] kind # "start" /\ s \in c.subs ->
            Send([c EXCEPT !.subs = @ \ {s}],
                 IF kind = "end" THEN "SUBAGENT_FINISHED" ELSE "SUBAGENT_ERROR", {s})
      [] OTHER -> c

-----------------------------------------------------------------------------
(* The run. *)

Init ==
    /\ ctx = [messages |-> <<>>, text |-> {}, calls |-> <<>>, index |-> <<>>,
              anon |-> <<>>, subs |-> {}, interrupts |-> {}, last |-> None, seq |-> 0,
              told |-> [phase |-> "new", text |-> {}, calls |-> {}, subs |-> {},
                        ended |-> {}, view |-> None, legal |-> TRUE]]
    /\ host = "new"
    /\ branch = [b \in Branches |->
                   [at |-> "idle", n |-> 0, chunks |-> 0, called |-> FALSE]]
    /\ state \in Values \cup {None}
    /\ lost = FALSE

client == ctx.told
Running == host = "running"

\* A call that raises returns no event, and its caller does not learn of it.
StartRun ==
    /\ host = "new" /\ host' = "running"
    /\ \/ /\ ctx' = Send(Send([ctx EXCEPT !.last = state], "RUN_STARTED", {None}),
                         "STATE_SNAPSHOT", {state})
          /\ UNCHANGED lost
       \/ /\ ctx' \in {ctx, [ctx EXCEPT !.last = state]}
          /\ lost' = TRUE
    /\ UNCHANGED <<branch, state>>

\* The number of the message branch b streams next from, and whether the message
\* has had its call.
Nth(b) == IF branch[b].at = "idle" THEN branch[b].n + 1 ELSE branch[b].n
HasCalled(b) == branch[b].at # "idle" /\ branch[b].called

\* What branch b may stream next of its message: a chunk, with text, a part of the
\* call or both, or the whole message.
Parts(b, whole) ==
    [text : BOOLEAN,
     call : IF ~HasCalled(b) THEN {"no", "id"} ELSE IF whole THEN {"id"} ELSE {"no", "rest"},
     last : IF whole THEN {TRUE} ELSE BOOLEAN]

Message(b, p) ==
    [id |-> IF b \in Unnamed THEN None ELSE <<b, Nth(b)>>, cid |-> <<b, Nth(b)>>,
     text |-> p.text, call |-> p.call, last |-> p.last]

\* Where the stream of branch b stands then.
Moves(b, p) ==
    LET called == HasCalled(b) \/ p.call # "no" IN
    branch' = [branch EXCEPT ![b] =
        [at |-> IF ~p.last THEN "streaming" ELSE IF called THEN "called" ELSE "idle",
         n |-> Nth(b), chunks |-> IF branch[b].at = "idle" THEN 1 ELSE branch[b].chunks + 1,
         called |-> called]]

Streams(b) ==
    /\ Running
    /\ \/ branch[b].at = "idle" /\ branch[b].n < MaxMessages
       \/ branch[b].at = "streaming"

Chunk(b) ==
    /\ Streams(b) /\ (branch[b].at = "idle" \/ branch[b].chunks < MaxChunks)
    /\ \E p \in Parts(b, FALSE) :
          /\ p.text \/ p.call # "no" \/ p.last
          /\ Moves(b, p)
          /\ ctx' = AiChunk(ctx, Message(b, p), OwnerOf[b])
    /\ UNCHANGED <<host, state, lost>>

ChunkRaises(b) ==
    /\ Streams(b) /\ (branch[b].at = "idle" \/ branch[b].chunks < MaxChunks)
    /\ ~lost
    /\ \E p \in Parts(b, FALSE) :
          /\ p.text
          /\ Moves(b, p)
          /\ ctx' = AiChunkRaises(ctx, Message(b, p), OwnerOf[b])
    /\ lost' = TRUE
    /\ UNCHANGED <<host, state>>

\* A message whose chunks have not said which is the last may come whole too.
Whole(b) ==
    /\ Streams(b)
    /\ \E p \in Parts(b, TRUE) :
          /\ Moves(b, p)
          /\ ctx' = AiMessage(ctx, Message(b, p), OwnerOf[b])
    /\ UNCHANGED <<host, state, lost>>

\* The call's tool answers; not every model marks the last chunk of a message.
ToolAnswers(b) ==
    /\ Running /\ branch[b].called /\ branch[b].at \in {"streaming", "called"}
    /\ branch' = [branch EXCEPT ![b].at = "idle", ![b].called = FALSE]
    /\ ctx' = ToolMessage(ctx, <<b, branch[b].n>>)
    /\ UNCHANGED <<host, state, lost>>

\* The branch's node returns, with or without a value for the state; what a
\* node of a subgraph returns is for the subgraph's state and not sent.
NodeReturns(b) ==
    /\ Running /\ branch[b].at \in {"idle", "streaming"}
    /\ branch' = [branch EXCEPT ![b].at = "done"]
    /\ \E v \in Values \cup {None} :
          /\ state' = IF v = None THEN state ELSE v
          /\ ctx' = Updates(ctx, OwnerOf[b], v)
    /\ UNCHANGED <<host, lost>>

Interrupts(b) ==
    /\ Running /\ branch[b].at = "idle"
    /\ branch' = [branch EXCEPT ![b].at = "done"]
    /\ ctx' = [ctx EXCEPT !.interrupts = @ \cup {b}]
    /\ UNCHANGED <<host, state, lost>>

Subagent(b, kind) ==
    /\ Running /\ b \in Announced /\ branch[b].at # "done"
    /\ ctx' = Custom(ctx, kind, b)
    /\ UNCHANGED <<host, branch, state, lost>>

\* The context is closed; the events that say so, and the last, are lost if making
\* them raises (_usage, json_safe).
Ends(type) ==
    /\ Running /\ host' = "over"
    /\ \/ ctx' = Send(CloseAll(ctx), type, {None}) /\ UNCHANGED lost
       \/ ctx' = [CloseAll(ctx) EXCEPT !.told = client] /\ lost' = TRUE
    /\ UNCHANGED <<branch, state>>

FinishRun ==
    /\ \A b \in Branches : branch[b].at = "done"
    /\ Ends("RUN_FINISHED")

\* The graph raises: its stream breaks off.
ErrorRun == Ends("RUN_ERROR")

Next ==
    \/ StartRun \/ FinishRun \/ ErrorRun
    \/ \E b \in Branches :
          \/ Chunk(b) \/ ChunkRaises(b) \/ Whole(b)
          \/ ToolAnswers(b) \/ NodeReturns(b) \/ Interrupts(b)
          \/ \E kind \in {"start", "end", "error"} : Subagent(b, kind)

\* Tools answer, nodes return, and the host finishes what it began.
Fairness == WF_vars(FinishRun \/ \E b \in Branches : ToolAnswers(b) \/ NodeReturns(b))

Spec == Init /\ [][Next]_vars /\ Fairness

-----------------------------------------------------------------------------
(* Every variable keeps its type. *)
Ids == (Branches \cup {"run"}) \X Nat
Places == [at : {"idle", "streaming", "called", "done"}, n : 0..MaxMessages,
           chunks : 0..MaxChunks + 1, called : BOOLEAN]
TypeOK ==
    /\ DOMAIN ctx.messages \cup ctx.text \cup DOMAIN ctx.index \subseteq Ids
    /\ DOMAIN ctx.calls \subseteq Ids /\ ctx.seq \in Nat
    /\ ctx.subs \subseteq Branches /\ ctx.interrupts \subseteq Branches
    /\ {ctx.last, state} \subseteq Values \cup {None}
    /\ host \in {"new", "running", "over"}
    /\ branch \in [Branches -> Places]
    /\ client.phase \in {"new", "running", "over"} /\ lost \in BOOLEAN

\* However the branches interleave, every event is one the protocol allows where it
\* comes: nothing is started while it is open, continued or ended while it is not,
\* answered before it has ended, or left open when the run is over.  What the context
\* holds open is what the client holds open, and the run is where its host has it.
\* This holds until an error drops the events of one item or call: from then on the
\* client may hold open what the context does not.
LegalStream ==
    ~lost => /\ client.legal /\ client.phase = host
             /\ client.text = ctx.text /\ client.calls = DOMAIN ctx.calls
             /\ client.subs = ctx.subs

\* An open text or tool call belongs to a message that is open, so that the end of
\* its node closes it; an id given to messages without one is given up with them.
OpenIsOwned ==
    /\ ctx.text \subseteq DOMAIN ctx.messages
    /\ \A i \in DOMAIN ctx.calls : ctx.calls[i] \in DOMAIN ctx.messages
    /\ DOMAIN ctx.index \subseteq DOMAIN ctx.messages
    /\ \A o \in DOMAIN ctx.anon :
          ctx.anon[o] \in DOMAIN ctx.messages /\ ctx.messages[ctx.anon[o]] = o

\* The state the client has put together is the graph's, as far as start_run and the
\* updates pass it on, after every item; a start that raised leaves it without one.
StateInSync == client.phase = "running" => client.view = state

\* A run that has begun is ended, with nothing left open in the context, and nothing
\* and no run left open at the client unless an error has dropped events: of an item
\* (as in LegalStream), or those of finish_run or error_run themselves.
OpenIsEnded ==
    host = "running" ~>
        /\ host = "over"
        /\ DOMAIN ctx.messages = {} /\ ctx.text = {} /\ DOMAIN ctx.calls = {} /\ ctx.subs = {}
        /\ lost \/ (client.phase = "over" /\ client.text = {} /\ client.calls = {}
                    /\ client.subs = {})

\* The text of a branch is ended by that branch or by the end of the run: "parallel
\* ``Send`` branches close independently when their node's ``updates`` chunk arrives".
ClosedByOwnBranch ==
    [][\A b \in Branches : \A n \in 1..MaxMessages :
          <<b, n>> \in client.text \ client'.text /\ client'.phase = "running"
              => branch'[b] # branch[b]]_vars

=============================================================================
