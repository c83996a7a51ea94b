--------------------------- MODULE AgUiRun_proofs ---------------------------
(***************************************************************************)
(* Proofs about AgUiRun for every number of branches, messages and chunks. *)
(*                                                                         *)
(* The translator's helpers call one another on one context, so the        *)
(* argument is about contexts first and about the run last.  A context is  *)
(* Sound when what it has open belongs to a message it has open and the id *)
(* it would make up next is new.  Every helper takes a sound context to a  *)
(* sound one that Carries it: if the client agreed with the first on what  *)
(* is open (Agree) it agrees with the second, and no call that had begun   *)
(* is unknown again.  A lemma says so of each helper (...Does), and        *)
(* CarriesOn puts them together.  StreamInv then adds what the branches    *)
(* know (a call waited on has begun) and what the state is.                *)
(***************************************************************************)
EXTENDS AgUiRun, TLAPS

-----------------------------------------------------------------------------
(* The fields of a context, and of the client in it.                       *)

Client(k) ==
    k = [phase |-> k.phase, text |-> k.text, calls |-> k.calls, subs |-> k.subs,
         ended |-> k.ended, view |-> k.view, legal |-> k.legal]

Shape(c) ==
    /\ c = [messages |-> c.messages, text |-> c.text, calls |-> c.calls, index |-> c.index,
            anon |-> c.anon, subs |-> c.subs, interrupts |-> c.interrupts, last |-> c.last,
            seq |-> c.seq, told |-> c.told]
    /\ Client(c.told)

LEMMA Received ==
    ASSUME NEW k, Client(k), NEW type, NEW ids, NEW r, r = Receive(k, type, ids)
    PROVE  /\ Client(r)
           /\ k.legal /\ Legal(k, type, ids) => r.legal
           /\ k.legal /\ ids = {} => r.legal
           /\ type \notin Over \cup {"RUN_STARTED"} => r.phase = k.phase
           /\ r.text = Moved(k.text, type, ids, "TEXT_MESSAGE_START", {"TEXT_MESSAGE_END"})
           /\ r.calls = Moved(k.calls, type, ids, "TOOL_CALL_START", {"TOOL_CALL_END"})
           /\ r.subs = Moved(k.subs, type, ids, "SUBAGENT_STARTED", SubagentEnds)
           /\ r.ended = Moved(k.ended, type, ids, "TOOL_CALL_END", {})
           /\ type \notin View => r.view = k.view
<1>. DEFINE legal == k.legal /\ (ids # {} => Legal(k, type, ids))
            phase == IF type = "RUN_STARTED" THEN "running"
                     ELSE IF type \in Over THEN "over" ELSE k.phase
            text == Moved(k.text, type, ids, "TEXT_MESSAGE_START", {"TEXT_MESSAGE_END"})
            calls == Moved(k.calls, type, ids, "TOOL_CALL_START", {"TOOL_CALL_END"})
            subs == Moved(k.subs, type, ids, "SUBAGENT_STARTED", SubagentEnds)
            ended == Moved(k.ended, type, ids, "TOOL_CALL_END", {})
            view == IF type \in View THEN CHOOSE v \in ids : TRUE ELSE k.view
<1>1. r = [k EXCEPT !.legal = legal, !.phase = phase, !.text = text, !.calls = calls,
                    !.subs = subs, !.ended = ended, !.view = view]
    BY DEF Receive
<1>. HIDE DEF legal, phase, text, calls, subs, ended, view
<1>2. r = [phase |-> phase, text |-> text, calls |-> calls, subs |-> subs,
           ended |-> ended, view |-> view, legal |-> legal]
    BY <1>1 DEF Client
<1>3. Client(r)
    BY <1>2 DEF Client
<1>4. /\ r.legal = legal /\ r.phase = phase /\ r.text = text /\ r.calls = calls
      /\ r.subs = subs /\ r.ended = ended /\ r.view = view
    BY <1>2
<1>. QED  BY <1>3, <1>4 DEF legal, phase, text, calls, subs, ended, view

LEMMA TextStarted ==
    ASSUME NEW k, Client(k), NEW ids, NEW r, r = Receive(k, "TEXT_MESSAGE_START", ids)
    PROVE  /\ Client(r) /\ r.phase = k.phase /\ r.view = k.view
           /\ k.legal /\ (ids = {} \/ Legal(k, "TEXT_MESSAGE_START", ids)) => r.legal
           /\ r.text = k.text \cup ids /\ r.calls = k.calls
           /\ r.subs = k.subs /\ r.ended = k.ended
<1>1. /\ "TEXT_MESSAGE_START" \notin Over \cup {"RUN_STARTED"} /\ "TEXT_MESSAGE_START" \notin View
      /\ Moved(k.text, "TEXT_MESSAGE_START", ids, "TEXT_MESSAGE_START", {"TEXT_MESSAGE_END"}) = k.text \cup ids
      /\ Moved(k.calls, "TEXT_MESSAGE_START", ids, "TOOL_CALL_START", {"TOOL_CALL_END"}) = k.calls
      /\ Moved(k.subs, "TEXT_MESSAGE_START", ids, "SUBAGENT_STARTED", SubagentEnds) = k.subs
      /\ Moved(k.ended, "TEXT_MESSAGE_START", ids, "TOOL_CALL_END", {}) = k.ended
    BY DEF Moved, SubagentEnds, Over, View
<1>. QED  BY <1>1, Received

LEMMA TextEnded ==
    ASSUME NEW k, Client(k), NEW ids, NEW r, r = Receive(k, "TEXT_MESSAGE_END", ids)
    PROVE  /\ Client(r) /\ r.phase = k.phase /\ r.view = k.view
           /\ k.legal /\ (ids = {} \/ Legal(k, "TEXT_MESSAGE_END", ids)) => r.legal
           /\ r.text = k.text \ ids /\ r.calls = k.calls
           /\ r.subs = k.subs /\ r.ended = k.ended
<1>1. /\ "TEXT_MESSAGE_END" \notin Over \cup {"RUN_STARTED"} /\ "TEXT_MESSAGE_END" \notin View
      /\ Moved(k.text, "TEXT_MESSAGE_END", ids, "TEXT_MESSAGE_START", {"TEXT_MESSAGE_END"}) = k.text \ ids
      /\ Moved(k.calls, "TEXT_MESSAGE_END", ids, "TOOL_CALL_START", {"TOOL_CALL_END"}) = k.calls
      /\ Moved(k.subs, "TEXT_MESSAGE_END", ids, "SUBAGENT_STARTED", SubagentEnds) = k.subs
      /\ Moved(k.ended, "TEXT_MESSAGE_END", ids, "TOOL_CALL_END", {}) = k.ended
    BY DEF Moved, SubagentEnds, Over, View
<1>. QED  BY <1>1, Received

LEMMA ToolStarted ==
    ASSUME NEW k, Client(k), NEW ids, NEW r, r = Receive(k, "TOOL_CALL_START", ids)
    PROVE  /\ Client(r) /\ r.phase = k.phase /\ r.view = k.view
           /\ k.legal /\ (ids = {} \/ Legal(k, "TOOL_CALL_START", ids)) => r.legal
           /\ r.text = k.text /\ r.calls = k.calls \cup ids
           /\ r.subs = k.subs /\ r.ended = k.ended
<1>1. /\ "TOOL_CALL_START" \notin Over \cup {"RUN_STARTED"} /\ "TOOL_CALL_START" \notin View
      /\ Moved(k.text, "TOOL_CALL_START", ids, "TEXT_MESSAGE_START", {"TEXT_MESSAGE_END"}) = k.text
      /\ Moved(k.calls, "TOOL_CALL_START", ids, "TOOL_CALL_START", {"TOOL_CALL_END"}) = k.calls \cup ids
      /\ Moved(k.subs, "TOOL_CALL_START", ids, "SUBAGENT_STARTED", SubagentEnds) = k.subs
      /\ Moved(k.ended, "TOOL_CALL_START", ids, "TOOL_CALL_END", {}) = k.ended
    BY DEF Moved, SubagentEnds, Over, View
<1>. QED  BY <1>1, Received

LEMMA ToolEnded ==
    ASSUME NEW k, Client(k), NEW ids, NEW r, r = Receive(k, "TOOL_CALL_END", ids)
    PROVE  /\ Client(r) /\ r.phase = k.phase /\ r.view = k.view
           /\ k.legal /\ (ids = {} \/ Legal(k, "TOOL_CALL_END", ids)) => r.legal
           /\ r.text = k.text /\ r.calls = k.calls \ ids
           /\ r.subs = k.subs /\ r.ended = k.ended \cup ids
<1>1. /\ "TOOL_CALL_END" \notin Over \cup {"RUN_STARTED"} /\ "TOOL_CALL_END" \notin View
      /\ Moved(k.text, "TOOL_CALL_END", ids, "TEXT_MESSAGE_START", {"TEXT_MESSAGE_END"}) = k.text
      /\ Moved(k.calls, "TOOL_CALL_END", ids, "TOOL_CALL_START", {"TOOL_CALL_END"}) = k.calls \ ids
      /\ Moved(k.subs, "TOOL_CALL_END", ids, "SUBAGENT_STARTED", SubagentEnds) = k.subs
      /\ Moved(k.ended, "TOOL_CALL_END", ids, "TOOL_CALL_END", {}) = k.ended \cup ids
    BY DEF Moved, SubagentEnds, Over, View
<1>. QED  BY <1>1, Received

LEMMA Continued ==
    ASSUME NEW k, Client(k), NEW type \in {"TEXT_MESSAGE_CONTENT", "TOOL_CALL_ARGS", "TOOL_CALL_RESULT"}, NEW ids, NEW r, r = Receive(k, type, ids)
    PROVE  /\ Client(r) /\ r.phase = k.phase /\ r.view = k.view
           /\ k.legal /\ (ids = {} \/ Legal(k, type, ids)) => r.legal
           /\ r.text = k.text /\ r.calls = k.calls
           /\ r.subs = k.subs /\ r.ended = k.ended
<1>1. /\ type \notin Over \cup {"RUN_STARTED"} /\ type \notin View
      /\ Moved(k.text, type, ids, "TEXT_MESSAGE_START", {"TEXT_MESSAGE_END"}) = k.text
      /\ Moved(k.calls, type, ids, "TOOL_CALL_START", {"TOOL_CALL_END"}) = k.calls
      /\ Moved(k.subs, type, ids, "SUBAGENT_STARTED", SubagentEnds) = k.subs
      /\ Moved(k.ended, type, ids, "TOOL_CALL_END", {}) = k.ended
    BY DEF Moved, SubagentEnds, Over, View
<1>. QED  BY <1>1, Received

LEMMA SubagentStarted ==
    ASSUME NEW k, Client(k), NEW ids, NEW r, r = Receive(k, "SUBAGENT_STARTED", ids)
    PROVE  /\ Client(r) /\ r.phase = k.phase /\ r.view = k.view
           /\ k.legal /\ (ids = {} \/ Legal(k, "SUBAGENT_STARTED", ids)) => r.legal
           /\ r.text = k.text /\ r.calls = k.calls
           /\ r.subs = k.subs \cup ids /\ r.ended = k.ended
<1>1. /\ "SUBAGENT_STARTED" \notin Over \cup {"RUN_STARTED"} /\ "SUBAGENT_STARTED" \notin View
      /\ Moved(k.text, "SUBAGENT_STARTED", ids, "TEXT_MESSAGE_START", {"TEXT_MESSAGE_END"}) = k.text
      /\ Moved(k.calls, "SUBAGENT_STARTED", ids, "TOOL_CALL_START", {"TOOL_CALL_END"}) = k.calls
      /\ Moved(k.subs, "SUBAGENT_STARTED", ids, "SUBAGENT_STARTED", SubagentEnds) = k.subs \cup ids
      /\ Moved(k.ended, "SUBAGENT_STARTED", ids, "TOOL_CALL_END", {}) = k.ended
    BY DEF Moved, SubagentEnds, Over, View
<1>. QED  BY <1>1, Received

LEMMA SubagentEnded ==
    ASSUME NEW k, Client(k), NEW type \in {"SUBAGENT_FINISHED", "SUBAGENT_ERROR"}, NEW ids, NEW r, r = Receive(k, type, ids)
    PROVE  /\ Client(r) /\ r.phase = k.phase /\ r.view = k.view
           /\ k.legal /\ (ids = {} \/ Legal(k, type, ids)) => r.legal
           /\ r.text = k.text /\ r.calls = k.calls
           /\ r.subs = k.subs \ ids /\ r.ended = k.ended
<1>1. /\ type \notin Over \cup {"RUN_STARTED"} /\ type \notin View
      /\ Moved(k.text, type, ids, "TEXT_MESSAGE_START", {"TEXT_MESSAGE_END"}) = k.text
      /\ Moved(k.calls, type, ids, "TOOL_CALL_START", {"TOOL_CALL_END"}) = k.calls
      /\ Moved(k.subs, type, ids, "SUBAGENT_STARTED", SubagentEnds) = k.subs \ ids
      /\ Moved(k.ended, type, ids, "TOOL_CALL_END", {}) = k.ended
    BY DEF Moved, SubagentEnds, Over, View
<1>. QED  BY <1>1, Received

LEMMA SendFields ==
    ASSUME NEW c, Shape(c), NEW type, NEW ids
    PROVE  LET d == Send(c, type, ids) IN
           /\ Shape(d)
           /\ d.told = Receive(c.told, type, ids)
           /\ d.messages = c.messages /\ d.text = c.text /\ d.calls = c.calls /\ d.index = c.index
           /\ d.anon = c.anon /\ d.subs = c.subs /\ d.interrupts = c.interrupts
           /\ d.last = c.last /\ d.seq = c.seq
<1>1. Client(Receive(c.told, type, ids))
    BY Received DEF Shape
<1>. QED  BY <1>1 DEF Send, Shape

-----------------------------------------------------------------------------
(* What the helpers preserve.                                              *)

\* The client holds open what the context holds open, and nothing it was told was
\* out of place.
Agree(c) ==
    /\ c.told.legal /\ c.told.phase = "running"
    /\ c.told.text = c.text /\ c.told.calls = DOMAIN c.calls /\ c.told.subs = c.subs

\* Calls that have begun: open, or ended.
Begun(c) == DOMAIN c.calls \cup c.told.ended

\* d follows c, and goes on agreeing with the client.
Follows(c, d) ==
    /\ Shape(d) /\ d.told.phase = c.told.phase
    /\ Agree(c) => Agree(d) /\ Begun(c) \subseteq Begun(d)

\* d follows c by the handling of a part of a message.
Carries(c, d) ==
    /\ Follows(c, d)
    /\ d.last = c.last /\ d.told.view = c.told.view
    /\ d.subs = c.subs /\ d.interrupts = c.interrupts

Owned(c) ==
    /\ c.text \subseteq DOMAIN c.messages
    /\ \A i \in DOMAIN c.calls : c.calls[i] \in DOMAIN c.messages
    /\ DOMAIN c.index \subseteq DOMAIN c.messages
    /\ \A o \in DOMAIN c.anon :
          c.anon[o] \in DOMAIN c.messages /\ c.messages[c.anon[o]] = o

\* The ids of the branches and those given so far: the next id is none of them.
Given(c) == (Branches \X Nat) \cup ({"run"} \X (0..c.seq))

Fresh(c) ==
    /\ c.seq \in Nat
    /\ DOMAIN c.messages \subseteq Given(c) /\ DOMAIN c.calls \subseteq Given(c)
    /\ \A m \in DOMAIN c.index : c.index[m] \in Given(c)

Sound(c) == Shape(c) /\ Owned(c) /\ Fresh(c)

LEMMA CarriesOn == ASSUME NEW c, NEW d, NEW e, Carries(c, d), Carries(d, e) PROVE Carries(c, e)
  BY DEF Follows, Carries

LEMMA CarriesNone == ASSUME NEW c, Shape(c) PROVE Carries(c, c)
  BY DEF Follows, Carries

LEMMA EndTextsDoes ==
    ASSUME NEW c, Shape(c), NEW mids
    PROVE  LET d == EndTexts(c, mids) IN
           /\ Carries(c, d)
           /\ d.text = c.text \ mids
           /\ d.messages = c.messages /\ d.calls = c.calls /\ d.index = c.index
           /\ d.anon = c.anon /\ d.subs = c.subs /\ d.seq = c.seq
<1>. DEFINE b == [c EXCEPT !.text = @ \ mids]
            ids == c.text \cap mids
            d == EndTexts(c, mids)
<1>1. /\ Shape(b) /\ b.text = c.text \ mids
      /\ b.messages = c.messages /\ b.calls = c.calls /\ b.index = c.index
      /\ b.anon = c.anon /\ b.subs = c.subs /\ b.seq = c.seq
      /\ b.told = c.told /\ b.last = c.last /\ b.interrupts = c.interrupts
    BY DEF Shape
<1>2. d = Send(b, "TEXT_MESSAGE_END", ids)
    BY DEF EndTexts
<1>. HIDE DEF b, d
<1>3. /\ Shape(d) /\ d.told = Receive(c.told, "TEXT_MESSAGE_END", ids)
      /\ d.messages = c.messages /\ d.text = c.text \ mids /\ d.calls = c.calls
      /\ d.index = c.index /\ d.anon = c.anon /\ d.subs = c.subs /\ d.seq = c.seq
      /\ d.last = c.last /\ d.interrupts = c.interrupts
    BY <1>1, <1>2, SendFields
<1>4. /\ c.told.legal /\ Legal(c.told, "TEXT_MESSAGE_END", ids) => d.told.legal
      /\ d.told.phase = c.told.phase /\ d.told.text = c.told.text \ ids
      /\ d.told.calls = c.told.calls /\ d.told.subs = c.told.subs
      /\ d.told.ended = c.told.ended /\ d.told.view = c.told.view
  <2>1. Client(c.told)
      BY DEF Shape
  <2>2. d.told = Receive(c.told, "TEXT_MESSAGE_END", ids)
      BY <1>3
  <2>. QED  BY ONLY <2>1, <2>2, TextEnded
<1>5. Agree(c) => Legal(c.told, "TEXT_MESSAGE_END", ids)
    BY DEF Agree, Legal
<1>6. Agree(c) => Agree(d) /\ Begun(c) \subseteq Begun(d)
    BY <1>3, <1>4, <1>5 DEF Agree, Begun
<1>. QED  BY <1>3, <1>4, <1>6 DEF Follows, Carries, d

LEMMA EndToolsDoes ==
    ASSUME NEW c, Shape(c), NEW ids, ids \subseteq DOMAIN c.calls
    PROVE  LET d == EndTools(c, ids) IN
           /\ Carries(c, d)
           /\ d.calls = Without(c.calls, ids)
           /\ d.messages = c.messages /\ d.text = c.text /\ d.index = c.index
           /\ d.anon = c.anon /\ d.subs = c.subs /\ d.seq = c.seq
<1>. DEFINE b == [c EXCEPT !.calls = Without(@, ids)]
            d == EndTools(c, ids)
<1>1. /\ Shape(b) /\ b.calls = Without(c.calls, ids)
      /\ b.messages = c.messages /\ b.text = c.text /\ b.index = c.index
      /\ b.anon = c.anon /\ b.subs = c.subs /\ b.seq = c.seq
      /\ b.told = c.told /\ b.last = c.last /\ b.interrupts = c.interrupts
    BY DEF Shape
<1>2. d = Send(b, "TOOL_CALL_END", ids)
    BY DEF EndTools
<1>. HIDE DEF b, d
<1>3. /\ Shape(d) /\ d.told = Receive(c.told, "TOOL_CALL_END", ids)
      /\ d.messages = c.messages /\ d.text = c.text /\ d.calls = Without(c.calls, ids)
      /\ d.index = c.index /\ d.anon = c.anon /\ d.subs = c.subs /\ d.seq = c.seq
      /\ d.last = c.last /\ d.interrupts = c.interrupts
    BY <1>1, <1>2, SendFields
<1>4. /\ c.told.legal /\ Legal(c.told, "TOOL_CALL_END", ids) => d.told.legal
      /\ d.told.phase = c.told.phase /\ d.told.text = c.told.text
      /\ d.told.calls = c.told.calls \ ids /\ d.told.subs = c.told.subs
      /\ d.told.ended = c.told.ended \cup ids /\ d.told.view = c.told.view
  <2>1. Client(c.told)
      BY DEF Shape
  <2>2. d.told = Receive(c.told, "TOOL_CALL_END", ids)
      BY <1>3
  <2>. QED  BY ONLY <2>1, <2>2, ToolEnded
<1>5. Agree(c) => Legal(c.told, "TOOL_CALL_END", ids)
    BY DEF Agree, Legal
<1>6. DOMAIN d.calls = DOMAIN c.calls \ ids
    BY <1>3 DEF Without, Restrict
<1>7. Agree(c) => Agree(d) /\ Begun(c) \subseteq Begun(d)
    BY <1>3, <1>4, <1>5, <1>6 DEF Agree, Begun
<1>. QED  BY <1>3, <1>4, <1>7 DEF Follows, Carries, d

LEMMA ForgetDoes ==
    ASSUME NEW c, Shape(c), NEW mids
    PROVE  LET d == Forget(c, mids) IN
           /\ Carries(c, d)
           /\ d.messages = Without(c.messages, mids) /\ d.index = Without(c.index, mids)
           /\ d.anon = Without(c.anon, {o \in DOMAIN c.anon : c.anon[o] \in mids})
           /\ d.text = c.text /\ d.calls = c.calls /\ d.subs = c.subs /\ d.seq = c.seq
<1>. DEFINE d == Forget(c, mids)
            A == Without(c.messages, mids)
            B == Without(c.anon, {o \in DOMAIN c.anon : c.anon[o] \in mids})
            C == Without(c.index, mids)
<1>1. d = [c EXCEPT !.messages = A, !.anon = B, !.index = C]
    BY DEF Forget
<1>. HIDE DEF A, B, C, d
<1>2. /\ Shape(d) /\ d.messages = A /\ d.anon = B /\ d.index = C
      /\ d.text = c.text /\ d.calls = c.calls /\ d.subs = c.subs /\ d.seq = c.seq
      /\ d.told = c.told /\ d.last = c.last /\ d.interrupts = c.interrupts
    BY <1>1 DEF Shape
<1>3. Carries(c, d)
    BY <1>2 DEF Follows, Carries, Agree, Begun
<1>. QED  BY <1>2, <1>3 DEF A, B, C, d

LEMMA CloseMessagesDoes ==
    ASSUME NEW c, Shape(c), NEW mids
    PROVE  LET d == CloseMessages(c, mids) IN
           /\ Carries(c, d)
           /\ d.text = c.text \ mids
           /\ d.calls = Without(c.calls, CallsOf(c, mids))
           /\ d.messages = Without(c.messages, mids) /\ d.index = Without(c.index, mids)
           /\ d.anon = Without(c.anon, {o \in DOMAIN c.anon : c.anon[o] \in mids})
           /\ d.subs = c.subs /\ d.seq = c.seq
<1>. DEFINE a == EndTexts(c, mids)
            b == EndTools(a, CallsOf(a, mids))
            d == Forget(b, mids)
<1>1. CloseMessages(c, mids) = d
  <2>1. CallsOf(a, mids) = CallsOf(c, mids)
      BY EndTextsDoes DEF CallsOf
  <2>. QED  BY <2>1 DEF CloseMessages
<1>2. /\ Carries(c, a) /\ a.text = c.text \ mids
      /\ a.messages = c.messages /\ a.calls = c.calls /\ a.index = c.index
      /\ a.anon = c.anon /\ a.subs = c.subs /\ a.seq = c.seq
    BY EndTextsDoes
<1>3. Shape(a) /\ CallsOf(a, mids) \subseteq DOMAIN a.calls
    BY <1>2 DEF Follows, Carries, CallsOf
<1>. HIDE DEF a
<1>4. /\ Carries(a, b) /\ b.calls = Without(a.calls, CallsOf(a, mids))
      /\ b.messages = a.messages /\ b.text = a.text /\ b.index = a.index
      /\ b.anon = a.anon /\ b.subs = a.subs /\ b.seq = a.seq
    BY <1>3, EndToolsDoes
<1>5. Shape(b) /\ CallsOf(a, mids) = CallsOf(c, mids)
    BY <1>2, <1>4 DEF Follows, Carries, CallsOf
<1>. HIDE DEF b
<1>6. /\ Carries(b, d)
      /\ d.messages = Without(b.messages, mids) /\ d.index = Without(b.index, mids)
      /\ d.anon = Without(b.anon, {o \in DOMAIN b.anon : b.anon[o] \in mids})
      /\ d.text = b.text /\ d.calls = b.calls /\ d.subs = b.subs /\ d.seq = b.seq
    BY <1>5, ForgetDoes
<1>. HIDE DEF d
<1>7. Carries(c, d)
    BY <1>2, <1>4, <1>6, CarriesOn
<1>. QED  BY ONLY <1>1, <1>2, <1>4, <1>5, <1>6, <1>7

\* What is closed goes as a whole, so that what is left stays sound.
LEMMA CloseMessagesSound ==
    ASSUME NEW c, Sound(c), NEW mids
    PROVE  Sound(CloseMessages(c, mids)) /\ Carries(c, CloseMessages(c, mids))
<1>. DEFINE d == CloseMessages(c, mids)
            gone == {o \in DOMAIN c.anon : c.anon[o] \in mids}
<1>1. /\ Carries(c, d)
      /\ d.text = c.text \ mids
      /\ d.calls = Without(c.calls, CallsOf(c, mids))
      /\ d.messages = Without(c.messages, mids) /\ d.index = Without(c.index, mids)
      /\ d.anon = Without(c.anon, gone) /\ d.seq = c.seq
    BY CloseMessagesDoes DEF Sound
<1>. HIDE DEF d
<1>2. /\ DOMAIN d.calls = DOMAIN c.calls \ CallsOf(c, mids)
      /\ \A x \in DOMAIN d.calls : d.calls[x] = c.calls[x]
    BY <1>1 DEF Without, Restrict
<1>3. /\ DOMAIN d.messages = DOMAIN c.messages \ mids
      /\ \A x \in DOMAIN d.messages : d.messages[x] = c.messages[x]
    BY <1>1 DEF Without, Restrict
<1>4. /\ DOMAIN d.index = DOMAIN c.index \ mids
      /\ \A x \in DOMAIN d.index : d.index[x] = c.index[x]
    BY <1>1 DEF Without, Restrict
<1>5. /\ DOMAIN d.anon = DOMAIN c.anon \ gone
      /\ \A x \in DOMAIN d.anon : d.anon[x] = c.anon[x]
    BY <1>1 DEF Without, Restrict
<1>6. Owned(d)
  <2>1. Owned(c)
      BY DEF Sound
  <2>2. d.text \subseteq DOMAIN d.messages
      BY <1>1, <1>3, <2>1 DEF Owned
  <2>3. \A i \in DOMAIN d.calls : d.calls[i] \in DOMAIN d.messages
      BY <1>2, <1>3, <2>1 DEF Owned, CallsOf
  <2>4. DOMAIN d.index \subseteq DOMAIN d.messages
      BY <1>3, <1>4, <2>1 DEF Owned
  <2>5. \A x \in DOMAIN d.anon : d.anon[x] \in DOMAIN d.messages /\ d.messages[d.anon[x]] = x
      BY <1>3, <1>5, <2>1 DEF Owned
  <2>. QED  BY <2>2, <2>3, <2>4, <2>5 DEF Owned
<1>7. Fresh(d)
    BY <1>1, <1>2, <1>3, <1>4 DEF Sound, Fresh, Given
<1>. QED  BY <1>1, <1>6, <1>7 DEF Follows, Sound, Carries, d

-----------------------------------------------------------------------------
(* Messages.                                                               *)

\* An id given to a message is not one given before, nor one of a branch.
LEMMA NextIdFacts ==
    ASSUME NEW c, c.seq \in Nat
    PROVE  /\ NextId(c) \notin Given(c)
           /\ \A d : d.seq = c.seq + 1 => NextId(c) \in Given(d) /\ Given(c) \subseteq Given(d)
  BY AgUiRunAssumption DEF AgUiRunAssumption, NextId, Given

\* A message is one of a branch, or comes without an id.
IsMessage(msg) == (msg.id = None \/ msg.id \in Branches \X Nat) /\ msg.cid \in Branches \X Nat

LEMMA OpenedDoes ==
    ASSUME NEW c, Sound(c), NEW msg, IsMessage(msg), NEW o
    PROVE  LET m == MessageId(c, msg, o)
               d == Opened(c, msg, o)
           IN  Sound(d) /\ Carries(c, d) /\ m \in DOMAIN d.messages
<1>. DEFINE m == MessageId(c, msg, o)
            b == [c EXCEPT !.seq = @ + 1, !.anon = Put(@, o, m)]
            mids(a) == {x \in DOMAIN a.messages : a.messages[x] = o}
            opened(a) == [CloseOwner(a, o) EXCEPT !.messages = Put(@, m, o)]
<1>. HIDE DEF m
<1>1. CASE msg.id # None \/ o \in DOMAIN c.anon
  <2>1. Opened(c, msg, o) = Open(c, m, o)
      BY <1>1 DEF Opened, m
  <2>2. CASE m \in DOMAIN c.messages
      BY <2>1, <2>2, CarriesNone DEF Open, Sound, m
  <2>3. CASE m \notin DOMAIN c.messages
    <3>. DEFINE a == CloseMessages(c, mids(c))
                d == [a EXCEPT !.messages = Put(@, m, o)]
    <3>1. Opened(c, msg, o) = d
        BY <2>1, <2>3 DEF Open, CloseOwner
    <3>2. Sound(a) /\ Carries(c, a) /\ a.messages = Without(c.messages, mids(c)) /\ a.seq = c.seq
        BY CloseMessagesSound, CloseMessagesDoes DEF Sound
    <3>. HIDE DEF a
    <3>3. /\ Shape(d) /\ d.messages = Put(a.messages, m, o)
          /\ d.text = a.text /\ d.calls = a.calls /\ d.index = a.index /\ d.anon = a.anon
          /\ d.subs = a.subs /\ d.interrupts = a.interrupts /\ d.last = a.last
          /\ d.seq = a.seq /\ d.told = a.told
        BY <3>2 DEF Sound, Shape
    <3>4. m \notin DOMAIN a.messages
        BY <2>3, <3>2 DEF Without, Restrict
    <3>. HIDE DEF d
    <3>5. /\ DOMAIN d.messages = DOMAIN a.messages \cup {m} /\ d.messages[m] = o
          /\ \A x \in DOMAIN a.messages : d.messages[x] = a.messages[x]
        BY <3>3, <3>4 DEF Put
    <3>6. m \in Given(c)
      <4>1. msg.id # None
          BY <1>1, <2>3 DEF m, MessageId, Sound, Owned
      <4>. QED  BY <4>1 DEF m, MessageId, IsMessage, Given
    <3>7. Owned(d)
        BY <3>2, <3>3, <3>5 DEF Sound, Owned
    <3>8. Fresh(d)
        BY <3>2, <3>3, <3>5, <3>6 DEF Sound, Fresh, Given
    <3>9. Carries(a, d)
        BY <3>3 DEF Follows, Carries, Agree, Begun
    <3>. QED  BY <3>1, <3>2, <3>3, <3>5, <3>7, <3>8, <3>9, CarriesOn DEF Sound, m
  <2>. QED  BY <2>2, <2>3
<1>2. CASE msg.id = None /\ o \notin DOMAIN c.anon
  <2>. DEFINE a == CloseMessages(b, mids(b))
              d == [a EXCEPT !.messages = Put(@, m, o)]
  <2>1. m = NextId(c) /\ m \notin Given(c)
      BY <1>2, NextIdFacts DEF m, MessageId, Sound, Fresh
  <2>2. m \notin DOMAIN c.messages
      BY <2>1 DEF Sound, Fresh
  <2>3. /\ Shape(b) /\ b.seq = c.seq + 1 /\ b.anon = Put(c.anon, o, m)
        /\ b.messages = c.messages /\ b.text = c.text /\ b.calls = c.calls /\ b.index = c.index
        /\ b.subs = c.subs /\ b.interrupts = c.interrupts /\ b.last = c.last /\ b.told = c.told
    <3>. DEFINE A == Put(c.anon, o, m)
    <3>1. b = [c EXCEPT !.seq = @ + 1, !.anon = A]
        OBVIOUS
    <3>2. Shape(c)
        BY DEF Sound
    <3>. HIDE DEF A, b
    <3>3. b = [messages |-> c.messages, text |-> c.text, calls |-> c.calls, index |-> c.index,
               anon |-> A, subs |-> c.subs, interrupts |-> c.interrupts, last |-> c.last,
               seq |-> c.seq + 1, told |-> c.told]
        BY ONLY <3>1, <3>2 DEF Shape
    <3>. QED  BY <3>2, <3>3 DEF Shape, A
  <2>4. Opened(c, msg, o) = Open(b, m, o)
      BY <1>2 DEF Opened, m
  <2>. HIDE DEF b
  <2>5. Opened(c, msg, o) = d
      BY <2>2, <2>3, <2>4 DEF Open, CloseOwner
  <2>6. /\ Carries(b, a)
        /\ a.text = b.text \ mids(b)
        /\ a.calls = Without(b.calls, CallsOf(b, mids(b)))
        /\ a.messages = Without(b.messages, mids(b)) /\ a.index = Without(b.index, mids(b))
        /\ a.anon = Without(b.anon, {x \in DOMAIN b.anon : b.anon[x] \in mids(b)})
        /\ a.subs = b.subs /\ a.seq = b.seq
      BY <2>3, CloseMessagesDoes
  <2>. HIDE DEF a
  <2>7. /\ Shape(d) /\ d.messages = Put(a.messages, m, o)
        /\ d.text = a.text /\ d.calls = a.calls /\ d.index = a.index /\ d.anon = a.anon
        /\ d.subs = a.subs /\ d.interrupts = a.interrupts /\ d.last = a.last
        /\ d.seq = a.seq /\ d.told = a.told
      BY <2>6 DEF Follows, Carries, Shape
  <2>. HIDE DEF d
  <2>8. /\ DOMAIN a.messages = DOMAIN c.messages \ mids(b)
        /\ \A x \in DOMAIN a.messages : a.messages[x] = c.messages[x]
      BY <2>3, <2>6 DEF Without, Restrict
  <2>9. /\ DOMAIN d.messages = DOMAIN a.messages \cup {m} /\ d.messages[m] = o
        /\ \A x \in DOMAIN a.messages : d.messages[x] = a.messages[x]
      BY <2>2, <2>7, <2>8 DEF Put
  <2>10. /\ DOMAIN b.anon = DOMAIN c.anon \cup {o} /\ b.anon[o] = m
         /\ \A x \in DOMAIN c.anon : b.anon[x] = c.anon[x]
      BY <1>2, <2>3 DEF Put
  <2>11. /\ DOMAIN d.anon = {x \in DOMAIN b.anon : b.anon[x] \notin mids(b)}
         /\ \A x \in DOMAIN d.anon : d.anon[x] = b.anon[x]
    <3>. DEFINE gone == {x \in DOMAIN b.anon : b.anon[x] \in mids(b)}
    <3>1. d.anon = Without(b.anon, gone)
        BY <2>6, <2>7
    <3>2. DOMAIN d.anon = DOMAIN b.anon \ gone /\ \A x \in DOMAIN d.anon : d.anon[x] = b.anon[x]
        BY <3>1 DEF Without, Restrict
    <3>. QED  BY <3>2
  <2>12. /\ DOMAIN d.calls = DOMAIN c.calls \ CallsOf(c, mids(b))
         /\ \A x \in DOMAIN d.calls : d.calls[x] = c.calls[x]
    <3>1. CallsOf(b, mids(b)) = CallsOf(c, mids(b)) /\ d.calls = Without(c.calls, CallsOf(b, mids(b)))
        BY <2>3, <2>6, <2>7 DEF CallsOf
    <3>. QED  BY <3>1 DEF Without, Restrict
  <2>13. /\ DOMAIN d.index = DOMAIN c.index \ mids(b)
         /\ \A x \in DOMAIN d.index : d.index[x] = c.index[x]
    <3>1. d.index = Without(c.index, mids(b))
        BY <2>3, <2>6, <2>7
    <3>. QED  BY <3>1 DEF Without, Restrict
  <2>14. mids(b) \subseteq DOMAIN c.messages
      BY <2>3
  <2>. HIDE DEF mids
  <2>15. Owned(c)
      BY DEF Sound
  <2>16. d.text \subseteq DOMAIN d.messages /\ DOMAIN d.index \subseteq DOMAIN d.messages
           /\ \A i \in DOMAIN d.calls : d.calls[i] \in DOMAIN d.messages
      BY <2>3, <2>6, <2>7, <2>8, <2>9, <2>12, <2>13, <2>15 DEF Owned, CallsOf
  <2>17. ASSUME NEW x \in DOMAIN d.anon
         PROVE  d.anon[x] \in DOMAIN d.messages /\ d.messages[d.anon[x]] = x
    <3>1. CASE x = o
        BY <2>9, <2>10, <2>11, <3>1
    <3>2. CASE x # o
      <4>1. x \in DOMAIN c.anon /\ d.anon[x] = c.anon[x] /\ c.anon[x] \notin mids(b)
          BY <2>10, <2>11, <3>2
      <4>. QED  BY <2>8, <2>9, <2>15, <4>1 DEF Owned
    <3>. QED  BY <3>1, <3>2
  <2>18. Owned(d)
      BY <2>16, <2>17 DEF Owned
  <2>19. d.seq = c.seq + 1 /\ c.seq \in Nat /\ m \in Given(d) /\ Given(c) \subseteq Given(d)
      BY <2>1, <2>3, <2>6, <2>7, NextIdFacts DEF Sound, Fresh
  <2>20. Fresh(d)
      BY <2>8, <2>9, <2>12, <2>13, <2>19 DEF Sound, Fresh
  <2>21. Carries(c, b)
      BY <2>3 DEF Follows, Carries, Agree, Begun
  <2>22. Carries(a, d)
      BY <2>7 DEF Follows, Carries, Agree, Begun
  <2>. QED  BY <2>5, <2>6, <2>7, <2>9, <2>18, <2>20, <2>21, <2>22, CarriesOn DEF Sound, m
<1>. QED  BY <1>1, <1>2

LEMMA StartTextDoes ==
    ASSUME NEW c, Sound(c), NEW m, m \in DOMAIN c.messages
    PROVE  LET d == StartText(c, m) IN
           /\ Sound(d) /\ Carries(c, d) /\ m \in d.text
           /\ d.messages = c.messages /\ d.calls = c.calls
<1>1. CASE m \in c.text
    BY <1>1, CarriesNone DEF StartText, Sound
<1>2. CASE m \notin c.text
  <2>. DEFINE b == [c EXCEPT !.text = @ \cup {m}]
              d == Send(b, "TEXT_MESSAGE_START", {m})
  <2>1. StartText(c, m) = d
      BY <1>2 DEF StartText
  <2>2. /\ Shape(b) /\ b.text = c.text \cup {m}
        /\ b.messages = c.messages /\ b.calls = c.calls /\ b.index = c.index
        /\ b.anon = c.anon /\ b.subs = c.subs /\ b.seq = c.seq
        /\ b.told = c.told /\ b.last = c.last /\ b.interrupts = c.interrupts
      BY DEF Sound, Shape
  <2>. HIDE DEF b
  <2>3. /\ Shape(d) /\ d.told = Receive(b.told, "TEXT_MESSAGE_START", {m})
        /\ d.messages = b.messages /\ d.text = b.text /\ d.calls = b.calls /\ d.index = b.index
        /\ d.anon = b.anon /\ d.subs = b.subs /\ d.interrupts = b.interrupts
        /\ d.last = b.last /\ d.seq = b.seq
      BY <2>2, SendFields
  <2>. HIDE DEF d
  <2>4. Client(c.told)
      BY DEF Sound, Shape
  <2>5. /\ d.told.phase = c.told.phase /\ d.told.view = c.told.view
        /\ c.told.legal /\ Legal(c.told, "TEXT_MESSAGE_START", {m}) => d.told.legal
        /\ d.told.text = c.told.text \cup {m} /\ d.told.calls = c.told.calls
        /\ d.told.subs = c.told.subs /\ d.told.ended = c.told.ended
      BY ONLY <2>2, <2>3, <2>4, TextStarted
  <2>6. Agree(c) => Legal(c.told, "TEXT_MESSAGE_START", {m})
      BY <1>2 DEF Agree, Legal
  <2>7. Agree(c) => Agree(d) /\ Begun(c) \subseteq Begun(d)
      BY <2>2, <2>3, <2>5, <2>6 DEF Agree, Begun
  <2>8. Owned(d) /\ Fresh(d)
      BY <2>2, <2>3 DEF Sound, Owned, Fresh, Given
  <2>. QED  BY <2>1, <2>2, <2>3, <2>5, <2>7, <2>8 DEF Follows, Sound, Carries
<1>. QED  BY <1>1, <1>2

\* An event that starts and ends nothing.
LEMMA ContinueDoes ==
    ASSUME NEW c, Sound(c), NEW ids,
           NEW type \in {"TEXT_MESSAGE_CONTENT", "TOOL_CALL_ARGS", "TOOL_CALL_RESULT"},
           Agree(c) => Legal(c.told, type, ids)
    PROVE  LET d == Send(c, type, ids) IN
           /\ Sound(d) /\ Carries(c, d)
           /\ d.messages = c.messages /\ d.text = c.text /\ d.calls = c.calls
           /\ d.index = c.index /\ d.anon = c.anon /\ d.subs = c.subs /\ d.seq = c.seq
<1>. DEFINE d == Send(c, type, ids)
<1>1. /\ Shape(d) /\ d.told = Receive(c.told, type, ids)
      /\ d.messages = c.messages /\ d.text = c.text /\ d.calls = c.calls /\ d.index = c.index
      /\ d.anon = c.anon /\ d.subs = c.subs /\ d.interrupts = c.interrupts
      /\ d.last = c.last /\ d.seq = c.seq
    BY SendFields DEF Sound
<1>. HIDE DEF d
<1>2. Client(c.told)
    BY DEF Sound, Shape
<1>3. /\ d.told.phase = c.told.phase /\ d.told.view = c.told.view
      /\ c.told.legal /\ Legal(c.told, type, ids) => d.told.legal
      /\ d.told.text = c.told.text /\ d.told.calls = c.told.calls
      /\ d.told.subs = c.told.subs /\ d.told.ended = c.told.ended
    BY ONLY <1>1, <1>2, Continued,
            type \in {"TEXT_MESSAGE_CONTENT", "TOOL_CALL_ARGS", "TOOL_CALL_RESULT"}
<1>4. Agree(c) => Agree(d) /\ Begun(c) \subseteq Begun(d)
    BY <1>1, <1>3 DEF Agree, Begun
<1>5. Owned(d) /\ Fresh(d)
    BY <1>1 DEF Sound, Owned, Fresh, Given
<1>. QED  BY <1>1, <1>3, <1>4, <1>5 DEF Follows, Sound, Carries, d

LEMMA StartToolDoes ==
    ASSUME NEW c, Sound(c), NEW m, m \in DOMAIN c.messages,
           NEW i, i \notin DOMAIN c.calls, i \in Given(c)
    PROVE  LET d == StartTool(c, m, i) IN
           /\ Sound(d) /\ Carries(c, d) /\ i \in DOMAIN d.calls /\ d.messages = c.messages
<1>. DEFINE A == Put(c.calls, i, m)
            b == [c EXCEPT !.calls = A]
            e == Send(b, "TOOL_CALL_START", {i})
            d == Args(e, i)
<1>1. StartTool(c, m, i) = d
    BY DEF StartTool
<1>2. DOMAIN A = DOMAIN c.calls \cup {i} /\ A[i] = m /\ \A x \in DOMAIN c.calls : A[x] = c.calls[x]
    BY DEF Put
<1>. HIDE DEF A
<1>3. /\ Shape(b) /\ b.calls = A
      /\ b.messages = c.messages /\ b.text = c.text /\ b.index = c.index
      /\ b.anon = c.anon /\ b.subs = c.subs /\ b.seq = c.seq
      /\ b.told = c.told /\ b.last = c.last /\ b.interrupts = c.interrupts
    BY DEF Sound, Shape
<1>. HIDE DEF b
<1>4. /\ Shape(e) /\ e.told = Receive(b.told, "TOOL_CALL_START", {i})
      /\ e.messages = b.messages /\ e.text = b.text /\ e.calls = b.calls /\ e.index = b.index
      /\ e.anon = b.anon /\ e.subs = b.subs /\ e.interrupts = b.interrupts
      /\ e.last = b.last /\ e.seq = b.seq
    BY <1>3, SendFields
<1>. HIDE DEF e
<1>5. Client(c.told)
    BY DEF Sound, Shape
<1>6. /\ e.told.phase = c.told.phase /\ e.told.view = c.told.view
      /\ c.told.legal /\ Legal(c.told, "TOOL_CALL_START", {i}) => e.told.legal
      /\ e.told.text = c.told.text /\ e.told.calls = c.told.calls \cup {i}
      /\ e.told.subs = c.told.subs /\ e.told.ended = c.told.ended
    BY ONLY <1>3, <1>4, <1>5, ToolStarted
<1>7. Agree(c) => Legal(c.told, "TOOL_CALL_START", {i})
    BY DEF Agree, Legal
<1>8. Agree(c) => Agree(e) /\ Begun(c) \subseteq Begun(e)
    BY <1>2, <1>3, <1>4, <1>6, <1>7 DEF Agree, Begun
<1>9. Owned(e)
    BY <1>2, <1>3, <1>4 DEF Sound, Owned
<1>10. Fresh(e)
    BY <1>2, <1>3, <1>4 DEF Sound, Fresh, Given
<1>11. Sound(e) /\ Carries(c, e)
    BY <1>3, <1>4, <1>6, <1>8, <1>9, <1>10 DEF Follows, Sound, Carries
<1>12. Agree(e) => Legal(e.told, "TOOL_CALL_ARGS", {i})
    BY <1>2, <1>3, <1>4 DEF Agree, Legal
<1>13. Sound(d) /\ Carries(e, d) /\ d.messages = e.messages /\ d.calls = e.calls
    BY <1>11, <1>12, ContinueDoes DEF Args
<1>. QED  BY <1>1, <1>2, <1>3, <1>4, <1>11, <1>13, CarriesOn

LEMMA ToolChunkDoes ==
    ASSUME NEW c, Sound(c), NEW m, m \in DOMAIN c.messages, NEW msg, IsMessage(msg)
    PROVE  LET d == ToolChunk(c, m, msg) IN
           /\ Sound(d) /\ Carries(c, d) /\ d.messages = c.messages
           /\ msg.call = "id" => msg.cid \in DOMAIN d.calls
<1>. DEFINE known == IF msg.call = "id" THEN {msg.cid}
                     ELSE IF m \in DOMAIN c.index THEN {c.index[m]} ELSE {}
            i == IF known # {} THEN CHOOSE k \in known : TRUE ELSE NextId(c)
            A == Put(c.index, m, i)
            n == IF known # {} THEN c.seq ELSE c.seq + 1
            e == [c EXCEPT !.seq = n, !.index = A]
            d == ToolChunk(c, m, msg)
<1>1. d = IF known # {} /\ i \in DOMAIN c.calls THEN Args(c, i) ELSE StartTool(e, m, i)
    BY DEF ToolChunk
<1>2. msg.call = "id" => known # {} /\ i = msg.cid
    OBVIOUS
<1>3. c.seq \in Nat /\ DOMAIN c.calls \subseteq Given(c)
    BY DEF Sound, Fresh
<1>4. known # {} => i \in Given(c)
    BY DEF Sound, Fresh, Given, IsMessage
<1>5. known = {} => i = NextId(c)
    OBVIOUS
<1>6. n \in Nat /\ (known # {} => n = c.seq) /\ (known = {} => n = c.seq + 1)
  <2>. HIDE DEF known
  <2>. QED  BY <1>3
<1>7. DOMAIN A = DOMAIN c.index \cup {m} /\ A[m] = i
        /\ \A x \in DOMAIN c.index : x # m => A[x] = c.index[x]
    BY DEF Put
<1>. HIDE DEF known, i, A, n, d
<1>8. /\ Shape(e) /\ e.seq = n /\ e.index = A
      /\ e.messages = c.messages /\ e.text = c.text /\ e.calls = c.calls
      /\ e.anon = c.anon /\ e.subs = c.subs /\ e.told = c.told
      /\ e.last = c.last /\ e.interrupts = c.interrupts
  <2>1. e = [messages |-> c.messages, text |-> c.text, calls |-> c.calls, index |-> A,
             anon |-> c.anon, subs |-> c.subs, interrupts |-> c.interrupts, last |-> c.last,
             seq |-> n, told |-> c.told]
    <3>1. Shape(c) /\ e = [c EXCEPT !.seq = n, !.index = A]
        BY DEF Sound
    <3>. HIDE DEF e
    <3>. QED  BY ONLY <3>1 DEF Shape
  <2>. HIDE DEF e
  <2>. QED  BY <2>1 DEF Sound, Shape
<1>. HIDE DEF e
<1>9. CASE known # {} /\ i \in DOMAIN c.calls
  <2>1. Agree(c) => Legal(c.told, "TOOL_CALL_ARGS", {i})
      BY <1>9 DEF Agree, Legal
  <2>2. Sound(Args(c, i)) /\ Carries(c, Args(c, i)) /\ Args(c, i).messages = c.messages
          /\ Args(c, i).calls = c.calls
      BY <2>1, ContinueDoes DEF Args
  <2>. QED  BY <1>1, <1>2, <1>9, <2>2 DEF d
<1>10. CASE ~(known # {} /\ i \in DOMAIN c.calls)
  <2>1. i \notin DOMAIN e.calls /\ Given(c) \subseteq Given(e) /\ i \in Given(e)
    <3>1. CASE known # {}
        BY <1>4, <1>6, <1>8, <1>10, <3>1 DEF Given
    <3>2. CASE known = {}
        BY <1>3, <1>5, <1>6, <1>8, <3>2, NextIdFacts
    <3>. QED  BY <3>1, <3>2
  <2>2. Owned(e)
      BY <1>7, <1>8 DEF Sound, Owned
  <2>3. Fresh(e)
      BY <1>6, <1>7, <1>8, <2>1 DEF Sound, Fresh
  <2>4. Sound(e) /\ Carries(c, e)
      BY <1>8, <2>2, <2>3 DEF Follows, Sound, Carries, Agree, Begun
  <2>5. /\ Sound(StartTool(e, m, i)) /\ Carries(e, StartTool(e, m, i))
        /\ i \in DOMAIN StartTool(e, m, i).calls /\ StartTool(e, m, i).messages = e.messages
      BY <1>8, <2>1, <2>4, StartToolDoes
  <2>. QED  BY <1>1, <1>2, <1>8, <1>10, <2>4, <2>5, CarriesOn DEF d
<1>. QED  BY <1>9, <1>10

\* The text of a message, when its item has one.
LEMMA TextDoes ==
    ASSUME NEW c, Sound(c), NEW m, m \in DOMAIN c.messages
    PROVE  LET d == Content(StartText(c, m), m) IN
           Sound(d) /\ Carries(c, d) /\ d.messages = c.messages
<1>. DEFINE e == StartText(c, m)
            d == Content(e, m)
<1>1. Sound(e) /\ Carries(c, e) /\ m \in e.text /\ e.messages = c.messages
    BY StartTextDoes
<1>. HIDE DEF e
<1>2. Agree(e) => Legal(e.told, "TEXT_MESSAGE_CONTENT", {m})
    BY <1>1 DEF Agree, Legal
<1>3. Sound(d) /\ Carries(e, d) /\ d.messages = e.messages
    BY <1>1, <1>2, ContinueDoes DEF Content
<1>. QED  BY <1>1, <1>3, CarriesOn DEF e

LEMMA AiChunkDoes ==
    ASSUME NEW c, Sound(c), NEW msg, IsMessage(msg), NEW o
    PROVE  LET d == AiChunk(c, msg, o) IN
           /\ Sound(d) /\ Carries(c, d)
           /\ Agree(c) /\ msg.call = "id" => msg.cid \in Begun(d)
<1>. DEFINE m == MessageId(c, msg, o)
            d == Opened(c, msg, o)
            e == IF msg.text THEN Content(StartText(d, m), m) ELSE d
            f == IF msg.call # "no" THEN ToolChunk(e, m, msg) ELSE e
            g == IF msg.last THEN CloseMessages(f, {m}) ELSE f
<1>1. AiChunk(c, msg, o) = g
    BY DEF AiChunk
<1>2. Sound(d) /\ Carries(c, d) /\ m \in DOMAIN d.messages
    BY OpenedDoes
<1>. HIDE DEF m, d
<1>3. Sound(e) /\ Carries(d, e) /\ m \in DOMAIN e.messages
    BY <1>2, TextDoes, CarriesNone DEF Sound
<1>. HIDE DEF e
<1>4. Sound(f) /\ Carries(e, f) /\ (msg.call = "id" => msg.cid \in DOMAIN f.calls)
    BY <1>3, ToolChunkDoes, CarriesNone DEF Sound
<1>. HIDE DEF f
<1>5. Sound(g) /\ Carries(f, g)
    BY <1>4, CloseMessagesSound, CarriesNone DEF Sound
<1>. HIDE DEF g
<1>6. Carries(c, f) /\ Carries(c, g)
    BY <1>2, <1>3, <1>4, <1>5, CarriesOn
<1>7. Agree(c) /\ msg.call = "id" => msg.cid \in Begun(g)
    BY <1>4, <1>5, <1>6 DEF Follows, Carries, Begun
<1>. QED  BY <1>1, <1>5, <1>6, <1>7

LEMMA AiMessageDoes ==
    ASSUME NEW c, Sound(c), NEW msg, IsMessage(msg), msg.call \in {"no", "id"}, NEW o
    PROVE  LET d == AiMessage(c, msg, o) IN
           /\ Sound(d) /\ Carries(c, d)
           /\ Agree(c) /\ msg.call = "id" => msg.cid \in Begun(d)
<1>. DEFINE m == MessageId(c, msg, o)
            d == Opened(c, msg, o)
            e == IF msg.text /\ m \notin d.text THEN Content(StartText(d, m), m) ELSE d
            t == EndTexts(e, {m})
            w == WholeTool(t, m, msg)
            g == CloseMessages(w, {m})
<1>1. AiMessage(c, msg, o) = g
    BY DEF AiMessage
<1>2. Sound(d) /\ Carries(c, d) /\ m \in DOMAIN d.messages
    BY OpenedDoes
<1>. HIDE DEF m, d
<1>3. Sound(e) /\ Carries(d, e) /\ m \in DOMAIN e.messages
    BY <1>2, TextDoes, CarriesNone DEF Sound
<1>. HIDE DEF e
<1>4. Sound(t) /\ Carries(e, t) /\ m \in DOMAIN t.messages
  <2>1. /\ Carries(e, t) /\ t.text = e.text \ {m}
        /\ t.messages = e.messages /\ t.calls = e.calls /\ t.index = e.index
        /\ t.anon = e.anon /\ t.subs = e.subs /\ t.seq = e.seq
      BY <1>3, EndTextsDoes DEF Sound
  <2>. HIDE DEF t
  <2>. QED  BY <1>3, <2>1 DEF Follows, Sound, Carries, Owned, Fresh, Given
<1>. HIDE DEF t
<1>5. Sound(w) /\ Carries(t, w) /\ (Agree(t) /\ msg.call = "id" => msg.cid \in Begun(w))
  <2>1. CASE msg.call = "no" \/ msg.cid \in DOMAIN t.calls
      BY <1>4, <2>1, CarriesNone DEF WholeTool, Sound, Begun
  <2>2. CASE msg.call # "no" /\ msg.cid \notin DOMAIN t.calls
    <3>. DEFINE b == StartTool(t, m, msg.cid)
                h == EndTools(b, {msg.cid})
    <3>1. w = h
        BY <2>2 DEF WholeTool
    <3>2. msg.cid \in Given(t)
        BY DEF IsMessage, Given
    <3>3. Sound(b) /\ Carries(t, b) /\ msg.cid \in DOMAIN b.calls
        BY <1>4, <2>2, <3>2, StartToolDoes
    <3>. HIDE DEF b
    <3>4. /\ Carries(b, h) /\ h.calls = Without(b.calls, {msg.cid})
          /\ h.messages = b.messages /\ h.text = b.text /\ h.index = b.index
          /\ h.anon = b.anon /\ h.subs = b.subs /\ h.seq = b.seq
        BY <3>3, EndToolsDoes DEF Sound
    <3>. HIDE DEF h
    <3>5. DOMAIN h.calls \subseteq DOMAIN b.calls /\ \A x \in DOMAIN h.calls : h.calls[x] = b.calls[x]
        BY <3>4 DEF Without, Restrict
    <3>6. Owned(h)
        BY <3>3, <3>4, <3>5 DEF Sound, Owned
    <3>7. Fresh(h)
        BY <3>3, <3>4, <3>5 DEF Sound, Fresh, Given
    <3>8. Agree(b) => msg.cid \in Begun(h)
        BY <3>3, <3>4 DEF Follows, Carries, Begun
    <3>. HIDE DEF w
    <3>. QED  BY <3>1, <3>3, <3>4, <3>6, <3>7, <3>8, CarriesOn DEF Follows, Sound, Carries
  <2>. QED  BY <2>1, <2>2
<1>. HIDE DEF w
<1>6. Sound(g) /\ Carries(w, g)
    BY <1>5, CloseMessagesSound
<1>. HIDE DEF g
<1>7. Carries(c, t) /\ Carries(c, g)
    BY <1>2, <1>3, <1>4, <1>5, <1>6, CarriesOn
<1>8. Agree(c) /\ msg.call = "id" => msg.cid \in Begun(g)
    BY <1>5, <1>6, <1>7 DEF Follows, Carries
<1>. QED  BY <1>1, <1>6, <1>7, <1>8

\* What an item that raises leaves: nothing of it reached the client.
LEMMA RaisedDoes ==
    ASSUME NEW c, Sound(c), NEW msg, IsMessage(msg), NEW o
    PROVE  LET d == AiChunkRaises(c, msg, o) IN
           /\ Sound(d) /\ d.told = c.told
           /\ d.last = c.last /\ d.subs = c.subs /\ d.interrupts = c.interrupts
<1>. DEFINE m == MessageId(c, msg, o)
            b == Opened(c, msg, o)
            e == StartText(b, m)
            d == [e EXCEPT !.told = c.told]
<1>1. AiChunkRaises(c, msg, o) = d
    BY DEF AiChunkRaises
<1>2. Sound(b) /\ Carries(c, b) /\ m \in DOMAIN b.messages
    BY OpenedDoes
<1>. HIDE DEF m, b
<1>3. Sound(e) /\ Carries(b, e)
    BY <1>2, StartTextDoes
<1>. HIDE DEF e
<1>4. Carries(c, e) /\ Shape(e) /\ Client(c.told)
    BY <1>2, <1>3, CarriesOn DEF Sound, Shape
<1>5. /\ Shape(d) /\ d.told = c.told
      /\ d.messages = e.messages /\ d.text = e.text /\ d.calls = e.calls /\ d.index = e.index
      /\ d.anon = e.anon /\ d.subs = e.subs /\ d.interrupts = e.interrupts
      /\ d.last = e.last /\ d.seq = e.seq
    BY <1>4 DEF Shape
<1>. HIDE DEF d
<1>6. Sound(d)
    BY <1>3, <1>5 DEF Sound, Owned, Fresh, Given
<1>. QED  BY <1>1, <1>4, <1>5, <1>6 DEF Carries

LEMMA ToolMessageDoes ==
    ASSUME NEW c, Sound(c), NEW i
    PROVE  LET d == ToolMessage(c, i) IN
           /\ Sound(d)
           /\ d.told.phase = c.told.phase /\ d.last = c.last /\ d.told.view = c.told.view
           /\ d.subs = c.subs /\ d.interrupts = c.interrupts
           /\ i \in Begun(c) => Carries(c, d)
<1>. DEFINE e == EndTools(c, {i} \cap DOMAIN c.calls)
            d == Send(e, "TOOL_CALL_RESULT", {i})
<1>1. /\ Carries(c, e) /\ e.calls = Without(c.calls, {i} \cap DOMAIN c.calls)
      /\ e.messages = c.messages /\ e.text = c.text /\ e.index = c.index
      /\ e.anon = c.anon /\ e.subs = c.subs /\ e.seq = c.seq
    BY EndToolsDoes DEF Sound
<1>. HIDE DEF e
<1>2. /\ DOMAIN e.calls = DOMAIN c.calls \ ({i} \cap DOMAIN c.calls)
      /\ \A x \in DOMAIN e.calls : e.calls[x] = c.calls[x]
    BY <1>1 DEF Without, Restrict
<1>3. Owned(e)
    BY <1>1, <1>2 DEF Sound, Owned
<1>4. Fresh(e)
    BY <1>1, <1>2 DEF Sound, Fresh, Given
<1>5. Sound(e)
    BY <1>1, <1>3, <1>4 DEF Sound, Carries, Follows
<1>6. ToolMessage(c, i) = d
    BY DEF ToolMessage, e
<1>7. /\ Shape(d) /\ d.told = Receive(e.told, "TOOL_CALL_RESULT", {i})
      /\ d.messages = e.messages /\ d.text = e.text /\ d.calls = e.calls /\ d.index = e.index
      /\ d.anon = e.anon /\ d.subs = e.subs /\ d.interrupts = e.interrupts
      /\ d.last = e.last /\ d.seq = e.seq
    BY <1>5, SendFields DEF Sound
<1>. HIDE DEF d
<1>8. Client(e.told)
    BY <1>5 DEF Sound, Shape
<1>9. d.told.phase = e.told.phase /\ d.told.view = e.told.view
    BY ONLY <1>7, <1>8, Continued
<1>10. Sound(d)
    BY <1>5, <1>7 DEF Sound, Owned, Fresh, Given
<1>11. CASE i \in Begun(c) /\ Agree(c)
  <2>1. Agree(e) /\ i \in Begun(e) /\ i \notin DOMAIN e.calls
      BY <1>1, <1>2, <1>11 DEF Carries, Follows
  <2>2. Legal(e.told, "TOOL_CALL_RESULT", {i})
      BY <2>1 DEF Agree, Begun, Legal
  <2>3. Carries(e, d)
      BY <1>5, <2>2, ContinueDoes DEF d
  <2>. QED  BY <1>1, <1>6, <1>7, <1>9, <1>10, <2>3, CarriesOn DEF Carries, Follows
<1>12. CASE ~(i \in Begun(c) /\ Agree(c))
    BY <1>1, <1>6, <1>7, <1>9, <1>10, <1>12 DEF Carries, Follows
<1>. QED  BY <1>11, <1>12

-----------------------------------------------------------------------------
(* The state, sub-agents and the end.                                      *)

\* A snapshot or a patch, as the client receives it.
LEMMA Viewed ==
    ASSUME NEW k, Client(k), NEW type, type = "STATE_SNAPSHOT" \/ type = "STATE_DELTA",
           NEW v, NEW ids, ids = {v},
           NEW r, r = Receive(k, type, ids)
    PROVE  /\ Client(r) /\ r.phase = k.phase /\ r.view = v
           /\ k.legal /\ k.phase = "running" => r.legal
           /\ r.text = k.text /\ r.calls = k.calls /\ r.subs = k.subs /\ r.ended = k.ended
<1>1. /\ type \notin Over \cup {"RUN_STARTED"}
      /\ Moved(k.text, type, ids, "TEXT_MESSAGE_START", {"TEXT_MESSAGE_END"}) = k.text
      /\ Moved(k.calls, type, ids, "TOOL_CALL_START", {"TOOL_CALL_END"}) = k.calls
      /\ Moved(k.subs, type, ids, "SUBAGENT_STARTED", SubagentEnds) = k.subs
      /\ Moved(k.ended, type, ids, "TOOL_CALL_END", {}) = k.ended
    BY DEF Moved, SubagentEnds, Over, View
<1>2. k.phase = "running" => Legal(k, type, ids)
    BY DEF Legal, View
<1>3. r.view = v
  <2>1. (CHOOSE x \in ids : TRUE) = v /\ type \in View
      BY DEF View
  <2>. QED  BY <2>1 DEF Receive, Client
<1>. QED  BY <1>1, <1>2, <1>3, Received

LEMMA UpdatesDoes ==
    ASSUME NEW c, Sound(c), NEW o, NEW v
    PROVE  LET d == Updates(c, o, v) IN
           /\ Sound(d) /\ Follows(c, d)
           /\ d.last = IF v = None THEN c.last ELSE v
           /\ c.told.view = c.last => d.told.view = d.last
           /\ d.subs = c.subs /\ d.interrupts = c.interrupts
<1>. DEFINE e == CloseOwner(c, o)
            b == [e EXCEPT !.last = v]
            d == Send(b, "STATE_DELTA", {v})
<1>1. Sound(e) /\ Carries(c, e)
    BY CloseMessagesSound DEF CloseOwner
<1>2. Updates(c, o, v) = IF v = None \/ v = e.last THEN e ELSE d
    BY DEF Updates, StateDelta
<1>. HIDE DEF e
<1>3. CASE v = None \/ v = e.last
    BY <1>1, <1>2, <1>3 DEF Carries
<1>4. CASE ~(v = None \/ v = e.last)
  <2>1. /\ Shape(b) /\ b.last = v
        /\ b.messages = e.messages /\ b.text = e.text /\ b.calls = e.calls /\ b.index = e.index
        /\ b.anon = e.anon /\ b.subs = e.subs /\ b.interrupts = e.interrupts
        /\ b.seq = e.seq /\ b.told = e.told
      BY <1>1 DEF Sound, Shape
  <2>. HIDE DEF b
  <2>2. /\ Shape(d) /\ d.told = Receive(b.told, "STATE_DELTA", {v})
        /\ d.messages = b.messages /\ d.text = b.text /\ d.calls = b.calls /\ d.index = b.index
        /\ d.anon = b.anon /\ d.subs = b.subs /\ d.interrupts = b.interrupts
        /\ d.last = b.last /\ d.seq = b.seq
      BY <2>1, SendFields
  <2>. HIDE DEF d
  <2>3. Client(e.told)
      BY <1>1 DEF Sound, Shape
  <2>4. /\ d.told.phase = e.told.phase /\ d.told.view = v
        /\ e.told.legal /\ e.told.phase = "running" => d.told.legal
        /\ d.told.text = e.told.text /\ d.told.calls = e.told.calls
        /\ d.told.subs = e.told.subs /\ d.told.ended = e.told.ended
    <3>1. d.told = Receive(e.told, "STATE_DELTA", {v})
        BY <2>1, <2>2
    <3>. DEFINE ids == {v}
    <3>2. ids = {v} /\ d.told = Receive(e.told, "STATE_DELTA", ids)
        BY <3>1
    <3>. HIDE DEF ids
    <3>. QED  BY ONLY <2>3, <3>2, Viewed
  <2>5. Sound(d)
      BY <1>1, <2>1, <2>2 DEF Sound, Owned, Fresh, Given
  <2>6. Agree(e) => Agree(d) /\ Begun(e) \subseteq Begun(d)
      BY <2>1, <2>2, <2>4 DEF Agree, Begun
  <2>. QED  BY <1>1, <1>2, <1>4, <2>1, <2>2, <2>4, <2>5, <2>6 DEF Carries, Follows
<1>. QED  BY <1>3, <1>4

LEMMA SubagentsStart ==
    ASSUME NEW c, Sound(c), NEW S, S \cap c.subs = {}, NEW d,
           d = Send([c EXCEPT !.subs = c.subs \cup S], "SUBAGENT_STARTED", S)
    PROVE  /\ Sound(d) /\ Follows(c, d)
           /\ d.last = c.last /\ d.told.view = c.told.view
           /\ d.subs = c.subs \cup S /\ d.interrupts = c.interrupts
           /\ d.text = c.text /\ d.calls = c.calls
<1>. DEFINE b == [c EXCEPT !.subs = c.subs \cup S]
<1>1. /\ Shape(b) /\ b.subs = c.subs \cup S /\ b.told = c.told
      /\ b.messages = c.messages /\ b.text = c.text /\ b.calls = c.calls /\ b.index = c.index
      /\ b.anon = c.anon /\ b.seq = c.seq /\ b.last = c.last /\ b.interrupts = c.interrupts
    BY DEF Sound, Shape
<1>2. d = Send(b, "SUBAGENT_STARTED", S)
    OBVIOUS
<1>. HIDE DEF b
<1>3. /\ Shape(d) /\ d.told = Receive(c.told, "SUBAGENT_STARTED", S)
      /\ d.messages = b.messages /\ d.text = b.text /\ d.calls = b.calls /\ d.index = b.index
      /\ d.anon = b.anon /\ d.subs = b.subs /\ d.interrupts = b.interrupts
      /\ d.last = b.last /\ d.seq = b.seq
    BY ONLY <1>1, <1>2, SendFields
<1>4. Client(c.told)
    BY DEF Sound, Shape
<1>5. /\ d.told.phase = c.told.phase /\ d.told.view = c.told.view
      /\ c.told.legal /\ Legal(c.told, "SUBAGENT_STARTED", S) => d.told.legal
      /\ d.told.text = c.told.text /\ d.told.calls = c.told.calls
      /\ d.told.subs = c.told.subs \cup S /\ d.told.ended = c.told.ended
    BY ONLY <1>3, <1>4, SubagentStarted
<1>6. Agree(c) => Legal(c.told, "SUBAGENT_STARTED", S)
    BY DEF Agree, Legal, SubagentEnds
<1>7. Agree(c) => Agree(d) /\ Begun(c) \subseteq Begun(d)
    BY <1>1, <1>3, <1>5, <1>6 DEF Agree, Begun
<1>8. Sound(d)
  <2>1. Owned(c) /\ Fresh(c)
      BY DEF Sound
  <2>2. Owned(d)
      BY ONLY <1>1, <1>3, <2>1 DEF Owned
  <2>3. Fresh(d)
      BY ONLY <1>1, <1>3, <2>1 DEF Fresh, Given
  <2>. QED  BY <1>3, <2>2, <2>3 DEF Sound
<1>. QED  BY <1>1, <1>3, <1>5, <1>7, <1>8 DEF Follows

LEMMA SubagentsEnd ==
    ASSUME NEW c, Sound(c), NEW S, NEW type \in {"SUBAGENT_FINISHED", "SUBAGENT_ERROR"},
           S \subseteq c.subs, NEW d,
           d = Send([c EXCEPT !.subs = c.subs \ S], type, S)
    PROVE  /\ Sound(d) /\ Follows(c, d)
           /\ d.last = c.last /\ d.told.view = c.told.view
           /\ d.subs = c.subs \ S /\ d.interrupts = c.interrupts
           /\ d.text = c.text /\ d.calls = c.calls
<1>. DEFINE b == [c EXCEPT !.subs = c.subs \ S]
<1>1. /\ Shape(b) /\ b.subs = c.subs \ S /\ b.told = c.told
      /\ b.messages = c.messages /\ b.text = c.text /\ b.calls = c.calls /\ b.index = c.index
      /\ b.anon = c.anon /\ b.seq = c.seq /\ b.last = c.last /\ b.interrupts = c.interrupts
    BY DEF Sound, Shape
<1>2. d = Send(b, type, S)
    OBVIOUS
<1>. HIDE DEF b
<1>3. /\ Shape(d) /\ d.told = Receive(c.told, type, S)
      /\ d.messages = b.messages /\ d.text = b.text /\ d.calls = b.calls /\ d.index = b.index
      /\ d.anon = b.anon /\ d.subs = b.subs /\ d.interrupts = b.interrupts
      /\ d.last = b.last /\ d.seq = b.seq
    BY ONLY <1>1, <1>2, SendFields
<1>4. Client(c.told)
    BY DEF Sound, Shape
<1>5. /\ d.told.phase = c.told.phase /\ d.told.view = c.told.view
      /\ c.told.legal /\ Legal(c.told, type, S) => d.told.legal
      /\ d.told.text = c.told.text /\ d.told.calls = c.told.calls
      /\ d.told.subs = c.told.subs \ S /\ d.told.ended = c.told.ended
    BY ONLY <1>3, <1>4, SubagentEnded, type \in {"SUBAGENT_FINISHED", "SUBAGENT_ERROR"}
<1>6. Agree(c) => Legal(c.told, type, S)
    BY DEF Agree, Legal, SubagentEnds
<1>7. Agree(c) => Agree(d) /\ Begun(c) \subseteq Begun(d)
    BY <1>1, <1>3, <1>5, <1>6 DEF Agree, Begun
<1>8. Sound(d)
  <2>1. Owned(c) /\ Fresh(c)
      BY DEF Sound
  <2>2. Owned(d)
      BY ONLY <1>1, <1>3, <2>1 DEF Owned
  <2>3. Fresh(d)
      BY ONLY <1>1, <1>3, <2>1 DEF Fresh, Given
  <2>. QED  BY <1>3, <2>2, <2>3 DEF Sound
<1>. QED  BY <1>1, <1>3, <1>5, <1>7, <1>8 DEF Follows

LEMMA CustomDoes ==
    ASSUME NEW c, Sound(c), NEW kind \in {"start", "end", "error"}, NEW s
    PROVE  LET d == Custom(c, kind, s) IN
           /\ Sound(d) /\ Follows(c, d)
           /\ d.last = c.last /\ d.told.view = c.told.view
           /\ d.subs \subseteq c.subs \cup {s} /\ d.interrupts = c.interrupts
<1>1. CASE kind = "start" /\ s \notin c.subs
  <2>. DEFINE d == Send([c EXCEPT !.subs = c.subs \cup {s}], "SUBAGENT_STARTED", {s})
  <2>1. Custom(c, kind, s) = d
      BY <1>1 DEF Custom
  <2>2. /\ Sound(d) /\ Follows(c, d)
        /\ d.last = c.last /\ d.told.view = c.told.view
        /\ d.subs = c.subs \cup {s} /\ d.interrupts = c.interrupts
      BY <1>1, SubagentsStart
  <2>. QED  BY <2>1, <2>2
<1>2. CASE kind # "start" /\ s \in c.subs
  <2>. DEFINE type == IF kind = "end" THEN "SUBAGENT_FINISHED" ELSE "SUBAGENT_ERROR"
              d == Send([c EXCEPT !.subs = c.subs \ {s}], type, {s})
  <2>1. Custom(c, kind, s) = d
      BY <1>2 DEF Custom
  <2>2. type \in {"SUBAGENT_FINISHED", "SUBAGENT_ERROR"}
      OBVIOUS
  <2>. HIDE DEF type
  <2>3. /\ Sound(d) /\ Follows(c, d)
        /\ d.last = c.last /\ d.told.view = c.told.view
        /\ d.subs = c.subs \ {s} /\ d.interrupts = c.interrupts
      BY <1>2, <2>2, SubagentsEnd
  <2>. HIDE DEF d
  <2>. QED  BY <2>1, <2>3
<1>3. CASE ~(kind = "start" /\ s \notin c.subs) /\ ~(kind # "start" /\ s \in c.subs)
  <2>1. Custom(c, kind, s) = c
      BY <1>3 DEF Custom
  <2>. QED  BY <2>1, CarriesNone DEF Sound, Carries
<1>. QED  BY <1>1, <1>2, <1>3

\* Nothing is left open.
LEMMA CloseAllDoes ==
    ASSUME NEW c, Sound(c)
    PROVE  LET d == CloseAll(c) IN
           /\ Sound(d) /\ Follows(c, d)
           /\ d.last = c.last /\ d.told.view = c.told.view /\ d.interrupts = c.interrupts
           /\ d.text = {} /\ DOMAIN d.calls = {} /\ d.subs = {}
<1>. DEFINE a == CloseMessages(c, DOMAIN c.messages)
            b == EndTools(a, DOMAIN a.calls)
            d == FailSubagents(b)
<1>1. CloseAll(c) = d
    BY DEF CloseAll
<1>2. Sound(a) /\ Carries(c, a) /\ a.text = c.text \ DOMAIN c.messages
    BY CloseMessagesSound, CloseMessagesDoes DEF Sound
<1>3. a.text = {}
    BY <1>2 DEF Sound, Owned
<1>. HIDE DEF a
<1>4. /\ Carries(a, b) /\ b.calls = Without(a.calls, DOMAIN a.calls)
      /\ b.messages = a.messages /\ b.text = a.text /\ b.index = a.index
      /\ b.anon = a.anon /\ b.subs = a.subs /\ b.seq = a.seq
    BY <1>2, EndToolsDoes DEF Sound
<1>. HIDE DEF b
<1>5. DOMAIN b.calls = {}
    BY <1>4 DEF Without, Restrict
<1>6. Sound(b)
    BY <1>2, <1>4, <1>5 DEF Sound, Owned, Fresh, Given, Carries, Follows
<1>7. d = Send([b EXCEPT !.subs = b.subs \ b.subs], "SUBAGENT_ERROR", b.subs)
  <2>1. b.subs \ b.subs = {}
      OBVIOUS
  <2>. QED  BY <2>1 DEF FailSubagents
<1>8. /\ Sound(d) /\ Follows(b, d)
      /\ d.last = b.last /\ d.told.view = b.told.view
      /\ d.subs = b.subs \ b.subs /\ d.interrupts = b.interrupts
      /\ d.text = b.text /\ d.calls = b.calls
    BY <1>6, <1>7, SubagentsEnd
<1>. HIDE DEF d
<1>. QED  BY <1>1, <1>2, <1>3, <1>4, <1>5, <1>8 DEF Carries, Follows

\* The first and the last event of a run.
LEMMA RunStarted ==
    ASSUME NEW k, Client(k), NEW ids, NEW r, r = Receive(k, "RUN_STARTED", ids)
    PROVE  /\ Client(r) /\ r.phase = "running"
           /\ k.legal /\ k.phase = "new" => r.legal
           /\ r.text = k.text /\ r.calls = k.calls /\ r.subs = k.subs /\ r.ended = k.ended
<1>1. /\ Moved(k.text, "RUN_STARTED", ids, "TEXT_MESSAGE_START", {"TEXT_MESSAGE_END"}) = k.text
      /\ Moved(k.calls, "RUN_STARTED", ids, "TOOL_CALL_START", {"TOOL_CALL_END"}) = k.calls
      /\ Moved(k.subs, "RUN_STARTED", ids, "SUBAGENT_STARTED", SubagentEnds) = k.subs
      /\ Moved(k.ended, "RUN_STARTED", ids, "TOOL_CALL_END", {}) = k.ended
    BY DEF Moved, SubagentEnds
<1>2. k.phase = "new" => Legal(k, "RUN_STARTED", ids)
    BY DEF Legal
<1>3. r.phase = "running"
    BY DEF Receive, Client
<1>. QED  BY <1>1, <1>2, <1>3, Received

LEMMA RunOver ==
    ASSUME NEW k, Client(k), NEW type \in {"RUN_FINISHED", "RUN_ERROR"}, NEW ids,
           NEW r, r = Receive(k, type, ids)
    PROVE  /\ Client(r) /\ r.phase = "over"
           /\ k.legal /\ k.phase = "running" /\ k.text = {} /\ k.calls = {} /\ k.subs = {} => r.legal
           /\ r.text = k.text /\ r.calls = k.calls /\ r.subs = k.subs /\ r.ended = k.ended
<1>1. /\ Moved(k.text, type, ids, "TEXT_MESSAGE_START", {"TEXT_MESSAGE_END"}) = k.text
      /\ Moved(k.calls, type, ids, "TOOL_CALL_START", {"TOOL_CALL_END"}) = k.calls
      /\ Moved(k.subs, type, ids, "SUBAGENT_STARTED", SubagentEnds) = k.subs
      /\ Moved(k.ended, type, ids, "TOOL_CALL_END", {}) = k.ended
    BY DEF Moved, SubagentEnds
<1>2. k.phase = "running" /\ k.text = {} /\ k.calls = {} /\ k.subs = {} => Legal(k, type, ids)
    BY DEF Legal, Over
<1>3. r.phase = "over"
    BY DEF Receive, Client, Over
<1>. QED  BY <1>1, <1>2, <1>3, Received

-----------------------------------------------------------------------------
(* The branches.                                                           *)

BranchInv ==
    /\ branch \in [Branches -> Places]
    /\ \A b \in Branches : branch[b].at = "streaming" => branch[b].chunks <= MaxChunks

LEMMA PartsFacts ==
    ASSUME BranchInv, NEW b \in Branches, Streams(b), NEW whole \in BOOLEAN,
           whole \/ branch[b].at = "idle" \/ branch[b].chunks < MaxChunks,
           NEW p \in Parts(b, whole), Moves(b, p)
    PROVE  /\ IsMessage(Message(b, p)) /\ BranchInv'
           /\ whole => p.call \in {"no", "id"}
           /\ \A a \in Branches : branch'[a].called =>
                 \/ branch[a].called /\ branch'[a].n = branch[a].n
                 \/ a = b /\ p.call = "id" /\ Message(b, p).cid = <<b, branch'[b].n>>
<1>. DEFINE called == HasCalled(b) \/ p.call # "no"
            chunks == IF branch[b].at = "idle" THEN 1 ELSE branch[b].chunks + 1
            at == IF ~p.last THEN "streaming" ELSE IF called THEN "called" ELSE "idle"
            new == [at |-> at, n |-> Nth(b), chunks |-> chunks, called |-> called]
<1>1. branch[b].n \in 0..MaxMessages /\ branch[b].chunks \in 0..MaxChunks + 1
        /\ branch[b].called \in BOOLEAN
    BY DEF BranchInv, Places
<1>2. Nth(b) \in 0..MaxMessages /\ Nth(b) \in Nat
    BY <1>1, AgUiRunAssumption DEF Nth, Streams, AgUiRunAssumption
<1>3. chunks \in 0..MaxChunks + 1 /\ (~whole => chunks <= MaxChunks)
    BY <1>1, AgUiRunAssumption DEF Streams, BranchInv, AgUiRunAssumption
<1>4. branch' = [branch EXCEPT ![b] = new]
    BY DEF Moves
<1>5. /\ p.call \in {"no", "id", "rest"} /\ p.last \in BOOLEAN
      /\ whole => p.call \in {"no", "id"} /\ p.last
      /\ ~HasCalled(b) => p.call \in {"no", "id"}
    BY DEF Parts
<1>6. at \in {"streaming", "called", "idle"} /\ (at = "streaming" => ~p.last)
    BY <1>5
<1>7. new \in Places /\ new.at = at /\ new.n = Nth(b) /\ new.chunks = chunks
  <2>1. called \in BOOLEAN
      OBVIOUS
  <2>. HIDE DEF called, chunks, at
  <2>. QED  BY <1>2, <1>3, <1>6, <2>1 DEF Places
<1>8. new.called => HasCalled(b) \/ p.call # "no"
  <2>1. new.called = called
      OBVIOUS
  <2>. HIDE DEF new
  <2>. QED  BY <2>1
<1>. HIDE DEF new
<1>9. branch'[b] = new /\ \A a \in Branches : a # b => branch'[a] = branch[a]
    BY <1>4 DEF BranchInv
<1>10. BranchInv'
  <2>1. branch' \in [Branches -> Places]
      BY <1>4, <1>7 DEF BranchInv
  <2>2. \A a \in Branches : branch'[a].at = "streaming" => branch'[a].chunks <= MaxChunks
      BY <1>3, <1>5, <1>6, <1>7, <1>9 DEF BranchInv
  <2>. QED  BY <2>1, <2>2 DEF BranchInv
<1>11. IsMessage(Message(b, p)) /\ Message(b, p).cid = <<b, Nth(b)>>
    BY <1>2 DEF IsMessage, Message
<1>12. HasCalled(b) => branch[b].called /\ Nth(b) = branch[b].n
    BY DEF HasCalled, Nth
<1>13. ASSUME NEW a \in Branches, branch'[a].called
       PROVE  \/ branch[a].called /\ branch'[a].n = branch[a].n
              \/ a = b /\ p.call = "id" /\ Message(b, p).cid = <<b, branch'[b].n>>
  <2>1. CASE a = b
      BY <1>5, <1>7, <1>8, <1>9, <1>11, <1>12, <1>13, <2>1
  <2>2. CASE a # b
      BY <1>9, <1>13, <2>2
  <2>. QED  BY <2>1, <2>2
<1>. QED  BY <1>5, <1>10, <1>11, <1>13

-----------------------------------------------------------------------------
(* The run.                                                                *)

Told(c) ==
    /\ c.told.legal
    /\ c.told.text = c.text /\ c.told.calls = DOMAIN c.calls /\ c.told.subs = c.subs

\* The call that a branch waits on has been announced to the client.
CallsBegun(c) == \A b \in Branches : branch[b].called => <<b, branch[b].n>> \in Begun(c)

Kinds ==
    /\ client.phase \in {"new", "running", "over"} /\ lost \in BOOLEAN
    /\ host \in {"new", "running", "over"}
    /\ state \in Values \cup {None} /\ ctx.last \in Values \cup {None}
    /\ ctx.subs \subseteq Branches /\ ctx.interrupts \subseteq Branches

StreamInv ==
    /\ Sound(ctx) /\ BranchInv /\ Kinds
    /\ ~lost => Told(ctx) /\ client.phase = host
    /\ host = "new" => client.phase = "new" /\ \A b \in Branches : ~branch[b].called
    /\ client.phase = "running" => client.view = state /\ ctx.last = state
    /\ Running /\ ~lost => CallsBegun(ctx)

LEMMA StreamInit == Init => StreamInv
<1>. SUFFICES ASSUME Init PROVE StreamInv
    OBVIOUS
<1>. DEFINE k == [phase |-> "new", text |-> {}, calls |-> {}, subs |-> {},
                  ended |-> {}, view |-> None, legal |-> TRUE]
<1>1. ctx = [messages |-> <<>>, text |-> {}, calls |-> <<>>, index |-> <<>>,
             anon |-> <<>>, subs |-> {}, interrupts |-> {}, last |-> None, seq |-> 0, told |-> k]
    BY DEF Init
<1>2. Client(k) /\ k.phase = "new" /\ k.legal /\ k.text = {} /\ k.calls = {} /\ k.subs = {}
    BY DEF Client
<1>. HIDE DEF k
<1>3. /\ ctx.messages = <<>> /\ ctx.text = {} /\ ctx.calls = <<>> /\ ctx.index = <<>>
      /\ ctx.anon = <<>> /\ ctx.subs = {} /\ ctx.interrupts = {} /\ ctx.last = None
      /\ ctx.seq = 0 /\ ctx.told = k
    BY <1>1
<1>4. DOMAIN <<>> = {}
    OBVIOUS
<1>5. Shape(ctx)
    BY <1>1, <1>2, <1>3 DEF Shape
<1>6. Owned(ctx) /\ Fresh(ctx)
    BY <1>3, <1>4 DEF Owned, Fresh
<1>7. BranchInv /\ \A b \in Branches : ~branch[b].called
    BY AgUiRunAssumption DEF Init, BranchInv, Places, AgUiRunAssumption
<1>8. Kinds /\ host = "new" /\ client.phase = "new"
    BY <1>2, <1>3 DEF Init, Kinds, client
<1>9. Told(ctx)
    BY <1>2, <1>3, <1>4 DEF Told
<1>. QED  BY <1>5, <1>6, <1>7, <1>8, <1>9 DEF StreamInv, Sound, Running

\* An item whose events are sent.
LEMMA Kept ==
    ASSUME StreamInv, Running, UNCHANGED <<host, lost>>, Sound(ctx'), BranchInv',
           Follows(ctx, ctx'), {state', ctx'.last} \subseteq Values \cup {None},
           client.phase = "running" => ctx'.last = state' /\ ctx'.told.view = state',
           ctx'.subs \subseteq Branches, ctx'.interrupts \subseteq Branches,
           Agree(ctx) /\ CallsBegun(ctx) => \A b \in Branches :
               branch'[b].called => <<b, branch'[b].n>> \in Begun(ctx')
    PROVE  StreamInv'
<1>1. ctx'.told.phase = ctx.told.phase
    BY DEF Follows
<1>2. ASSUME ~lost PROVE Agree(ctx) /\ CallsBegun(ctx) /\ Agree(ctx')
    BY <1>1, <1>2 DEF StreamInv, Told, Agree, Follows, Running, client
<1>3. ~lost' => Told(ctx)' /\ CallsBegun(ctx)' /\ client'.phase = host'
    BY <1>1, <1>2 DEF Agree, Told, CallsBegun, StreamInv, client
<1>4. Kinds'
    BY <1>1 DEF StreamInv, Kinds, client
<1>. QED  BY <1>1, <1>3, <1>4 DEF StreamInv, Running, client

\* The context of a call whose events are dropped.
LEMMA Dropped ==
    ASSUME NEW c, Sound(c), NEW k, Client(k)
    PROVE  LET d == [c EXCEPT !.told = k] IN
           /\ Sound(d) /\ d.told = k
           /\ d.last = c.last /\ d.subs = c.subs /\ d.interrupts = c.interrupts
<1>. DEFINE d == [c EXCEPT !.told = k]
<1>1. /\ Shape(d) /\ d.told = k
      /\ d.messages = c.messages /\ d.text = c.text /\ d.calls = c.calls /\ d.index = c.index
      /\ d.anon = c.anon /\ d.subs = c.subs /\ d.interrupts = c.interrupts
      /\ d.last = c.last /\ d.seq = c.seq
    BY DEF Sound, Shape
<1>. HIDE DEF d
<1>2. Sound(d)
    BY <1>1 DEF Sound, Owned, Fresh, Given
<1>. QED  BY <1>1, <1>2 DEF d

\* A start whose events are sent.
LEMMA StartSent ==
    ASSUME StreamInv, host = "new", host' = "running", UNCHANGED <<branch, state, lost>>,
           ctx' = Send(Send([ctx EXCEPT !.last = state], "RUN_STARTED", {None}),
                       "STATE_SNAPSHOT", {state})
    PROVE  StreamInv'
<1>. DEFINE b == [ctx EXCEPT !.last = state]
            c == Send(b, "RUN_STARTED", {None})
            d == Send(c, "STATE_SNAPSHOT", {state})
<1>1. ctx' = d /\ UNCHANGED <<branch, state, lost>> /\ ctx.told.phase = "new"
    BY DEF StreamInv, client
<1>2. /\ Shape(b) /\ b.last = state
      /\ b.messages = ctx.messages /\ b.text = ctx.text /\ b.calls = ctx.calls /\ b.index = ctx.index
      /\ b.anon = ctx.anon /\ b.subs = ctx.subs /\ b.interrupts = ctx.interrupts
      /\ b.seq = ctx.seq /\ b.told = ctx.told
    BY DEF StreamInv, Sound, Shape
<1>. HIDE DEF b
<1>3. /\ Shape(c) /\ c.told = Receive(b.told, "RUN_STARTED", {None})
      /\ c.messages = b.messages /\ c.text = b.text /\ c.calls = b.calls /\ c.index = b.index
      /\ c.anon = b.anon /\ c.subs = b.subs /\ c.interrupts = b.interrupts
      /\ c.last = b.last /\ c.seq = b.seq
    BY <1>2, SendFields
<1>. HIDE DEF c
<1>4. /\ Shape(d) /\ d.told = Receive(c.told, "STATE_SNAPSHOT", {state})
      /\ d.messages = c.messages /\ d.text = c.text /\ d.calls = c.calls /\ d.index = c.index
      /\ d.anon = c.anon /\ d.subs = c.subs /\ d.interrupts = c.interrupts
      /\ d.last = c.last /\ d.seq = c.seq
    BY <1>3, SendFields
<1>. HIDE DEF d
<1>5. Client(b.told) /\ Client(c.told)
    BY <1>2, <1>3 DEF Shape
<1>6. /\ c.told.phase = "running" /\ (b.told.legal /\ b.told.phase = "new" => c.told.legal)
      /\ c.told.text = b.told.text /\ c.told.calls = b.told.calls /\ c.told.subs = b.told.subs
    BY ONLY <1>3, <1>5, RunStarted
<1>7. /\ d.told.phase = c.told.phase /\ d.told.view = state
      /\ c.told.legal /\ c.told.phase = "running" => d.told.legal
      /\ d.told.text = c.told.text /\ d.told.calls = c.told.calls /\ d.told.subs = c.told.subs
  <2>. DEFINE ids == {state}
  <2>1. Client(c.told) /\ ids = {state} /\ d.told = Receive(c.told, "STATE_SNAPSHOT", ids)
      BY <1>4, <1>5
  <2>. HIDE DEF ids
  <2>. QED  BY ONLY <2>1, Viewed
<1>8. Sound(d)
    BY <1>2, <1>3, <1>4 DEF StreamInv, Sound, Owned, Fresh, Given
<1>9. ~lost => Told(d)
    BY <1>1, <1>2, <1>3, <1>4, <1>6, <1>7 DEF StreamInv, Told
<1>10. d.told.phase = "running" /\ d.told.view = state /\ d.last = state
    BY <1>2, <1>3, <1>4, <1>6, <1>7
<1>11. Kinds' /\ BranchInv'
    BY <1>1, <1>2, <1>3, <1>4, <1>10 DEF StreamInv, Kinds, BranchInv, client
<1>12. CallsBegun(ctx)'
    BY <1>1 DEF StreamInv, CallsBegun, client
<1>. QED  BY <1>1, <1>8, <1>9, <1>10, <1>11, <1>12 DEF StreamInv, Running, client

LEMMA StartRunKeeps == StreamInv /\ StartRun => StreamInv'
<1>. SUFFICES ASSUME StreamInv, StartRun PROVE StreamInv'
    OBVIOUS
<1>1. host = "new" /\ host' = "running" /\ UNCHANGED <<branch, state>>
    BY DEF StartRun
<1>2. CASE UNCHANGED lost /\ ctx' = Send(Send([ctx EXCEPT !.last = state], "RUN_STARTED", {None}),
                                        "STATE_SNAPSHOT", {state})
    BY <1>1, <1>2, StartSent
<1>3. CASE lost' = TRUE /\ ctx' \in {ctx, [ctx EXCEPT !.last = state]}
  <2>1. Shape(ctx) /\ Owned(ctx) /\ Fresh(ctx) /\ Kinds /\ BranchInv /\ ctx.told.phase = "new"
      BY <1>1 DEF StreamInv, Sound, client
  <2>2. /\ Shape(ctx') /\ ctx'.last \in {ctx.last, state} /\ ctx'.interrupts = ctx.interrupts
        /\ ctx'.messages = ctx.messages /\ ctx'.text = ctx.text /\ ctx'.calls = ctx.calls
        /\ ctx'.index = ctx.index /\ ctx'.anon = ctx.anon /\ ctx'.subs = ctx.subs
        /\ ctx'.seq = ctx.seq /\ ctx'.told = ctx.told
      BY <1>3, <2>1 DEF Shape
  <2>3. Sound(ctx')
      BY <2>1, <2>2 DEF Sound, Owned, Fresh, Given
  <2>4. Kinds' /\ BranchInv'
      BY <1>1, <1>3, <2>1, <2>2 DEF Kinds, BranchInv, client
  <2>. QED  BY <1>1, <1>3, <2>1, <2>2, <2>3, <2>4 DEF StreamInv, client
<1>. QED  BY <1>2, <1>3 DEF StartRun

\* A message's part that its branch streams, if the context takes it in soundly.
LEMMA PartKept ==
    ASSUME StreamInv, UNCHANGED <<host, state, lost>>, NEW b \in Branches, Streams(b),
           NEW whole \in BOOLEAN,
           whole \/ branch[b].at = "idle" \/ branch[b].chunks < MaxChunks,
           NEW p \in Parts(b, whole), Moves(b, p),
           Sound(ctx'), Carries(ctx, ctx'),
           Agree(ctx) /\ p.call = "id" => Message(b, p).cid \in Begun(ctx')
    PROVE  StreamInv'
<1>1. /\ BranchInv'
      /\ \A a \in Branches : branch'[a].called =>
             \/ branch[a].called /\ branch'[a].n = branch[a].n
             \/ a = b /\ p.call = "id" /\ Message(b, p).cid = <<b, branch'[b].n>>
    BY PartsFacts DEF StreamInv
<1>2. Agree(ctx) /\ CallsBegun(ctx) => \A a \in Branches :
          branch'[a].called => <<a, branch'[a].n>> \in Begun(ctx')
    BY <1>1 DEF CallsBegun, Carries, Follows
<1>3. Running
    BY DEF Streams
<1>4. /\ {state', ctx'.last} \subseteq Values \cup {None}
      /\ client.phase = "running" => ctx'.last = state' /\ ctx'.told.view = state'
      /\ ctx'.subs \subseteq Branches /\ ctx'.interrupts \subseteq Branches
    BY <1>3 DEF StreamInv, Kinds, Carries, client
<1>. QED  BY <1>1, <1>2, <1>3, <1>4, Kept DEF Carries

LEMMA ChunkKeeps == ASSUME StreamInv, NEW b \in Branches, Chunk(b) PROVE StreamInv'
<1>1. PICK p \in Parts(b, FALSE) : Moves(b, p) /\ ctx' = AiChunk(ctx, Message(b, p), OwnerOf[b])
    BY DEF Chunk
<1>2. Streams(b) /\ (branch[b].at = "idle" \/ branch[b].chunks < MaxChunks)
      /\ UNCHANGED <<host, state, lost>>
    BY DEF Chunk
<1>3. IsMessage(Message(b, p)) /\ Sound(ctx)
    BY <1>1, <1>2, PartsFacts DEF StreamInv
<1>4. /\ Sound(ctx') /\ Carries(ctx, ctx')
      /\ Agree(ctx) /\ Message(b, p).call = "id" => Message(b, p).cid \in Begun(ctx')
    BY <1>1, <1>3, AiChunkDoes
<1>5. Message(b, p).call = p.call
    BY DEF Message
<1>. QED  BY <1>1, <1>2, <1>4, <1>5, PartKept

LEMMA WholeKeeps == ASSUME StreamInv, NEW b \in Branches, Whole(b) PROVE StreamInv'
<1>1. PICK p \in Parts(b, TRUE) : Moves(b, p) /\ ctx' = AiMessage(ctx, Message(b, p), OwnerOf[b])
    BY DEF Whole
<1>2. Streams(b) /\ UNCHANGED <<host, state, lost>>
    BY DEF Whole
<1>3. IsMessage(Message(b, p)) /\ p.call \in {"no", "id"} /\ Sound(ctx)
    BY <1>1, <1>2, PartsFacts DEF StreamInv
<1>4. Message(b, p).call = p.call
    BY DEF Message
<1>5. /\ Sound(ctx') /\ Carries(ctx, ctx')
      /\ Agree(ctx) /\ Message(b, p).call = "id" => Message(b, p).cid \in Begun(ctx')
    BY <1>1, <1>3, <1>4, AiMessageDoes
<1>. QED  BY <1>1, <1>2, <1>4, <1>5, PartKept

LEMMA RaisesKeeps == ASSUME StreamInv, NEW b \in Branches, ChunkRaises(b) PROVE StreamInv'
<1>1. PICK p \in Parts(b, FALSE) :
          Moves(b, p) /\ ctx' = AiChunkRaises(ctx, Message(b, p), OwnerOf[b])
    BY DEF ChunkRaises
<1>2. Streams(b) /\ (branch[b].at = "idle" \/ branch[b].chunks < MaxChunks)
      /\ lost' = TRUE /\ UNCHANGED <<host, state>>
    BY DEF ChunkRaises
<1>3. IsMessage(Message(b, p)) /\ BranchInv' /\ Sound(ctx)
    BY <1>1, <1>2, PartsFacts DEF StreamInv
<1>4. /\ Sound(ctx') /\ ctx'.told = ctx.told
      /\ ctx'.last = ctx.last /\ ctx'.subs = ctx.subs /\ ctx'.interrupts = ctx.interrupts
    BY <1>1, <1>3, RaisedDoes
<1>5. Kinds'
    BY <1>2, <1>4 DEF StreamInv, Kinds, client
<1>. QED  BY <1>2, <1>3, <1>4, <1>5 DEF StreamInv, Streams, Running, client

LEMMA AnswerKeeps == ASSUME StreamInv, NEW b \in Branches, ToolAnswers(b) PROVE StreamInv'
<1>. DEFINE i == <<b, branch[b].n>>
<1>1. /\ Running /\ branch[b].called /\ UNCHANGED <<host, state, lost>>
      /\ branch' = [branch EXCEPT ![b].at = "idle", ![b].called = FALSE]
      /\ ctx' = ToolMessage(ctx, i)
    BY DEF ToolAnswers
<1>2. BranchInv' /\ \A a \in Branches :
          branch'[a].called => branch[a].called /\ branch'[a].n = branch[a].n
    BY <1>1 DEF StreamInv, BranchInv, Places
<1>. HIDE DEF i
<1>3. /\ Sound(ctx')
      /\ ctx'.told.phase = ctx.told.phase /\ ctx'.last = ctx.last
      /\ ctx'.told.view = ctx.told.view
      /\ ctx'.subs = ctx.subs /\ ctx'.interrupts = ctx.interrupts
      /\ i \in Begun(ctx) => Carries(ctx, ctx')
    BY <1>1, ToolMessageDoes DEF StreamInv
<1>4. /\ {state', ctx'.last} \subseteq Values \cup {None}
      /\ client.phase = "running" => ctx'.last = state' /\ ctx'.told.view = state'
      /\ ctx'.subs \subseteq Branches /\ ctx'.interrupts \subseteq Branches
    BY <1>1, <1>3 DEF StreamInv, Kinds, client
<1>5. CASE lost
  <2>1. Kinds'
      BY <1>1, <1>3, <1>4 DEF StreamInv, Kinds, client
  <2>. QED  BY <1>1, <1>2, <1>3, <1>4, <1>5, <2>1 DEF StreamInv, Running, client
<1>6. CASE ~lost
  <2>1. CallsBegun(ctx)
      BY <1>1, <1>6 DEF StreamInv
  <2>2. i \in Begun(ctx)
      BY <1>1, <2>1 DEF CallsBegun, i
  <2>3. \A a \in Branches : branch'[a].called => <<a, branch'[a].n>> \in Begun(ctx)
      BY <1>2, <2>1 DEF CallsBegun
  <2>4. Agree(ctx) => \A a \in Branches : branch'[a].called => <<a, branch'[a].n>> \in Begun(ctx')
      BY <1>3, <2>2, <2>3 DEF Carries, Follows
  <2>. QED  BY <1>1, <1>2, <1>3, <1>4, <2>2, <2>4, Kept DEF Carries
<1>7. lost \in BOOLEAN
    BY DEF StreamInv, Kinds
<1>. QED  BY <1>5, <1>6, <1>7

LEMMA ReturnKeeps == ASSUME StreamInv, NEW b \in Branches, NodeReturns(b) PROVE StreamInv'
<1>1. /\ Running /\ UNCHANGED <<host, lost>>
      /\ branch' = [branch EXCEPT ![b].at = "done"]
    BY DEF NodeReturns
<1>2. PICK v \in Values \cup {None} :
          state' = (IF v = None THEN state ELSE v) /\ ctx' = Updates(ctx, OwnerOf[b], v)
    BY DEF NodeReturns
<1>3. BranchInv' /\ \A a \in Branches :
          branch'[a].called = branch[a].called /\ branch'[a].n = branch[a].n
    BY <1>1 DEF StreamInv, BranchInv, Places
<1>4. Sound(ctx) /\ (client.phase = "running" => ctx.told.view = ctx.last /\ ctx.last = state)
    BY <1>1 DEF StreamInv, client
<1>5. /\ Sound(ctx') /\ Follows(ctx, ctx')
      /\ ctx'.last = (IF v = None THEN ctx.last ELSE v)
      /\ ctx.told.view = ctx.last => ctx'.told.view = ctx'.last
      /\ ctx'.subs = ctx.subs /\ ctx'.interrupts = ctx.interrupts
    BY <1>2, <1>4, UpdatesDoes
<1>6. /\ {state', ctx'.last} \subseteq Values \cup {None}
      /\ client.phase = "running" => ctx'.last = state' /\ ctx'.told.view = state'
      /\ ctx'.subs \subseteq Branches /\ ctx'.interrupts \subseteq Branches
    BY <1>2, <1>4, <1>5 DEF StreamInv, Kinds
<1>7. Agree(ctx) /\ CallsBegun(ctx) => \A a \in Branches :
          branch'[a].called => <<a, branch'[a].n>> \in Begun(ctx')
    BY <1>3, <1>5 DEF CallsBegun, Follows
<1>. QED  BY <1>1, <1>3, <1>5, <1>6, <1>7, Kept

LEMMA InterruptKeeps == ASSUME StreamInv, NEW b \in Branches, Interrupts(b) PROVE StreamInv'
<1>1. /\ Running /\ UNCHANGED <<host, state, lost>>
      /\ branch' = [branch EXCEPT ![b].at = "done"]
      /\ ctx' = [ctx EXCEPT !.interrupts = ctx.interrupts \cup {b}]
    BY DEF Interrupts
<1>2. BranchInv' /\ \A a \in Branches :
          branch'[a].called = branch[a].called /\ branch'[a].n = branch[a].n
    BY <1>1 DEF StreamInv, BranchInv, Places
<1>3. Shape(ctx) /\ Owned(ctx) /\ Fresh(ctx)
    BY DEF StreamInv, Sound
<1>4. /\ Shape(ctx') /\ ctx'.interrupts = ctx.interrupts \cup {b}
      /\ ctx'.messages = ctx.messages /\ ctx'.text = ctx.text /\ ctx'.calls = ctx.calls
      /\ ctx'.index = ctx.index /\ ctx'.anon = ctx.anon /\ ctx'.subs = ctx.subs
      /\ ctx'.last = ctx.last /\ ctx'.seq = ctx.seq /\ ctx'.told = ctx.told
    BY <1>1, <1>3 DEF Shape
<1>5. Owned(ctx')
    BY ONLY <1>3, <1>4 DEF Owned
<1>6. Fresh(ctx')
    BY ONLY <1>3, <1>4 DEF Fresh, Given
<1>7. Sound(ctx') /\ Follows(ctx, ctx') /\ Begun(ctx') = Begun(ctx)
    BY <1>4, <1>5, <1>6 DEF Sound, Follows, Agree, Begun
<1>8. /\ {state', ctx'.last} \subseteq Values \cup {None}
      /\ client.phase = "running" => ctx'.last = state' /\ ctx'.told.view = state'
      /\ ctx'.subs \subseteq Branches /\ ctx'.interrupts \subseteq Branches
    BY <1>1, <1>4 DEF StreamInv, Kinds, client
<1>9. Agree(ctx) /\ CallsBegun(ctx) => \A a \in Branches :
          branch'[a].called => <<a, branch'[a].n>> \in Begun(ctx')
    BY <1>2, <1>7 DEF CallsBegun
<1>. QED  BY <1>1, <1>2, <1>7, <1>8, <1>9, Kept

LEMMA SubagentKeeps ==
    ASSUME StreamInv, NEW b \in Branches, NEW kind \in {"start", "end", "error"}, Subagent(b, kind)
    PROVE  StreamInv'
<1>1. Running /\ UNCHANGED <<host, branch, state, lost>> /\ ctx' = Custom(ctx, kind, b)
    BY DEF Subagent
<1>2. /\ Sound(ctx') /\ Follows(ctx, ctx')
      /\ ctx'.last = ctx.last /\ ctx'.told.view = ctx.told.view
      /\ ctx'.subs \subseteq ctx.subs \cup {b} /\ ctx'.interrupts = ctx.interrupts
    BY <1>1, CustomDoes DEF StreamInv
<1>3. /\ {state', ctx'.last} \subseteq Values \cup {None}
      /\ client.phase = "running" => ctx'.last = state' /\ ctx'.told.view = state'
      /\ ctx'.subs \subseteq Branches /\ ctx'.interrupts \subseteq Branches
    BY <1>1, <1>2 DEF StreamInv, Kinds, client
<1>4. BranchInv'
    BY <1>1 DEF StreamInv, BranchInv
<1>5. Agree(ctx) /\ CallsBegun(ctx) => \A a \in Branches :
          branch'[a].called => <<a, branch'[a].n>> \in Begun(ctx')
    BY <1>1, <1>2 DEF CallsBegun, Follows
<1>. QED  BY <1>1, <1>2, <1>3, <1>4, <1>5, Kept

LEMMA EndSent ==
    ASSUME StreamInv, Running, host' = "over", UNCHANGED <<branch, state, lost>>,
           NEW type \in {"RUN_FINISHED", "RUN_ERROR"}, ctx' = Send(CloseAll(ctx), type, {None})
    PROVE  StreamInv'
<1>. DEFINE c == CloseAll(ctx)
            d == Send(c, type, {None})
<1>1. /\ Sound(c) /\ Follows(ctx, c)
      /\ c.last = ctx.last /\ c.interrupts = ctx.interrupts
      /\ c.text = {} /\ DOMAIN c.calls = {} /\ c.subs = {}
    BY CloseAllDoes DEF StreamInv
<1>2. ctx' = d
    OBVIOUS
<1>. HIDE DEF c
<1>3. /\ Shape(d) /\ d.told = Receive(c.told, type, {None})
      /\ d.messages = c.messages /\ d.text = c.text /\ d.calls = c.calls /\ d.index = c.index
      /\ d.anon = c.anon /\ d.subs = c.subs /\ d.interrupts = c.interrupts
      /\ d.last = c.last /\ d.seq = c.seq
    BY <1>1, SendFields DEF Sound
<1>. HIDE DEF d
<1>4. Client(c.told)
    BY <1>1 DEF Sound, Shape
<1>5. /\ d.told.phase = "over"
      /\ c.told.legal /\ c.told.phase = "running" /\ c.told.text = {} /\ c.told.calls = {}
            /\ c.told.subs = {} => d.told.legal
      /\ d.told.text = c.told.text /\ d.told.calls = c.told.calls /\ d.told.subs = c.told.subs
    BY ONLY <1>3, <1>4, RunOver, type \in {"RUN_FINISHED", "RUN_ERROR"}
<1>6. Sound(d)
  <2>1. Owned(c) /\ Fresh(c)
      BY <1>1 DEF Sound
  <2>2. Owned(d)
      BY ONLY <1>3, <2>1 DEF Owned
  <2>3. Fresh(d)
      BY ONLY <1>3, <2>1 DEF Fresh, Given
  <2>. QED  BY <1>3, <2>2, <2>3 DEF Sound
<1>7. ~lost => Told(d)
  <2>1. ASSUME ~lost PROVE Agree(c)
      BY <1>1, <2>1 DEF StreamInv, Told, Agree, Follows, Running, client
  <2>. QED  BY <1>1, <1>3, <1>5, <2>1 DEF Agree, Told
<1>8. Kinds' /\ BranchInv'
    BY <1>1, <1>2, <1>3, <1>5 DEF StreamInv, Kinds, BranchInv, client
<1>. QED  BY <1>2, <1>5, <1>6, <1>7, <1>8 DEF StreamInv, Running, client

LEMMA EndKeeps ==
    ASSUME StreamInv, NEW type \in {"RUN_FINISHED", "RUN_ERROR"}, Ends(type)
    PROVE  StreamInv'
<1>1. Running /\ host' = "over" /\ UNCHANGED <<branch, state>>
    BY DEF Ends
<1>2. CASE UNCHANGED lost /\ ctx' = Send(CloseAll(ctx), type, {None})
    BY <1>1, <1>2, EndSent
<1>3. CASE lost' = TRUE /\ ctx' = [CloseAll(ctx) EXCEPT !.told = client]
  <2>. DEFINE c == CloseAll(ctx)
  <2>1. Sound(c) /\ c.last = ctx.last /\ c.interrupts = ctx.interrupts /\ c.subs = {}
      BY CloseAllDoes DEF StreamInv
  <2>2. Client(client)
      BY DEF StreamInv, Sound, Shape, client
  <2>. HIDE DEF c
  <2>3. /\ Sound(ctx') /\ ctx'.told = ctx.told /\ ctx'.last = ctx.last
        /\ ctx'.interrupts = ctx.interrupts /\ ctx'.subs = {}
      BY <1>3, <2>1, <2>2, Dropped DEF c, client
  <2>4. Kinds' /\ BranchInv'
      BY <1>1, <1>3, <2>3 DEF StreamInv, Kinds, BranchInv, client
  <2>. QED  BY <1>1, <1>3, <2>3, <2>4 DEF StreamInv, Running, client
<1>. QED  BY <1>2, <1>3 DEF Ends

LEMMA StreamStep == StreamInv /\ [Next]_vars => StreamInv'
<1>. SUFFICES ASSUME StreamInv, [Next]_vars PROVE StreamInv'
    OBVIOUS
<1>1. CASE StartRun
    BY <1>1, StartRunKeeps
<1>2. CASE FinishRun \/ ErrorRun
    BY <1>2, EndKeeps DEF FinishRun, ErrorRun
<1>4. CASE \E b \in Branches : Chunk(b) \/ Whole(b) \/ ToolAnswers(b) \/ NodeReturns(b)
    BY <1>4, ChunkKeeps, WholeKeeps, AnswerKeeps, ReturnKeeps
<1>5. CASE \E b \in Branches : ChunkRaises(b) \/ Interrupts(b)
    BY <1>5, RaisesKeeps, InterruptKeeps
<1>6. CASE \E b \in Branches : \E kind \in {"start", "end", "error"} : Subagent(b, kind)
    BY <1>6, SubagentKeeps
<1>7. CASE UNCHANGED vars
  <2>1. ctx' = ctx /\ host' = host /\ branch' = branch /\ state' = state /\ lost' = lost
      BY <1>7 DEF vars
  <2>. QED  BY <2>1 DEF StreamInv, BranchInv, Kinds, CallsBegun, client, Running
<1>. QED  BY <1>1, <1>2, <1>4, <1>5, <1>6, <1>7 DEF Next

-----------------------------------------------------------------------------
(* The theorems.                                                           *)

\* Every variable keeps its type, whatever the branches stream and lose.
THEOREM TypeCorrect == Spec => []TypeOK
<1>1. StreamInv => TypeOK
  <2>. SUFFICES ASSUME StreamInv PROVE TypeOK
      OBVIOUS
  <2>1. Sound(ctx) /\ Given(ctx) \subseteq Ids
      BY DEF StreamInv, Sound, Fresh, Given, Ids
  <2>2. /\ DOMAIN ctx.messages \cup ctx.text \cup DOMAIN ctx.index \subseteq Ids
        /\ DOMAIN ctx.calls \subseteq Ids /\ ctx.seq \in Nat
      BY <2>1 DEF Sound, Owned, Fresh
  <2>. QED  BY <2>2 DEF StreamInv, BranchInv, Kinds, TypeOK
<1>. QED  BY <1>1, StreamInit, StreamStep, PTL DEF Spec

\* An open text or call belongs to an open message, so that whatever closes the
\* message closes it (_close_message, _close_owner): true even after an item's events
\* were lost.
THEOREM OpenOwned == Spec => []OpenIsOwned
<1>1. StreamInv => OpenIsOwned
    BY DEF StreamInv, Sound, Owned, OpenIsOwned
<1>. QED  BY <1>1, StreamInit, StreamStep, PTL DEF Spec

\* Every event is one the protocol allows where it comes, and the client and the
\* context agree on what is open, for any number of branches that interleave in any way.
THEOREM StreamIsLegal == Spec => []LegalStream
<1>1. StreamInv => LegalStream
    BY DEF StreamInv, Told, LegalStream, client
<1>. QED  BY <1>1, StreamInit, StreamStep, PTL DEF Spec

\* The snapshot and the deltas that follow it give the client the graph's state.
THEOREM StateStaysInSync == Spec => []StateInSync
<1>1. StreamInv => StateInSync
    BY DEF StreamInv, StateInSync, client
<1>. QED  BY <1>1, StreamInit, StreamStep, PTL DEF Spec

=============================================================================
