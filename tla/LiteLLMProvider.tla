-------------------------- MODULE LiteLLMProvider --------------------------
(***************************************************************************)
(* exoclaw_provider_litellm.LiteLLMProvider, one instance that the sessions *)
(* of a gateway share: the clean-up of the messages, the body composed from *)
(* a shared configuration, the permits of a model, the call itself with its *)
(* stream, and the reading of a response with several choices.              *)
(***************************************************************************)
EXTENDS Integers, Sequences, FiniteSets, SequencesExt

CONSTANTS
    LLMSessions,   \* who calls
    Limited,       \* the models of model_max_concurrent ...
    Unlimited,     \* ... and the others
    ModelPermits,       \* permits of a limited model
    Pinned,        \* the models whose configured extra_body names a user
    Prompts,       \* the messages a call may hold
    Responses,     \* what the service may answer, a list of choices
    Streams,       \* whether the provider streams (a set, to choose from)
    MaxChats       \* bound on the calls of a session

VARIABLES
    stream,        \* _stream
    extraBody,     \* the user in _model_extra_body, "" for none
    freePermits,   \* _model_semaphores
    llmChat,          \* what each session is at
    chatsMade

llmVars == <<stream, extraBody, freePermits, llmChat, chatsMade>>

Models == Limited \cup Unlimited

\* A message: role, content, the ids of its tool calls and of the call it
\* answers (<<>>: none).  A content has a form ("str", "list", "dict", "null" or
\* "missing") and items, "hollow" one without text.
Msg(role, content, calls, answers) ==
    [role |-> role, content |-> content, calls |-> calls, answers |-> answers]
Body(form, items) == [form |-> form, items |-> items]
Null == Body("null", <<>>)
Placeholder == Body("str", <<"full">>)

\* A choice of a response; its calls are given by their names.
Choice(content, calls, finish) == [content |-> content, calls |-> calls, finish |-> finish]

\* The histories and the responses there are: a text has one item, and so has the
\* content that is a dict; a response has a choice.
ChatRoles == {"system", "user", "assistant", "tool"}
ChatIds == {"nine", "long"} \X Nat
ContentItems == {"full", "hollow"}
ContentBodies ==
    [form : {"str", "dict"}, items : [1..1 -> ContentItems]]
    \cup [form : {"list"}, items : Seq(ContentItems)]
    \cup {Null, Body("missing", <<>>)}
ChatMessages ==
    [role : ChatRoles, content : ContentBodies, calls : Seq(ChatIds), answers : ChatIds \cup {<<>>}]
AnswerChoices == [content : STRING, calls : Seq(STRING), finish : STRING]

ASSUME LLMAssumption ==
    /\ IsFiniteSet(LLMSessions) /\ ModelPermits \in Nat /\ Streams \subseteq BOOLEAN
    /\ Prompts \subseteq Seq(ChatMessages)
    /\ Responses \subseteq Seq(AnswerChoices) \ {<<>>}

\* The items of a list that have text.
Worded(items) ==
    FlattenSeq([k \in DOMAIN items |-> IF items[k] = "hollow" THEN <<>> ELSE <<items[k]>>])

\* _sanitize_empty_content: no empty text is sent; a message of tool calls
\* alone has no content, any other a placeholder; a dict becomes a list.
Filled(m) ==
    LET full == Worded(m.content.items)
        stand == IF m.role = "assistant" /\ m.calls # <<>> THEN Null ELSE Placeholder
    IN  CASE m.content.form = "dict" -> [m EXCEPT !.content.form = "list"]
          [] m.content.form \in {"str", "list"} /\ Len(full) < Len(m.content.items) ->
                [m EXCEPT !.content = IF full = <<>> THEN stand ELSE Body("list", full)]
          [] OTHER -> m

\* _sanitize_request_messages: an assistant message has a content.
Keyed(m) ==
    IF m.role = "assistant" /\ m.content.form = "missing" THEN [m EXCEPT !.content = Null] ELSE m

\* _normalize_tool_call_id: an id of nine letters and digits is kept, any other
\* becomes the start of its digest.  Long ids are written <<"long", n>>.
Normal(id) == IF id[1] = "long" THEN <<"hash", id[2]>> ELSE id

NormalAll(ids) == [k \in DOMAIN ids |-> Normal(ids[k])]

\* A plausible bug: only the ids of the calls are normalized.
MappedCallsOnly(m) == [m EXCEPT !.calls = NormalAll(@)]

\* map_id, over the calls of a message and the call it answers.
Mapped(m) ==
    [m EXCEPT !.calls = NormalAll(@), !.answers = IF @ = <<>> THEN @ ELSE Normal(@)]

\* _apply_anthropic_cache_control_to_system: the system text becomes a list.
Stamped(m) ==
    IF m.role = "system" /\ m.content.form \in {"str", "list"}
    THEN [m EXCEPT !.content.form = "list"] ELSE m

Sanitized(ms, anthropic) ==
    [k \in DOMAIN ms |->
        LET m == Mapped(Keyed(Filled(ms[k]))) IN IF anthropic THEN Stamped(m) ELSE m]

-----------------------------------------------------------------------------
\* _parse_response: the calls of all choices together; the first text; the
\* finish of the last choice with calls that ended by them, else the first's.
Parsed(choices) ==
    LET called == {k \in DOMAIN choices : choices[k].calls # <<>>
                                         /\ choices[k].finish \in {"tool_calls", "stop"}}
        worded == {k \in DOMAIN choices : choices[k].content # ""}
    IN  [calls |-> FlattenSeq([k \in DOMAIN choices |-> choices[k].calls]),
         content |-> IF worded = {} THEN ""
                     ELSE choices[CHOOSE k \in worded : \A j \in worded : k <= j].content,
         finish |-> IF called = {} THEN choices[1].finish
                    ELSE choices[CHOOSE k \in called : \A j \in called : j <= k].finish]

Nothing == [calls |-> <<>>, content |-> "", finish |-> ""]
Asking(model, prompt, sent, user) ==
    [at |-> "waiting", model |-> model, prompt |-> prompt, sent |-> sent, user |-> user,
     outcome |-> "", answer |-> Nothing, heard |-> <<>>]
NoChat == [Asking("", <<>>, <<>>, "") EXCEPT !.at = "idle"]

LLMInit ==
    /\ stream \in Streams
    /\ extraBody = [m \in Models |-> IF m \in Pinned THEN "pinned" ELSE ""]
    /\ freePermits = [m \in Limited |-> ModelPermits]
    /\ llmChat = [s \in LLMSessions |-> NoChat]
    /\ chatsMade = [s \in LLMSessions |-> 0]

\* chat up to the semaphore: the request is composed, its body a copy of the
\* model's, the session the user unless the configuration names one.
Compose(s) ==
    /\ llmChat[s].at = "idle" /\ chatsMade[s] < MaxChats
    /\ chatsMade' = [chatsMade EXCEPT ![s] = @ + 1]
    /\ \E m \in Models, ms \in Prompts, anthropic \in BOOLEAN :
          llmChat' = [llmChat EXCEPT ![s] =
              Asking(m, ms, Sanitized(ms, anthropic), IF extraBody[m] # "" THEN extraBody[m] ELSE s)]
    /\ UNCHANGED <<stream, extraBody, freePermits>>

\* async with sem, or no semaphore at all.
Acquire(s) ==
    /\ llmChat[s].at = "waiting"
    /\ llmChat[s].model \in Limited => freePermits[llmChat[s].model] > 0
    /\ freePermits' = [m \in Limited |->
                          IF m = llmChat[s].model THEN freePermits[m] - 1 ELSE freePermits[m]]
    /\ llmChat' = [llmChat EXCEPT ![s].at = "calling"]
    /\ UNCHANGED <<stream, extraBody, chatsMade>>

Release(s) ==
    freePermits' = [m \in Limited |->
                       IF m = llmChat[s].model THEN freePermits[m] + 1 ELSE freePermits[m]]

Ends(s, outcome, answer, heard) ==
    /\ Release(s)
    /\ llmChat' = [llmChat EXCEPT ![s].at = "done", ![s].outcome = outcome,
                            ![s].answer = answer, ![s].heard = heard]
    /\ UNCHANGED <<stream, extraBody, chatsMade>>

\* The connection of a stream is established within the time allowed.
Connected(s) ==
    /\ llmChat[s].at = "calling" /\ stream
    /\ llmChat' = [llmChat EXCEPT ![s].at = "streaming"]
    /\ UNCHANGED <<stream, extraBody, freePermits, chatsMade>>

Delivered(s) ==
    /\ llmChat[s].at = (IF stream THEN "streaming" ELSE "calling")
    /\ \E r \in Responses : Ends(s, "answer", Parsed(r), r)

\* No connection in time, or a stream that ends without a chunk.
TimesOut(s) ==
    /\ stream /\ llmChat[s].at \in {"calling", "streaming"}
    /\ Ends(s, "timeout", Nothing, <<>>)

\* The service raises; a prompt that is too long gets an error of its own.
Raises(s) ==
    /\ llmChat[s].at \in {"calling", "streaming"}
    /\ \E e \in {"error", "context"} : Ends(s, e, Nothing, <<>>)

\* The turn is cancelled: while it waits it has no permit to give back.
CancelChat(s) ==
    \/ llmChat[s].at \in {"calling", "streaming"} /\ Ends(s, "cancelled", Nothing, <<>>)
    \/ /\ llmChat[s].at = "waiting"
       /\ llmChat' = [llmChat EXCEPT ![s].at = "done", ![s].outcome = "cancelled"]
       /\ UNCHANGED <<stream, extraBody, freePermits, chatsMade>>

NextCall(s) ==
    /\ llmChat[s].at = "done"
    /\ llmChat' = [llmChat EXCEPT ![s] = NoChat]
    /\ UNCHANGED <<stream, extraBody, freePermits, chatsMade>>

LLMNext ==
    \E s \in LLMSessions :
        Compose(s) \/ Acquire(s) \/ Connected(s) \/ Delivered(s) \/ TimesOut(s)
        \/ Raises(s) \/ CancelChat(s) \/ NextCall(s)

-----------------------------------------------------------------------------
LLMTypeOK ==
    /\ stream \in BOOLEAN
    /\ freePermits \in [Limited -> 0..ModelPermits]
    /\ \A s \in LLMSessions :
          llmChat[s].at \in {"idle", "waiting", "calling", "streaming", "done"}

\* The sessions a call of which is under way, with a permit of model m.
Holding(m) ==
    {s \in LLMSessions : llmChat[s].model = m /\ llmChat[s].at \in {"calling", "streaming"}}

\* Every permit is free or with a call under way, whatever way calls end.
PermitsKept ==
    \A m \in Limited : freePermits[m] + Cardinality(Holding(m)) = ModelPermits

\* What is sent pairs up as what was given: a result answers a call in the
\* request exactly if it answered it in the history, and no text goes out empty,
\* but one that came as a dict.
RequestPairsUp ==
    \A s \in LLMSessions :
        LET given == llmChat[s].prompt sent == llmChat[s].sent IN
        /\ \A i, j \in DOMAIN given :
              (given[j].answers # <<>> /\ sent[j].answers \in ToSet(sent[i].calls))
                  <=> (given[j].answers # <<>> /\ given[j].answers \in ToSet(given[i].calls))
        /\ \A k \in DOMAIN sent :
              /\ given[k].content.form # "dict" => "hollow" \notin ToSet(sent[k].content.items)
              /\ sent[k].role = "assistant" => sent[k].content.form # "missing"
              /\ sent[k].content = Null /\ given[k].content.form \in {"str", "list"}
                    => sent[k].calls # <<>>

\* A request carries its own session as the user, or the one configured, never
\* that of another session of the shared provider.
UserIsOwn ==
    \A s \in LLMSessions : llmChat[s].at # "idle" =>
        llmChat[s].user = (IF llmChat[s].model \in Pinned THEN "pinned" ELSE s)

\* The calls of the choices are all there, one choice's after the other's, and an
\* answer of calls ended by them.
ChoicesAreJoined ==
    \A s \in LLMSessions : llmChat[s].outcome = "answer" =>
        LET r == llmChat[s].heard a == llmChat[s].answer IN
        /\ \E upTo \in [0..Len(r) -> 0..Len(a.calls)] :
              /\ upTo[0] = 0 /\ upTo[Len(r)] = Len(a.calls)
              /\ \A k \in 1..Len(r) : SubSeq(a.calls, upTo[k - 1] + 1, upTo[k]) = r[k].calls
        /\ (\E k \in DOMAIN r : r[k].calls # <<>> /\ r[k].finish = "tool_calls")
              => a.finish \in {"tool_calls", "stop"}
        /\ (\E k \in DOMAIN r : r[k].content # "") => a.content # ""

LLMRight == PermitsKept /\ RequestPairsUp /\ UserIsOwn /\ ChoicesAreJoined
=============================================================================
