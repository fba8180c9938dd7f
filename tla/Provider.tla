------------------------------- MODULE Provider -------------------------------
\* The model adapters (macr/providers): the local HTTP provider, which admits one
\* request at a time, and the DeepSeek provider with its single completion and its
\* conversation step.  An answer is described by what the adapters look at.
EXTENDS Integers, FiniteSets, Sequences, SequencesExt

CONSTANTS Threads, CallIds, MaxOutput

VARIABLES
  inflight,  \* the thread holding the local provider's lock, or Nobody
  calls      \* what each thread's call has come to

providerVars == <<inflight, calls>>

Nobody == "nobody"
Missing == "missing"
NoCount == -1

----------------------------------------------------------------------------
\* Requests

\* A message is a system or user text, an assistant turn with the ids of its tool
\* calls, or one tool result.
Messages == [role : {"user"}] \union [role : {"assistant"}, ids : SUBSET CallIds]
              \union [role : {"tool"}, id : CallIds]
CallsOf(m) == IF m.role = "assistant" THEN m.ids ELSE {}

\* validate_conversation_request: every call is answered before the next turn, no
\* result comes unasked and no id is used twice.
ConversationValid(messages) ==
  LET Read(m, s) ==
        IF m.role = "tool"
        THEN [ok |-> s.ok /\ m.id \in s.pending, pending |-> s.pending \ {m.id}, seen |-> s.seen]
        ELSE [ok |-> s.ok /\ s.pending = {} /\ CallsOf(m) \intersect s.seen = {},
              pending |-> CallsOf(m), seen |-> s.seen \union CallsOf(m)]
      end == FoldLeft(LAMBDA s, m : Read(m, s), [ok |-> TRUE, pending |-> {}, seen |-> {}], messages)
  IN  messages # <<>> /\ end.ok /\ end.pending = {}

\* What else of a request the adapters depend on: a response schema, offered tools.
Requests == [schema : BOOLEAN, tools : BOOLEAN]

\* The refusals before anything is sent, in the order of LocalHTTPProvider.complete:
\* malformed, beyond a limit, no decodable schema, no token bound, too large a body.
LocalRefusals == {"model_request_invalid", "model_output_limit", "model_context_overflow",
  "model_schema_decoding_request_invalid", "model_token_accounting_unavailable", "model_request_limit"}
\* DeepSeekProvider without a transport: refused unless remote use is allowed and set up.
RemoteRefusals == {"model_request_invalid", "model_request_limit", "remote_disabled", "remote_config_missing"}

----------------------------------------------------------------------------
\* Outcomes

\* The failure kind ProviderError infers from a code.
KindOf(code) ==
  CASE code \in {"model_timeout", "model_transport", "model_busy", "model_http_error",
                 "model_redirect_blocked"} -> "transport"
    [] code = "model_output_incomplete" -> "incomplete"
    [] code = "model_output_invalid" -> "invalid_json"
    [] code \in {"remote_disabled", "remote_config_missing"} -> "none"
    [] OTHER -> "invalid_contract"

\* What a call hands back: "ok" or a code, whether the response is kept with it,
\* whether it can be billed, and what is known of the model that answered.
Result(code, kind, response, billing, identity) ==
  [code |-> code, kind |-> kind, response |-> response, billing |-> billing, identity |-> identity]
Refusal(code) == Result(code, KindOf(code), FALSE, FALSE, Missing)
Kept(code, kind) == Result(code, kind, TRUE, FALSE, Missing)
Success == Kept("ok", "none")

\* LoopbackTransport.post: an HTTP status and the error code in its body, if readable.
StatusFailure(status, detail) ==
  CASE status = "redirect" -> "model_redirect_blocked"
    [] status # "redirect" /\ (status = "too_large" \/ detail = "overflow") -> "model_context_overflow"
    [] status = "busy" /\ detail # "overflow" -> "model_busy"
    [] OTHER -> "model_http_error"
LocalFailures ==
  {StatusFailure(status, detail) : status \in {"redirect", "too_large", "busy", "other"}, detail \in {"overflow", "other"}}
    \union {"model_timeout", "model_transport", "model_response_limit", "model_response_invalid"}
\* _ApprovedTransport.post: every HTTP status is a transport failure.
RemoteFailures == {"model_timeout", "model_transport", "model_redirect_blocked",
  "model_response_limit", "model_response_invalid"}

----------------------------------------------------------------------------
\* Answers

\* Token counters as a server may report them; an absent counter is NoCount.
Usage(prompt, output, total) == [prompt |-> prompt, output |-> output, total |-> total]
Usages == {Usage(NoCount, NoCount, NoCount), Usage(1, 1, 2), Usage(1, 1, 3),
           Usage(0, 1, 1), Usage(1, MaxOutput + 1, NoCount)}
UsageKnown(u) == NoCount \notin {u.prompt, u.output}
\* _conversation_usage: counters that are there must add up.
UsageConsistent(u) == NoCount \in {u.prompt, u.output, u.total} \/ u.total = u.prompt + u.output

\* envelope: one choice, two, none, or an error object; text: the message's content.
Replies == [envelope : {"one", "two", "none", "error"}, text : {"absent", "blank", "prose", "list", "object"},
            tools : BOOLEAN, finish : {"stop", "end_turn", "tool_calls", "length", Missing},
            model : {"own", "other", Missing}, usage : Usages]

\* LocalHTTPProvider._response: the envelope first, then completion and syntax, whose
\* failures keep the response they were found in.
LocalJudge(r, req) ==
  IF \/ r.envelope # "one"
     \/ r.tools /\ ~req.tools
     \/ r.text = "absent" /\ ~r.tools
     \/ r.model = "other"
     \/ UsageKnown(r.usage) /\ (~UsageConsistent(r.usage) \/ r.usage.output > MaxOutput)
  THEN Refusal("model_response_invalid")
  ELSE IF req.schema /\ r.finish # "stop" THEN Kept("model_output_incomplete", "incomplete")
  ELSE IF r.text \in {"absent", "blank"} /\ ~r.tools THEN Kept("model_response_invalid", "invalid_json")
  ELSE IF req.schema /\ r.text # "object"
  THEN Kept("model_output_invalid", IF r.text = "list" THEN "invalid_contract" ELSE "invalid_json")
  ELSE Success

\* DeepSeekProvider.complete: the first choice is taken; finish reason, content and
\* contradicting counters are left to the caller.
CompleteJudge(r) ==
  IF r.envelope \in {"none", "error"} THEN Refusal("model_response_invalid") ELSE Success

\* Billing and identity survive an unusable answer, each judged on its own.
Billed(r) ==
  /\ r.envelope = "one" /\ r.model = "own"
  /\ UsageKnown(r.usage) /\ UsageConsistent(r.usage)
  /\ r.usage.prompt >= 1 /\ r.usage.output \in 1..MaxOutput
IdentityOf(r) ==
  CASE r.envelope # "one" -> Missing
    [] r.envelope = "one" /\ r.model = "own" -> "validated"
    [] r.envelope = "one" /\ r.model = "other" -> "mismatch"
    [] OTHER -> Missing

\* DeepSeekProvider.converse: envelope, message, finish reason, usage, consistency.
ConverseJudge(r, req) ==
  LET Evidence(code, response) == Result(code, KindOf(code), response, Billed(r), IdentityOf(r))
  IN  IF r.envelope = "error" THEN Refusal("model_http_error")
      ELSE IF \/ r.envelope # "one"
              \/ r.finish \in {Missing, "end_turn"}
              \/ r.tools /\ ~req.tools
              \/ ~UsageConsistent(r.usage)
              \/ r.model = Missing
      THEN Evidence("model_response_invalid", FALSE)
      ELSE IF r.finish = "length" THEN Evidence("model_output_incomplete", TRUE)
      ELSE IF (r.tools # (r.finish = "tool_calls")) \/ (r.text \in {"absent", "blank"} /\ ~r.tools)
      THEN Evidence("model_response_invalid", TRUE)
      ELSE Success

----------------------------------------------------------------------------
Adapters == {"local", "complete", "converse"}
RefusalsOf(adapter) == IF adapter = "local" THEN LocalRefusals ELSE RemoteRefusals
FailuresOf(adapter) == IF adapter = "local" THEN LocalFailures ELSE RemoteFailures
Judgement(adapter, r, req) ==
  CASE adapter = "local" -> LocalJudge(r, req)
    [] adapter = "complete" -> CompleteJudge(r)
    [] adapter = "converse" -> ConverseJudge(r, req)

Finish(t, result) == calls' = [calls EXCEPT ![t] = [at |-> "done", result |-> result]]

ProviderInit ==
  /\ inflight = Nobody
  /\ calls = [t \in Threads |-> [at |-> "idle"]]

\* complete, converse up to the post: everything refused before the lock and the wire.
AskModel(t) ==
  /\ calls[t].at = "idle"
  /\ \E adapter \in Adapters, req \in Requests :
       \/ \E code \in RefusalsOf(adapter) : Finish(t, Refusal(code))
       \/ calls' = [calls EXCEPT ![t] = [at |-> "encoded", adapter |-> adapter, req |-> req]]
  /\ UNCHANGED inflight

\* The local provider refuses a second request in flight; the remote one has no lock.
AcquireModel(t) ==
  /\ calls[t].at = "encoded"
  /\ IF calls[t].adapter = "local" /\ inflight # Nobody
     THEN Finish(t, Refusal("model_busy")) /\ UNCHANGED inflight
     ELSE /\ calls' = [calls EXCEPT ![t].at = "posting"]
          /\ inflight' = IF calls[t].adapter = "local" THEN t ELSE inflight

\* The finally clause, passed on every way out of the post.
ReleaseModel(t) == inflight' = IF inflight = t THEN Nobody ELSE inflight

\* Mutant: a post that fails leaves the lock.
PostFails_Locked(t) ==
  /\ calls[t].at = "posting"
  /\ \E code \in FailuresOf(calls[t].adapter) : Finish(t, Refusal(code))
  /\ UNCHANGED inflight

PostFails(t) ==
  /\ calls[t].at = "posting"
  /\ \E code \in FailuresOf(calls[t].adapter) : Finish(t, Refusal(code))
  /\ ReleaseModel(t)

PostAnswers(t) ==
  /\ calls[t].at = "posting"
  /\ \E judged \in {Judgement(calls[t].adapter, r, calls[t].req) : r \in Replies} : Finish(t, judged)
  /\ ReleaseModel(t)

\* The caller goes on with the result.
TakeResult(t) ==
  /\ calls[t].at = "done"
  /\ calls' = [calls EXCEPT ![t] = [at |-> "idle"]]
  /\ UNCHANGED inflight

ProviderNext ==
  \E t \in Threads : AskModel(t) \/ AcquireModel(t) \/ PostFails(t) \/ PostAnswers(t) \/ TakeResult(t)

\* A thread is inside a local post exactly when it holds the lock: two requests never
\* reach the one-slot service together, and no way out of the post, timeout and
\* rejected body included, leaves the service busy for ever.
OneInFlight ==
  \A t \in Threads : (inflight = t) <=> (calls[t].at = "posting" /\ calls[t].adapter = "local")
=============================================================================
