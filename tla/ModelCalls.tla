------------------------------ MODULE ModelCalls ------------------------------
(***************************************************************************)
(* One typed request to a language model: the SDK's answer sorted into     *)
(* codes (core/llm_openai.py), the transport retries around it             *)
(* (core/llm.py) and the one repair of an output that does not validate    *)
(* (features/policy/model_output.py, complete_typed).  The provider        *)
(* answers anything; the job may be cancelled at any await.                *)
(***************************************************************************)
EXTENDS Naturals, Sequences

CONSTANT Backoff         \* _BACKOFF_SECONDS, in the order of the retries

VARIABLES
  pc,        \* "call", "answered", "sleep", "parse", or how it ended
  repair,    \* request.repair_attempt
  retries,
  answer,    \* the SDK's answer to the last call
  waited,    \* history: the pauses of the request under way
  calls      \* history: calls of the request under way, and of the one before
vars == <<pc, repair, retries, answer, waited, calls>>

Codes     == {"timeout", "rate_limit", "authentication", "invalid_request",
              "invalid_response", "unavailable", "refusal"}
Retryable == {"timeout", "rate_limit"}
Ended     == {"valid", "transport_error", "invalid_output", "cancelled", "raised"}

(* What the SDK does: it raises, or gives a completion of this shape.       *)
Raises ==
  {"APITimeoutError", "RateLimitError", "AuthenticationError", "PermissionDeniedError",
   "BadRequestError", "NotFoundError", "UnprocessableEntityError", "APIResponseValidationError",
   "APIConnectionError", "other"}
Completions ==        \* usage is absent or well-formed
  [choices : BOOLEAN, refused : BOOLEAN, finish : {"stop", "length", "content_filter"},
   tools : BOOLEAN, content : {"json", "other", "none"}, usage : BOOLEAN]
Nothing == [raised |-> "nothing"]
Answers == {[raised |-> r] : r \in Raises} \cup [completion : Completions]

(* `complete_json` of the OpenAI client, what is raised. *)
CodeRaised(r) ==
  CASE r = "APITimeoutError" -> "timeout"
    [] r = "RateLimitError" -> "rate_limit"
    [] r \in {"AuthenticationError", "PermissionDeniedError"} -> "authentication"
    [] r \in {"BadRequestError", "NotFoundError", "UnprocessableEntityError"} -> "invalid_request"
    [] r = "APIResponseValidationError" -> "invalid_response"
    [] OTHER -> "unavailable"

(* `_response`: a refusal before everything else about the message.         *)
CodeOf(c) ==
  IF ~c.choices THEN "invalid_response"
  ELSE IF c.refused \/ c.finish = "content_filter" THEN "refusal"
  ELSE IF c.finish # "stop" \/ c.tools \/ c.content = "none" \/ ~c.usage THEN "invalid_response"
  ELSE "ok"

Code(a) == IF "raised" \in DOMAIN a THEN CodeRaised(a.raised) ELSE CodeOf(a.completion)

Init ==
  /\ pc = "call" /\ repair = 0 /\ retries = 0 /\ answer = Nothing
  /\ waited = <<>> /\ calls = <<0, 0>>

-----------------------------------------------------------------------------
Call ==
  /\ pc = "call" /\ answer' \in Answers /\ pc' = "answered"
  /\ calls' = [calls EXCEPT ![1] = @ + 1]
  /\ UNCHANGED <<repair, retries, waited>>

(* Faulty variant: one more retry. *)
AnsweredOnceMore ==
  /\ pc = "answered"
  /\ pc' = IF Code(answer) = "ok" THEN "parse"
           ELSE IF Code(answer) \notin Retryable \/ retries = 3 THEN "transport_error"
           ELSE "sleep"
  /\ UNCHANGED <<repair, retries, answer, waited, calls>>

(* `RetryingLLMClient.complete_json`, after a call. *)
Answered ==
  /\ pc = "answered"
  /\ pc' = IF Code(answer) = "ok" THEN "parse"
           ELSE IF Code(answer) \notin Retryable \/ retries = 2 THEN "transport_error"
           ELSE "sleep"
  /\ UNCHANGED <<repair, retries, answer, waited, calls>>

Sleep ==
  /\ pc = "sleep"
  /\ IF retries + 1 \in DOMAIN Backoff
     THEN /\ waited' = Append(waited, Backoff[retries + 1])
          /\ retries' = retries + 1 /\ pc' = "call"
     ELSE pc' = "raised" /\ UNCHANGED <<waited, retries>>      \* IndexError
  /\ UNCHANGED <<repair, answer, calls>>

(* `complete_typed`: the output is parsed; an invalid one is repaired once, *)
(* by a request with a retry budget of its own.                             *)
Parse ==
  /\ pc = "parse"
  /\ IF answer.completion.content = "json"
     THEN pc' = "valid" /\ UNCHANGED <<repair, retries, waited, calls>>
     ELSE IF repair = 1 THEN pc' = "invalid_output" /\ UNCHANGED <<repair, retries, waited, calls>>
     ELSE /\ pc' = "call" /\ repair' = 1 /\ retries' = 0 /\ waited' = <<>>
          /\ calls' = <<0, calls[1]>>
  /\ UNCHANGED answer

Cancel ==
  /\ pc \in {"call", "sleep"} /\ pc' = "cancelled"
  /\ UNCHANGED <<repair, retries, answer, waited, calls>>

Client == Call \/ Answered \/ Sleep \/ Parse
Next   == Client \/ Cancel

Spec == Init /\ [][Next]_vars /\ WF_vars(Client)

-----------------------------------------------------------------------------
TypeOK ==
  /\ pc \in {"call", "answered", "sleep", "parse"} \cup Ended
  /\ repair \in 0..1 /\ answer \in Answers \cup {Nothing}

(* "the initial call plus at most two retries" for each of at most two      *)
(* requests; the retries that are reported are the calls that were made;    *)
(* who gives up had no reason to go on and is told why, by no error of the  *)
(* table of pauses; and what is returned was answered in full.              *)
CallsAreBounded ==
  /\ pc # "raised" /\ calls[1] <= 3 /\ calls[2] <= 3 /\ (calls[2] > 0 <=> repair = 1)
  /\ pc \in {"answered", "parse", "valid", "transport_error", "invalid_output"} =>
       retries = calls[1] - 1 /\ Len(waited) = retries
  /\ \A i \in DOMAIN waited : waited[i] = Backoff[i]
  /\ pc = "transport_error" =>
       Code(answer) \in Codes /\ (Code(answer) \in Retryable => calls[1] = 3)
  /\ pc = "invalid_output" => repair = 1
  /\ pc = "valid" =>
       /\ answer.completion.finish = "stop" /\ ~answer.completion.refused
       /\ answer.completion.content = "json"

(* A request ends, whatever the provider answers. *)
RequestEnds == <>(pc \in Ended)
=============================================================================
