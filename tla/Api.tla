-------------------------------- MODULE Api --------------------------------
(***************************************************************************)
(* What an API procedure throws when an Effect fails, and what its caller  *)
(* is told (packages/api/src/server/effect-handler.ts and index.ts).       *)
(* Every error class of the packages carries an HTTP status and a code as  *)
(* static members; the contract (packages/api/src/contracts/index.ts) has  *)
(* a factory for seven codes only, and a class whose code is not one of    *)
(* them is mapped by its status.  Messages and log levels are left out; of *)
(* getData() only whether it names the class as errorTag is kept.          *)
(***************************************************************************)
EXTENDS Naturals, FiniteSets, Sequences, TLC

Http(status, code)   == [status |-> status, code |-> code, tagged |-> FALSE]
Tagged(status, code) == [status |-> status, code |-> code, tagged |-> TRUE]

\* The error classes, package by package.
BaseErrors ==
  [NotFoundError            |-> Http(404, "NOT_FOUND"),
   ForbiddenError           |-> Http(403, "FORBIDDEN"),
   UnauthorizedError        |-> Http(401, "UNAUTHORIZED"),
   ValidationError          |-> Http(422, "VALIDATION_ERROR"),
   DbError                  |-> Http(500, "INTERNAL_ERROR"),
   ConstraintViolationError |-> Http(409, "CONFLICT"),
   DeadlockError            |-> Http(503, "SERVICE_UNAVAILABLE"),
   ConnectionError          |-> Http(503, "SERVICE_UNAVAILABLE"),
   ExternalServiceError     |-> Http(502, "BAD_GATEWAY")]

AuthErrors ==
  [PolicyError      |-> Http(500, "INTERNAL_ERROR"),
   AuthSessionError |-> Http(502, "SERVICE_UNAVAILABLE")]

QueueErrors ==
  [QueueError         |-> Http(500, "INTERNAL_ERROR"),
   JobNotFoundError   |-> Http(404, "JOB_NOT_FOUND"),
   JobProcessingError |-> Http(500, "INTERNAL_ERROR")]

StorageErrors ==
  [StorageError         |-> Http(500, "INTERNAL_ERROR"),
   StorageNotFoundError |-> Http(404, "NOT_FOUND"),
   StorageUploadError   |-> Http(500, "INTERNAL_ERROR")]

SpeechErrors ==
  [LLMError              |-> Http(502, "SERVICE_UNAVAILABLE"),
   LLMRateLimitError     |-> Http(429, "RATE_LIMITED"),
   TTSError              |-> Http(502, "SERVICE_UNAVAILABLE"),
   TTSQuotaExceededError |-> Http(429, "RATE_LIMITED"),
   VoiceNotFoundError    |-> Http(404, "VOICE_NOT_FOUND"),
   AudioError            |-> Http(500, "INTERNAL_ERROR"),
   AudioProcessingError  |-> Http(500, "INTERNAL_ERROR")]

ModelErrors ==
  [ImageGenError                |-> Http(502, "SERVICE_UNAVAILABLE"),
   ImageGenRateLimitError       |-> Http(429, "RATE_LIMITED"),
   ImageGenContentFilteredError |-> Http(422, "CONTENT_FILTERED"),
   ResearchError                |-> Http(422, "RESEARCH_ERROR"),
   ResearchTimeoutError         |-> Http(504, "RESEARCH_TIMEOUT"),
   WeatherToolSchemaDriftError  |-> Http(502, "SERVICE_UNAVAILABLE"),
   WeatherToolTimeoutError      |-> Http(504, "SERVICE_UNAVAILABLE"),
   WeatherToolRateLimitError    |-> Http(429, "RATE_LIMITED"),
   WeatherToolProviderError     |-> Http(502, "SERVICE_UNAVAILABLE")]

ToolErrors ==
  [ToolValidationError  |-> Tagged(422, "INPUT_VALIDATION_FAILED"),
   ToolProviderError    |-> Tagged(502, "SERVICE_UNAVAILABLE"),
   ToolTimeoutError     |-> Tagged(502, "SERVICE_UNAVAILABLE"),
   ToolRateLimitError   |-> Tagged(429, "RATE_LIMITED"),
   ToolSchemaDriftError |-> Tagged(502, "SERVICE_UNAVAILABLE")]

PromptErrors ==
  [PromptKeyNotFoundError            |-> Http(404, "NOT_FOUND"),
   PromptVersionNotFoundError        |-> Http(404, "NOT_FOUND"),
   PromptVersionBlockedError         |-> Http(422, "UNPROCESSABLE_CONTENT"),
   PromptVariableSchemaMismatchError |-> Http(422, "UNPROCESSABLE_CONTENT")]

\* No class is in two packages.
Joined(f, g) ==
  [tag \in DOMAIN f \union DOMAIN g |-> IF tag \in DOMAIN f THEN f[tag] ELSE g[tag]]

ErrorClasses ==
  Joined(BaseErrors, Joined(ToolErrors, Joined(AuthErrors, Joined(QueueErrors,
    Joined(StorageErrors, Joined(SpeechErrors, Joined(ModelErrors, PromptErrors)))))))

-----------------------------------------------------------------------------
(* The contract and the mapping                                            *)

\* The errors of appContract, with the status each is sent with.
ContractErrors ==
  [INPUT_VALIDATION_FAILED |-> 422,
   UNAUTHORIZED            |-> 401,
   FORBIDDEN               |-> 403,
   NOT_FOUND               |-> 404,
   INTERNAL_ERROR          |-> 500,
   SERVICE_UNAVAILABLE     |-> 502,
   RATE_LIMITED            |-> 429]

STATUS_TO_ERROR_CODES ==
  (400 :> <<"BAD_REQUEST">>) @@
  (401 :> <<"UNAUTHORIZED">>) @@
  (403 :> <<"FORBIDDEN">>) @@
  (404 :> <<"NOT_FOUND">>) @@
  (409 :> <<"CONFLICT">>) @@
  (413 :> <<"PAYLOAD_TOO_LARGE">>) @@
  (415 :> <<"UNSUPPORTED_MEDIA_TYPE">>) @@
  (422 :> <<"UNPROCESSABLE_CONTENT", "INPUT_VALIDATION_FAILED">>) @@
  (429 :> <<"RATE_LIMITED", "TOO_MANY_REQUESTS">>) @@
  (502 :> <<"SERVICE_UNAVAILABLE", "BAD_GATEWAY">>) @@
  (503 :> <<"SERVICE_UNAVAILABLE">>) @@
  (504 :> <<"SERVICE_UNAVAILABLE", "GATEWAY_TIMEOUT">>)

InContract(code) == code \in DOMAIN ContractErrors

\* The first code of the status that the contract has, or INTERNAL_ERROR.
CodeByStatus(status) ==
  LET codes == IF status \in DOMAIN STATUS_TO_ERROR_CODES
                 THEN SelectSeq(STATUS_TO_ERROR_CODES[status], InContract)
                 ELSE <<>>
  IN IF codes = <<>> THEN "INTERNAL_ERROR" ELSE Head(codes)

\* What the caller reads: the code, the status it is sent with, errorTag.
Reply(code, status, tag) == [code |-> code, status |-> status, errorTag |-> tag]

HandleTaggedError(tag) ==
  LET class == ErrorClasses[tag]
      code  == IF InContract(class.code) THEN class.code ELSE CodeByStatus(class.status)
  IN Reply(code, ContractErrors[code], IF class.tagged THEN tag ELSE "none")

\* runPromise and runSync do not reject with what is thrown inside the Effect,
\* but with an error of Effect's own that has it as a defect.
FiberFailure(thrown) == [defect |-> thrown]
IsORPCError(error)   == "code" \in DOMAIN error

\* A failed Effect throws by its class; a defect or an interruption, whose
\* cause has no failure, throws an internal error.
CauseKinds == {"defect", "interrupt"}
HandleCause(cause) ==
  FiberFailure(IF cause \in CauseKinds THEN Reply("INTERNAL_ERROR", 500, "none")
                                       ELSE HandleTaggedError(cause))

\* What the interceptor makes of an error; oRPC's own errors say that a call or
\* an answer is invalid, that is, does not fit the contract.
ThrowTransformed(error, invalid) ==
  CASE invalid /\ error.code = "BAD_REQUEST" ->
         Reply("INPUT_VALIDATION_FAILED", 422, "none")
    [] invalid /\ error.code = "INTERNAL_SERVER_ERROR" ->
         Reply("INTERNAL_SERVER_ERROR", 500, "none")
    [] OTHER -> error

\* It is run with runSync, too.
HandleORPCError(error, invalid) == FiberFailure(ThrowTransformed(error, invalid))

\* oRPC sends an error that is not one of its own as an internal one.
ToORPCError(error) ==
  IF IsORPCError(error) THEN error ELSE Reply("INTERNAL_SERVER_ERROR", 500, "none")

\* What the caller reads of an error thrown by a procedure or around it.
ToldOfError(error, invalid) == ToORPCError(HandleORPCError(error, invalid))

\* Answers given outside of oRPC: the limiter's 429, and Hono's error handler
\* for a context that could not be made.  The oRPC client names the code by
\* the status.
TooManyRequests     == Reply("TOO_MANY_REQUESTS", 429, "none")
GlobalErrorHandler  == Reply("INTERNAL_SERVER_ERROR", 500, "none")

-----------------------------------------------------------------------------
(* No class is thrown as another kind of failure than its own: a refusal   *)
(* (4xx) as a fault (5xx), a fault as a refusal, a rate limit as anything  *)
(* else.  The one exception is the conflict, for which the contract has no *)
(* code.  This is about the mapping alone: what the interceptor then sends *)
(* is the same for all of them (ToldOfError).                              *)

Kind(status) == CASE status = 429 -> "later"
                  [] status \in 400..499 /\ status # 429 -> "refused"
                  [] OTHER -> "fault"

Unmapped == {"ConstraintViolationError"}

ASSUME MappingKeepsKind ==
  \A tag \in DOMAIN ErrorClasses :
    LET thrown == HandleTaggedError(tag) IN
    /\ InContract(thrown.code)
    /\ (tag \notin Unmapped) = (Kind(thrown.status) = Kind(ErrorClasses[tag].status))
    /\ tag \notin Unmapped => thrown.code # "INTERNAL_ERROR" \/ ErrorClasses[tag].status = 500
=============================================================================
