----------------------------- MODULE Providers -----------------------------
(***************************************************************************)
(* What becomes of a failure of an outside service: the class each adapter *)
(* makes of it (packages/ai/src/*/providers/google.ts and map-error.ts,    *)
(* packages/db/src/effect.ts), the retries of a generation, and what the   *)
(* class is thrown as.  An exception is whether it is an Error and which   *)
(* of the words the adapters look for its message has.                     *)
(***************************************************************************)
EXTENDS Api

\* "safety" stands for the four words of a filtered prompt, in any case.
Words == {"rate limit", "Rate Limit", "429", "quota", "safety"}
Exceptions == [isError : BOOLEAN, words : SUBSET Words]
Exception(words) == [isError |-> TRUE, words |-> words]
Says(e, words) == e.isError /\ e.words \cap words # {}

LlmMapError(e) ==
  IF Says(e, {"rate limit", "429"}) THEN "LLMRateLimitError" ELSE "LLMError"

TtsMapError(e) ==
  IF Says(e, {"quota", "429"}) THEN "TTSQuotaExceededError" ELSE "TTSError"

ImageMapError(e) ==
  CASE Says(e, {"rate limit", "Rate Limit", "429"}) -> "ImageGenRateLimitError"
    [] ~Says(e, {"rate limit", "Rate Limit", "429"}) /\ Says(e, {"safety"}) ->
         "ImageGenContentFilteredError"
    [] OTHER -> "ImageGenError"

-----------------------------------------------------------------------------
(* The calls                                                               *)

\* generate tries up to three times, and again only after an LLMError; tries
\* is what each attempt would end in.
Attempts == 3
Generate(tries) ==
  LET last == CHOOSE i \in 1..Attempts :
        /\ \A j \in 1..(i - 1) : tries[j] = "LLMError"
        /\ i = Attempts \/ tries[i] # "LLMError"
  IN [attempts |-> last, outcome |-> tries[last]]

\* callGeminiTTS and extractAudio: the status is in the message, with the body
\* that came with it, and a response without audio is quoted.
Responses == [status : {200, 429, 500}, body : SUBSET Words, audio : BOOLEAN]
Synthesize(r) ==
  CASE r.status # 200 ->
         TtsMapError(Exception(r.body \cup {w \in {"429"} : r.status = 429}))
    [] r.status = 200 /\ ~r.audio -> TtsMapError(Exception(r.body))
    [] OTHER -> "ok"

\* generateImage: the SDK throws, or one of three things is missing.
GenerateImage(thrown, e, missing) ==
  CASE thrown -> ImageMapError(e)
    [] ~thrown /\ missing # "none" -> ImageMapError(Exception({}))
    [] OTHER -> "ok"

\* getResult of a research that was started.
GetResult(status) ==
  CASE status \in {"failed", "cancelled"} -> "ResearchError"
    [] status \in {"in_progress", "requires_action"} -> "null"
    [] OTHER -> "ok"
StartResearch(thrown) == IF thrown THEN "ResearchError" ELSE "ok"

\* withDb, by the class of the Postgres code.
MapDatabaseError(isError, code) ==
  CASE isError /\ code = "23" -> "ConstraintViolationError"
    [] isError /\ code = "40P01" -> "DeadlockError"
    [] isError /\ code = "08" -> "ConnectionError"
    [] OTHER -> "DbError"

-----------------------------------------------------------------------------
Later(class) == HandleTaggedError(class).code = "RATE_LIMITED"
Tries == [1..Attempts -> {"ok", "LLMError", "LLMRateLimitError"}]

(* A 429 of any provider is thrown as a rate limit, whatever else the      *)
(* message says; nothing of the kind is thrown for a failure that does not *)
(* mention one; a generation is not tried again after a rate limit or a    *)
(* success, and gives up only after three errors; what a caller may try    *)
(* again at once, a deadlock or a lost connection, is thrown as            *)
(* unavailable; a research is thrown alike whether it could not be started *)
(* or failed.  What the browser is sent of these is Api!ToldOfError.       *)
ASSUME ProvidersTold ==
  /\ \A words \in SUBSET Words : "429" \in words =>
       /\ Later(LlmMapError(Exception(words)))
       /\ Later(TtsMapError(Exception(words)))
       /\ Later(GenerateImage(TRUE, Exception(words), "none"))
  /\ \A e \in Exceptions : e.words \subseteq {"safety"} \/ ~e.isError =>
       ~Later(LlmMapError(e)) /\ ~Later(TtsMapError(e)) /\ ~Later(ImageMapError(e))
  /\ \A r \in Responses : r.status = 429 => Later(Synthesize(r))
  /\ \A tries \in Tries :
       LET g == Generate(tries) IN
       /\ \A i \in 1..(g.attempts - 1) : tries[i] = "LLMError"
       /\ g.outcome = "LLMError" => g.attempts = Attempts
  /\ \A code \in {"23", "40P01", "08", "other"}, isError \in BOOLEAN :
       LET told == HandleTaggedError(MapDatabaseError(isError, code)).code IN
       told = (IF isError /\ code \in {"40P01", "08"} THEN "SERVICE_UNAVAILABLE"
                                                      ELSE "INTERNAL_ERROR")
  /\ \A status \in {"completed", "failed", "cancelled", "in_progress", "requires_action"} :
       GetResult(status) \in {"ok", "null"} \/ GetResult(status) = StartResearch(TRUE)
=============================================================================
