---------------------------- MODULE WeatherTool ----------------------------
(***************************************************************************)
(* The weather tool, which the code has twice.  packages/ai/src/tools is   *)
(* what the model of a chat may call: at most Cap calls of a process at a  *)
(* time, a timeout until the provider's headers are there, one retry.      *)
(* packages/ai/src/chat/tools is what the page's panel calls through the   *)
(* API: no cap, no retry.                                                  *)
(***************************************************************************)
EXTENDS Naturals, FiniteSets

CONSTANTS
  ToolRuns,  \* the calls the models of the chats make, each made once
  Cap        \* WEATHER_MAX_CONCURRENT_REQUESTS

ASSUME CapAssumption == IsFiniteSet(ToolRuns) /\ Cap \in Nat

VARIABLES
  active,   \* activeWeatherRequests
  run       \* per run: where it is, whether it is the retry, for whom it is

toolVars == <<active, run>>

NoRun == [at |-> "off", retry |-> FALSE, for |-> "none"]
Holding == {r \in ToolRuns : run[r].at \in {"fetch", "body"}}
Pending(c) == {r \in ToolRuns : run[r].for = c /\ run[r].at \in {"fetch", "body", "wait"}}

ToolInit ==
  /\ active = 0
  /\ run = [r \in ToolRuns |-> NoRun]

-----------------------------------------------------------------------------
(* invokeProvider of the chat's tool                                       *)

\* The cap is read and the count raised in one turn of the event loop.
Attempt(r, record) ==
  IF active >= Cap
    THEN /\ run' = [run EXCEPT ![r] = [record EXCEPT !.at = "WeatherToolRateLimitError"]]
         /\ UNCHANGED active
    ELSE /\ active' = active + 1
         /\ run' = [run EXCEPT ![r] = [record EXCEPT !.at = "fetch"]]

Release == active' = IF active > 0 THEN active - 1 ELSE 0

\* The attempt ends in an error: a timeout or a fault of the provider is tried
\* once more, after a delay.
Ends(r, tag) ==
  /\ Release
  /\ run' = [run EXCEPT ![r].at =
       IF tag \in {"WeatherToolTimeoutError", "WeatherToolProviderError"} /\ ~run[r].retry
         THEN "wait" ELSE tag]

\* What a channel's models are offered; the role is checked with each call.
ToolRegistry == {[id |-> "weather.current", enabledChannels |-> {"chat.general"}]}
Offered(channel) == {t.id : t \in {x \in ToolRegistry : channel \in x.enabledChannels}}
Authorized(role) == role \in {"user", "admin"}

\* The model of chat c calls the tool, with a valid input or not, for a caller
\* whose role was loaded with the request.
Invoke(r, c, valid, role) ==
  /\ run[r].at = "off"
  /\ IF valid /\ Authorized(role)
       THEN Attempt(r, [NoRun EXCEPT !.for = c])
       ELSE /\ run' = [run EXCEPT ![r].for = c,
                         ![r].at = IF valid THEN "ForbiddenError" ELSE "ValidationError"]
            /\ UNCHANGED active

Headers(r) ==
  /\ run[r].at = "fetch"
  /\ run' = [run EXCEPT ![r].at = "body"]
  /\ UNCHANGED active

\* A 429, another bad status or a lost connection, or the timeout, which only
\* the fetch is under.
FetchEnds(r) ==
  /\ run[r].at = "fetch"
  /\ \E tag \in {"WeatherToolRateLimitError", "WeatherToolProviderError",
                 "WeatherToolTimeoutError"} : Ends(r, tag)

\* The body is there: a payload, one of another shape, or none that parses.
\* Nothing bounds how long it takes.
Body(r) ==
  /\ run[r].at = "body"
  /\ \E tag \in {"ok", "WeatherToolSchemaDriftError", "WeatherToolProviderError"} : Ends(r, tag)

Retry(r) ==
  /\ run[r].at = "wait"
  /\ Attempt(r, [run[r] EXCEPT !.retry = TRUE])

ToolStep ==
  \E r \in ToolRuns : Headers(r) \/ FetchEnds(r) \/ Body(r) \/ Retry(r)

\* The slots are those of the requests on their way, however many runs end,
\* time out and try again: none is lost, and never more than Cap are used.
CapHolds == active = Cardinality(Holding) /\ active <= Cap

-----------------------------------------------------------------------------
(* invokeWeatherTool of the API, from the registry's entry to the provider *)

Registered ==
  [rolePolicy |-> {"user", "admin"}, enabledContexts |-> {"interactive-chat"}]

Refusal(context, role) ==
  IF context \notin Registered.enabledContexts \/ role \notin Registered.rolePolicy
    THEN "ForbiddenError" ELSE "none"

\* How a fetch can end, and the class each end is told as.
ProviderEnds ==
  [ok         |-> "ok",
   aborted    |-> "ToolTimeoutError",
   failed     |-> "ToolProviderError",
   tooMany    |-> "ToolRateLimitError",
   notOk      |-> "ToolProviderError",
   otherHost  |-> "ToolProviderError",
   notJson    |-> "ToolSchemaDriftError",
   otherShape |-> "ToolSchemaDriftError"]

WeatherOutcomes(context, role) ==
  IF Refusal(context, role) = "none"
    THEN {ProviderEnds[e] : e \in DOMAIN ProviderEnds}
    ELSE {Refusal(context, role)}
=============================================================================
