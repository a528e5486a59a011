------------------------------ MODULE Prompts ------------------------------
(***************************************************************************)
(* The prompt registry of the chat (packages/ai/src/chat/prompts): which   *)
(* version of a system prompt a request gets, and the inline prompt it     *)
(* falls back to.  Variables are abstracted to the set of the names given. *)
(***************************************************************************)
EXTENDS Naturals, FiniteSets

GENERAL_CHAT_PROMPT_KEY == "chat.general.system"

Artifact(key, version, status, needs) ==
  [key |-> key, version |-> version, status |-> status, needs |-> needs]

PromptArtifacts ==
  {Artifact(GENERAL_CHAT_PROMPT_KEY, "v0", "blocked", {}),
   Artifact(GENERAL_CHAT_PROMPT_KEY, "v1", "active", {}),
   Artifact(GENERAL_CHAT_PROMPT_KEY, "v2", "deprecated", {}),
   Artifact("chat.templated.system", "v1", "active", {"persona"})}

PromptKeys     == {a.key : a \in PromptArtifacts}
PromptVersions == {a.version : a \in PromptArtifacts}

\* PromptChannelDefaults of the one channel there is.
ChannelDefault(key) == IF key = GENERAL_CHAT_PROMPT_KEY THEN "v1" ELSE "none"

\* A request: key, version ("none" for the channel's default), the variables
\* given and whether a legacy prompt may stand in.
Requests ==
  [key : PromptKeys \cup {"other"}, version : PromptVersions \cup {"none", "v9"},
   given : SUBSET {"persona"}, compatible : BOOLEAN]

Wanted(r) == IF r.version = "none" THEN ChannelDefault(r.key) ELSE r.version
Found(r)  == {a \in PromptArtifacts : a.key = r.key /\ a.version = Wanted(r)}

\* "resolved", or the class of the failure.
ResolvePromptStrict(r) ==
  CASE r.key \notin PromptKeys -> "PromptKeyNotFoundError"
    [] r.key \in PromptKeys /\ Found(r) = {} -> "PromptVersionNotFoundError"
    [] \E a \in Found(r) : a.status = "blocked" -> "PromptVersionBlockedError"
    [] \E a \in Found(r) : a.status # "blocked" /\ ~(a.needs \subseteq r.given) ->
         "PromptVariableSchemaMismatchError"
    [] OTHER -> "resolved"

ResolvePrompt(r) ==
  LET strict == ResolvePromptStrict(r) IN
  IF strict # "resolved" /\ r.compatible THEN "compatibility-fallback" ELSE strict

\* What streamGeneralChat asks for: the default mode lets the legacy prompt in.
GeneralChat(version) ==
  [key |-> GENERAL_CHAT_PROMPT_KEY, version |-> version, given |-> {}, compatible |-> TRUE]

(* A general chat is never refused for its prompt, a blocked version is    *)
(* never used, and one version at most answers to a key and a version.     *)
ASSUME PromptsSound ==
  /\ \A r \in Requests :
       /\ Cardinality(Found(r)) <= 1
       /\ ResolvePromptStrict(r) = "resolved" =>
            \E a \in Found(r) : a.status # "blocked" /\ a.needs \subseteq r.given
  /\ \A v \in PromptVersions \cup {"none", "v9"} :
       ResolvePrompt(GeneralChat(v)) \in {"resolved", "compatibility-fallback"}
  /\ ResolvePrompt(GeneralChat("none")) = "resolved"
=============================================================================
