-------------------------------- MODULE Chat --------------------------------
(***************************************************************************)
(* The chat page (apps/web/src/pages/chat.tsx, its weather panel and its   *)
(* storage of threads) in the tabs of one browser, and the API behind it:  *)
(* every call of a page goes through the limiter, gets a session and is    *)
(* handled (packages/api/src/server/orpc.ts, router/chat.ts).              *)
(*                                                                         *)
(* A message is the call it belongs to, its role and how much of its text  *)
(* has come.  useChat is external: it adds the user's message and sends    *)
(* all messages; each part of the answer replaces the last message if it   *)
(* is of the same answer, and else is added.  A step of the page includes  *)
(* the renders and effects that follow it: the page's threads are saved.   *)
(***************************************************************************)
EXTENDS Providers, Prompts, Identity, RateLimit, WeatherTool, Roles, SequencesExt

CONSTANTS
  Tabs,      \* the tabs of the browser
  Users,     \* who may sign in
  ThreadIds, \* names for threads
  MaxText,   \* how many parts of text an answer has
  Setups     \* what is tried, see budget

ASSUME NamesAssumption ==
  Users # {} /\ "none" \notin Users /\ Calls \intersect {"none", "cancelled"} = {}

ASSUME SetupsAssumption ==
  \A setup \in Setups : setup.servers \subseteq Servers /\ setup.calls \subseteq Calls

VARIABLES
  budget,    \* constant: what the users, the clock and the faults do
  cookie,    \* the user of the browser's session, or "none"
  storage,   \* per user: the threads in localStorage
  tab,       \* per tab: the state of ChatPage and of useChat
  panel,     \* per tab: the state of WeatherToolPanel
  req,       \* per call: what was asked, with whose session, and how it was handled
  overtaken  \* history, per tab: another tab has saved the user's threads

pageVars == <<cookie, storage, tab, panel, req, overtaken>>
vars == <<limitVars, toolVars, roleVars, budget, pageVars>>

NoTab == [user |-> "none", threads |-> <<>>, active |-> "none", messages |-> <<>>,
          status |-> "ready", stream |-> "none", said |-> 0, queueing |-> "none"]
NoPanel == [status |-> "idle", tag |-> "none", ref |-> "none", last |-> "none"]
NoReq == [kind |-> "none", as |-> "none", parts |-> {}, cause |-> "none", stream |-> "none"]

Thread(id, messages) == [id |-> id, messages |-> messages]
Message(c, role, len) == [of |-> c, role |-> role, len |-> len]

Mounted(p)   == tab[p].user # "none"
Streaming(p) == tab[p].status \in {"submitted", "streaming"}
Does(what)   == what \in budget.kinds

TypeOK ==
  /\ LimitTypeOK
  /\ RoleTypeOK
  /\ active \in Nat
  /\ cookie \in Users \cup {"none"}
  /\ \A u \in Users : \A i, j \in DOMAIN storage[u] :
       /\ storage[u][i].id \in ThreadIds
       /\ storage[u][i].id = storage[u][j].id => i = j
  /\ \A p \in Tabs :
       /\ tab[p].user \in Users \cup {"none"}
       /\ tab[p].status \in {"ready", "submitted", "streaming", "error"}
       /\ Streaming(p) <=> tab[p].stream # "none"
       /\ tab[p].stream # "none" => /\ req[tab[p].stream].kind = "chat"
                                    /\ req[tab[p].stream].stream \in {"none", "open"}
       /\ Mounted(p) => \E i \in DOMAIN tab[p].threads : tab[p].threads[i].id = tab[p].active
       /\ panel[p].status \in {"idle", "running", "succeeded", "failed", "timed_out", "cancelled"}
       /\ overtaken[p] \in BOOLEAN

Init ==
  /\ LimitInit
  /\ ToolInit
  /\ RoleInit
  /\ budget \in Setups
  /\ cookie = (CHOOSE u \in Users : TRUE)
  /\ storage = [u \in Users |-> <<>>]
  /\ tab = [p \in Tabs |-> NoTab]
  /\ panel = [p \in Tabs |-> NoPanel]
  /\ req = [c \in Calls |-> NoReq]
  /\ overtaken = [p \in Tabs |-> FALSE]

-----------------------------------------------------------------------------
(* The threads of a page                                                   *)

\* fingerprintMessages sees ids, roles and text, which is all a message is here.
IndexOf(threads, id) == CHOOSE i \in DOMAIN threads : threads[i].id = id
Has(threads, id) == \E i \in DOMAIN threads : threads[i].id = id

\* The active thread takes the messages of useChat; a thread that changed has
\* the latest updatedAt and is sorted to the front.
ApplyActiveMessages(page) ==
  LET i == IndexOf(page.threads, page.active) IN
  IF ~Has(page.threads, page.active) \/ page.threads[i].messages = page.messages
    THEN page.threads
    ELSE <<Thread(page.active, page.messages)>> \o RemoveAt(page.threads, i)

\* What a page shows and saves.
View(page) == ApplyActiveMessages(page)

\* The page's next state, and what its effect saves for its user.
Renders(p, page) ==
  /\ tab' = [tab EXCEPT ![p] = page]
  /\ storage' = [storage EXCEPT ![page.user] = View(page)]
  /\ overtaken' = [q \in Tabs |->
       CASE q = p -> overtaken[p] /\ Mounted(p)
         [] q # p /\ tab[q].user = page.user -> overtaken[q] \/ storage[page.user] # View(page)
         [] OTHER -> overtaken[q]]

UnusedThread == CHOOSE t \in ThreadIds :
  /\ \A u \in Users : ~Has(storage[u], t)
  /\ \A p \in Tabs : ~Has(tab[p].threads, t)
ThreadLeft == \E t \in ThreadIds :
  /\ \A u \in Users : ~Has(storage[u], t)
  /\ \A p \in Tabs : ~Has(tab[p].threads, t)

\* loadThreads; ids that are not strings and text that does not parse are the
\* work of others.
Hydrated(u) ==
  IF storage[u] # <<>> THEN storage[u] ELSE <<Thread(UnusedThread, <<>>)>>

-----------------------------------------------------------------------------
(* Sessions: AuthenticatedLayout mounts the page for the user it has       *)

Mount(p) ==
  /\ ~Mounted(p)
  /\ p \in budget.tabs
  /\ cookie # "none"
  /\ storage[cookie] = <<>> => ThreadLeft
  /\ LET threads == Hydrated(cookie) IN
       Renders(p, [NoTab EXCEPT !.user = cookie, !.threads = threads,
                                !.active = threads[1].id, !.messages = threads[1].messages])
  /\ UNCHANGED <<limitVars, toolVars, roleVars, budget, cookie, panel, req>>

\* The page goes: another route, a reload, or a session that is no longer the
\* one it was mounted for.  The panel aborts its call; nothing stops useChat's,
\* of which the page hears no more.
Unmounted(p) ==
  /\ tab' = [tab EXCEPT ![p] = NoTab]
  /\ panel' = [panel EXCEPT ![p] = NoPanel]
  /\ overtaken' = [overtaken EXCEPT ![p] = FALSE]
  /\ UNCHANGED <<limitVars, toolVars, roleVars, budget, storage, req>>

Unmount(p) ==
  /\ Mounted(p)
  /\ Does("leave")
  /\ Unmounted(p)
  /\ UNCHANGED cookie

SignOut(p) ==
  /\ Mounted(p)
  /\ Does("session")
  /\ cookie' = "none"
  /\ Unmounted(p)

\* AuthGate, in a tab without a page.
SignIn(u) ==
  /\ cookie = "none"
  /\ Does("session")
  /\ \E p \in budget.tabs : ~Mounted(p)
  /\ cookie' = u
  /\ UNCHANGED <<limitVars, toolVars, roleVars, budget, storage, tab, panel, req, overtaken>>

-----------------------------------------------------------------------------
(* A call, from the browser to the answer                                  *)

Idle == {c \in budget.calls : call[c].phase = "idle"}
NextCall == CHOOSE c \in Idle : TRUE

Sends(kind, parts) ==
  /\ Idle # {}
  /\ \E s \in budget.servers : Ask(NextCall, s)
  /\ req' = [req EXCEPT ![NextCall] =
       [NoReq EXCEPT !.kind = kind, !.as = cookie, !.parts = parts]]

\* Another call from the same address: other pages, other tabs.
OtherCall ==
  /\ Does("other")
  /\ Sends("other", {})
  /\ UNCHANGED <<toolVars, roleVars, budget, cookie, storage, tab, panel, overtaken>>

\* createORPCContext: the session a call is made with, or none if the user has
\* signed out meanwhile and the cached cookie (up to five minutes) is too old.
Sessions(c) == {req[c].as} \cup {x \in {"none"} : req[c].as # cookie}

\* The contract looks at a part's type and the length of its text, and checks
\* the panel's input; decodeChatContractMessages takes text only, and an answer
\* begins with the part step-start (its text may fail the contract, too).
Fits(parts)    == "invalid" \notin parts
AllText(parts) == parts \subseteq {"text"}

PromptFailure ==
  LET outcome == ResolvePrompt(GeneralChat("none")) IN
  IF outcome \in {"resolved", "compatibility-fallback"} THEN "none" ELSE outcome

\* What a call that has a session comes to.
Outcomes(c) ==
  LET kind == req[c].kind  parts == req[c].parts IN
  CASE ~Fits(parts) -> {"contract"}
    [] Fits(parts) /\ ~AllText(parts) -> {"contract", "parts"}
    [] AllText(parts) /\ kind = "chat" ->
         IF PromptFailure = "none" THEN {"stream"} ELSE {PromptFailure}
    [] AllText(parts) /\ kind = "weather" -> WeatherOutcomes("interactive-chat", userRole)
    [] OTHER -> {"ok", "QueueError", "defect"}

Handle(c) ==
  /\ call[c].phase = "passed"
  /\ req[c].kind # "other"
  /\ req[c].cause = "none"
  /\ \E user \in Sessions(c) :
     \E cause \in (IF user = "none" THEN {"UnauthorizedError"} ELSE Outcomes(c))
                    \cup {x \in {"context"} : Does("faults")} :
       req' = [req EXCEPT ![c].cause = cause,
                          ![c].stream = IF cause = "stream" THEN "open" ELSE "none"]
  /\ UNCHANGED <<limitVars, toolVars, roleVars, budget, cookie, storage, tab, panel, overtaken>>

\* The browser does not get an answer.
NetworkFails(c) ==
  /\ Does("faults")
  /\ call[c].phase # "idle"
  /\ req[c].kind # "other"
  /\ req[c].cause = "none"
  /\ req' = [req EXCEPT ![c].cause = "network"]
  /\ UNCHANGED <<limitVars, toolVars, roleVars, budget, cookie, storage, tab, panel, overtaken>>

Answered(c) == call[c].phase = "refused" \/ req[c].cause \notin {"none", "stream"}

\* What the client's code makes of the answer.
ReplyTo(c) ==
  CASE req[c].cause = "network" -> Reply("none", 0, "none")
    [] req[c].cause # "network" /\ call[c].phase = "refused" -> TooManyRequests
    [] req[c].cause = "context" -> GlobalErrorHandler
    [] req[c].cause = "contract" -> ToldOfError(Reply("BAD_REQUEST", 400, "none"), TRUE)
    [] req[c].cause = "parts" ->
         ToldOfError(Reply("INPUT_VALIDATION_FAILED", 422, "none"), FALSE)
    [] req[c].cause = "UnauthorizedError" -> ToldOfError(Reply("UNAUTHORIZED", 401, "none"), FALSE)
    [] req[c].cause = "ok" -> Reply("OK", 200, "none")
    [] OTHER -> ToldOfError(HandleCause(req[c].cause), FALSE)

-----------------------------------------------------------------------------
(* Sending, streaming and switching threads                                *)

PartsOf(m) == IF m.role = "user" THEN {"text"} ELSE {"step-start", "text"}

OnSend(p) ==
  /\ Mounted(p)
  /\ Does("send")
  /\ ~Streaming(p)
  /\ LET messages == Append(tab[p].messages, Message(NextCall, "user", 1)) IN
       /\ Sends("chat", UNION {PartsOf(messages[i]) : i \in DOMAIN messages})
       /\ Renders(p, [tab[p] EXCEPT !.messages = messages, !.status = "submitted",
                                     !.stream = NextCall, !.said = 0])
  /\ UNCHANGED <<toolVars, roleVars, budget, cookie, panel>>

SendFails(p) ==
  /\ tab[p].stream # "none"
  /\ Answered(tab[p].stream)
  /\ Renders(p, [tab[p] EXCEPT !.status = "error", !.stream = "none"])
  /\ UNCHANGED <<limitVars, toolVars, roleVars, budget, cookie, panel, req>>

\* useChat's write: into whatever messages it has now.
Written(page) ==
  LET m == Message(page.stream, "assistant", page.said + 1)
      n == Len(page.messages)
      same == n > 0 /\ page.messages[n].of = m.of /\ page.messages[n].role = m.role
  IN [page EXCEPT !.messages = IF same THEN [@ EXCEPT ![n] = m] ELSE Append(@, m),
                  !.said = @ + 1, !.status = "streaming"]

TextArrives(p) ==
  /\ tab[p].stream # "none"
  /\ req[tab[p].stream].stream = "open"
  /\ tab[p].said < MaxText
  /\ Renders(p, Written(tab[p]))
  /\ UNCHANGED <<limitVars, toolVars, roleVars, budget, cookie, panel, req>>

\* The answer is complete, or breaks off; the tools it called are awaited.
StreamEnds(c) ==
  /\ req[c].stream = "open"
  /\ req' = [req EXCEPT ![c].stream = "over"]
  /\ \/ /\ Pending(c) = {}
        /\ tab' = [p \in Tabs |-> IF tab[p].stream = c
             THEN [tab[p] EXCEPT !.status = "ready", !.stream = "none"] ELSE tab[p]]
     \/ tab' = [p \in Tabs |-> IF tab[p].stream = c
             THEN [tab[p] EXCEPT !.status = "error", !.stream = "none"] ELSE tab[p]]
  /\ UNCHANGED <<limitVars, toolVars, roleVars, budget, cookie, storage, panel, overtaken>>

\* The model may call the tool several times in one step; it goes on when the
\* stream has broken off.
ModelCallsTool(c, r) ==
  /\ Does("tools")
  /\ req[c].stream = "open"
  /\ "weather.current" \in Offered("chat.general")
  /\ \E valid \in BOOLEAN : Invoke(r, c, valid, userRole)
  /\ UNCHANGED <<limitVars, roleVars, budget, pageVars>>

MessagesOf(threads, t) == IF Has(threads, t) THEN threads[IndexOf(threads, t)].messages ELSE <<>>

\* The messages of the thread that is left are not taken over.
SelectUnapplied(p, t) ==
  Renders(p, [tab[p] EXCEPT !.active = t, !.messages = MessagesOf(View(tab[p]), t)])

\* threadsRef holds what was last rendered.
Select(p, t) ==
  Renders(p, [tab[p] EXCEPT !.threads = ApplyActiveMessages(tab[p]), !.active = t,
                            !.messages = MessagesOf(View(tab[p]), t)])

SelectThread(p, t) ==
  /\ Mounted(p)
  /\ Does("threads")
  /\ Has(View(tab[p]), t)
  /\ Select(p, t)
  /\ UNCHANGED <<limitVars, toolVars, roleVars, budget, cookie, panel, req>>

\* The new thread is made active but is not in the list.
CreateUnlisted(p) ==
  Renders(p, [tab[p] EXCEPT !.threads = ApplyActiveMessages(tab[p]),
                            !.active = UnusedThread, !.messages = <<>>])

Create(p) ==
  Renders(p, [tab[p] EXCEPT
    !.threads = <<Thread(UnusedThread, <<>>)>> \o ApplyActiveMessages(tab[p]),
    !.active = UnusedThread, !.messages = <<>>])

CreateThread(p) ==
  /\ Mounted(p)
  /\ Does("threads")
  /\ ThreadLeft
  /\ Create(p)
  /\ UNCHANGED <<limitVars, toolVars, roleVars, budget, cookie, panel, req>>

\* onQueueRun.
OnQueueRun(p) ==
  /\ Mounted(p)
  /\ Does("queue")
  /\ tab[p].queueing = "none"
  /\ ~Streaming(p)
  /\ Sends("run", {})
  /\ tab' = [tab EXCEPT ![p].queueing = NextCall]
  /\ UNCHANGED <<toolVars, roleVars, budget, cookie, storage, panel, overtaken>>

RunQueued(p) ==
  /\ tab[p].queueing # "none"
  /\ Answered(tab[p].queueing)
  /\ tab' = [tab EXCEPT ![p].queueing = "none"]
  /\ UNCHANGED <<limitVars, toolVars, roleVars, budget, cookie, storage, panel, req, overtaken>>

-----------------------------------------------------------------------------
(* The weather panel                                                       *)

OnlyPanel(p, state) ==
  /\ panel' = [panel EXCEPT ![p] = state]
  /\ UNCHANGED <<toolVars, roleVars, budget, cookie, storage, tab, overtaken>>

\* onInvokeWeatherTool, from its button or from onRetryWeatherTool's, up to
\* the call: "retrying" and "validating" are replaced in the same step.
OnInvoke(p) ==
  /\ Mounted(p)
  /\ Does("panel")
  /\ panel[p].status # "running"
  /\ \E parts \in {{"text"}, {"invalid"}} : Sends("weather", parts)
  /\ OnlyPanel(p, [status |-> "running", tag |-> "none", ref |-> NextCall, last |-> NextCall])

ExtractWeatherErrorTag(reply) ==
  CASE reply.errorTag # "none" -> reply.errorTag
    [] reply.errorTag = "none" /\ reply.code = "UNAUTHORIZED" -> "UnauthorizedError"
    [] reply.errorTag = "none" /\ reply.code = "FORBIDDEN" -> "ForbiddenError"
    [] OTHER -> "none"

\* The catch branch of onInvokeWeatherTool and its finally.
Failed(tag, last) ==
  [status |-> IF tag = "ToolTimeoutError" THEN "timed_out" ELSE "failed",
   tag |-> tag, ref |-> "none", last |-> last]

PanelHears(p) ==
  /\ panel[p].ref # "none"
  /\ Answered(panel[p].ref)
  /\ LET c == panel[p].ref IN
       OnlyPanel(p, IF ReplyTo(c).code = "OK"
                      THEN [status |-> "succeeded", tag |-> "none", ref |-> "none", last |-> c]
                      ELSE Failed(ExtractWeatherErrorTag(ReplyTo(c)), c))
  /\ UNCHANGED <<limitVars, req>>

\* The state that onCancelWeatherTool sets, and a call that goes on.
OnCancelUnaborted(p) ==
  /\ panel[p].ref # "none"
  /\ OnlyPanel(p, [status |-> "cancelled", tag |-> "none", ref |-> panel[p].ref,
                   last |-> "cancelled"])
  /\ UNCHANGED <<limitVars, req>>

\* onCancelWeatherTool sets "cancelled", but the rejection of the call it
\* aborts is caught before anything else happens: an AbortError, or, when the
\* browser is reading the body of an answer, an Error of the oRPC client's.
OnCancel(p) ==
  /\ panel[p].ref # "none"
  /\ \/ OnlyPanel(p, Failed("ToolTimeoutError", "cancelled"))
     \/ /\ Answered(panel[p].ref)
        /\ OnlyPanel(p, Failed("none", "cancelled"))
  /\ UNCHANGED <<limitVars, req>>

-----------------------------------------------------------------------------
Limiter ==
  /\ \/ \E c \in Calls : Eval(c) \/ Replied(c) \/ (Does("redis") /\ RedisFails(c))
     \/ \E s \in Servers : Cleanup(s)
     \/ clock < budget.ticks /\ Tick
  /\ UNCHANGED <<toolVars, roleVars, budget, pageVars>>

Tools == ToolStep /\ UNCHANGED <<limitVars, roleVars, budget, pageVars>>

\* Sessions of the user are created, in this browser and in others.
RoleSyncs ==
  /\ Does("roles")
  /\ RoleNext
  /\ UNCHANGED <<limitVars, toolVars, budget, pageVars>>

Next ==
  \/ Limiter
  \/ Tools
  \/ RoleSyncs
  \/ OtherCall
  \/ \E c \in Calls : Handle(c) \/ NetworkFails(c) \/ StreamEnds(c)
                     \/ \E r \in ToolRuns : ModelCallsTool(c, r)
  \/ \E u \in Users : SignIn(u)
  \/ \E p \in Tabs :
       \/ Mount(p) \/ Unmount(p) \/ SignOut(p)
       \/ OnSend(p) \/ SendFails(p) \/ TextArrives(p)
       \/ \E t \in ThreadIds : SelectThread(p, t)
       \/ CreateThread(p) \/ OnQueueRun(p) \/ RunQueued(p)
       \/ OnInvoke(p) \/ PanelHears(p) \/ OnCancel(p)

Spec == Init /\ [][Next]_vars

-----------------------------------------------------------------------------
(* What the pages and the server promise                                   *)

\* The limits hold: of the windows, of Retry-After, of the tool's slots.
LimitHolds == WindowHolds /\ RetryHolds /\ CapHolds

Grown(old, new) ==
  \A i \in DOMAIN old : \E j \in DOMAIN new :
    /\ new[j].id = old[i].id
    /\ Len(old[i].messages) <= Len(new[j].messages)
    /\ \A k \in DOMAIN old[i].messages :
         /\ new[j].messages[k].of = old[i].messages[k].of
         /\ new[j].messages[k].role = old[i].messages[k].role
         /\ new[j].messages[k].len >= old[i].messages[k].len

\* Whatever thread is selected or made while an answer comes, and however
\* often the page is left and opened: a tab never takes a message, or a part
\* of one, out of the storage, unless another tab has saved since it loaded.
Kept ==
  [][\A p \in Tabs : tab'[p] # tab[p] /\ ~overtaken[p] =>
        \A u \in Users : Grown(storage[u], storage'[u])]_vars

\* The panel is running as long as there is a call to cancel.  A call that was
\* cancelled is over for good: it ends as failed or timed out, whatever the
\* server makes of it later, and nothing else ends as timed out.  A call that
\* was not ends as succeeded exactly when the tool did, and else as failed
\* without a class: whether it was the session, the role, the limiter, the
\* contract or the tool that refused it, what the browser is sent does not say.
PanelTells ==
  \A p \in Tabs :
    LET state == panel[p] IN
    /\ state.status = "running" <=> state.ref # "none"
    /\ state.status = "timed_out" => state.last = "cancelled"
    /\ state.last = "cancelled" => state.status \in {"failed", "timed_out"}
    /\ state.last \in Calls /\ state.ref = "none" =>
         /\ state.status = (IF req[state.last].cause = "ok" THEN "succeeded" ELSE "failed")
         /\ state.tag = "none"
=============================================================================
