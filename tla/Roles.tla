------------------------------- MODULE Roles -------------------------------
(***************************************************************************)
(* The role of one user (packages/auth).  Every session that is created    *)
(* for the user, from any browser, brings the role into line with the      *)
(* groups Microsoft Graph lists (server/microsoft-role-sync.ts): a token   *)
(* is read, the groups are fetched page by page, the role is read, and it  *)
(* is written if it differs.  Nothing orders the sign-ins of one user, and *)
(* a sync that fails leaves the role as it is.                             *)
(***************************************************************************)
EXTENDS Naturals, Sequences, FiniteSets

CONSTANTS
  SignIns,      \* the sign-ins of the user, each done once
  GroupPages,   \* the pages of Graph's answer: the groups each would list
  AdminGroups   \* roleGroups.adminGroupIds

ASSUME RolesAssumption ==
  /\ GroupPages \in Seq(SUBSET UNION {GroupPages[i] : i \in DOMAIN GroupPages})
  /\ GroupPages # <<>>
  /\ "none" \notin SignIns

VARIABLES
  userRole, \* user.role
  member,   \* the groups the user is in, as Graph knows it
  signIn,   \* per sign-in: where its sync is
  writer    \* history: the sign-in that wrote the role last, or "none"

roleVars == <<userRole, member, signIn, writer>>

AllGroups == UNION {GroupPages[i] : i \in DOMAIN GroupPages}
RoleNames == {"user", "admin"}

\* before: history, the sign-ins that were over when the last page came.
NoSync == [at |-> "off", page |-> 1, seen |-> {}, before |-> {}]
Ended == {g \in SignIns : signIn[g].at \in {"done", "over"}}

RoleTypeOK ==
  /\ userRole \in RoleNames
  /\ member \in SUBSET AllGroups
  /\ signIn \in [SignIns -> [at : {"off", "groups", "read", "write", "done", "over"},
                             page : Nat, seen : SUBSET AllGroups, before : SUBSET SignIns]]
  /\ writer \in SignIns \cup {"none"}

RoleInit ==
  /\ userRole = "user"
  /\ member = {}
  /\ signIn = [g \in SignIns |-> NoSync]
  /\ writer = "none"

\* Groups that are of no role, and those of the role user, make a user.
ResolveRole(groups) == IF groups \cap AdminGroups # {} THEN "admin" ELSE "user"

-----------------------------------------------------------------------------
(* syncUserRoleFromMicrosoftGraph, from the hook of a new session          *)

MemberChanges ==
  /\ member' \in SUBSET AllGroups
  /\ UNCHANGED <<userRole, signIn, writer>>

Moves(g, step) ==
  /\ signIn' = [signIn EXCEPT ![g] = step]
  /\ UNCHANGED member

\* The account has a token, or has none and the role stays as it is.
SessionCreated(g) ==
  /\ signIn[g].at = "off"
  /\ \E at \in {"groups", "over"} : Moves(g, [NoSync EXCEPT !.at = at])
  /\ UNCHANGED <<userRole, writer>>

FetchGroupPage(g) ==
  /\ signIn[g].at = "groups"
  /\ LET page == signIn[g].page
         seen == signIn[g].seen \cup (member \cap GroupPages[page])
     IN IF page < Len(GroupPages)
          THEN Moves(g, [signIn[g] EXCEPT !.page = page + 1, !.seen = seen])
          ELSE Moves(g, [signIn[g] EXCEPT !.at = "read", !.seen = seen, !.before = Ended])
  /\ UNCHANGED <<userRole, writer>>

\* The role is as it should be: one that would only ever promote, and the code.
InLineOrHigher(g) == ResolveRole(signIn[g].seen) \in {userRole, "user"}
InLine(g) == userRole = ResolveRole(signIn[g].seen)

ReadRole(g) ==
  /\ signIn[g].at = "read"
  /\ Moves(g, [signIn[g] EXCEPT !.at = IF InLine(g) THEN "done" ELSE "write"])
  /\ UNCHANGED <<userRole, writer>>

\* The update, whose reply may be lost.
WriteRole(g) ==
  /\ signIn[g].at = "write"
  /\ userRole' = ResolveRole(signIn[g].seen)
  /\ writer' = g
  /\ \E at \in {"done", "over"} : Moves(g, [signIn[g] EXCEPT !.at = at])

\* Graph or the database fails: the session stands and a warning is logged.
SyncFails(g) ==
  /\ signIn[g].at \in {"groups", "read", "write"}
  /\ Moves(g, [signIn[g] EXCEPT !.at = "over"])
  /\ UNCHANGED <<userRole, writer>>

Sync(g) ==
  SessionCreated(g) \/ FetchGroupPage(g) \/ ReadRole(g) \/ WriteRole(g) \/ SyncFails(g)

RoleNext == MemberChanges \/ \E g \in SignIns : Sync(g)

RoleSpec == RoleInit /\ [][RoleNext]_roleVars

\* After a sync that did not fail, the role is what this sync made of the
\* groups, unless it was written by a sync still on its way when this one had
\* them: a late sync never brings back what an earlier one, already over, had
\* found.
RoleFollows ==
  \A g \in SignIns : signIn[g].at = "done" =>
    \/ userRole = ResolveRole(signIn[g].seen)
    \/ writer # "none" /\ writer \notin signIn[g].before
=============================================================================
