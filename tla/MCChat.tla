------------------------------- MODULE MCChat -------------------------------
EXTENDS Chat

CONSTANTS c1, c2, c3, c4, t1, t2, t3, p1, p2, s1, s2, u1, u2, w1, w2, w3, g1, g2

Setup(kinds, tabs, servers, calls, ticks) ==
  [kinds |-> kinds, tabs |-> tabs, servers |-> servers, calls |-> calls, ticks |-> ticks]

\* The limiter of one server and of two, threads, runs, two tabs with and
\* without a change of user, the panel, the chat's tool, and sign-ins.
MCSetups ==
  {Setup({"other", "redis"}, {}, {s1}, {c1, c2, c3}, 5),
   Setup({"other", "redis"}, {}, {s1, s2}, {c1, c2, c3}, 3),
   Setup({"send", "threads"}, {p1}, {s1}, {c1, c2, c3}, 0),
   Setup({"send", "threads", "leave"}, {p1}, {s1}, {c1, c2}, 0),
   Setup({"send", "queue"}, {p1}, {s1}, {c1, c2, c3}, 0),
   Setup({"send", "leave"}, {p1, p2}, {s1}, {c1, c2}, 0),
   Setup({"send", "session"}, {p1, p2}, {s1}, {c1}, 0),
   Setup({"panel", "faults", "leave"}, {p1}, {s1}, {c1, c2, c3}, 0),
   Setup({"panel", "session"}, {p1}, {s1}, {c1, c2}, 0),
   Setup({"send", "tools", "faults"}, {p1}, {s1}, {c1, c2}, 0),
   Setup({"roles"}, {}, {s1}, {}, 0)}

\* An admin of two groups, which Graph lists on two pages.
MCGroupPages == <<{"platform", "everyone"}, {"operations"}>>
MCAdminGroups == {"platform", "operations"}

Symmetry == Permutations(ToolRuns)
=============================================================================
