---------------------------- MODULE MemoryStore ----------------------------
(***************************************************************************)
(* The files of the workflow memory in one checkout                        *)
(* (agent-engine/workflow-memory) and what the scripts compute from them.  *)
(*                                                                         *)
(* A `tree` is the content of these files: the event log of each month,    *)
(* its archive, the rows of index.json and the monthly summaries.  An      *)
(* event is a line; texts are left out, and of the tags, flags and dates   *)
(* only what the scripts decide on is kept.  The order of the lines of a   *)
(* file is left out, since every reader sorts.  `torn` and `composed` are  *)
(* histories: a script stopped between two writes; the months whose        *)
(* summary is not the rendering of the log, or was merged over one that    *)
(* was not.                                                                *)
(***************************************************************************)
EXTENDS Integers, FiniteSets

CONSTANTS
  Lines,      \* the events there can be
  Months,     \* YYYY-MM, as numbers
  Workflows   \* memoryKeys of the core workflows in the registry

Statuses   == {"open", "completed", "closed"}
Closed     == {"closed"}                  \* CLOSED_STATUSES of compact-memory
TagClasses == {"memory", "form", "function", "dynamics", "capability",
               "failure", "researcher"}
ScanFlags  == {"walkMode", "scope", "domain", "signal"}

\* `month` is that of the event's date, `file` names the log it is first written
\* to: add-entry derives it from the date, bootstrap-coverage takes both as options.
Line == [id : STRING, workflow : STRING, month : Months, file : Months,
         status : Statuses, old : BOOLEAN, tags : SUBSET TagClasses,
         scan : SUBSET ScanFlags, seed : BOOLEAN]

\* The identifiers that the scripts make begin with the date and the workflow, and
\* a seed's names its file.  One that --id gives may be any and only its file is
\* asked for it: that nobody gives two events of different dates one identifier
\* is assumed.
ASSUME StoreAssumption ==
  /\ Months \subseteq Nat
  /\ Lines \subseteq Line /\ IsFiniteSet(Lines)
  /\ \A l \in Lines : l.seed \/ l.file = l.month
  /\ \A k, l \in Lines : k.id = l.id => /\ k.month = l.month /\ k.file = l.file
                                       /\ k.workflow = l.workflow

Row     == [id : {l.id : l \in Lines}, month : Months,
            workflow : {l.workflow : l \in Lines}]
Summary == [made : BOOLEAN, of : SUBSET Lines]
Tree    == [log : [Months -> SUBSET Lines], archive : [Months -> SUBSET Lines],
            index : SUBSET Row, summary : [Months -> Summary],
            torn : BOOLEAN, composed : SUBSET Months]

NoSummary == [made |-> FALSE, of |-> {}]   \* no file, or bootstrap's template
EmptyTree == [log |-> [m \in Months |-> {}], archive |-> [m \in Months |-> {}],
              index |-> {}, summary |-> [m \in Months |-> NoSummary],
              torn |-> FALSE, composed |-> {}]

Ids(S)     == {x.id : x \in S}
Logged(t)  == UNION {t.log[m] : m \in Months}
Known(t)   == Ids(Logged(t) \union UNION {t.archive[m] : m \in Months})
RowsOf(t, m) == {r \in t.index : r.month = m}

\* Seeds dated outside of the month of their file: compact-memory and sync-git go
\* by the date, and move the event, or its row alone, to another month.
Strays     == Ids({l \in Lines : l.file # l.month})
Strayed(t) == {m \in Months : Ids(t.log[m] \union RowsOf(t, m)) \intersect Strays # {}}

-----------------------------------------------------------------------------
(* summary-refresh.ts                                                      *)

\* Faulty variant: a summary that is there is not written again.
RefreshedMissing(t, ms) ==
  [t EXCEPT !.summary = [m \in Months |->
                           IF m \in ms /\ ~t.summary[m].made
                           THEN [made |-> TRUE, of |-> t.log[m]]
                           ELSE t.summary[m]],
            !.composed = @ \ ms]

\* The rendering is a function of the month's events; its marker counts them.
Refreshed(t, ms) ==
  [t EXCEPT !.summary = [m \in Months |->
                           IF m \in ms THEN [made |-> TRUE, of |-> t.log[m]]
                                       ELSE t.summary[m]],
            !.composed = @ \ ms]

-----------------------------------------------------------------------------
(* add-entry.ts                                                            *)

\* validateTaxonomyTags: a memory event is classed three ways, a capability
\* goes with a failure.
TaxonomyHolds(l) ==
  /\ l.tags \intersect {"memory", "form", "function", "dynamics"} # {}
       => {"form", "function", "dynamics"} \subseteq l.tags
  /\ "capability" \in l.tags <=> "failure" \in l.tags

\* buildScanMetadata: all the scan flags or none, and not none for the periodic
\* scans of the researcher.
ScanHolds(l) ==
  /\ l.scan \in {{}, ScanFlags}
  /\ "researcher" \in l.tags /\ l.workflow = "Periodic Scans" => l.scan # {}

Accepted(l) == l.workflow \in Workflows /\ TaxonomyHolds(l) /\ ScanHolds(l)

\* Only the file of the month is asked for the identifier.
Unused(t, l) == l.id \notin Ids(t.log[l.file])

Appended(t, l) == [t EXCEPT !.log[l.file] = @ \union {l}]

\* The row that add-entry and bootstrap-coverage write is of the file's month, the
\* one that sync-git and compact-memory write of the date's; these leave out the
\* scan metadata, which is not kept here.
FirstRow(l) == [id |-> l.id, month |-> l.file, workflow |-> l.workflow]
IndexRow(l) == [id |-> l.id, month |-> l.month, workflow |-> l.workflow]

Indexed(t, S) ==
  [t EXCEPT !.index = {FirstRow(l) : l \in S}
                        \union {r \in t.index : r.id \notin Ids(S)}]

-----------------------------------------------------------------------------
(* check-coverage.ts and bootstrap-coverage.ts                             *)

Count(t, m, w) == Cardinality({r \in RowsOf(t, m) : r.workflow = w})

\* missingCounts, of which check-coverage reports the domain.
Gap(t, m, w, min) == IF Count(t, m, w) < min THEN min - Count(t, m, w) ELSE 0
Missing(t, m, min) == {w \in Workflows : Gap(t, m, w, min) > 0}

\* The seeds that nextEventId may produce: as many as are missing, under
\* identifiers that are new to the file, all of one date, of that month or not.
Seeds(t, m, min) ==
  {S \in SUBSET {l \in Lines : l.seed /\ l.file = m /\ Unused(t, l)} :
     /\ Cardinality(Ids(S)) = Cardinality(S)
     /\ \A k, l \in S : k.month = l.month
     /\ \A w \in Workflows : Cardinality({l \in S : l.workflow = w}) = Gap(t, m, w, min)}

Seeded(t, m, S) == [t EXCEPT !.log[m] = @ \union S]

\* ensureMonthlySummary writes a template, which has no marker, if there is no
\* file; one that is there goes out of date.
Unrendered(t, ms) == [t EXCEPT !.composed = @ \union ms]

-----------------------------------------------------------------------------
(* compact-memory.ts                                                       *)

Archivable(l) == l.status \in Closed /\ l.old

\* byId: of the events with one identifier the one read last stays.  Files are
\* read in the order of the directory.
Kept(t, archiveClosed) ==
  LET active == {l \in Logged(t) : ~(archiveClosed /\ Archivable(l))}
  IN  {K \in SUBSET active : /\ Ids(K) = Ids(active)
                             /\ \A k, l \in K : k.id = l.id => k = l}

Truncated(t)    == [t EXCEPT !.log = [m \in Months |-> {}]]
Rewritten(t, K) == [t EXCEPT !.log = [m \in Months |-> {l \in K : l.month = m}]]

\* archivedByMonth: by the file that the event was read from, not by its date.
Old(t, archiveClosed) ==
  [m \in Months |-> {l \in t.log[m] : archiveClosed /\ Archivable(l)}]
Archived(t, A) == [t EXCEPT !.archive = [m \in Months |-> @[m] \union A[m]]]

\* Faulty variant: rows are added, and none is removed.
ReindexedAdding(t, K) == [t EXCEPT !.index = @ \union {IndexRow(l) : l \in K}]

Reindexed(t, K) == [t EXCEPT !.index = {IndexRow(l) : l \in K}]

-----------------------------------------------------------------------------
(* sync-git.ts: what a rebase makes of two versions of a file              *)

\* Faulty variants: one version wins as a whole.
MergeEventJsonlLocal(upstream, local)    == local
MergeEventJsonlUpstream(upstream, local) == upstream

\* mergeEventJsonl: by identifier, the local event over the upstream one.
MergeEventJsonl(upstream, local) ==
  local \union {l \in upstream : l.id \notin Ids(local)}

\* rebuildIndexFromEvents: sorted by date, the first row of an id stays.
RebuiltIndex(t) ==
  {IndexRow(l) : l \in {k \in Logged(t) :
                          \A j \in Logged(t) : j.id = k.id => j.month <= k.month}}

\* Git's three-way rule for a file; `resolve` is asked when both sides changed.
Merged3(base, upstream, local, resolve) ==
  CASE local = base \/ local = upstream -> upstream
    [] upstream = base                  -> local
    [] OTHER                            -> resolve

Conflict(base, upstream, local) ==
  local # base /\ upstream # base /\ local # upstream

\* resolveRebaseConflicts for one commit.  `mine` is the set of months whose
\* local summary is the longer one.
Replayed(base, upstream, local, mine) ==
  LET log == [m \in Months |->
                Merged3(base.log[m], upstream.log[m], local.log[m],
                        MergeEventJsonl(upstream.log[m], local.log[m]))]
      archive == [m \in Months |->
                    Merged3(base.archive[m], upstream.archive[m], local.archive[m],
                            MergeEventJsonl(upstream.archive[m], local.archive[m]))]
      summary == [m \in Months |->
                    Merged3(base.summary[m], upstream.summary[m], local.summary[m],
                            IF m \in mine THEN local.summary[m] ELSE upstream.summary[m])]
      rebuild ==
        \/ Conflict(base.index, upstream.index, local.index)
        \/ \E m \in Months :
             \/ Conflict(base.log[m], upstream.log[m], local.log[m])
             \/ Conflict(base.archive[m], upstream.archive[m], local.archive[m])
      merged == [log |-> log, archive |-> archive, summary |-> summary,
                 index |-> Merged3(base.index, upstream.index, local.index, {}),
                 torn |-> upstream.torn \/ local.torn,
                 composed |-> {m \in Months :
                    \/ m \in base.composed \union upstream.composed \union local.composed
                    \/ Conflict(base.summary[m], upstream.summary[m], local.summary[m])}]
  IN  IF rebuild THEN [merged EXCEPT !.index = RebuiltIndex(merged)] ELSE merged

-----------------------------------------------------------------------------
(* script-guardrails.ts: checkWorkflowMemorySummaryFreshness               *)

Fresh(t, m) ==
  \/ RowsOf(t, m) = {}
  \/ t.summary[m].made /\ Cardinality(t.summary[m].of) = Cardinality(RowsOf(t, m))
=============================================================================
