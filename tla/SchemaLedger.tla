----------------------------- MODULE SchemaLedger -----------------------------
(***************************************************************************)
(* The append-only ledger of schema migrations (_db_migrations.py) and     *)
(* what one migration does to a schema. A schema is its tables, the        *)
(* columns added to them later, and its triggers; indexes, column types    *)
(* and the text of triggers are left out. The eight columns v41 drops on a *)
(* best-effort basis belong to v6 and are not among the columns added      *)
(* later.                                                                  *)
(*                                                                         *)
(* A trigger names the table it is on and the table its body writes; the   *)
(* insert, update and delete triggers of one mirror are one element.       *)
(***************************************************************************)
EXTENDS Naturals, Sequences, FiniteSets

(* What a trigger that only raises writes. *)
Abort == "ABORT"

(* A column added after its table, a trigger, a full-text mirror of a table. *)
In(table, names) == {<<table, n>> : n \in names}
Writes(table, targets) == {[on |-> table, into |-> u] : u \in targets}
Mirror(search, table) == {<<search, table>>}

(* A migration: tables created if missing, columns added if their table    *)
(* exists and lacks them, columns added unchecked, full-text mirrors       *)
(* (created by a build with FTS5 only), mirrors rebuilt under a new name,  *)
(* triggers, tables dropped, tables whose rows every run of the body       *)
(* updates or deletes, and tables in which it only mends rows that need it.*)
Nothing == [tables |-> {}, columns |-> {}, unchecked |-> {}, mirrors |-> {},
            rebuilds |-> {}, triggers |-> {}, drops |-> {}, rewrites |-> {}, mends |-> {}]

V1 == [Nothing EXCEPT !.tables = {"task_outcomes", "agent_metrics", "learned_patterns",
         "experiment_log", "observations", "session_summaries"},
       !.columns = In("learned_patterns", {"archived_at"})]
V2 == [Nothing EXCEPT !.mirrors = Mirror("observations_fts", "observations")]
V3 == [Nothing EXCEPT !.tables = {"routing_weights"}]
V4 == [Nothing EXCEPT !.tables = {"outcome_history", "concept_graph"},
       !.columns = In("session_summaries", {"previous_session_id", "duration_minutes",
         "files_touched", "observations_count", "breakthrough_ids"})]
V5 == [Nothing EXCEPT !.tables = {"embeddings", "document_chunks"}]
V6 == [Nothing EXCEPT !.tables = {"tasks"}]
V7 == [Nothing EXCEPT !.tables = {"memory_audit"},
       !.columns = In("learned_patterns", {"trust_tier", "provenance"})
                   \cup In("observations", {"provenance"}),
       !.triggers = Writes("memory_audit", {Abort}) \cup Writes("learned_patterns", {Abort})]
V8 == [Nothing EXCEPT !.tables = {"pattern_validations"}]
V9 == [Nothing EXCEPT !.mirrors = Mirror("document_chunks_fts", "document_chunks")]
V10 == [Nothing EXCEPT !.tables = {"retrievals"}]
V11 == [Nothing EXCEPT !.tables = {"retrieval_quality"},
        !.columns = In("document_chunks", {"contextual_prefix", "context_model"})]
V12 == [Nothing EXCEPT !.tables = {"graph_nodes", "graph_edges_v12", "graph_evidence_v12"},
        !.columns = In("embeddings", {"embedding_dim"}),
        !.mirrors = Mirror("graph_nodes_fts_porter", "graph_nodes")]
V13 == [Nothing EXCEPT !.tables = {"task_status_history"},
        !.columns = In("tasks", {"swimlane", "kind", "epic", "labels_json", "priority",
          "appetite", "started_at", "completed_at", "agent_session", "work_log_last_5"})]
V14 == [Nothing EXCEPT !.tables = {"backtrack_events", "persona_selections",
          "ambiguity_violations", "formula_dispatches"}]
V15 == [Nothing EXCEPT !.triggers = Writes("graph_edges_v12", {Abort})]
V16 == [Nothing EXCEPT !.mends = {"graph_nodes"}]
V17 == [Nothing EXCEPT !.tables = {"file_index_state"}]
V18 == [Nothing EXCEPT !.tables = {"retrieval_router_log"}]
V19 == [Nothing EXCEPT !.mends = {"tasks"}]
V20 == [Nothing EXCEPT !.columns =
          In("task_status_history", {"override_reason", "override_actor"})]
V21 == [Nothing EXCEPT !.tables = {"doc_audit_trail"},
        !.triggers = Writes("doc_audit_trail", {Abort})]
V22 == [Nothing EXCEPT !.columns = In("document_chunks",
          {"domain", "layer", "ssot", "updated_iso", "is_active"}),
        !.rewrites = {"document_chunks"}]
V23 == [Nothing EXCEPT !.columns = In("formula_dispatches", {"cost_usd", "budget_usd",
          "usage_jsonb", "model_usage_jsonb", "tool_calls_jsonb", "tool_failures_jsonb"})]
V24 == [Nothing EXCEPT !.tables = {"project_trajectory"}]
V25 == [Nothing EXCEPT !.columns = In("backtrack_events",
          {"hypothesis", "failure_signal", "root_cause", "corrective_action"})]
V26 == [Nothing EXCEPT !.columns =
          In("routing_weights", {"last_recalc_at", "outcomes_at_recalc"})]
V27 == [Nothing EXCEPT !.columns =
          In("formula_dispatches", {"sub_session_id", "model", "checkpoints_jsonb"})]
V28 == [Nothing EXCEPT !.columns = In("file_index_state", {"duration_ms"})]
V29 == [Nothing EXCEPT !.rebuilds = {<<"graph_nodes_fts_porter", "graph_nodes_fts">>}]
V30 == [Nothing EXCEPT !.columns = In("observations", {"access_count", "last_accessed_at"})]
V31 == [Nothing EXCEPT !.tables = {"task_edit_history"}]
V32 == [Nothing EXCEPT !.tables = {"log_events", "log_fingerprints"}]
V33 == [Nothing EXCEPT !.columns = In("learned_patterns", {"archived_at"})]
V34 == [Nothing EXCEPT !.columns = In("formula_dispatches", {"error"})]
V35 == [Nothing EXCEPT !.tables = {"task_dependencies"},
        !.triggers = Writes("tasks", {"task_dependencies"}),
        !.mirrors = Mirror("tasks_fts", "tasks")]
V36 == [Nothing EXCEPT !.mends = {"observations"}]
V37 == [Nothing EXCEPT !.mends = {"observations"}]
V38 == [Nothing EXCEPT !.rewrites = {"task_outcomes"}]
V39 == [Nothing EXCEPT !.columns = In("observations", {"task_id"})]
V40 == [Nothing EXCEPT !.tables = {"embedding_outbox"}]
V41 == [Nothing EXCEPT !.columns =
          In("tasks", {"blocked_by_json", "references_json", "external_ref"})]
V42 == [Nothing EXCEPT !.drops = {"doc_audit_trail"}]
V43 == [Nothing EXCEPT !.drops = {"experiment_log"}]
V44 == [Nothing EXCEPT !.columns = In("formula_dispatches", {"raw_transcript"})]
V45 == [Nothing EXCEPT !.triggers = Writes("tasks",
          {"task_status_history", "task_outcomes", "task_edit_history"})]
V46 == [Nothing EXCEPT !.columns = In("log_events", {"event_class"}),
        !.rewrites = {"log_events"}]
V47 == [Nothing EXCEPT !.columns =
          In("learned_patterns", {"distill_fingerprint", "evidence_json"})]
V48 == [Nothing EXCEPT !.rewrites = {"observations"}]
V49 == [Nothing EXCEPT !.unchecked = In("learned_patterns", {"times_seen"}),
        !.rewrites = {"learned_patterns"}]
V50 == [Nothing EXCEPT !.rewrites = {"learned_patterns"}]
V51 == [Nothing EXCEPT !.rewrites = {"observations"}]
V52 == [Nothing EXCEPT !.columns =
          In("task_outcomes", {"derived_outcome", "derived_provenance"})]
V53 == [Nothing EXCEPT !.tables = {"adapter_health"},
        !.columns = In("formula_dispatches", {"adapter", "effort", "error_category",
          "retry_after_s", "health_state", "health_probe"})]
V54 == [Nothing EXCEPT !.rewrites = {"formula_dispatches", "persona_selections",
          "ambiguity_violations", "backtrack_events", "routing_weights"}]

V55KeepsObservations == [Nothing EXCEPT !.drops = {"observations_fts", "agent_metrics",
          "ambiguity_violations", "backtrack_events", "learned_patterns",
          "pattern_validations", "persona_selections", "project_trajectory",
          "routing_weights"}]

V55 == [Nothing EXCEPT !.drops = {"observations_fts", "observations", "agent_metrics",
          "ambiguity_violations", "backtrack_events", "learned_patterns",
          "pattern_validations", "persona_selections", "project_trajectory",
          "routing_weights"}]

MIGRATIONS ==
  <<V1, V2, V3, V4, V5, V6, V7, V8, V9, V10, V11, V12, V13, V14, V15, V16, V17, V18, V19,
    V20, V21, V22, V23, V24, V25, V26, V27, V28, V29, V30, V31, V32, V33, V34, V35, V36,
    V37, V38, V39, V40, V41, V42, V43, V44, V45, V46, V47, V48, V49, V50, V51, V52, V53,
    V54, V55>>

Last == Len(MIGRATIONS)

(* The full-text tables, and the versions whose effect depends on FTS5. *)
SearchTables == {m[1] : m \in UNION {MIGRATIONS[v].mirrors : v \in 1..Last}}
                \cup {r[2] : r \in UNION {MIGRATIONS[v].rebuilds : v \in 1..Last}}
SearchVersions == {v \in 1..Last : MIGRATIONS[v].mirrors # {}}

(* The names the ledger brings into a schema. *)
Tables == (UNION {MIGRATIONS[v].tables : v \in 1..Last}) \cup SearchTables
Columns == UNION {MIGRATIONS[v].columns \cup MIGRATIONS[v].unchecked : v \in 1..Last}

Schema == [tables : SUBSET Tables,
           columns : SUBSET Columns,
           triggers : SUBSET [on : Tables, into : Tables \cup {Abort}]]

Blank == [tables |-> {}, columns |-> {}, triggers |-> {}]

-------------------------------------------------------------------------------

(* A rebuilt mirror takes its new name, in the schema and in its triggers. *)
Renamed(v, name) ==
  IF \E r \in MIGRATIONS[v].rebuilds : r[1] = name
    THEN (CHOOSE r \in MIGRATIONS[v].rebuilds : r[1] = name)[2]
    ELSE name

(* The schema a body that runs to its end leaves. *)
Whole(v, s, fts5) ==
  LET m == MIGRATIONS[v]
      mirrors == IF fts5 THEN m.mirrors ELSE {}
      tables == {Renamed(v, t) : t \in s.tables \cup m.tables \cup {p[1] : p \in mirrors}}
                \ m.drops
      triggers == s.triggers \cup m.triggers \cup {[on |-> p[2], into |-> p[1]] : p \in mirrors}
  IN [tables |-> tables,
      columns |-> {c \in s.columns \cup m.columns \cup m.unchecked : c[1] \in tables},
      triggers |-> {[on |-> g.on, into |-> Renamed(v, g.into)]
                      : g \in {h \in triggers : h.on \notin m.drops}}]

(* "duplicate column name" is taken for a schema that is already where it  *)
(* should be: the version is recorded although its body stopped there.     *)
Body(v, s, fts5) ==
  IF MIGRATIONS[v].unchecked \cap s.columns # {} THEN s ELSE Whole(v, s, fts5)

(* A build without FTS5 fails on any statement that reaches a search table,*)
(* directly or through a trigger of a table whose rows it changes.         *)
Mirrored(s) == {g.on : g \in {h \in s.triggers : h.into \in SearchTables}}

NeedsSearch(v, s) ==
  LET m == MIGRATIONS[v] IN
  \/ (m.drops \cup {r[1] : r \in m.rebuilds}) \cap SearchTables \cap s.tables # {}
  \/ m.rewrites \cap Mirrored(s) # {}

MayNeedSearch(v, s) == MIGRATIONS[v].mends \cap Mirrored(s) # {}

(* learned_patterns refuses, by trigger, to update a locked or core row. *)
RefusedByTrigger(v, s) ==
  /\ "learned_patterns" \in MIGRATIONS[v].rewrites
  /\ [on |-> "learned_patterns", into |-> Abort] \in s.triggers

(* The schema of version v when the versions in plain were applied by a    *)
(* build without FTS5.                                                     *)
Replay(v, plain) ==
  LET schema[u \in 0..v] ==
        IF u = 0 THEN Blank ELSE Body(u, schema[u - 1], u \notin plain)
  IN schema[v]

===============================================================================
