----------------------------- MODULE XibiSchema -----------------------------
(***************************************************************************)
(* The 44 migrations of db/migrations.py, as the statements Migrations     *)
(* runs.  A table stands for the columns it is created with; a column is   *)
(* named when a migration adds it.                                         *)
(***************************************************************************)
EXTENDS Naturals, Sequences

Make(needs, makes) == [op |-> "make", needs |-> needs, makes |-> makes, guarded |-> TRUE]

\* CREATE TABLE IF NOT EXISTS.
Table(t) == Make({}, {<<t>>})

\* _safe_add_column; a duplicate column is no failure.
Column(t, c) == Make({<<t>>}, {<<t, c>>})

\* CREATE INDEX IF NOT EXISTS.
Index(t, i) == Make({<<t>>}, {<<t, i>>})

\* CREATE TABLE and CREATE INDEX, which fail when there is one.
Bare(s) == [s EXCEPT !.guarded = FALSE]

Statement(op, needs, makes) == [op |-> op, needs |-> needs, makes |-> makes, guarded |-> FALSE]

Each(Op(_), names) == [i \in 1 .. Len(names) |-> Op(names[i])]
Tables(names)      == Each(Table, names)
Columns(t, names)  == Each(LAMBDA c : Column(t, c), names)
Indexes(t, names)  == Each(LAMBDA i : Index(t, i), names)

\* executescript: COMMIT, then the script.
Script(ss) == <<Statement("commit", {}, {})>> \o ss

M1  == <<Table("schema_version")>>
         \o Script(<<Table("beliefs"), Make({}, {<<"ledger">>, <<"ledger", "decay_days">>}), Table("traces")>>)
M2  == Script(Tables(<<"tasks", "conversation_history", "pinned_topics", "signals", "shadow_phrases">>))
M3  == Script(Tables(<<"rules", "triage_log", "heartbeat_state", "seen_emails">>))
M4  == Script(Tables(<<"trust_records">>))
M5  == Script(Tables(<<"access_log">>))
M6  == Script(Tables(<<"processed_messages">>))
M7  == Columns("trust_records", <<"model_hash", "last_failure_type">>)
M8  == Script(Tables(<<"session_turns">>) \o Indexes("session_turns", <<"idx_session_turns_session_id">>))
M9  == Script(Tables(<<"session_entities">>) \o Indexes("session_entities", <<"idx_session_entities_session">>))
M10 == Script(Tables(<<"spans">>) \o Indexes("spans", <<"idx_spans_trace", "idx_spans_start">>))
M11 == Script(Tables(<<"observation_cycles">>))
M12 == Script(Tables(<<"threads", "contacts">>)
              \o Columns("signals", <<"action_type", "urgency", "direction", "entity_org",
                                      "is_direct", "cc_count", "thread_id", "intel_tier">>))
M13 == Script(Tables(<<"inference_events">>)
              \o Indexes("inference_events", <<"idx_inference_events_recorded", "idx_inference_events_role">>))
M14 == Script(Tables(<<"audit_results">>) \o Indexes("audit_results", <<"idx_audit_results_audited">>))
M15 == Columns("session_turns", <<"source">>)
M16 == Columns("inference_events", <<"trace_id">>)
         \o Indexes("inference_events", <<"idx_inference_events_trace">>)
M17 == Columns("access_log", <<"prev_step_source", "source_bumped", "base_tier", "effective_tier">>)
M18 == Columns("signals", <<"summary", "summary_model", "summary_ms", "sender_trust", "sender_contact_id">>)
         \o Columns("contacts", <<"phone", "title", "outbound_count", "user_endorsed",
                                  "discovered_via", "tags", "notes">>)
         \o Script(Tables(<<"contact_channels">>)
                   \o Indexes("contact_channels", <<"idx_cc_handle", "idx_cc_contact",
                                                    "idx_contact_channels_lookup">>)
                   \o Columns("session_entities", <<"contact_id">>))
M19 == Columns("threads", <<"priority", "last_reviewed_at">>)
         \o Columns("observation_cycles", <<"review_mode">>)
M20 == Script(Tables(<<"sessions", "belief_summaries">>)
              \o Indexes("belief_summaries", <<"idx_belief_summaries_session">>))

\* The file 0021_scheduled_actions.sql is there, and has no IF NOT EXISTS.
M21 == Script(Each(Bare, <<Table("scheduled_actions"),
                           Index("scheduled_actions", "idx_scheduled_actions_due"),
                           Table("scheduled_action_runs"),
                           Index("scheduled_action_runs", "idx_scheduled_action_runs_action")>>))
M22 == Script(Tables(<<"checklist_templates", "checklist_template_items",
                       "checklist_instances", "checklist_instance_items">>))
M23 == Columns("signals", <<"sender_trust", "sender_contact_id">>)

\* And an update of the old rows, which repeats harmlessly.
M24 == Columns("processed_messages", <<"source", "ref_id">>)
         \o Indexes("processed_messages", <<"idx_processed_source_ref">>)
M25 == Columns("signals", <<"classification_reasoning">>)
M26 == Columns("signals", <<"correction_reason">>)
M27 == Columns("signals", <<"deep_link_url">>)
M28 == Script(Tables(<<"engagements">>)
              \o Indexes("engagements", <<"idx_engagements_signal", "idx_engagements_created",
                                          "idx_engagements_type">>))
M29 == Script(Tables(<<"priority_context", "review_traces">>))
M30 == Script(Tables(<<"subagent_runs">>))
M31 == Script(Tables(<<"subagent_checklist_steps">>))
M32 == Script(Tables(<<"pending_l2_actions">>))
M33 == Script(Tables(<<"subagent_cost_events">>))
M34 == Columns("ledger", <<"decay_days">>)
M35 == Columns("subagent_runs", <<"summary", "summary_generated_at", "output_ttl_hours",
                                  "presentation_file_path">>)
M36 == Columns("signals", <<"metadata">>) \o Tables(<<"subagent_signal_dispatch">>)

\* checklist_instance_items is copied, dropped and replaced by the copy.
M37 ==
  LET old == {<<"checklist_instance_items">>}
      new == {<<"checklist_instance_items_new">>}
  IN <<Statement("unless", {}, {<<"checklist_instance_items", "status">>}),
       Bare(Make({}, new)),
       Statement("copy", old, new),
       Statement("drop", old, {}),
       Statement("rename", new, old \cup {<<"checklist_instance_items", "status">>,
                                          <<"checklist_instance_items", "metadata">>}),
       Bare(Index("checklist_instance_items", "idx_cii_instance_id"))>>
M38 == Tables(<<"caretaker_pulses">>)
         \o Indexes("caretaker_pulses", <<"idx_caretaker_pulses_started">>)
         \o Tables(<<"caretaker_drift_state">>)
M39 == Tables(<<"oauth_accounts", "oauth_pending_states">>)
         \o Indexes("oauth_accounts", <<"idx_oauth_accounts_user_provider">>)
         \o Indexes("oauth_pending_states", <<"idx_oauth_pending_states_expires">>)
M40 == Columns("signals", <<"received_via_account", "received_via_email_alias">>)
         \o Indexes("signals", <<"idx_signals_received_via_account">>)
M41 == Columns("contacts", <<"account_origin", "seen_via_accounts">>)
M42 == Columns("signals", <<"extracted_facts", "parent_ref_id">>)
         \o Indexes("signals", <<"idx_signals_parent_ref_id">>)
M43 == Columns("signals", <<"parsed_body", "parsed_body_at", "parsed_body_format">>)
M44 == Script(Tables(<<"inference_daily_rollup", "spans_daily_rollup">>))

\* The list of _migrate_locked.
Bodies == <<M1, M2, M3, M4, M5, M6, M7, M8, M9, M10, M11, M12, M13, M14, M15, M16, M17, M18, M19, M20, M21, M22,
            M23, M24, M25, M26, M27, M28, M29, M30, M31, M32, M33, M34, M35, M36, M37, M38, M39, M40, M41, M42,
            M43, M44>>
=============================================================================
