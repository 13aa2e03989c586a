-------------------------- MODULE PlatformDatabase --------------------------
(***************************************************************************)
(* The platform API's database: internal/database/sqlite.go, which brings  *)
(* the schema of any earlier release up to date when the server starts,    *)
(* and internal/backup/handler.go, which copies the database and puts a    *)
(* copy back. SQLite keeps what has been committed since the last          *)
(* checkpoint in a write-ahead log beside the main file; a reader sees the *)
(* log's pages first. There is one connection, so a statement is atomic.   *)
(***************************************************************************)
EXTENDS Naturals, Sequences

CONSTANTS
    Releases,   \* releases that are run: how many of the migrations each has
    Backups,    \* backup ids
    MaxRows     \* bound: writes of handlers that matter here

-----------------------------------------------------------------------------
(* The statements of the migrations. The schema is the set of the tables   *)
(* <<t, "">> and of the columns <<t, c>> that were added later or will be  *)
(* removed; the indexes a migration puts on one table are one statement.   *)
Statements(op, tables) ==
    [i \in DOMAIN tables |-> [op |-> op, table |-> tables[i], column |-> ""]]
Tables(ts) == Statements("create", ts)
Indexes(ts) == Statements("index", ts)
Columns(t, cs) == [i \in DOMAIN cs |-> [op |-> "add", table |-> t, column |-> cs[i]]]

CoreAccounts == Tables(<<"schema_migrations", "users", "channels", "channel_models", "plans",
                         "subscriptions", "entitlements", "usage_records", "invoices">>)
CoreOperations ==
    Tables(<<"devices", "audit_logs", "ban_records", "rate_limit_policies",
             "channel_strategies", "webhooks", "outbox_events", "purchase_orders">>)
    \o Indexes(<<"users", "channels", "channel_models", "devices", "subscriptions",
                 "entitlements", "usage_records", "invoices", "audit_logs", "ban_records",
                 "rate_limit_policies", "webhooks", "outbox_events", "purchase_orders">>)
Saas == Tables(<<"tenants", "organizations", "tenant_members", "order_flows", "payments",
                 "tenant_invoices", "usage_events">>)
        \o Indexes(<<"organizations", "tenant_members", "order_flows", "payments",
                     "tenant_invoices", "usage_events">>)
Ops == Tables(<<"alert_rules", "alert_events", "trace_records">>)
       \o Indexes(<<"alert_rules", "alert_events", "trace_records">>)

ToOptimizationConfig ==
    << Columns("users", <<"balance">>) \o Tables(<<"recharge_records">>)
         \o Indexes(<<"recharge_records">>) \o Tables(<<"checkout_sessions">>)
         \o Indexes(<<"checkout_sessions">>),
       Columns("plans", <<"relay_enabled", "relay_host", "relay_port">>)
         \o Tables(<<"relay_gateways">>) \o Indexes(<<"relay_gateways">>),
       Columns("usage_records", <<"error_category">>),
       Columns("users", <<"optimization_config">>) >>
ToTeamFeatures ==
    << Tables(<<"enterprise_leads">>),
       Columns("plans", <<"overage_unit_price", "hard_limit_quota">>)
         \o Columns("usage_events", <<"is_overage">>)
         \o Tables(<<"overage_records">>) \o Indexes(<<"overage_records">>),
       Tables(<<"sla_status", "sla_events">>) \o Indexes(<<"sla_status", "sla_events">>),
       Tables(<<"tenant_strategies", "tenant_combo_templates", "tenant_invite_links",
                "tenant_config_snapshots">>)
         \o Indexes(<<"tenant_strategies", "tenant_combo_templates", "tenant_invite_links",
                      "tenant_config_snapshots">>) >>
ToIteration4 ==
    << Tables(<<"enterprise_sso_configs", "enterprise_scim_configs", "enterprise_roles",
                "enterprise_model_policies", "enterprise_ip_whitelist",
                "enterprise_compliance_reports", "enterprise_audit_retention">>)
         \o Indexes(<<"enterprise_roles", "enterprise_ip_whitelist",
                      "enterprise_compliance_reports">>),
       Tables(<<"enterprise_policy_rollouts">>) \o Indexes(<<"enterprise_policy_rollouts">>),
       Tables(<<"enterprise_contracts", "enterprise_quota_approvals">>)
         \o Columns("tenant_invoices",
                    <<"po_number", "invoice_title", "tax_id", "company_address">>) >>
ToCombos ==
    << Tables(<<"enterprise_data_regions", "enterprise_licenses">>)
         \o Columns("tenants", <<"data_region", "deployment_type">>)
         \o Indexes(<<"enterprise_data_regions", "enterprise_licenses">>),
       Tables(<<"model_combos", "model_combo_releases", "model_combo_metrics">>)
         \o Indexes(<<"model_combos", "model_combo_releases", "model_combo_metrics">>),
       Tables(<<"combo_visibility_policies", "combo_deployment_approvals">>)
         \o Indexes(<<"combo_visibility_policies", "combo_deployment_approvals">>) >>
ToProviderResources ==
    << Tables(<<"provider_health_metrics">>) \o Indexes(<<"provider_health_metrics">>),
       Tables(<<"enterprise_byok_policies">>) \o Indexes(<<"enterprise_byok_policies">>)
         \o Columns("channels", <<"source">>),
       Columns("model_combos", <<"quick_strategy", "task_profile">>),
       Tables(<<"model_catalog">>) \o Indexes(<<"model_catalog">>),
       Tables(<<"provider_resources">>) \o Indexes(<<"provider_resources">>) >>
RemoveBilling ==
    Statements("drop", <<"overage_records", "checkout_sessions", "recharge_records",
                         "tenant_invoices", "payments", "order_flows", "purchase_orders",
                         "invoices", "entitlements", "subscriptions", "plans">>)
    \o [i \in 1 .. 2 |-> [op |-> "remove", table |-> "users",
                          column |-> <<"balance", "plan">>[i]]]
ToRemoveBilling ==
    << Tables(<<"seasagi_backups">>) \o Indexes(<<"seasagi_backups">>),
       Tables(<<"oauth_identities">>) \o Indexes(<<"oauth_identities">>),
       RemoveBilling >>

Migrations == <<CoreAccounts \o CoreOperations, Saas, Ops>> \o ToOptimizationConfig
              \o ToTeamFeatures \o ToIteration4 \o ToCombos \o ToProviderResources
              \o ToRemoveBilling

(* Columns a table is created with and a later migration removes. *)
OwnColumns(t) == IF t = "users" THEN {<<t, "plan">>} ELSE {}

(* What the handlers of this release select from or write to. *)
Queried ==
    {<<t, "">> : t \in {"users", "channels", "channel_models", "channel_strategies",
                        "usage_records", "devices", "relay_gateways", "model_combos",
                        "model_catalog", "provider_resources", "seasagi_backups",
                        "oauth_identities", "schema_migrations"}}
    \cup {<<"users", "optimization_config">>, <<"usage_records", "error_category">>,
          <<"model_combos", "quick_strategy">>, <<"model_combos", "task_profile">>}

(* SQLite's answer to a statement: IF [NOT] EXISTS makes creating and      *)
(* dropping a table safe to repeat, altering one is not.                   *)
Fails(schema, s) ==
    \/ s.op \in {"index", "add"} /\ <<s.table, "">> \notin schema
    \/ s.op = "add" /\ <<s.table, s.column>> \in schema
    \/ s.op = "remove" /\ <<s.table, s.column>> \notin schema

AfterStatement(schema, s) ==
    CASE s.op = "create" /\ <<s.table, "">> \notin schema ->
             schema \cup {<<s.table, "">>} \cup OwnColumns(s.table)
      [] s.op = "add" -> schema \cup {<<s.table, s.column>>}
      [] s.op = "drop" -> {x \in schema : x[1] # s.table}
      [] s.op = "remove" -> schema \ {<<s.table, s.column>>}
      [] OTHER -> schema
-----------------------------------------------------------------------------
(* A database has three kinds of pages: its tables and which migrations    *)
(* were applied, the handlers' rows, and the records of the backups.       *)
Pages == {"meta", "rows", "records"}
Empty == [applied |-> {}, schema |-> {}, rows |-> 0, records |-> {}]
Torn == [Empty EXCEPT !.applied = {0}]      \* a file that was not written to its end

(* The statements before the j-th of migration n, and the schema a fresh   *)
(* database has there: what they made, but for what they took away.        *)
Migrating == "schema_migrations"
Before(n, j) ==
    UNION {{Migrations[m][i] : i \in DOMAIN Migrations[m]} : m \in 1 .. n - 1}
    \cup {Migrations[n][i] : i \in 1 .. j - 1}
Makes(s) ==
    CASE s.op = "create" -> {<<s.table, "">>} \cup OwnColumns(s.table)
      [] s.op = "add" -> {<<s.table, s.column>>}
      [] OTHER -> {}
SchemaAt(n, j) ==
    LET made == {<<Migrating, "">>} \cup UNION {Makes(s) : s \in Before(n, j)}
        removals == {s \in Before(n, j) : s.op \in {"drop", "remove"}}
    IN {x \in made : \A s \in removals : s.table # x[1] \/ (s.op = "remove" /\ s.column # x[2])}
SchemaAfter(n) == SchemaAt(n + 1, 1)

(* On a fresh database every migration succeeds, in order, and leaves what *)
(* the handlers use and the table of the migrations.                       *)
MigrationsRun ==
    /\ Len(Migrations) \in Nat
    /\ \A n \in 1 .. Len(Migrations) :
          /\ Len(Migrations[n]) \in Nat
          /\ SchemaAt(n, Len(Migrations[n]) + 1) = SchemaAfter(n)
          /\ \A j \in 1 .. Len(Migrations[n]) :
                /\ ~ Fails(SchemaAt(n, j), Migrations[n][j])
                /\ SchemaAt(n, j + 1) = AfterStatement(SchemaAt(n, j), Migrations[n][j])
    /\ \A n \in 0 .. Len(Migrations) : <<Migrating, "">> \in SchemaAfter(n)
    /\ Queried \subseteq SchemaAfter(Len(Migrations))

ConstantsOK ==
    Releases \subseteq 1 .. Len(Migrations) /\ MaxRows \in Nat /\ MigrationsRun

VARIABLES
    phase,      \* of the server: "down", "migrating", "serving", "failed"
    release,    \* the installed release
    main,       \* the main database file
    db,         \* what the connection reads: the main file under the log
    dirty,      \* the pages the log has
    at,         \* migrate: the migration and statement it is at
    pending,    \* the open transaction's schema
    files,      \* the backup files there are
    job,        \* the admin's request in progress
    restored    \* a backup was put back since the server started

vars == <<phase, release, main, db, dirty, at, pending, files, job, restored>>

Idle == [op |-> "none", id |-> "none"]

Init ==
    /\ phase = "down" /\ release \in Releases
    /\ main = Empty /\ db = Empty /\ dirty = {}
    /\ at = <<1, 0>> /\ pending = {}
    /\ files = <<>>
    /\ job = Idle /\ restored = FALSE

Busy == UNCHANGED <<phase, release, at, pending>>
Quiet == UNCHANGED <<files, job, restored>>

(* A committed write: into the log. *)
Commit(new, pages) == db' = new /\ dirty' = dirty \cup pages /\ UNCHANGED main

(* SQLite copies the log into the main file. *)
Checkpoint ==
    /\ phase # "down" /\ dirty # {} /\ job.op # "writing" /\ main # Torn
    /\ main' = db /\ dirty' = {}
    /\ UNCHANGED db /\ Busy /\ Quiet

(* Init of the database and the table of the migrations, if it is new; a   *)
(* torn file cannot be opened.                                             *)
Boot ==
    /\ phase = "down"
    /\ \/ main = Torn /\ phase' = "failed" /\ UNCHANGED <<main, db, dirty>>
       \/ main # Torn /\ phase' = "migrating"
          /\ LET t == <<Migrating, "">> IN
               IF t \in db.schema THEN UNCHANGED <<main, db, dirty>>
               ELSE Commit([db EXCEPT !.schema = @ \cup {t}], {"meta"})
    /\ at' = <<1, 0>> /\ restored' = FALSE
    /\ UNCHANGED <<release, pending, files, job>>

Applied(i) == i \in db.applied
NextMigration == at' = <<at[1] + 1, 0>>

SkipMigration ==
    /\ phase = "migrating" /\ at[1] <= release /\ at[2] = 0 /\ Applied(at[1])
    /\ NextMigration
    /\ UNCHANGED <<phase, release, main, db, dirty, pending>> /\ Quiet

BeginMigration ==
    /\ phase = "migrating" /\ at[1] <= release /\ at[2] = 0 /\ ~ Applied(at[1])
    /\ at' = <<at[1], 1>> /\ pending' = db.schema
    /\ UNCHANGED <<phase, release, main, db, dirty>> /\ Quiet

(* A statement of the transaction; one that fails rolls it back and ends   *)
(* the server.                                                             *)
Statement ==
    /\ phase = "migrating" /\ at[1] <= release /\ at[2] \in 1 .. Len(Migrations[at[1]])
    /\ LET s == Migrations[at[1]][at[2]] IN
         IF Fails(pending, s)
         THEN phase' = "failed" /\ UNCHANGED <<at, pending>>
         ELSE /\ pending' = AfterStatement(pending, s)
              /\ at' = <<at[1], at[2] + 1>>
              /\ UNCHANGED phase
    /\ UNCHANGED <<release, main, db, dirty>> /\ Quiet

(* Mutant of CommitMigration: the migration's version is not recorded. *)
CommitUnrecorded ==
    /\ phase = "migrating" /\ at[1] <= release /\ at[2] = Len(Migrations[at[1]]) + 1
    /\ Commit([db EXCEPT !.schema = pending], {"meta"})
    /\ NextMigration
    /\ UNCHANGED <<phase, release, pending>> /\ Quiet

(* ... with the record of the migration. *)
CommitMigration ==
    /\ phase = "migrating" /\ at[1] <= release /\ at[2] = Len(Migrations[at[1]]) + 1
    /\ Commit([db EXCEPT !.schema = pending, !.applied = @ \cup {at[1]}], {"meta"})
    /\ NextMigration
    /\ UNCHANGED <<phase, release, pending>> /\ Quiet

Serve ==
    /\ phase = "migrating" /\ at[1] = release + 1
    /\ phase' = "serving"
    /\ UNCHANGED <<release, main, db, dirty, at, pending>> /\ Quiet

(* A handler's insert or update. *)
WriteRow ==
    /\ phase = "serving" /\ db.rows < MaxRows
    /\ Commit([db EXCEPT !.rows = @ + 1], {"rows"})
    /\ Busy /\ Quiet

HasBackups == phase = "serving" /\ <<"seasagi_backups", "">> \in db.schema

(* CreateBackup: VACUUM INTO a new file, then the record of it. *)
VacuumInto(b) ==
    /\ HasBackups /\ job = Idle /\ b \notin DOMAIN files \cup db.records
    /\ files' = [f \in DOMAIN files \cup {b} |-> IF f = b THEN db ELSE files[f]]
    /\ job' = [op |-> "backup", id |-> b]
    /\ UNCHANGED <<main, db, dirty, restored>> /\ Busy

RecordBackup ==
    /\ job.op = "backup"
    /\ Commit([db EXCEPT !.records = @ \cup {job.id}], {"records"})
    /\ job' = Idle /\ UNCHANGED <<files, restored>> /\ Busy

(* DeleteBackup: the file, then the record. *)
RemoveFile(b) ==
    /\ HasBackups /\ job = Idle /\ b \in db.records
    /\ files' = [f \in DOMAIN files \ {b} |-> files[f]]
    /\ job' = [op |-> "delete", id |-> b]
    /\ UNCHANGED <<main, db, dirty, restored>> /\ Busy

RemoveRecord ==
    /\ job.op = "delete"
    /\ Commit([db EXCEPT !.records = @ \ {job.id}], {"records"})
    /\ job' = Idle /\ UNCHANGED <<files, restored>> /\ Busy

(* RestoreBackup: the checksum holds, and the copy is written over the     *)
(* main file, beside which the log stays; if the record is still there it  *)
(* then gets the time.                                                     *)
StartRestore(b) ==
    /\ HasBackups /\ job = Idle /\ b \in db.records /\ b \in DOMAIN files
    /\ job' = [op |-> "writing", id |-> b] /\ main' = Torn
    /\ UNCHANGED <<db, dirty, files, restored>> /\ Busy

(* A clean page may be read from the new file or from the connection's     *)
(* cache.                                                                  *)
Under(new, pages) ==
    [applied |-> IF "meta" \in pages THEN db.applied ELSE new.applied,
     schema |-> IF "meta" \in pages THEN db.schema ELSE new.schema,
     rows |-> IF "rows" \in pages THEN db.rows ELSE new.rows,
     records |-> IF "records" \in pages THEN db.records ELSE new.records]

FinishRestore ==
    /\ job.op = "writing"
    /\ main' = files[job.id] /\ restored' = TRUE
    /\ \E kept \in SUBSET Pages : dirty \subseteq kept /\ db' = Under(files[job.id], kept)
    /\ dirty' = dirty \cup (IF job.id \in db'.records THEN {"records"} ELSE {})
    /\ job' = Idle /\ UNCHANGED files /\ Busy

(* The process ends: at a shutdown the log is copied first, at a crash it  *)
(* is found again. A VACUUM that is cut leaves its file, without a record. *)
ProcessEnds ==
    /\ phase # "down"
    /\ phase' = "down" /\ job' = Idle
    /\ at' = <<1, 0>> /\ pending' = {}
    /\ IF main = Torn THEN UNCHANGED <<main, db, dirty>>
       ELSE /\ db' = Under(main, dirty)
            /\ \/ main' = db' /\ dirty' = {}
               \/ UNCHANGED <<main, dirty>>
    /\ UNCHANGED <<release, files, restored>>

Upgrade ==
    /\ phase = "down"
    /\ release' \in {r \in Releases : r > release}
    /\ UNCHANGED <<phase, main, db, dirty, at, pending>> /\ Quiet

Next ==
    \/ Boot \/ SkipMigration \/ BeginMigration \/ Statement \/ CommitMigration \/ Serve
    \/ WriteRow \/ Checkpoint \/ RecordBackup \/ RemoveRecord \/ FinishRestore
    \/ ProcessEnds \/ Upgrade
    \/ \E b \in Backups : VacuumInto(b) \/ RemoveFile(b) \/ StartRestore(b)

Spec == Init /\ [][Next]_vars

-----------------------------------------------------------------------------
(* Every variable has its type. *)
TypeOK ==
    /\ phase \in {"down", "migrating", "serving", "failed"} /\ release \in Releases
    /\ main.applied \subseteq 0 .. Len(Migrations) /\ main.rows \in 0 .. MaxRows
    /\ db.applied \subseteq 1 .. Len(Migrations) /\ db.rows \in 0 .. MaxRows
    /\ db.records \subseteq Backups
    /\ dirty \subseteq Pages /\ DOMAIN files \subseteq Backups
    /\ at[1] \in 1 .. Len(Migrations) + 1
    /\ job.op \in {"none", "backup", "delete", "writing"} /\ restored \in BOOLEAN

(* What is behind SchemaReady. The applied migrations are the first ones,  *)
(* in order, and the schema is that of these, in the file, under the log   *)
(* and in every backup; the open transaction's is on its way to the next.  *)
FirstOnes(x, m) ==
    /\ x.applied = 1 .. m
    /\ x.schema = SchemaAfter(m) \/ (m = 0 /\ x.schema = {})
InOrder(x) ==
    {"applied", "schema"} \subseteq DOMAIN x /\ \E m \in 0 .. Len(Migrations) : FirstOnes(x, m)


AllInOrder(conn, file, backups) ==
    /\ InOrder(conn) /\ (file = Torn \/ InOrder(file))
    /\ \A b \in DOMAIN backups : InOrder(backups[b])

(* Only a restore tears the file, and only it keeps a server from starting.*)
TornByRestore(ph, file, j, backups) ==
    /\ ph = "failed" => file = Torn
    /\ ph # "serving" => j = Idle
    /\ ph \in {"migrating", "serving"} /\ file = Torn => j.op = "writing"
    /\ j.op = "writing" => j.id \in DOMAIN backups

OnItsWay(n, j, conn, open) ==
    /\ <<Migrating, "">> \in conn.schema /\ 1 .. n - 1 \subseteq conn.applied
    /\ j # 0 => /\ n \notin conn.applied /\ j \in 1 .. Len(Migrations[n]) + 1
                /\ open = SchemaAt(n, j)

MigrationInv ==
    /\ release \in Releases /\ at[1] \in 1 .. release + 1
    /\ AllInOrder(db, main, files)
    /\ TornByRestore(phase, main, job, files)
    /\ phase = "migrating" => OnItsWay(at[1], at[2], db, pending)
    /\ phase = "serving" /\ ~ restored => 1 .. release \subseteq db.applied

(* A server of this release that has started finds every table and column  *)
(* its handlers use, whichever releases, crashes and restored backups came *)
(* before; only a file torn by a restore keeps it from starting.           *)
SchemaReady ==
    /\ phase = "serving" /\ release = Len(Migrations) /\ ~ restored => Queried \subseteq db.schema
    /\ phase = "failed" => main = Torn
=============================================================================
