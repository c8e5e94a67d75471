------------------------------- MODULE Models -------------------------------
(***************************************************************************)
(* The field tables of the generated model classes, one definition per    *)
(* class, read off its source.  Each of the class's three tables is       *)
(* transcribed on its own: the dataclass fields and their defaults, the   *)
(* wire name -> field map of get_field_deserializers, and the field ->    *)
(* wire name map of the write_*_value calls of serialize.  For a field    *)
(* that holds models, the class it is annotated with, the class and       *)
(* getter its deserializer passes to the parse node, and the writer       *)
(* serialize calls are likewise three tables.  Whether the tables agree   *)
(* is what ModelContract checks.  Scalar field types are abstracted away: *)
(* a value is a model value of the checking run.                          *)
(***************************************************************************)
EXTENDS TLC

CONSTANTS None, AboutBlank

\* The identity table on K: keys read or written under the field's own name.
Table(K) == [k \in K |-> k]

NoNesting == [f \in {} |-> None]

\* A class whose fields F all default to None, with the deserializer table
\* deser (wire name -> field) and the serialize table ser (field -> wire
\* name), none of whose fields holds a generated model.
Class(F, deser, ser) ==
    [defaults   |-> [f \in F |-> None],
     deser      |-> deser,
     ser        |-> ser,
     annotation |-> NoNesting,
     factory    |-> NoNesting,
     writer     |-> NoNesting]

\* A type holding a model of class c (Optional[c], get_object_value(c)) or a
\* list of them (Optional[list[c]], get_collection_of_object_values(c)).
Object(c) == [cls |-> c, many |-> FALSE]
ListOf(c) == [cls |-> c, many |-> TRUE]

\* serialize's writer for a field holding models: write_object_value or
\* write_collection_of_object_values.
WritesObject == [many |-> FALSE]
WritesCollection == [many |-> TRUE]

\* A class with fields holding models: `annotation` is the type of each
\* such dataclass field whose class is a Parsable class of the repository
\* (a class whose file is missing cannot be told from an enum and is left
\* out), `factory` the getter and class its deserializer uses, `writer`
\* the writer serialize uses.
Nested(class, annotation, factory, writer) ==
    [class EXCEPT !.annotation = annotation, !.factory = factory, !.writer = writer]

\* models/qyl/common/errors/internal_server_error.py: `type` defaults to
\* "about:blank"; `title` is a dataclass field that neither
\* get_field_deserializers nor serialize lists.
InternalServerError ==
    [defaults   |-> ("type" :> AboutBlank) @@
                    [f \in {"detail", "error_code", "instance", "status",
                            "timestamp", "title", "type"} |-> None],
     deser      |-> Table({"detail", "error_code", "instance", "status",
                           "timestamp", "type"}),
     ser        |-> Table({"detail", "error_code", "instance", "status",
                           "timestamp", "type"}),
     annotation |-> NoNesting,
     factory    |-> NoNesting,
     writer     |-> NoNesting]

\* models/deployment_create.py
DeploymentCreate ==
    Class({"deployed_by", "environment", "git_branch", "git_commit",
           "service_name", "service_version", "strategy"},
          Table({"deployed_by", "environment", "git_branch", "git_commit",
                 "service_name", "service_version", "strategy"}),
          Table({"deployed_by", "environment", "git_branch", "git_commit",
                 "service_name", "service_version", "strategy"}))

\* models/deployment_update.py
DeploymentUpdate ==
    Class({"error_message", "healthy_replicas", "status"},
          Table({"error_message", "healthy_replicas", "status"}),
          Table({"error_message", "healthy_replicas", "status"}))

\* models/dora_metrics.py
DoraMetrics ==
    Class({"change_failure_rate", "deployment_frequency", "lead_time_hours",
           "mttr_hours", "performance_level"},
          Table({"change_failure_rate", "deployment_frequency",
                 "lead_time_hours", "mttr_hours", "performance_level"}),
          Table({"change_failure_rate", "deployment_frequency",
                 "lead_time_hours", "mttr_hours", "performance_level"}))

\* models/error_update.py
ErrorUpdate ==
    Class({"assigned_to", "issue_url", "status"},
          Table({"assigned_to", "issue_url", "status"}),
          Table({"assigned_to", "issue_url", "status"}))

\* models/health_response.py
HealthResponse ==
    Nested(
        Class({"components", "status", "uptime_seconds", "version"},
              Table({"components", "status", "uptime_seconds", "version"}),
              Table({"components", "status", "uptime_seconds", "version"})),
        NoNesting,
        ("components" :> Object("HealthResponse_components")),
        ("components" :> WritesObject))

\* models/log_aggregation_response.py
LogAggregationResponse ==
    Nested(
        Class({"results", "total_count"},
              Table({"results", "total_count"}),
              Table({"results", "total_count"})),
        NoNesting,
        ("results" :> ListOf("LogAggregationBucket")),
        ("results" :> WritesCollection))

\* models/metric_query_request.py
MetricQueryRequest ==
    Nested(
        Class({"aggregation", "end_time", "filters", "group_by",
               "metric_name", "start_time", "step"},
              Table({"aggregation", "end_time", "filters", "group_by",
                     "metric_name", "start_time", "step"}),
              Table({"aggregation", "end_time", "filters", "group_by",
                     "metric_name", "start_time", "step"})),
        NoNesting,
        ("filters" :> Object("MetricQueryRequest_filters")),
        ("filters" :> WritesObject))

\* models/metric_time_series.py
MetricTimeSeries ==
    Nested(
        Class({"labels", "points"},
              Table({"labels", "points"}),
              Table({"labels", "points"})),
        NoNesting,
        ("labels" :> Object("MetricTimeSeries_labels")) @@
        ("points" :> ListOf("MetricDataPoint")),
        ("labels" :> WritesObject) @@
        ("points" :> WritesCollection))

\* models/operation_info.py
OperationInfo ==
    Class({"avg_duration_ms", "error_count", "name", "p99_duration_ms",
           "request_count", "span_kind"},
          Table({"avg_duration_ms", "error_count", "name", "p99_duration_ms",
                 "request_count", "span_kind"}),
          Table({"avg_duration_ms", "error_count", "name", "p99_duration_ms",
                 "request_count", "span_kind"}))

\* models/pipeline_stats.py
PipelineStats ==
    Nested(
        Class({"avg_duration_seconds", "by_status", "p95_duration_seconds",
               "success_rate", "total_runs"},
              Table({"avg_duration_seconds", "by_status",
                     "p95_duration_seconds", "success_rate", "total_runs"}),
              Table({"avg_duration_seconds", "by_status",
                     "p95_duration_seconds", "success_rate", "total_runs"})),
        NoNesting,
        ("by_status" :> ListOf("PipelineStatusStats")),
        ("by_status" :> WritesCollection))

\* models/qyl/common/attribute.py
Attribute ==
    Nested(
        Class({"key", "value"},
              Table({"key", "value"}),
              Table({"key", "value"})),
        ("value" :> Object("AttributeValue")),
        ("value" :> Object("AttributeValue")),
        ("value" :> WritesObject))

\* models/qyl/common/errors/validation_error_detail.py
ValidationErrorDetail ==
    Class({"code", "field", "message", "rejected_value"},
          Table({"code", "field", "message", "rejected_value"}),
          Table({"code", "field", "message", "rejected_value"}))

\* models/qyl/common/instrumentation_scope.py
InstrumentationScope ==
    Nested(
        Class({"attributes", "dropped_attributes_count", "name", "version"},
              Table({"attributes", "dropped_attributes_count", "name",
                     "version"}),
              Table({"attributes", "dropped_attributes_count", "name",
                     "version"})),
        ("attributes" :> ListOf("Attribute")),
        ("attributes" :> ListOf("Attribute")),
        ("attributes" :> WritesCollection))

\* models/qyl/domains/a_i/code/code_location.py
CodeLocation ==
    Class({"class_name", "column_number", "filepath", "function_name",
           "line_number", "namespace"},
          Table({"class_name", "column_number", "filepath", "function_name",
                 "line_number", "namespace"}),
          Table({"class_name", "column_number", "filepath", "function_name",
                 "line_number", "namespace"}))

\* models/qyl/domains/a_i/code/stack_frame.py
StackFrame ==
    Nested(
        Class({"index", "is_native", "is_user_code", "location",
               "module_name", "module_version"},
              Table({"index", "is_native", "is_user_code", "location",
                     "module_name", "module_version"}),
              Table({"index", "is_native", "is_user_code", "location",
                     "module_name", "module_version"})),
        ("location" :> Object("CodeLocation")),
        ("location" :> Object("CodeLocation")),
        ("location" :> WritesObject))

\* models/qyl/domains/a_i/code/stack_trace.py
StackTrace ==
    Nested(
        Class({"frames", "total_frames", "truncated"},
              Table({"frames", "total_frames", "truncated"}),
              Table({"frames", "total_frames", "truncated"})),
        ("frames" :> ListOf("StackFrame")),
        ("frames" :> ListOf("StackFrame")),
        ("frames" :> WritesCollection))

\* models/qyl/domains/identity/service_dependency.py
ServiceDependency ==
    Class({"avg_latency_ms", "error_rate", "request_count", "source_service",
           "target_service"},
          Table({"avg_latency_ms", "error_rate", "request_count",
                 "source_service", "target_service"}),
          Table({"avg_latency_ms", "error_rate", "request_count",
                 "source_service", "target_service"}))

\* models/qyl/domains/observe/error/correlated_error.py
CorrelatedError ==
    Class({"correlation_strength", "error_id", "error_type",
           "temporal_relationship"},
          Table({"correlation_strength", "error_id", "error_type",
                 "temporal_relationship"}),
          Table({"correlation_strength", "error_id", "error_type",
                 "temporal_relationship"}))

\* models/qyl/domains/observe/error/error_category_stats.py
ErrorCategoryStats ==
    Class({"category", "count", "percentage"},
          Table({"category", "count", "percentage"}),
          Table({"category", "count", "percentage"}))

\* models/qyl/domains/observe/error/error_correlation.py
ErrorCorrelation ==
    Nested(
        Class({"common_attributes", "correlated_errors", "error_id",
               "root_cause"},
              Table({"common_attributes", "correlated_errors", "error_id",
                     "root_cause"}),
              Table({"common_attributes", "correlated_errors", "error_id",
                     "root_cause"})),
        ("common_attributes" :> ListOf("Attribute")) @@
        ("correlated_errors" :> ListOf("CorrelatedError")),
        ("common_attributes" :> ListOf("Attribute")) @@
        ("correlated_errors" :> ListOf("CorrelatedError")),
        ("common_attributes" :> WritesCollection) @@
        ("correlated_errors" :> WritesCollection))

\* models/qyl/domains/observe/error/error_entity.py
ErrorEntity ==
    Class({"affected_services", "affected_users", "assigned_to", "category",
           "error_id", "error_type", "fingerprint", "first_seen",
           "issue_url", "last_seen", "message", "occurrence_count",
           "sample_traces", "status"},
          Table({"affected_services", "affected_users", "assigned_to",
                 "category", "error_id", "fingerprint", "first_seen",
                 "issue_url", "last_seen", "message", "occurrence_count",
                 "sample_traces", "status"}) @@
          ("error.type" :> "error_type"),
          Table({"affected_services", "affected_users", "assigned_to",
                 "category", "error_id", "fingerprint", "first_seen",
                 "issue_url", "last_seen", "message", "occurrence_count",
                 "sample_traces", "status"}) @@
          ("error_type" :> "error.type"))

\* ErrorStats whose top_errors deserializer passes ErrorCategoryStats, the
\* factory of the by_category line above it, to the parse node.
ErrorStatsTopErrorsAsCategories ==
    Nested(
        Class({"by_category", "by_service", "error_rate", "top_errors",
               "total_count", "trend", "unique_types"},
              Table({"by_category", "by_service", "error_rate", "top_errors",
                     "total_count", "trend", "unique_types"}),
              Table({"by_category", "by_service", "error_rate", "top_errors",
                     "total_count", "trend", "unique_types"})),
        ("by_category" :> ListOf("ErrorCategoryStats")) @@
        ("top_errors" :> ListOf("ErrorTypeStats")),
        ("by_category" :> ListOf("ErrorCategoryStats")) @@
        ("by_service" :> ListOf("ErrorServiceStats")) @@
        ("top_errors" :> ListOf("ErrorCategoryStats")),
        ("by_category" :> WritesCollection) @@
        ("by_service" :> WritesCollection) @@
        ("top_errors" :> WritesCollection))

\* models/qyl/domains/observe/error/error_stats.py
ErrorStats ==
    Nested(
        Class({"by_category", "by_service", "error_rate", "top_errors",
               "total_count", "trend", "unique_types"},
              Table({"by_category", "by_service", "error_rate", "top_errors",
                     "total_count", "trend", "unique_types"}),
              Table({"by_category", "by_service", "error_rate", "top_errors",
                     "total_count", "trend", "unique_types"})),
        ("by_category" :> ListOf("ErrorCategoryStats")) @@
        ("top_errors" :> ListOf("ErrorTypeStats")),
        ("by_category" :> ListOf("ErrorCategoryStats")) @@
        ("by_service" :> ListOf("ErrorServiceStats")) @@
        ("top_errors" :> ListOf("ErrorTypeStats")),
        ("by_category" :> WritesCollection) @@
        ("by_service" :> WritesCollection) @@
        ("top_errors" :> WritesCollection))

\* models/qyl/domains/observe/error/error_type_stats.py
ErrorTypeStats ==
    Class({"affected_users", "count", "error_type", "percentage", "status"},
          Table({"affected_users", "count", "error_type", "percentage",
                 "status"}),
          Table({"affected_users", "count", "error_type", "percentage",
                 "status"}))

\* models/qyl/domains/observe/exceptions/enriched_exception.py
EnrichedException ==
    Nested(
        Class({"affected_users", "cause", "data", "exception_type",
               "fingerprint", "first_seen", "last_seen", "message",
               "occurrence_count", "stack_trace", "status"},
              Table({"affected_users", "cause", "data", "exception_type",
                     "fingerprint", "first_seen", "last_seen", "message",
                     "occurrence_count", "stack_trace", "status"}),
              Table({"affected_users", "cause", "data", "exception_type",
                     "fingerprint", "first_seen", "last_seen", "message",
                     "occurrence_count", "stack_trace", "status"})),
        ("cause" :> Object("EnrichedException")) @@
        ("data" :> ListOf("Attribute")) @@
        ("stack_trace" :> Object("StackTrace")),
        ("cause" :> Object("EnrichedException")) @@
        ("data" :> ListOf("Attribute")) @@
        ("stack_trace" :> Object("StackTrace")),
        ("cause" :> WritesObject) @@
        ("data" :> WritesCollection) @@
        ("stack_trace" :> WritesObject))

\* models/qyl/domains/observe/exceptions/exception_service_stats.py
ExceptionServiceStats ==
    Class({"count", "rate_per_minute", "service_name"},
          Table({"count", "rate_per_minute", "service_name"}),
          Table({"count", "rate_per_minute", "service_name"}))

\* models/qyl/domains/observe/exceptions/exception_stats.py
ExceptionStats ==
    Nested(
        Class({"by_service", "by_type", "total_count", "trend",
               "unique_types"},
              Table({"by_service", "by_type", "total_count", "trend",
                     "unique_types"}),
              Table({"by_service", "by_type", "total_count", "trend",
                     "unique_types"})),
        ("by_service" :> ListOf("ExceptionServiceStats")) @@
        ("by_type" :> ListOf("ExceptionTypeStats")),
        ("by_service" :> ListOf("ExceptionServiceStats")) @@
        ("by_type" :> ListOf("ExceptionTypeStats")),
        ("by_service" :> WritesCollection) @@
        ("by_type" :> WritesCollection))

\* models/qyl/domains/observe/exceptions/exception_type_stats.py
ExceptionTypeStats ==
    Class({"count", "exception_type", "percentage", "status"},
          Table({"count", "exception_type", "percentage", "status"}),
          Table({"count", "exception_type", "percentage", "status"}))

\* models/qyl/domains/observe/session/session_client_info.py
SessionClientInfo ==
    Class({"browser", "browser_version", "device_type", "ip", "os",
           "user_agent"},
          Table({"browser", "browser_version", "device_type", "ip", "os",
                 "user_agent"}),
          Table({"browser", "browser_version", "device_type", "ip", "os",
                 "user_agent"}))

\* models/qyl/domains/observe/session/session_entity.py
SessionEntity ==
    Nested(
        Class({"client", "duration_ms", "end_time", "error_count",
               "genai_usage", "geo", "session_id", "span_count",
               "start_time", "state", "trace_count", "user_id"},
              Table({"client", "duration_ms", "end_time", "error_count",
                     "genai_usage", "geo", "span_count", "start_time",
                     "state", "trace_count"}) @@
              ("session.id" :> "session_id") @@
              ("user.id" :> "user_id"),
              Table({"client", "duration_ms", "end_time", "error_count",
                     "genai_usage", "geo", "span_count", "start_time",
                     "state", "trace_count"}) @@
              ("session_id" :> "session.id") @@
              ("user_id" :> "user.id")),
        ("client" :> Object("SessionClientInfo")) @@
        ("genai_usage" :> Object("SessionGenAiUsage")) @@
        ("geo" :> Object("SessionGeoInfo")),
        ("client" :> Object("SessionClientInfo")) @@
        ("genai_usage" :> Object("SessionGenAiUsage")) @@
        ("geo" :> Object("SessionGeoInfo")),
        ("client" :> WritesObject) @@
        ("genai_usage" :> WritesObject) @@
        ("geo" :> WritesObject))

\* models/qyl/domains/observe/session/session_gen_ai_usage.py
SessionGenAiUsage ==
    Class({"estimated_cost_usd", "models_used", "providers_used",
           "request_count", "total_input_tokens", "total_output_tokens"},
          Table({"estimated_cost_usd", "models_used", "providers_used",
                 "request_count", "total_input_tokens", "total_output_tokens"}),
          Table({"estimated_cost_usd", "models_used", "providers_used",
                 "request_count", "total_input_tokens", "total_output_tokens"}))

\* models/qyl/domains/observe/session/session_geo_info.py
SessionGeoInfo ==
    Class({"city", "country_code", "country_name", "postal_code", "region",
           "timezone"},
          Table({"city", "country_code", "country_name", "postal_code",
                 "region", "timezone"}),
          Table({"city", "country_code", "country_name", "postal_code",
                 "region", "timezone"}))

\* models/qyl/domains/observe/session/session_stats.py
SessionStats ==
    Nested(
        Class({"active_sessions", "avg_duration_ms", "bounce_rate",
               "by_country", "by_device_type", "sessions_with_errors",
               "sessions_with_genai", "total_sessions", "unique_users"},
              Table({"active_sessions", "avg_duration_ms", "bounce_rate",
                     "by_country", "by_device_type", "sessions_with_errors",
                     "sessions_with_genai", "total_sessions", "unique_users"}),
              Table({"active_sessions", "avg_duration_ms", "bounce_rate",
                     "by_country", "by_device_type", "sessions_with_errors",
                     "sessions_with_genai", "total_sessions", "unique_users"})),
        NoNesting,
        ("by_country" :> ListOf("SessionCountryStats")) @@
        ("by_device_type" :> ListOf("SessionDeviceStats")),
        ("by_country" :> WritesCollection) @@
        ("by_device_type" :> WritesCollection))

\* models/qyl/domains/ops/cicd/pipeline_run_event.py
PipelineRunEvent ==
    Class({"cicd_pipeline_name", "cicd_pipeline_run_id", "duration_s",
           "event_name", "status", "system", "timestamp", "trigger_type",
           "vcs_repository_ref_name", "vcs_repository_ref_revision"},
          Table({"duration_s", "status", "system", "timestamp",
                 "trigger_type"}) @@
          ("cicd.pipeline.name" :> "cicd_pipeline_name") @@
          ("cicd.pipeline.run.id" :> "cicd_pipeline_run_id") @@
          ("event.name" :> "event_name") @@
          ("vcs.repository.ref.name" :> "vcs_repository_ref_name") @@
          ("vcs.repository.ref.revision" :> "vcs_repository_ref_revision"),
          Table({"duration_s", "status", "system", "timestamp",
                 "trigger_type"}) @@
          ("cicd_pipeline_name" :> "cicd.pipeline.name") @@
          ("cicd_pipeline_run_id" :> "cicd.pipeline.run.id") @@
          ("event_name" :> "event.name") @@
          ("vcs_repository_ref_name" :> "vcs.repository.ref.name") @@
          ("vcs_repository_ref_revision" :> "vcs.repository.ref.revision"))

\* DeploymentEntity with serialize writing deployment_id under its Python
\* name instead of the dotted wire name its deserializer reads.
DeploymentEntityUndotted ==
    Class({"deployed_by", "deployment_id", "duration_s", "end_time",
           "environment", "error_message", "git_branch", "git_commit",
           "healthy_replicas", "previous_version", "replica_count",
           "rollback_target", "service_name", "service_version",
           "start_time", "status", "strategy"},
          Table({"deployed_by", "duration_s", "end_time", "environment",
                 "error_message", "git_branch", "git_commit",
                 "healthy_replicas", "previous_version", "replica_count",
                 "rollback_target", "start_time", "status", "strategy"}) @@
          ("deployment.id" :> "deployment_id") @@
          ("service.name" :> "service_name") @@
          ("service.version" :> "service_version"),
          Table({"deployed_by", "duration_s", "end_time", "environment",
                 "error_message", "git_branch", "git_commit",
                 "healthy_replicas", "previous_version", "replica_count",
                 "rollback_target", "start_time", "status", "strategy"}) @@
          ("deployment_id" :> "deployment_id") @@
          ("service_name" :> "service.name") @@
          ("service_version" :> "service.version"))

\* models/qyl/domains/ops/deployment/deployment_entity.py
DeploymentEntity ==
    Class({"deployed_by", "deployment_id", "duration_s", "end_time",
           "environment", "error_message", "git_branch", "git_commit",
           "healthy_replicas", "previous_version", "replica_count",
           "rollback_target", "service_name", "service_version",
           "start_time", "status", "strategy"},
          Table({"deployed_by", "duration_s", "end_time", "environment",
                 "error_message", "git_branch", "git_commit",
                 "healthy_replicas", "previous_version", "replica_count",
                 "rollback_target", "start_time", "status", "strategy"}) @@
          ("deployment.id" :> "deployment_id") @@
          ("service.name" :> "service_name") @@
          ("service.version" :> "service_version"),
          Table({"deployed_by", "duration_s", "end_time", "environment",
                 "error_message", "git_branch", "git_commit",
                 "healthy_replicas", "previous_version", "replica_count",
                 "rollback_target", "start_time", "status", "strategy"}) @@
          ("deployment_id" :> "deployment.id") @@
          ("service_name" :> "service.name") @@
          ("service_version" :> "service.version"))

\* models/qyl/o_tel/resource/resource.py
Resource ==
    Nested(
        Class({"attributes", "cloud_account_id", "cloud_availability_zone",
               "cloud_platform", "cloud_provider", "cloud_region",
               "container_id", "container_image_name", "container_image_tag",
               "container_name", "deployment_environment_name",
               "dropped_attributes_count", "host_arch", "host_id",
               "host_name", "host_type", "k8s_cluster_name",
               "k8s_deployment_name", "k8s_namespace_name", "k8s_pod_name",
               "k8s_pod_uid", "os_description", "os_type", "os_version",
               "process_command_line", "process_executable_name",
               "process_pid", "process_runtime_name",
               "process_runtime_version", "service_instance_id",
               "service_name", "service_namespace", "service_version",
               "telemetry_auto_version", "telemetry_sdk_language",
               "telemetry_sdk_name", "telemetry_sdk_version"},
              Table({"attributes", "dropped_attributes_count"}) @@
              ("cloud.account.id" :> "cloud_account_id") @@
              ("cloud.availability_zone" :> "cloud_availability_zone") @@
              ("cloud.platform" :> "cloud_platform") @@
              ("cloud.provider" :> "cloud_provider") @@
              ("cloud.region" :> "cloud_region") @@
              ("container.id" :> "container_id") @@
              ("container.image.name" :> "container_image_name") @@
              ("container.image.tag" :> "container_image_tag") @@
              ("container.name" :> "container_name") @@
              ("deployment.environment.name" :> "deployment_environment_name") @@
              ("host.arch" :> "host_arch") @@
              ("host.id" :> "host_id") @@
              ("host.name" :> "host_name") @@
              ("host.type" :> "host_type") @@
              ("k8s.cluster.name" :> "k8s_cluster_name") @@
              ("k8s.deployment.name" :> "k8s_deployment_name") @@
              ("k8s.namespace.name" :> "k8s_namespace_name") @@
              ("k8s.pod.name" :> "k8s_pod_name") @@
              ("k8s.pod.uid" :> "k8s_pod_uid") @@
              ("os.description" :> "os_description") @@
              ("os.type" :> "os_type") @@
              ("os.version" :> "os_version") @@
              ("process.command_line" :> "process_command_line") @@
              ("process.executable.name" :> "process_executable_name") @@
              ("process.pid" :> "process_pid") @@
              ("process.runtime.name" :> "process_runtime_name") @@
              ("process.runtime.version" :> "process_runtime_version") @@
              ("service.instance.id" :> "service_instance_id") @@
              ("service.name" :> "service_name") @@
              ("service.namespace" :> "service_namespace") @@
              ("service.version" :> "service_version") @@
              ("telemetry.auto.version" :> "telemetry_auto_version") @@
              ("telemetry.sdk.language" :> "telemetry_sdk_language") @@
              ("telemetry.sdk.name" :> "telemetry_sdk_name") @@
              ("telemetry.sdk.version" :> "telemetry_sdk_version"),
              Table({"attributes", "dropped_attributes_count"}) @@
              ("cloud_account_id" :> "cloud.account.id") @@
              ("cloud_availability_zone" :> "cloud.availability_zone") @@
              ("cloud_platform" :> "cloud.platform") @@
              ("cloud_provider" :> "cloud.provider") @@
              ("cloud_region" :> "cloud.region") @@
              ("container_id" :> "container.id") @@
              ("container_image_name" :> "container.image.name") @@
              ("container_image_tag" :> "container.image.tag") @@
              ("container_name" :> "container.name") @@
              ("deployment_environment_name" :> "deployment.environment.name") @@
              ("host_arch" :> "host.arch") @@
              ("host_id" :> "host.id") @@
              ("host_name" :> "host.name") @@
              ("host_type" :> "host.type") @@
              ("k8s_cluster_name" :> "k8s.cluster.name") @@
              ("k8s_deployment_name" :> "k8s.deployment.name") @@
              ("k8s_namespace_name" :> "k8s.namespace.name") @@
              ("k8s_pod_name" :> "k8s.pod.name") @@
              ("k8s_pod_uid" :> "k8s.pod.uid") @@
              ("os_description" :> "os.description") @@
              ("os_type" :> "os.type") @@
              ("os_version" :> "os.version") @@
              ("process_command_line" :> "process.command_line") @@
              ("process_executable_name" :> "process.executable.name") @@
              ("process_pid" :> "process.pid") @@
              ("process_runtime_name" :> "process.runtime.name") @@
              ("process_runtime_version" :> "process.runtime.version") @@
              ("service_instance_id" :> "service.instance.id") @@
              ("service_name" :> "service.name") @@
              ("service_namespace" :> "service.namespace") @@
              ("service_version" :> "service.version") @@
              ("telemetry_auto_version" :> "telemetry.auto.version") @@
              ("telemetry_sdk_language" :> "telemetry.sdk.language") @@
              ("telemetry_sdk_name" :> "telemetry.sdk.name") @@
              ("telemetry_sdk_version" :> "telemetry.sdk.version")),
        ("attributes" :> ListOf("Attribute")),
        ("attributes" :> ListOf("Attribute")),
        ("attributes" :> WritesCollection))

\* models/qyl/o_tel/traces/span.py
Span ==
    Nested(
        Class({"attributes", "dropped_attributes_count",
               "dropped_events_count", "dropped_links_count",
               "end_time_unix_nano", "events", "flags",
               "instrumentation_scope", "kind", "links", "name",
               "parent_span_id", "resource", "span_id",
               "start_time_unix_nano", "status", "trace_id", "trace_state"},
              Table({"attributes", "dropped_attributes_count",
                     "dropped_events_count", "dropped_links_count",
                     "end_time_unix_nano", "events", "flags",
                     "instrumentation_scope", "kind", "links", "name",
                     "parent_span_id", "resource", "span_id",
                     "start_time_unix_nano", "status", "trace_id",
                     "trace_state"}),
              Table({"attributes", "dropped_attributes_count",
                     "dropped_events_count", "dropped_links_count",
                     "end_time_unix_nano", "events", "flags",
                     "instrumentation_scope", "kind", "links", "name",
                     "parent_span_id", "resource", "span_id",
                     "start_time_unix_nano", "status", "trace_id",
                     "trace_state"})),
        ("attributes" :> ListOf("Attribute")) @@
        ("events" :> ListOf("SpanEvent")) @@
        ("instrumentation_scope" :> Object("InstrumentationScope")) @@
        ("resource" :> Object("Resource")),
        ("attributes" :> ListOf("Attribute")) @@
        ("events" :> ListOf("SpanEvent")) @@
        ("instrumentation_scope" :> Object("InstrumentationScope")) @@
        ("links" :> ListOf("SpanLink")) @@
        ("resource" :> Object("Resource")) @@
        ("status" :> Object("SpanStatus")),
        ("attributes" :> WritesCollection) @@
        ("events" :> WritesCollection) @@
        ("instrumentation_scope" :> WritesObject) @@
        ("links" :> WritesCollection) @@
        ("resource" :> WritesObject) @@
        ("status" :> WritesObject))

\* models/qyl/o_tel/traces/span_event.py
SpanEvent ==
    Nested(
        Class({"attributes", "dropped_attributes_count", "name",
               "time_unix_nano"},
              Table({"attributes", "dropped_attributes_count", "name",
                     "time_unix_nano"}),
              Table({"attributes", "dropped_attributes_count", "name",
                     "time_unix_nano"})),
        ("attributes" :> ListOf("Attribute")),
        ("attributes" :> ListOf("Attribute")),
        ("attributes" :> WritesCollection))

\* models/qyl/o_tel/traces/trace.py
Trace ==
    Nested(
        Class({"duration_ns", "end_time", "has_error", "root_span",
               "services", "span_count", "spans", "start_time", "trace_id"},
              Table({"duration_ns", "end_time", "has_error", "root_span",
                     "services", "span_count", "spans", "start_time",
                     "trace_id"}),
              Table({"duration_ns", "end_time", "has_error", "root_span",
                     "services", "span_count", "spans", "start_time",
                     "trace_id"})),
        ("root_span" :> Object("Span")) @@
        ("spans" :> ListOf("Span")),
        ("root_span" :> Object("Span")) @@
        ("spans" :> ListOf("Span")),
        ("root_span" :> WritesObject) @@
        ("spans" :> WritesCollection))

\* models/service_details.py
ServiceDetails ==
    Nested(
        Class({"avg_latency_ms", "error_rate", "instance_count",
               "instrumentation_libraries", "last_seen", "name",
               "namespace_name", "p99_latency_ms", "request_rate",
               "resource_attributes", "version"},
              Table({"avg_latency_ms", "error_rate", "instance_count",
                     "instrumentation_libraries", "last_seen", "name",
                     "namespace_name", "p99_latency_ms", "request_rate",
                     "resource_attributes", "version"}),
              Table({"avg_latency_ms", "error_rate", "instance_count",
                     "instrumentation_libraries", "last_seen", "name",
                     "namespace_name", "p99_latency_ms", "request_rate",
                     "resource_attributes", "version"})),
        ("instrumentation_libraries" :> ListOf("InstrumentationScope")) @@
        ("resource_attributes" :> ListOf("Attribute")),
        ("instrumentation_libraries" :> ListOf("InstrumentationScope")) @@
        ("resource_attributes" :> ListOf("Attribute")),
        ("instrumentation_libraries" :> WritesCollection) @@
        ("resource_attributes" :> WritesCollection))

\* models/service_info.py
ServiceInfo ==
    Class({"instance_count", "last_seen", "name", "namespace_name", "version"},
          Table({"instance_count", "last_seen", "name", "namespace_name",
                 "version"}),
          Table({"instance_count", "last_seen", "name", "namespace_name",
                 "version"}))

\* models/trace_query.py
TraceQuery ==
    Nested(
        Class({"cursor", "end_time", "limit", "max_duration_ms",
               "min_duration_ms", "operation_name", "query", "service_name",
               "start_time", "status", "tags"},
              Table({"cursor", "end_time", "limit", "max_duration_ms",
                     "min_duration_ms", "operation_name", "query",
                     "service_name", "start_time", "status", "tags"}),
              Table({"cursor", "end_time", "limit", "max_duration_ms",
                     "min_duration_ms", "operation_name", "query",
                     "service_name", "start_time", "status", "tags"})),
        NoNesting,
        ("tags" :> Object("TraceQuery_tags")),
        ("tags" :> WritesObject))

\* v1/services/services_get_response.py
ServicesGetResponse ==
    Nested(
        Class({"has_more", "items", "next_cursor", "prev_cursor"},
              Table({"has_more", "items", "next_cursor", "prev_cursor"}),
              Table({"has_more", "items", "next_cursor", "prev_cursor"})),
        ("items" :> ListOf("ServiceInfo")),
        ("items" :> ListOf("ServiceInfo")),
        ("items" :> WritesCollection))

\* Every class, by name.
AllClasses ==
    ("DeploymentCreate" :> DeploymentCreate) @@
    ("DeploymentUpdate" :> DeploymentUpdate) @@
    ("DoraMetrics" :> DoraMetrics) @@
    ("ErrorUpdate" :> ErrorUpdate) @@
    ("HealthResponse" :> HealthResponse) @@
    ("LogAggregationResponse" :> LogAggregationResponse) @@
    ("MetricQueryRequest" :> MetricQueryRequest) @@
    ("MetricTimeSeries" :> MetricTimeSeries) @@
    ("OperationInfo" :> OperationInfo) @@
    ("PipelineStats" :> PipelineStats) @@
    ("Attribute" :> Attribute) @@
    ("ValidationErrorDetail" :> ValidationErrorDetail) @@
    ("InstrumentationScope" :> InstrumentationScope) @@
    ("CodeLocation" :> CodeLocation) @@
    ("StackFrame" :> StackFrame) @@
    ("StackTrace" :> StackTrace) @@
    ("ServiceDependency" :> ServiceDependency) @@
    ("CorrelatedError" :> CorrelatedError) @@
    ("ErrorCategoryStats" :> ErrorCategoryStats) @@
    ("ErrorCorrelation" :> ErrorCorrelation) @@
    ("ErrorEntity" :> ErrorEntity) @@
    ("ErrorStats" :> ErrorStats) @@
    ("ErrorTypeStats" :> ErrorTypeStats) @@
    ("EnrichedException" :> EnrichedException) @@
    ("ExceptionServiceStats" :> ExceptionServiceStats) @@
    ("ExceptionStats" :> ExceptionStats) @@
    ("ExceptionTypeStats" :> ExceptionTypeStats) @@
    ("SessionClientInfo" :> SessionClientInfo) @@
    ("SessionEntity" :> SessionEntity) @@
    ("SessionGenAiUsage" :> SessionGenAiUsage) @@
    ("SessionGeoInfo" :> SessionGeoInfo) @@
    ("SessionStats" :> SessionStats) @@
    ("PipelineRunEvent" :> PipelineRunEvent) @@
    ("DeploymentEntity" :> DeploymentEntity) @@
    ("Resource" :> Resource) @@
    ("Span" :> Span) @@
    ("SpanEvent" :> SpanEvent) @@
    ("Trace" :> Trace) @@
    ("ServiceDetails" :> ServiceDetails) @@
    ("ServiceInfo" :> ServiceInfo) @@
    ("TraceQuery" :> TraceQuery) @@
    ("ServicesGetResponse" :> ServicesGetResponse) @@
    ("InternalServerError" :> InternalServerError)

=============================================================================
