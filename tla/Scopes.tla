------------------------------- MODULE Scopes -------------------------------
(***************************************************************************)
(* The resource scopes of KubecTUI and the tables that give each view the  *)
(* scopes it needs, requests and watches.  A RefreshScope is a bit set in  *)
(* the code; here it is a set of flags, so that union, intersection,       *)
(* without, contains and intersects are the set operators.                 *)
(***************************************************************************)

NONE == {}

WATCHED_SCOPES ==
    {"NODES", "PODS", "SERVICES", "DEPLOYMENTS", "STATEFULSETS", "DAEMONSETS",
     "REPLICASETS", "REPLICATION_CONTROLLERS", "JOBS", "CRONJOBS", "NAMESPACES"}

DASHBOARD_WATCHED ==
    {"NODES", "PODS", "SERVICES", "DEPLOYMENTS", "STATEFULSETS", "DAEMONSETS",
     "NAMESPACES"}

CORE_OVERVIEW == WATCHED_SCOPES \cup {"NAMESPACES"}

LEGACY_SECONDARY ==
    {"NETWORK", "CONFIG", "STORAGE", "SECURITY", "HELM", "EXTENSIONS"}

ISSUE_DIAGNOSTICS ==
    CORE_OVERVIEW \cup {"NETWORK", "CONFIG", "STORAGE", "SECURITY", "FLUX"}

SANITIZER_DIAGNOSTICS == CORE_OVERVIEW \cup {"CONFIG", "SECURITY"}

Flags ==
    WATCHED_SCOPES \cup LEGACY_SECONDARY
        \cup {"METRICS", "FLUX", "EVENTS", "LOCAL_HELM_REPOSITORIES"}

-----------------------------------------------------------------------------
(* The views, grouped the way the code's match arms group them.            *)

NetworkViews ==
    {"Endpoints", "Ingresses", "IngressClasses", "GatewayClasses", "Gateways",
     "HttpRoutes", "GrpcRoutes", "ReferenceGrants", "NetworkPolicies"}

ConfigViews ==
    {"ConfigMaps", "Secrets", "ResourceQuotas", "LimitRanges", "HPAs",
     "PodDisruptionBudgets", "PriorityClasses"}

StorageViews ==
    {"PersistentVolumeClaims", "PersistentVolumes", "StorageClasses"}

RbacViews ==
    {"ServiceAccounts", "ClusterRoles", "Roles", "ClusterRoleBindings",
     "RoleBindings"}

FluxViews ==
    {"FluxCDAlertProviders", "FluxCDAlerts", "FluxCDAll", "FluxCDArtifacts",
     "FluxCDHelmReleases", "FluxCDHelmRepositories", "FluxCDImages",
     "FluxCDKustomizations", "FluxCDReceivers", "FluxCDSources"}

\* The views that show one watched resource, with its flag.
WatchedFlag ==
    [Nodes |-> "NODES", Namespaces |-> "NAMESPACES", Pods |-> "PODS",
     Deployments |-> "DEPLOYMENTS", StatefulSets |-> "STATEFULSETS",
     DaemonSets |-> "DAEMONSETS", ReplicaSets |-> "REPLICASETS",
     ReplicationControllers |-> "REPLICATION_CONTROLLERS", Jobs |-> "JOBS",
     CronJobs |-> "CRONJOBS", Services |-> "SERVICES"]

AppViews ==
    DOMAIN WatchedFlag \cup NetworkViews \cup ConfigViews \cup StorageViews
        \cup RbacViews \cup FluxViews
        \cup {"Dashboard", "Projects", "Governance", "Bookmarks", "Issues",
              "HealthReport", "Vulnerabilities", "PortForwarding", "HelmCharts",
              "HelmReleases", "Extensions", "Events"}

-----------------------------------------------------------------------------
\* GlobalState::view_ready_scope: what must be loaded for a view to be Ready.
ViewReadyScope(v) ==
    CASE v = "Dashboard" -> DASHBOARD_WATCHED
      [] v = "Projects" ->
            CORE_OVERVIEW \cup LEGACY_SECONDARY \cup {"NETWORK", "SECURITY"}
      [] v = "Governance" ->
            CORE_OVERVIEW \cup {"METRICS"} \cup LEGACY_SECONDARY
                \cup {"NETWORK", "SECURITY"}
      [] v \in {"Bookmarks", "PortForwarding"} -> NONE
      [] v = "Issues" -> ISSUE_DIAGNOSTICS
      [] v = "HealthReport" -> SANITIZER_DIAGNOSTICS
      [] v = "Vulnerabilities" -> {"SECURITY"}
      [] v \in DOMAIN WatchedFlag -> {WatchedFlag[v]}
      [] v = "HelmCharts" -> {"LOCAL_HELM_REPOSITORIES"}
      [] v \in NetworkViews -> {"NETWORK"}
      [] v \in ConfigViews -> {"CONFIG"}
      [] v \in StorageViews -> {"STORAGE"}
      [] v = "HelmReleases" -> {"HELM"}
      [] v \in FluxViews -> {"FLUX"}
      [] v \in RbacViews -> {"SECURITY"}
      [] v = "Extensions" -> {"EXTENSIONS"}
      [] OTHER -> {"EVENTS"}   \* Events

\* watch_scope_for_view, before normalize_watch_scope.
WatchScopeForView(v) ==
    CASE v \in {"Dashboard", "Issues", "HealthReport"} -> DASHBOARD_WATCHED
      [] v \in {"Projects", "Governance"} -> CORE_OVERVIEW
      [] v \in DOMAIN WatchedFlag -> {WatchedFlag[v]}
      [] OTHER -> NONE

\* normalize_watch_scope: Flux is never watch-covered, Namespaces always is.
NormalizeWatchScope(scope) == (scope \ {"FLUX"}) \cup {"NAMESPACES"}

-----------------------------------------------------------------------------
(* A RefreshDispatch.  target_view is the view it was built for, or NoView *)
(* for the view-independent ones.  include_cluster_info only adds one      *)
(* version request to a fetch and is left out.                             *)

NoView == "none"

Dispatch(primary, scope, view) ==
    [primary_scope |-> primary, scope |-> scope, target_view |-> view]

FullRefreshOptions(include_flux, include_cluster_info) ==
    LET scope == CORE_OVERVIEW \cup LEGACY_SECONDARY
                    \cup {"LOCAL_HELM_REPOSITORIES"}
                    \cup (IF include_flux THEN {"FLUX"} ELSE {})
                    \cup (IF include_cluster_info THEN {"METRICS"} ELSE {})
    IN  Dispatch(scope \ LEGACY_SECONDARY, scope, NoView)

FastRefreshOptions(include_flux) ==
    LET scope == CORE_OVERVIEW \cup (IF include_flux THEN {"FLUX"} ELSE {})
    IN  Dispatch(scope, scope, NoView)

\* refresh_options_for_view: the dispatch of navigation and of auto-refresh.
RefreshOptionsForView(v, include_flux, force_cluster_info) ==
    LET whole(scope) == Dispatch(scope, scope, v)
        ready == ViewReadyScope(v)
    IN  CASE v \in {"Dashboard", "Pods", "Nodes"} ->
                Dispatch(ready, ready \cup {"METRICS"}, v)
          [] v \in {"Projects", "Governance", "Issues", "HealthReport"} ->
                Dispatch(CORE_OVERVIEW, ready, v)
          [] v = "Bookmarks" ->
                [FullRefreshOptions(include_flux, force_cluster_info)
                    EXCEPT !.target_view = v]
          [] v \in {"PortForwarding", "Events"} -> whole(NONE)
          [] OTHER -> whole(ready)

\* view_prefers_secondary_refresh
ViewPrefersSecondaryRefresh(v) ==
    v \notin DOMAIN WatchedFlag \cup FluxViews
              \cup {"Dashboard", "Events", "PortForwarding", "HelmCharts"}

\* mutation_refresh_options: the dispatch that follows a successful mutation.
MutationRefreshOptions(v, include_flux) ==
    IF ViewPrefersSecondaryRefresh(v)
    THEN RefreshOptionsForView(v, include_flux, FALSE)
    ELSE FastRefreshOptions(include_flux)

\* strip_active_watch_scope_from_refresh
StripActiveWatchScope(dispatch, active) ==
    [dispatch EXCEPT !.primary_scope = @ \ active, !.scope = @ \ active]

=============================================================================
