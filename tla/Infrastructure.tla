--------------------------- MODULE Infrastructure ---------------------------
(***************************************************************************)
(* What infra/ declares: the resources of the Pulumi program, what each of *)
(* them waits for (depends_on, or an output of another resource it reads), *)
(* the roles it grants and the network policies it applies.  A resource is *)
(* a pair of its type and its name; one edge <<r, d>> says r needs d.      *)
(***************************************************************************)
EXTENDS Integers, FiniteSets

Needs(r, deps) == {r} \X deps

Slugs == {"twilio-auth-token", "twilio-account-sid", "twilio-from-number",
          "openai-api-key", "pinecone-api-key", "pinecone-index-host",
          "braintrust-api-key", "database-url", "temporal-address",
          "otel-exporter-otlp-endpoint", "webhook-base-url",
          "phone-hash-pepper", "temporal-db-password"}

EnvFromSources ==
    {"twilio-auth-token", "twilio-account-sid", "twilio-from-number",
     "openai-api-key", "pinecone-api-key", "pinecone-index-host",
     "braintrust-api-key", "database-url", "temporal-address",
     "otel-exporter-otlp-endpoint", "webhook-base-url", "phone-hash-pepper"}

SlugNamespace(s) == IF s = "temporal-db-password" THEN "temporal" ELSE "vici"

AllNamespaces == {"vici", "temporal", "observability", "cert-manager",
                  "external-secrets"}

----------------------------------------------------------------------------
(* Names of resources that several components refer to                     *)

Cluster         == <<"Cluster", "vici-cluster">>
Provider        == <<"Provider", "k8s-provider">>
Namespace(ns)   == <<"Namespace", ns>>
AppGsa          == <<"Account", "app-gsa">>
TemporalGsa     == <<"Account", "temporal-gsa">>
CiPushSa        == <<"Account", "ci-push-sa">>
AppBinding      == <<"IAMBinding", "app-wi-binding">>
TemporalBinding == <<"IAMBinding", "temporal-wi-binding">>
AppDb           == <<"DatabaseInstance", "vici-app">>
AppDatabase     == <<"Database", "vici">>
TemporalDb      == <<"DatabaseInstance", "vici-temporal">>
KSA(name)       == <<"ServiceAccount", name>>
Secret(s)       == <<"Secret", s>>
SecretStore(ns) == <<"SecretStore", ns>>
ExternalSecret(s) == <<"ExternalSecret", s>>
Release(name)   == <<"Release", name>>
Job(name)       == <<"Job", name>>
Deployment(name) == <<"Deployment", name>>
Service(name)   == <<"Service", name>>
ConfigMap(name) == <<"ConfigMap", name>>
Issuer(name)    == <<"Issuer", name>>
Policy(name)    == <<"NetworkPolicy", name>>
TlsSecret       == <<"Secret", "vici-tls-placeholder">>
Ingress         == <<"Ingress", "vici-ingress">>
WebhookUrlVersion == <<"SecretVersion", "webhook-base-url">>

MigrationJob   == Job("alembic-migration")
SchemaJob      == Job("temporal-schema-migration")
IndexJob       == Job("opensearch-index-template")
AppDeployment  == Deployment("vici-app")

----------------------------------------------------------------------------
(* depends_on, one definition per component                                *)

ClusterNeeds == Needs(Provider, {Cluster})

NamespaceNeeds ==
    UNION {Needs(Namespace(ns), {Cluster, Provider}) : ns \in AllNamespaces}

IdentityNeeds == Needs(AppBinding, {AppGsa, Cluster})

IamNeeds ==
    Needs(TemporalBinding, {TemporalGsa, Cluster})
    \union Needs(<<"IAMMember", "app-gsa-cloudsql-client">>, {AppGsa})
    \union Needs(<<"IAMMember", "app-gsa-secret-accessor">>, {AppGsa})
    \union Needs(<<"IAMMember", "temporal-gsa-cloudsql-client">>, {TemporalGsa})
    \union Needs(KSA("vici-app"), {Namespace("vici"), AppGsa})
    \union Needs(KSA("temporal-app"), {Namespace("temporal"), TemporalGsa})

RegistryNeeds ==
    Needs(<<"RepositoryIamMember", "ci-push-iam">>,
          {<<"Repository", "vici-registry">>, CiPushSa})

CdNeeds ==
    LET pool == <<"WorkloadIdentityPool", "github-wif-pool">> IN
    Needs(<<"WorkloadIdentityPoolProvider", "github-wif-provider">>, {pool})
    \union Needs(<<"IAMBinding", "ci-wif-iam-binding">>, {pool, CiPushSa})
    \union (UNION {Needs(<<"IAMMember", m>>, {CiPushSa}) :
                      m \in {"ci-sa-storage-admin", "ci-sa-container-developer",
                             "ci-sa-compute-viewer"}})

DatabaseNeeds ==
    LET address == <<"GlobalAddress", "cloudsql-private-ip-range">>
        peering == <<"Connection", "cloudsql-vpc-peering">> IN
    Needs(address, {Cluster})
    \union Needs(peering, {Cluster, address})
    \union Needs(AppDb, {peering, Cluster})
    \union Needs(AppDatabase, {AppDb})
    \union Needs(TemporalDb, {peering, Cluster})
    \union Needs(<<"Database", "temporal">>, {TemporalDb})
    \union Needs(<<"Database", "temporal_visibility">>, {TemporalDb})

SecretNeeds ==
    Needs(Release("external-secrets"), {Namespace("external-secrets")})
    \union Needs(KSA("observability-app"), {Namespace("observability")})
    \union (UNION {Needs(SecretStore(ns),
                         {Release("external-secrets"), Namespace(ns)}) :
                   ns \in {"vici", "temporal", "observability"}})
    \union (UNION {Needs(ExternalSecret(s),
                         {SecretStore(SlugNamespace(s)), Secret(s)}) : s \in Slugs})

MigrationNeeds ==
    Needs(MigrationJob, {AppDb, ExternalSecret("database-url"), Namespace("vici")})

\* (Bug variant: the deployment does not wait for the migration.)
AppNeedsUnmigrated ==
    Needs(AppDeployment, {AppDb, KSA("vici-app"), Namespace("vici")}
                         \union {ExternalSecret(s) : s \in EnvFromSources})

AppNeeds ==
    Needs(AppDeployment, {AppDb, MigrationJob, KSA("vici-app"), Namespace("vici")}
                         \union {ExternalSecret(s) : s \in EnvFromSources})

AppServiceNeeds ==
    Needs(Service("vici-app"), {AppDeployment})
    \union Needs(<<"HorizontalPodAutoscaler", "vici-app">>, {AppDeployment})

SchemaJobNeeds ==
    Needs(SchemaJob, {TemporalDb, KSA("temporal-app"), Namespace("temporal"),
                      ExternalSecret("temporal-db-password")})

TemporalNeeds ==
    Needs(Release("temporal"),
          {SchemaJob, Release("opensearch"), KSA("temporal-app"),
           Namespace("temporal"), ExternalSecret("temporal-db-password")})

OpensearchNeeds ==
    Needs(Release("opensearch"), {Namespace("observability")})
    \union Needs(IndexJob, {Release("opensearch")})

JaegerConfigNeeds ==
    {ConfigMap("jaeger-collector"), ConfigMap("jaeger-query")}
        \X {Namespace("observability")}

CollectorNeeds ==
    Needs(Deployment("jaeger-collector"), {ConfigMap("jaeger-collector"), IndexJob})
    \union Needs(Service("jaeger-collector"), {Deployment("jaeger-collector")})

QueryNeeds ==
    Needs(Deployment("jaeger-query"), {ConfigMap("jaeger-query"), IndexJob})
    \union Needs(Service("jaeger-query"), {Deployment("jaeger-query")})

PrometheusNeeds ==
    LET release == Release("kube-prometheus") IN
    Needs(release, {Namespace("observability")})
    \union {ConfigMap("fastapi-dashboard"), ConfigMap("temporal-dashboard"),
            <<"ServiceMonitor", "fastapi-metrics">>} \X {release}

CertManagerNeeds == Needs(Release("cert-manager"), {Namespace("cert-manager")})

IssuerNeeds ==
    {Issuer("letsencrypt-staging"), Issuer("letsencrypt-prod")}
        \X {Release("cert-manager"), Namespace("vici")}

IngressNeeds ==
    Needs(TlsSecret, {Namespace("vici")})
    \union Needs(Ingress, {TlsSecret, Issuer("letsencrypt-staging"),
                           Issuer("letsencrypt-prod"), Service("vici-app")})
    \union Needs(WebhookUrlVersion, {Ingress})

PdbNeeds ==
    UNION {Needs(<<"PodDisruptionBudget", pdb[1]>>, {Namespace(pdb[2])}) :
              pdb \in {<<"vici-app", "vici">>, <<"temporal-frontend", "temporal">>,
                       <<"temporal-history", "temporal">>}}

----------------------------------------------------------------------------
(* Roles: what a Google service account may do, and the resource that      *)
(* grants it.                                                              *)

Gsa(ns) == IF ns = "temporal" THEN TemporalGsa ELSE AppGsa
Binding(ns) == IF ns = "temporal" THEN TemporalBinding ELSE AppBinding

\* <<resource, service account, role>>
Grants ==
    {<<<<"IAMMember", "app-gsa-cloudsql-client">>, AppGsa, "cloudsql.client">>,
     <<<<"IAMMember", "app-gsa-secret-accessor">>, AppGsa,
       "secretmanager.secretAccessor">>,
     <<<<"IAMMember", "temporal-gsa-cloudsql-client">>, TemporalGsa,
       "cloudsql.client">>}

----------------------------------------------------------------------------
(* Network policies                                                        *)

\* Classes of pods by namespace and label.
Pods(ns) == IF ns = "vici" THEN {"app", "migration"} ELSE {ns}

Peers == (UNION {Pods(ns) : ns \in AllNamespaces})
         \union {"internet", "metadata", "kube-dns", "kube-system", "apiserver"}

\* ip_block 0.0.0.0/0: what is outside the cluster, and the API server.
Anywhere == {"internet", "apiserver"}

\* One allow rule.  A policy without rules still selects its pods: peers {}.
Rule(policy, dir, pods, peers, ports) ==
    [policy |-> policy, dir |-> dir, pods |-> pods,
     peers |-> peers, ports |-> ports]

DefaultDeny ==
    {Rule(<<"DefaultDeny", ns>>, dir, Pods(ns), {}, {}) :
        ns \in AllNamespaces, dir \in {"ingress", "egress"}}

DnsAllow ==
    {Rule(<<"AllowDns", ns>>, "egress", Pods(ns), Peers, {53}) : ns \in AllNamespaces}

MetadataAllow ==
    {Rule(<<"AllowMetadata", ns>>, "egress", Pods(ns), {"metadata"}, {80}) :
        ns \in AllNamespaces}

\* (Bug variant: the Auth Proxy's data port is forgotten.)
ViciRulesWithoutProxy ==
    {Rule(Policy("vici-ingress"), "ingress", {"app"},
          {"kube-system"} \union Pods("observability"), {8000}),
     Rule(Policy("vici-egress"), "egress", {"app"}, Pods("temporal"), {7233}),
     Rule(Policy("vici-egress"), "egress", {"app"}, Pods("observability"), {4317}),
     Rule(Policy("vici-egress"), "egress", {"app"}, Anywhere, {443})}

ViciRules ==
    {Rule(Policy("vici-ingress"), "ingress", {"app"},
          {"kube-system"} \union Pods("observability"), {8000}),
     Rule(Policy("vici-egress"), "egress", {"app"}, Pods("temporal"), {7233}),
     Rule(Policy("vici-egress"), "egress", {"app"}, Pods("observability"), {4317}),
     Rule(Policy("vici-egress"), "egress", {"app"}, Anywhere, {443, 3307})}

MigrationRules ==
    {Rule(Policy("vici-migration-egress"), "egress", {"migration"}, Anywhere, {443, 3307})}

TemporalRules ==
    {Rule(Policy("temporal-ingress"), "ingress", Pods("temporal"), Pods("vici"), {7233}),
     Rule(Policy("temporal-egress"), "egress", Pods("temporal"), Pods("observability"), {9200}),
     Rule(Policy("temporal-egress"), "egress", Pods("temporal"), Anywhere, {443, 3307})}

ObservabilityRules ==
    LET obs == Pods("observability") IN
    {Rule(Policy("obs-ingress"), "ingress", obs, Pods("vici"), {4317}),
     Rule(Policy("obs-ingress"), "ingress", obs, Peers, {16686}),
     Rule(Policy("obs-ingress"), "ingress", obs, Pods("temporal"), {9200}),
     Rule(Policy("obs-egress"), "egress", obs, obs, {9200}),
     Rule(Policy("obs-egress"), "egress", obs, Pods("temporal"), {7233}),
     Rule(Policy("obs-egress"), "egress", obs, Pods("vici"), {8000})}

CertManagerRules ==
    {Rule(Policy("certmgr-webhook-ingress"), "ingress", Pods("cert-manager"), Peers,
          {10250, 6080, 9402, 9403}),
     Rule(Policy("certmgr-egress"), "egress", Pods("cert-manager"), Anywhere, {443})}

\* (Bug variant: the webhook is let in on the port of its Service.)
EsoRulesServicePort ==
    {Rule(Policy("eso-webhook-ingress"), "ingress", Pods("external-secrets"), Peers, {443}),
     Rule(Policy("eso-egress"), "egress", Pods("external-secrets"), Anywhere, {443})}

EsoRules ==
    {Rule(Policy("eso-webhook-ingress"), "ingress", Pods("external-secrets"), Peers,
          {10250, 8080, 8081}),
     Rule(Policy("eso-egress"), "egress", Pods("external-secrets"), Anywhere, {443})}

Rules ==
    DefaultDeny \union DnsAllow \union MetadataAllow \union ViciRules
    \union MigrationRules \union TemporalRules \union ObservabilityRules
    \union CertManagerRules \union EsoRules

NamespaceOf(r) == CHOOSE ns \in AllNamespaces : r.pods \subseteq Pods(ns)

PolicyNeeds == {<<r.policy, Namespace(NamespaceOf(r))>> : r \in Rules}

----------------------------------------------------------------------------
(* The connections the workloads make: <<resource, pod, peer, port>>.      *)

\* The ports on which frontend, history, matching and worker of the Temporal
\* chart call each other and keep their membership.
ServerPorts == {6933, 6934, 6935, 6939, 7233, 7234, 7235}

OperatorCharts == {"external-secrets", "cert-manager"}

SearchClients ==
    {IndexJob, Deployment("jaeger-collector"), Deployment("jaeger-query")}

\* The resources that the API server shows to the webhook of an operator.
Admitted(operator) ==
    IF operator = "cert-manager"
    THEN {Issuer("letsencrypt-staging"), Issuer("letsencrypt-prod")}
    ELSE {SecretStore(ns) : ns \in {"vici", "temporal", "observability"}}
         \union {ExternalSecret(s) : s \in Slugs}

\* Those without which the resource does not become ready.
StartPaths ==
    ({Release("temporal")} \X {"temporal"} \X {"temporal"} \X ServerPorts)
    \union (SearchClients \X {"observability"} \X {"observability"} \X {9200})
    \union {<<Release("temporal"), "temporal", "observability", 9200>>,
            <<AppDeployment, "app", "temporal", 7233>>,
            <<Release("kube-prometheus"), "observability", "apiserver", 443>>}
    \union UNION {({Release(op)} \X {op} \X {"apiserver"} \X {443})
                  \union (Admitted(op) \X {"apiserver"} \X {op} \X {10250}) :
                     op \in OperatorCharts}

\* Those it is there for, once it runs: traces, scrapes, dashboards, the
\* load balancer, certificates, secrets.
UsePaths ==
    LET prometheus == Release("kube-prometheus") IN
    {<<prometheus, "observability", "app", 8000>>,
     <<prometheus, "observability", "temporal", 7233>>,
     <<prometheus, "observability", "observability", 9090>>,
     <<prometheus, "observability", "observability", 16686>>,
     <<AppDeployment, "app", "observability", 4317>>,
     <<Ingress, "kube-system", "app", 8000>>}
    \union {<<Release(op), op, "internet", 443>> : op \in OperatorCharts}

----------------------------------------------------------------------------
(* The whole program                                                       *)

DependsOn ==
    ClusterNeeds \union NamespaceNeeds \union IdentityNeeds \union IamNeeds
    \union RegistryNeeds \union CdNeeds \union DatabaseNeeds
    \union SecretNeeds \union MigrationNeeds \union AppNeeds
    \union AppServiceNeeds \union SchemaJobNeeds \union TemporalNeeds
    \union OpensearchNeeds \union JaegerConfigNeeds \union CollectorNeeds
    \union QueryNeeds \union PrometheusNeeds \union CertManagerNeeds
    \union IssuerNeeds \union IngressNeeds \union PdbNeeds \union PolicyNeeds

StateBucket == <<"Bucket", "pulumi-state-bucket">>

AllResources == {StateBucket} \union UNION {{e[1], e[2]} : e \in DependsOn}
=============================================================================
