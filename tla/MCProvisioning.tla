--------------------------- MODULE MCProvisioning ---------------------------
(* Instances of Provisioning for TLC.                                      *)
EXTENDS Provisioning

\* What still has to be made: policies of two namespaces, a role, two of the
\* secrets, the jobs, Temporal, and the path from the app to the Ingress.
MCNew ==
    {<<"DefaultDeny", "vici">>, Policy("vici-egress"),
     <<"DefaultDeny", "external-secrets">>, Policy("eso-webhook-ingress"),
     <<"IAMMember", "app-gsa-cloudsql-client">>, AppDatabase,
     ExternalSecret("temporal-db-password"), ExternalSecret("webhook-base-url"),
     SchemaJob, Release("temporal"), MigrationJob,
     AppDeployment, Service("vici-app"), Ingress, WebhookUrlVersion,
     <<"DefaultDeny", "observability">>, Release("kube-prometheus")}

\* What that depends on, and the other policies.
MCAll ==
    {r \in AllResources :
        /\ r[1] \notin {"HorizontalPodAutoscaler", "PodDisruptionBudget"}
        /\ r[2] \notin {"fastapi-dashboard", "temporal-dashboard", "fastapi-metrics"}}

MCExisting == MCAll \ MCNew

\* iam.py gives the account of Temporal no access to Secret Manager.
AccessByHand == {<<TemporalGsa, "secretmanager.secretAccessor">>}

\* The instance is one the theorem on NothingCutOff is about.
ASSUME MCInstanceAssumption == PoliciesComplete /\ MissingRules \subseteq Opened
=============================================================================
