------------------------- MODULE ProvisioningProofs -------------------------
(***************************************************************************)
(* Proofs about Provisioning for any set of resources still to be made,    *)
(* any secrets the operator gives and any roles granted by hand: types,    *)
(* and that the app is let into service only on a migrated database and    *)
(* with every secret given by the operator.                                *)
(***************************************************************************)
EXTENDS Provisioning, TLAPS

AppService == Service("vici-app")

(***************************************************************************)
(* The edges of DependsOn the argument uses: the circle from the version   *)
(* of webhook-base-url back to the Deployment that waits for the secret.   *)
(***************************************************************************)

\* app.py: the Deployment waits for the migration job.
LEMMA AppAfterMigration == <<AppDeployment, MigrationJob>> \in DependsOn
<1>1. <<AppDeployment, MigrationJob>> \in AppNeeds
  BY DEF AppNeeds, Needs
<1> QED
  BY <1>1 DEF DependsOn

\* app.py: the Service comes after the Deployment.
LEMMA ServiceAfterApp == <<AppService, AppDeployment>> \in DependsOn
<1>1. <<AppService, AppDeployment>> \in AppServiceNeeds
  BY DEF AppServiceNeeds, Needs, AppService
<1> QED
  BY <1>1 DEF DependsOn

\* ingress.py: the Ingress comes after the Service.
LEMMA IngressAfterService == <<Ingress, AppService>> \in DependsOn
<1>1. <<Ingress, AppService>> \in IngressNeeds
  BY DEF IngressNeeds, Needs, AppService
<1> QED
  BY <1>1 DEF DependsOn

\* ingress.py: the version of the secret comes after the Ingress.
LEMMA VersionAfterIngress == <<WebhookUrlVersion, Ingress>> \in DependsOn
<1>1. <<WebhookUrlVersion, Ingress>> \in IngressNeeds
  BY DEF IngressNeeds, Needs
<1> QED
  BY <1>1 DEF DependsOn

----------------------------------------------------------------------------
(* Type correctness                                                        *)

Phases == {"absent", "creating", "ready", "failed"}

\* Starting what can start keeps the type of the phases.
LEMMA StartedType ==
    ASSUME NEW ph \in [Resources -> Phases]
    PROVE  Started(ph) \in [Resources -> Phases]
  BY DEF Started, Phases

\* The initial state has the types.
LEMMA InitType == Init => TypeOK
<1> SUFFICES ASSUME Init PROVE TypeOK
  OBVIOUS
<1>1. [r \in Resources |-> "absent"] \in [Resources -> Phases]
  BY DEF Phases
<1>2. phase \in [Resources -> Phases]
  BY <1>1, StartedType DEF Init
<1> QED
  BY <1>2, BoundsAssumption DEF Init, TypeOK, Phases

\* A resource that starts keeps the types.
LEMMA SettleType ==
    ASSUME TypeOK, NEW r \in Resources, Settle(r)
    PROVE  TypeOK'
<1> DEFINE ph == [phase EXCEPT ![r] = "ready"]
<1>1. ph \in [Resources -> Phases]
  BY DEF TypeOK, Phases
<1>2. Started(ph) \in [Resources -> Phases]
  BY <1>1, StartedType
<1>3. phase' \in [Resources -> Phases]
  BY <1>1, <1>2 DEF Settle
<1> QED
  BY <1>3 DEF Settle, TypeOK, Phases

\* The next run keeps the types.
LEMMA RerunType ==
    ASSUME TypeOK, Rerun
    PROVE  TypeOK'
<1> DEFINE ph(again) == [r \in Resources |-> IF phase[r] = "failed" \/ r \in again
                                             THEN "absent" ELSE phase[r]]
<1>1. PICK again \in SUBSET Stamped : phase' = Started(ph(again))
  BY DEF Rerun
<1>2. ph(again) \in [Resources -> Phases]
  BY DEF TypeOK, Phases
<1>3. phase' \in [Resources -> Phases]
  BY <1>1, <1>2, StartedType
<1> QED
  BY <1>3 DEF Rerun, TypeOK, Phases

\* Every step keeps the types.
LEMMA NextType == TypeOK /\ [Next]_vars => TypeOK'
<1> SUFFICES ASSUME TypeOK, [Next]_vars PROVE TypeOK'
  OBVIOUS
<1>1. ASSUME NEW r \in Resources, Settle(r) PROVE TypeOK'
  BY <1>1, SettleType
<1>2. ASSUME NEW r \in Resources, Fail(r) \/ TimeOut(r) PROVE TypeOK'
  BY <1>2 DEF TypeOK, Fail, TimeOut
<1>3. ASSUME NEW s \in Slugs, Populate(s) \/ Sync(s) PROVE TypeOK'
  BY <1>3 DEF TypeOK, Populate, Sync
<1>4. CASE Interrupt
  BY <1>4, BoundsAssumption DEF TypeOK, Interrupt
<1>5. CASE Finish
  BY <1>5 DEF TypeOK, Finish
<1>6. CASE Rerun
  BY <1>6, RerunType
<1>7. CASE UNCHANGED vars
  BY <1>7 DEF TypeOK, vars
<1> QED
  BY <1>1, <1>2, <1>3, <1>4, <1>5, <1>6, <1>7 DEF Next

\* Every variable has its type, whatever is to be made (__main__.py).
THEOREM TypeInvariant == Spec => []TypeOK
  BY InitType, NextType, PTL DEF Spec

----------------------------------------------------------------------------
(* The inductive invariant                                                 *)

\* What is ready in this run has been ready.
ReadyIsApplied == \A r \in Resources : phase[r] = "ready" => r \in applied

\* Nothing is started, and nothing has been ready, before what it needs.
StartedInOrder == \A r \in Resources : phase[r] # "absent" => Deps[r] \subseteq applied
AppliedInOrder == \A r \in applied \intersect Resources : Deps[r] \subseteq applied

\* What is in the cluster has a value in Secret Manager.
SyncedHasVersion == \A s \in synced : HasVersion(s)

\* The app came up on values the operator gave: the safety property's part
\* on secrets.
AppIsSeeded == AppDeployment \in applied => EnvFromSources \subseteq populated

OrderInv ==
    /\ TypeOK
    /\ Existing \subseteq applied
    /\ ReadyIsApplied
    /\ StartedInOrder
    /\ AppliedInOrder
    /\ SyncedHasVersion
    /\ AppIsSeeded

\* No earlier run has let the app in: that would have needed the migration.
LEMMA AppIsNew == AppDeployment \notin Existing
  BY AppAfterMigration, NewAssumption, ResourcesAssumption

\* An edge between two resources that have been ready.
LEMMA EdgeApplied ==
    ASSUME TypeOK, AppliedInOrder, NEW r \in applied, NEW d,
           <<r, d>> \in DependsOn
    PROVE  d \in applied \/ d \in Existing
<1>1. CASE r \in Existing
  BY <1>1, ResourcesAssumption
<1>2. CASE r \in Resources
  <2>1. d \in Resources \union Existing
    BY <1>2, ResourcesAssumption
  <2>2. ASSUME d \in Resources PROVE d \in applied
    <3>1. d \in Deps[r]
      BY <1>2, <2>2 DEF Deps
    <3> QED
      BY <1>2, <3>1 DEF AppliedInOrder
  <2> QED
    BY <2>1, <2>2
<1> QED
  BY <1>1, <1>2 DEF TypeOK

\* pulumi's own version of webhook-base-url comes after the app.
LEMMA VersionAfterApp ==
    ASSUME TypeOK, AppliedInOrder, Existing \subseteq applied,
           WebhookUrlVersion \in applied
    PROVE  AppDeployment \in applied
<1>1. Ingress \in applied
  BY VersionAfterIngress, EdgeApplied
<1>2. AppService \in applied
  BY <1>1, IngressAfterService, EdgeApplied
<1> QED
  BY <1>2, ServiceAfterApp, EdgeApplied

\* Starting what can start keeps the order, if it held before.
LEMMA StartedKeepsOrder ==
    ASSUME NEW ph \in [Resources -> Phases], NEW done,
           \A r \in Resources : ph[r] = "ready" => r \in done,
           \A r \in Resources : ph[r] # "absent" => Deps[r] \subseteq done
    PROVE  /\ \A r \in Resources : Started(ph)[r] = "ready" => r \in done
           /\ \A r \in Resources : Started(ph)[r] # "absent" => Deps[r] \subseteq done
<1> SUFFICES ASSUME NEW r \in Resources
             PROVE  /\ Started(ph)[r] = "ready" => r \in done
                    /\ Started(ph)[r] # "absent" => Deps[r] \subseteq done
  OBVIOUS
<1>1. Deps[r] \subseteq Resources
  BY DEF Deps
<1>2. Started(ph)[r] = IF ph[r] = "absent" /\ \A d \in Deps[r] : ph[d] = "ready"
                       THEN "creating" ELSE ph[r]
  BY DEF Started
<1>3. CASE ph[r] = "absent" /\ \A d \in Deps[r] : ph[d] = "ready"
  BY <1>1, <1>2, <1>3
<1>4. CASE ~ (ph[r] = "absent" /\ \A d \in Deps[r] : ph[d] = "ready")
  BY <1>2, <1>4
<1> QED
  BY <1>3, <1>4

LEMMA InitOrder == Init => OrderInv
<1> SUFFICES ASSUME Init PROVE OrderInv
  OBVIOUS
<1> DEFINE ph == [r \in Resources |-> "absent"]
<1>1. TypeOK
  BY InitType
<1>2. /\ \A r \in Resources : Started(ph)[r] # "ready"
      /\ \A r \in Resources : Started(ph)[r] # "absent" => Deps[r] = {}
  <2> SUFFICES ASSUME NEW r \in Resources
               PROVE  /\ Started(ph)[r] # "ready"
                      /\ Started(ph)[r] # "absent" => Deps[r] = {}
    OBVIOUS
  <2>1. Deps[r] \subseteq Resources
    BY DEF Deps
  <2>2. Started(ph)[r] = IF \A d \in Deps[r] : FALSE THEN "creating" ELSE "absent"
    BY <2>1 DEF Started
  <2> QED
    BY <2>2
<1>3. ReadyIsApplied /\ StartedInOrder
  BY <1>2 DEF Init, ReadyIsApplied, StartedInOrder
<1>4. AppliedInOrder
  BY ResourcesAssumption DEF Init, AppliedInOrder
<1>5. SyncedHasVersion
  BY DEF Init, SyncedHasVersion, HasVersion
<1>6. AppIsSeeded
  BY AppIsNew DEF Init, AppIsSeeded
<1> QED
  BY <1>1, <1>3, <1>4, <1>5, <1>6 DEF Init, OrderInv

\* A resource becomes ready after what it needs; the app, after the values
\* of its secrets, none of which can be pulumi's own.
LEMMA SettleOrder ==
    ASSUME OrderInv, NEW r \in Resources, Settle(r)
    PROVE  OrderInv'
<1> DEFINE ph == [phase EXCEPT ![r] = "ready"]
<1>1. TypeOK'
  BY SettleType DEF OrderInv
<1>2. /\ ph \in [Resources -> Phases]
      /\ applied' = applied \union {r}
      /\ phase[r] = "creating"
  BY DEF OrderInv, TypeOK, Settle, Phases
<1>3. /\ \A q \in Resources : ph[q] = "ready" => q \in applied'
      /\ \A q \in Resources : ph[q] # "absent" => Deps[q] \subseteq applied'
  BY <1>2 DEF OrderInv, TypeOK, ReadyIsApplied, StartedInOrder
<1>4. ReadyIsApplied' /\ StartedInOrder'
  <2>1. phase' = ph \/ phase' = Started(ph)
    BY DEF Settle
  <2>2. CASE phase' = ph
    BY <1>3, <2>2 DEF ReadyIsApplied, StartedInOrder
  <2>3. CASE phase' = Started(ph)
    BY <1>2, <1>3, <2>3, StartedKeepsOrder DEF ReadyIsApplied, StartedInOrder
  <2> QED
    BY <2>1, <2>2, <2>3
<1>5. AppliedInOrder'
  BY <1>2 DEF OrderInv, StartedInOrder, AppliedInOrder
<1>6. SyncedHasVersion'
  BY <1>2 DEF OrderInv, SyncedHasVersion, HasVersion, Settle
<1>7. AppIsSeeded'
  <2>1. CASE AppDeployment \in applied
    BY <2>1 DEF OrderInv, AppIsSeeded, Settle
  <2>2. CASE AppDeployment \notin applied /\ r = AppDeployment
    <3>1. WebhookUrlVersion \notin applied
      BY <2>2, VersionAfterApp DEF OrderInv
    <3>2. synced \subseteq populated
      BY <3>1 DEF OrderInv, SyncedHasVersion, HasVersion
    <3>3. AppStarts
      BY <2>2 DEF Settle, Starts
    <3> QED
      BY <3>2, <3>3 DEF AppStarts, AppIsSeeded, Settle
  <2>3. CASE AppDeployment \notin applied /\ r # AppDeployment
    BY <1>2, <2>3 DEF AppIsSeeded
  <2> QED
    BY <2>1, <2>2, <2>3
<1> QED
  BY <1>1, <1>2, <1>4, <1>5, <1>6, <1>7 DEF OrderInv

\* A resource that fails was started, so what it needs has been ready.
LEMMA FailOrder ==
    ASSUME OrderInv, NEW r \in Resources, Fail(r) \/ TimeOut(r)
    PROVE  OrderInv'
<1>1. TypeOK'
  BY DEF OrderInv, TypeOK, Fail, TimeOut
<1>2. ReadyIsApplied' /\ StartedInOrder'
  BY DEF OrderInv, TypeOK, Fail, TimeOut, ReadyIsApplied, StartedInOrder
<1> QED
  BY <1>1, <1>2 DEF OrderInv, Fail, TimeOut, AppliedInOrder, SyncedHasVersion,
                    HasVersion, AppIsSeeded

\* A cut-off run keeps what was applied.
LEMMA InterruptOrder ==
    ASSUME OrderInv, Interrupt
    PROVE  OrderInv'
<1>1. TypeOK'
  BY BoundsAssumption DEF OrderInv, TypeOK, Interrupt
<1>2. ReadyIsApplied' /\ StartedInOrder'
  BY DEF OrderInv, TypeOK, Interrupt, ReadyIsApplied, StartedInOrder
<1> QED
  BY <1>1, <1>2 DEF OrderInv, Interrupt, AppliedInOrder, SyncedHasVersion,
                    HasVersion, AppIsSeeded

\* The next run starts in order.
LEMMA RerunOrder ==
    ASSUME OrderInv, Rerun
    PROVE  OrderInv'
<1>4. PICK again \in SUBSET Stamped :
          phase' = Started([r \in Resources |->
                               IF phase[r] = "failed" \/ r \in again
                               THEN "absent" ELSE phase[r]])
  BY DEF Rerun
<1> DEFINE ph == [r \in Resources |-> IF phase[r] = "failed" \/ r \in again
                                      THEN "absent" ELSE phase[r]]
<1>1. TypeOK'
  BY RerunType DEF OrderInv
<1>2. ph \in [Resources -> Phases]
  BY DEF OrderInv, TypeOK, Phases
<1>3. /\ \A r \in Resources : ph[r] = "ready" => r \in applied
      /\ \A r \in Resources : ph[r] # "absent" => Deps[r] \subseteq applied
  BY DEF OrderInv, ReadyIsApplied, StartedInOrder
<1>5. ReadyIsApplied' /\ StartedInOrder'
  <2>1. phase' = Started(ph) /\ applied' = applied
    BY <1>4 DEF Rerun
  <2> QED
    BY <1>2, <1>3, <2>1, StartedKeepsOrder DEF ReadyIsApplied, StartedInOrder
<1> QED
  BY <1>1, <1>5 DEF OrderInv, Rerun, AppliedInOrder, SyncedHasVersion,
                    HasVersion, AppIsSeeded

\* Values are only added.
LEMMA SecretOrder ==
    ASSUME OrderInv, NEW s \in Slugs, Populate(s) \/ Sync(s)
    PROVE  OrderInv'
<1>1. TypeOK'
  BY DEF OrderInv, TypeOK, Populate, Sync
<1>2. SyncedHasVersion' /\ AppIsSeeded'
  BY DEF OrderInv, SyncedHasVersion, HasVersion, AppIsSeeded, Populate, Sync
<1> QED
  BY <1>1, <1>2 DEF OrderInv, Populate, Sync, ReadyIsApplied, StartedInOrder,
                    AppliedInOrder

LEMMA NextOrder == OrderInv /\ [Next]_vars => OrderInv'
<1> SUFFICES ASSUME OrderInv, [Next]_vars PROVE OrderInv'
  OBVIOUS
<1>1. CASE Finish \/ UNCHANGED vars
  BY <1>1 DEF Finish, vars, OrderInv, TypeOK, ReadyIsApplied, StartedInOrder,
              AppliedInOrder, SyncedHasVersion, HasVersion, AppIsSeeded
<1> QED
  BY <1>1, SettleOrder, FailOrder, SecretOrder, InterruptOrder, RerunOrder DEF Next

\* A service that has been let in stands on a migrated database.
LEMMA OrderBacks == OrderInv => ServiceIsBacked
<1> SUFFICES ASSUME OrderInv, AppDeployment \in applied
             PROVE  MigrationJob \in applied /\ EnvFromSources \subseteq populated
  BY DEF ServiceIsBacked
<1>1. MigrationJob \in applied
  BY AppAfterMigration, EdgeApplied DEF OrderInv
<1>2. EnvFromSources \subseteq populated
  BY DEF OrderInv, AppIsSeeded
<1> QED
  BY <1>1, <1>2

\* Whatever is to be made and in whatever order it becomes ready, across
\* failed and repeated runs: the app is in service only after the migration
\* (app.py) and only on values the operator has given (secrets.py,
\* ingress.py).
THEOREM BackedInvariant == Spec => []ServiceIsBacked
  BY InitOrder, NextOrder, OrderBacks, PTL DEF Spec

----------------------------------------------------------------------------
(* What the policies let through, all of them applied                      *)

\* Every policy of network_policy.py, and by hand what it lacks.
AllInForce == (\A r \in Rules : r.policy \in applied) /\ MissingRules \subseteq Opened

\* One rule that admits is enough.
LEMMA RuleAdmits ==
    ASSUME AllInForce, NEW dir \in {"ingress", "egress"},
           NEW policy, NEW pods, NEW peers, NEW ports,
           Rule(policy, dir, pods, peers, ports) \in Rules \union MissingRules
    PROVE  \A pod \in pods \intersect Peers, peer \in peers, port \in ports :
               Admits(dir, pod, peer, port)
<1> DEFINE r == Rule(policy, dir, pods, peers, ports)
<1>1. r.dir = dir /\ r.pods = pods /\ r.peers = peers /\ r.ports = ports
  BY DEF Rule
<1>2. r \in Rules \union Opened /\ (r.policy \in applied \/ r \in Opened)
  BY DEF AllInForce
<1> HIDE DEF r
<1> QED
  BY <1>1, <1>2 DEF Admits, RulesAbout

Outside == {"internet", "apiserver", "kube-system"}

\* No rule selects a peer that is not a pod of the namespaces: it may call and
\* answer whatever the policies say.
LEMMA OutsideIsOpen ==
    ASSUME NEW dir \in {"ingress", "egress"}, NEW pod \in Outside, NEW peer, NEW port
    PROVE  Admits(dir, pod, peer, port)
<1> DEFINE Inside(R) == \A r \in R : pod \notin r.pods
<1>1. \A ns \in AllNamespaces : pod \notin Pods(ns)
  BY DEF AllNamespaces, Pods, Outside
<1>2. Inside(DefaultDeny) /\ Inside(DnsAllow) /\ Inside(MetadataAllow)
  BY <1>1 DEF DefaultDeny, DnsAllow, MetadataAllow, Rule
<1>3. Inside(ViciRules) /\ Inside(MigrationRules)
  BY DEF ViciRules, MigrationRules, Rule, Outside
<1>4. Inside(TemporalRules) /\ Inside(ObservabilityRules)
  BY DEF TemporalRules, ObservabilityRules, Rule, Pods, Outside
<1>5. Inside(CertManagerRules) /\ Inside(EsoRules)
  BY DEF CertManagerRules, EsoRules, Rule, Pods, Outside
<1>6. Inside(Opened)
  BY <1>1, OpenedAssumption
<1>7. Inside(Rules \union Opened)
  BY <1>2, <1>3, <1>4, <1>5, <1>6 DEF Rules
<1>8. pod \in Peers
  BY DEF Outside, Peers
<1> QED
  BY <1>7, <1>8 DEF Admits, RulesAbout

\* Pods of the namespaces.
LEMMA PodFacts ==
    /\ "app" \in Pods("vici") /\ "migration" \in Pods("vici")
    /\ \A ns \in AllNamespaces \ {"vici"} : Pods(ns) = {ns}
    /\ \A ns \in AllNamespaces : Pods(ns) \subseteq Peers
    /\ {"vici", "temporal", "observability"} \subseteq AllNamespaces
    /\ OperatorCharts \subseteq AllNamespaces
    /\ Outside \subseteq Peers
  BY DEF Pods, AllNamespaces, Peers, OperatorCharts, Outside

\* Every pod of a namespace reaches the name servers and the metadata server.
LEMMA NamesAndMetadata ==
    ASSUME AllInForce, NEW ns \in AllNamespaces, NEW pod \in Pods(ns)
    PROVE  /\ Admits("egress", pod, "kube-dns", 53)
           /\ Admits("egress", pod, "metadata", 80)
<1>1. Rule(<<"AllowDns", ns>>, "egress", Pods(ns), Peers, {53}) \in Rules
  BY DEF Rules, DnsAllow
<1>2. Rule(<<"AllowMetadata", ns>>, "egress", Pods(ns), {"metadata"}, {80}) \in Rules
  BY DEF Rules, MetadataAllow
<1>3. pod \in Peers /\ "kube-dns" \in Peers
  BY PodFacts DEF Peers
<1> QED
  BY <1>1, <1>2, <1>3, RuleAdmits

\* A path of a pod is open if a rule lets it out and one lets it in.
LEMMA PathIsOpen ==
    ASSUME AllInForce, NEW ns \in AllNamespaces, NEW pod \in Pods(ns),
           NEW peer, NEW port,
           Admits("egress", pod, peer, port), Admits("ingress", peer, pod, port)
    PROVE  Reaches(pod, peer, port)
  BY NamesAndMetadata DEF Reaches

\* The app, its migration and Temporal reach Google's APIs and Cloud SQL.
LEMMA CloudIsReached ==
    ASSUME AllInForce, NEW pod \in {"app", "migration", "temporal"},
           NEW port \in {443, 3307}
    PROVE  Reaches(pod, "internet", port)
<1>1. /\ Rule(Policy("vici-egress"), "egress", {"app"}, Anywhere, {443, 3307}) \in Rules
      /\ Rule(Policy("vici-migration-egress"), "egress", {"migration"}, Anywhere,
              {443, 3307}) \in Rules
      /\ Rule(Policy("temporal-egress"), "egress", Pods("temporal"), Anywhere,
              {443, 3307}) \in Rules
  BY DEF Rules, ViciRules, MigrationRules, TemporalRules
<1>2. PICK ns \in AllNamespaces : pod \in Pods(ns)
  BY DEF AllNamespaces, Pods
<1>3. pod \in Peers /\ "internet" \in Anywhere /\ "internet" \in Outside
  BY <1>2, PodFacts DEF Anywhere, Outside
<1>4. \/ pod \in {"app"}
      \/ pod \in {"migration"}
      \/ pod \in Pods("temporal")
  BY DEF Pods
<1>5. Admits("egress", pod, "internet", port)
  BY <1>1, <1>3, <1>4, RuleAdmits
<1> QED
  BY <1>2, <1>3, <1>5, OutsideIsOpen, PathIsOpen

\* Between the app, Temporal and the observability namespace.
LEMMA ServicesAreReached ==
    ASSUME AllInForce
    PROVE  /\ Reaches("app", "temporal", 7233)
           /\ Reaches("app", "observability", 4317)
           /\ Reaches("temporal", "observability", 9200)
           /\ Reaches("observability", "app", 8000)
           /\ Reaches("observability", "temporal", 7233)
           /\ Reaches("kube-system", "app", 8000)
<1> DEFINE hand == <<"NetworkPolicy", "by-hand">>
<1>1. /\ "app" \in Pods("vici") /\ "temporal" \in Pods("temporal")
      /\ "observability" \in Pods("observability")
      /\ "app" \in Peers /\ "temporal" \in Peers /\ "observability" \in Peers
      /\ "vici" \in AllNamespaces /\ "temporal" \in AllNamespaces
      /\ "observability" \in AllNamespaces
  BY PodFacts DEF Pods, AllNamespaces
<1>2. /\ Rule(Policy("vici-egress"), "egress", {"app"}, Pods("temporal"), {7233}) \in Rules
      /\ Rule(Policy("vici-egress"), "egress", {"app"}, Pods("observability"),
              {4317}) \in Rules
      /\ Rule(Policy("vici-ingress"), "ingress", {"app"},
              {"kube-system"} \union Pods("observability"), {8000}) \in Rules
  BY DEF Rules, ViciRules
<1>3. /\ Rule(Policy("temporal-ingress"), "ingress", Pods("temporal"), Pods("vici"),
              {7233}) \in Rules
      /\ Rule(Policy("temporal-egress"), "egress", Pods("temporal"),
              Pods("observability"), {9200}) \in Rules
  BY DEF Rules, TemporalRules
<1>4. /\ Rule(Policy("obs-ingress"), "ingress", Pods("observability"), Pods("vici"),
              {4317}) \in Rules
      /\ Rule(Policy("obs-ingress"), "ingress", Pods("observability"),
              Pods("temporal"), {9200}) \in Rules
      /\ Rule(Policy("obs-egress"), "egress", Pods("observability"),
              Pods("temporal"), {7233}) \in Rules
      /\ Rule(Policy("obs-egress"), "egress", Pods("observability"), Pods("vici"),
              {8000}) \in Rules
  BY DEF Rules, ObservabilityRules
<1>5. Rule(hand, "ingress", Pods("temporal"), Pods("observability"), {7233})
          \in MissingRules
  BY DEF MissingRules
<1>6. Reaches("app", "temporal", 7233)
  <2>1. Admits("egress", "app", "temporal", 7233)
    BY <1>1, <1>2, RuleAdmits
  <2>2. Admits("ingress", "temporal", "app", 7233)
    BY <1>1, <1>3, RuleAdmits
  <2> QED
    BY <1>1, <2>1, <2>2, PathIsOpen
<1>7. Reaches("app", "observability", 4317)
  <2>1. Admits("egress", "app", "observability", 4317)
    BY <1>1, <1>2, RuleAdmits
  <2>2. Admits("ingress", "observability", "app", 4317)
    BY <1>1, <1>4, RuleAdmits
  <2> QED
    BY <1>1, <2>1, <2>2, PathIsOpen
<1>8. Reaches("temporal", "observability", 9200)
  <2>1. Admits("egress", "temporal", "observability", 9200)
    BY <1>1, <1>3, RuleAdmits
  <2>2. Admits("ingress", "observability", "temporal", 9200)
    BY <1>1, <1>4, RuleAdmits
  <2> QED
    BY <1>1, <2>1, <2>2, PathIsOpen
<1>9. Admits("ingress", "app", "observability", 8000)
  BY <1>1, <1>2, RuleAdmits
<1>10. Reaches("observability", "app", 8000)
  <2>1. Admits("egress", "observability", "app", 8000)
    BY <1>1, <1>4, RuleAdmits
  <2> QED
    BY <1>1, <1>9, <2>1, PathIsOpen
<1>11. Reaches("observability", "temporal", 7233)
  <2>1. Admits("egress", "observability", "temporal", 7233)
    BY <1>1, <1>4, RuleAdmits
  <2>2. Admits("ingress", "temporal", "observability", 7233)
    BY <1>1, <1>5, RuleAdmits
  <2> QED
    BY <1>1, <2>1, <2>2, PathIsOpen
<1>12. Reaches("kube-system", "app", 8000)
  <2>1. Admits("ingress", "app", "kube-system", 8000)
    BY <1>1, <1>2, RuleAdmits
  <2> QED
    BY <2>1, OutsideIsOpen DEF Reaches, Outside
<1> QED
  BY <1>6, <1>7, <1>8, <1>10, <1>11, <1>12

\* Within Temporal and within observability, on the rules applied by hand.
LEMMA NamespacesAreOpen ==
    ASSUME AllInForce
    PROVE  /\ \A port \in ServerPorts : Reaches("temporal", "temporal", port)
           /\ \A port \in {9090, 9200, 16686} :
                 Reaches("observability", "observability", port)
           /\ Reaches("observability", "apiserver", 443)
<1> DEFINE hand == <<"NetworkPolicy", "by-hand">>
           obs == Pods("observability")
<1>1. /\ "temporal" \in Pods("temporal") /\ "observability" \in obs
      /\ "temporal" \in Peers /\ "observability" \in Peers
      /\ "temporal" \in AllNamespaces /\ "observability" \in AllNamespaces
  BY PodFacts DEF Pods, AllNamespaces
<1>2. /\ Rule(hand, "ingress", Pods("temporal"), Pods("temporal"), ServerPorts)
             \in MissingRules
      /\ Rule(hand, "egress", Pods("temporal"), Pods("temporal"), ServerPorts)
             \in MissingRules
      /\ Rule(hand, "ingress", obs, obs, {9200, 9090}) \in MissingRules
      /\ Rule(hand, "egress", obs, obs, {9090, 16686}) \in MissingRules
      /\ Rule(hand, "egress", obs, {"apiserver"}, {443}) \in MissingRules
  BY DEF MissingRules
<1>3. /\ Rule(Policy("obs-ingress"), "ingress", obs, Peers, {16686}) \in Rules
      /\ Rule(Policy("obs-egress"), "egress", obs, obs, {9200}) \in Rules
  BY DEF Rules, ObservabilityRules
<1> HIDE DEF hand, obs
<1>4. ASSUME NEW port \in ServerPorts PROVE Reaches("temporal", "temporal", port)
  <2>1. Admits("egress", "temporal", "temporal", port)
    BY <1>1, <1>2, RuleAdmits
  <2>2. Admits("ingress", "temporal", "temporal", port)
    BY <1>1, <1>2, RuleAdmits
  <2> QED
    BY <1>1, <2>1, <2>2, PathIsOpen
<1>5. ASSUME NEW port \in {9090, 9200, 16686}
      PROVE  Reaches("observability", "observability", port)
  <2>1. \/ port \in {9090, 16686}
        \/ port \in {9200}
    OBVIOUS
  <2>2. \/ port \in {9200, 9090}
        \/ port \in {16686}
    OBVIOUS
  <2>3. Admits("egress", "observability", "observability", port)
    BY <1>1, <1>2, <1>3, <2>1, RuleAdmits
  <2>4. Admits("ingress", "observability", "observability", port)
    BY <1>1, <1>2, <1>3, <2>2, RuleAdmits
  <2> QED
    BY <1>1, <2>3, <2>4, PathIsOpen DEF obs
<1>6. Reaches("observability", "apiserver", 443)
  <2>1. Admits("egress", "observability", "apiserver", 443)
    BY <1>1, <1>2, RuleAdmits
  <2>2. Admits("ingress", "apiserver", "observability", 443)
    BY OutsideIsOpen DEF Outside
  <2> QED
    BY <1>1, <2>1, <2>2, PathIsOpen DEF obs
<1> QED
  BY <1>4, <1>5, <1>6

\* The operators reach the API server and the internet; the API server reaches
\* their webhooks.
LEMMA OperatorsAreReached ==
    ASSUME AllInForce, NEW op \in OperatorCharts
    PROVE  /\ Reaches(op, "apiserver", 443)
           /\ Reaches(op, "internet", 443)
           /\ Reaches("apiserver", op, 10250)
<1>1. op \in AllNamespaces /\ op \in Pods(op) /\ op \in Peers
  BY PodFacts DEF OperatorCharts, Pods
<1>2. /\ Rule(Policy("certmgr-egress"), "egress", Pods("cert-manager"), Anywhere,
              {443}) \in Rules
      /\ Rule(Policy("certmgr-webhook-ingress"), "ingress", Pods("cert-manager"),
              Peers, {10250, 6080, 9402, 9403}) \in Rules
      /\ Rule(Policy("eso-egress"), "egress", Pods("external-secrets"), Anywhere,
              {443}) \in Rules
      /\ Rule(Policy("eso-webhook-ingress"), "ingress", Pods("external-secrets"),
              Peers, {10250, 8080, 8081}) \in Rules
  BY DEF Rules, CertManagerRules, EsoRules
<1>3. Anywhere \subseteq Outside /\ Outside \subseteq Peers /\ "apiserver" \in Outside
      /\ "apiserver" \in Anywhere /\ "internet" \in Anywhere
  BY PodFacts DEF Anywhere, Outside
<1>4. op = "cert-manager" \/ op = "external-secrets"
  BY DEF OperatorCharts
<1>5. Admits("egress", op, "apiserver", 443) /\ Admits("egress", op, "internet", 443)
  BY <1>1, <1>2, <1>3, <1>4, RuleAdmits
<1>6. Admits("ingress", op, "apiserver", 10250)
  BY <1>1, <1>2, <1>3, <1>4, RuleAdmits
<1>7. Reaches("apiserver", op, 10250)
  BY <1>3, <1>6, OutsideIsOpen DEF Reaches
<1> QED
  BY <1>1, <1>3, <1>5, <1>7, OutsideIsOpen, PathIsOpen

\* With every rule in force, all the connections of the workloads are open.
LEMMA PathsAreOpen ==
    ASSUME AllInForce, NEW r \in Resources
    PROVE  AllOpen(StartPathsOf[r]) /\ AllOpen(UsePathsOf[r])
<1>1. ASSUME NEW path \in StartPaths PROVE Reaches(path[2], path[3], path[4])
  <2>1. CASE path \in {Release("temporal")} \X {"temporal"} \X {"temporal"} \X ServerPorts
    BY <2>1, NamespacesAreOpen
  <2>2. CASE path \in SearchClients \X {"observability"} \X {"observability"} \X {9200}
    BY <2>2, NamespacesAreOpen
  <2>3. CASE path \in {<<Release("temporal"), "temporal", "observability", 9200>>,
                       <<AppDeployment, "app", "temporal", 7233>>,
                       <<Release("kube-prometheus"), "observability", "apiserver", 443>>}
    BY <2>3, ServicesAreReached, NamespacesAreOpen
  <2>4. ASSUME NEW op \in OperatorCharts,
               path \in ({Release(op)} \X {op} \X {"apiserver"} \X {443})
                        \union (Admitted(op) \X {"apiserver"} \X {op} \X {10250})
        PROVE  Reaches(path[2], path[3], path[4])
    BY <2>4, OperatorsAreReached
  <2> QED
    BY <2>1, <2>2, <2>3, <2>4 DEF StartPaths
<1>2. ASSUME NEW path \in UsePaths PROVE Reaches(path[2], path[3], path[4])
  <2>1. CASE \E op \in OperatorCharts : path = <<Release(op), op, "internet", 443>>
    BY <2>1, OperatorsAreReached
  <2>2. CASE ~ \E op \in OperatorCharts : path = <<Release(op), op, "internet", 443>>
    BY <2>2, ServicesAreReached, NamespacesAreOpen DEF UsePaths
  <2> QED
    BY <2>1, <2>2
<1> QED
  BY <1>1, <1>2 DEF AllOpen, StartPathsOf, UsePathsOf, Paths

----------------------------------------------------------------------------
(* Nothing is cut off                                                      *)

\* The proxy's account has its role, and the pods its binding.
MayConnect(ns) == Binding(ns) \in applied /\ HasRole(Gsa(ns), "cloudsql.client")

\* What Starts asks that no later step takes away: secrets, roles and resources.
KeepsWorking(r) ==
    /\ r = MigrationJob =>
          /\ "database-url" \in synced
          /\ AppDatabase \in applied
          /\ MayConnect("vici")
    /\ r \in {SchemaJob, Release("temporal")} =>
          "temporal-db-password" \in synced /\ MayConnect("temporal")
    /\ r \in SearchClients \union {Release("temporal")} =>
          Release("opensearch") \in applied
    /\ r = AppDeployment =>
          /\ EnvFromSources \subseteq synced
          /\ Release("temporal") \in applied
          /\ MayConnect("vici")

\* A run that is done has made everything; what has been ready keeps what it
\* started with.
CutOffInv ==
    /\ OrderInv
    /\ \A r \in applied \intersect Resources : KeepsWorking(r)
    /\ up = "done" => Resources \subseteq applied

LEMMA InitCutOff == Init => CutOffInv
  BY InitOrder, ResourcesAssumption DEF Init, CutOffInv

\* Nothing of it is taken away while more is applied and synced.
LEMMA KeepsWorkingStays ==
    ASSUME applied \subseteq applied', synced \subseteq synced',
           NEW r, KeepsWorking(r)
    PROVE  KeepsWorking(r)'
<1>1. \A ns : MayConnect(ns) => MayConnect(ns)'
  BY DEF MayConnect, HasRole
<1> QED
  BY <1>1 DEF KeepsWorking

LEMMA StartsKeeps == ASSUME NEW r, Starts(r) PROVE KeepsWorking(r)
<1>1. \A ns, pod : CloudSql(ns, pod) => MayConnect(ns)
  BY DEF CloudSql, Authorised, MayConnect
<1> QED
  BY <1>1 DEF Starts, MigrationStarts, SchemaStarts, AppStarts, KeepsWorking

LEMMA NextCutOff == CutOffInv /\ [Next]_vars => CutOffInv'
<1> SUFFICES ASSUME CutOffInv, [Next]_vars PROVE CutOffInv'
  OBVIOUS
<1>1. OrderInv /\ OrderInv'
  BY NextOrder DEF CutOffInv
<1>2. applied \subseteq applied' /\ synced \subseteq synced'
  BY DEF Next, vars, Settle, Fail, TimeOut, Interrupt, Finish, Rerun, Populate, Sync
<1>3. \A r \in applied \intersect Resources : KeepsWorking(r)'
  BY <1>2, KeepsWorkingStays DEF CutOffInv
<1>4. \A r \in applied' \ applied : KeepsWorking(r)'
  <2> SUFFICES ASSUME NEW r \in applied' \ applied PROVE KeepsWorking(r)'
    OBVIOUS
  <2>1. r \in Resources /\ Settle(r)
    BY DEF Next, vars, Settle, Fail, TimeOut, Interrupt, Finish, Rerun, Populate, Sync
  <2>2. KeepsWorking(r)
    BY <2>1, StartsKeeps DEF Settle
  <2> QED
    BY <1>2, <2>2, KeepsWorkingStays
<1>5. up' = "done" => Resources \subseteq applied'
  <2>1. CASE Finish
    BY <1>1, <2>1 DEF Finish, OrderInv, ReadyIsApplied
  <2>2. CASE up' = "done" => up = "done"
    BY <1>2, <2>2 DEF CutOffInv
  <2> QED
    BY <2>1, <2>2
    DEF Next, vars, Settle, Fail, TimeOut, Interrupt, Rerun, Populate, Sync
<1> QED
  BY <1>1, <1>3, <1>4, <1>5 DEF CutOffInv

\* With every rule in force, what keeps working works.
LEMMA CompleteWorks ==
    ASSUME PoliciesComplete, MissingRules \subseteq Opened, CutOffInv, up = "done",
           NEW r \in Resources
    PROVE  Works(r)
<1>1. AllInForce
  BY DEF PoliciesComplete, CutOffInv, OrderInv, AllInForce
<1>2. KeepsWorking(r)
  BY DEF CutOffInv
<1>3. /\ MayConnect("vici") => CloudSql("vici", "migration") /\ CloudSql("vici", "app")
      /\ MayConnect("temporal") => CloudSql("temporal", "temporal")
  <2>1. /\ "vici" \in AllNamespaces /\ "app" \in Pods("vici")
        /\ "migration" \in Pods("vici")
        /\ "temporal" \in AllNamespaces /\ "temporal" \in Pods("temporal")
    BY DEF AllNamespaces, Pods
  <2>2. \A pod \in {"app", "migration", "temporal"} :
            Admits("egress", pod, "metadata", 80)
    BY <1>1, <2>1, NamesAndMetadata
  <2> QED
    BY <1>1, <2>2, CloudIsReached DEF CloudSql, Authorised, MayConnect
<1>4. AllOpen(StartPathsOf[r]) /\ AllOpen(UsePathsOf[r])
  BY <1>1, PathsAreOpen
<1> QED
  BY <1>2, <1>3, <1>4
  DEF Works, Starts, KeepsWorking, MigrationStarts, SchemaStarts, AppStarts

\* When a run of pulumi up ends in an environment with every policy of
\* network_policy.py, and with the rules that file lacks applied by hand, each
\* workload still has the secrets, the roles (iam.py) and the connections it
\* started with, in whatever order the policies came and however many runs
\* failed: the six rules of MissingRules are all that the policies lack.
THEOREM CutOffInvariant ==
    ASSUME PoliciesComplete, MissingRules \subseteq Opened
    PROVE  Spec => []NothingCutOff
<1>1. CutOffInv => NothingCutOff
  BY CompleteWorks DEF NothingCutOff
<1> QED
  BY <1>1, InitCutOff, NextCutOff, PTL DEF Spec

----------------------------------------------------------------------------
(* What the policies do not let through                                    *)

\* The Temporal server, the clients of OpenSearch and Prometheus.
Blocked == SearchClients \union {Release("temporal"), Release("kube-prometheus")}

Denied == {<<"DefaultDeny", ns>> : ns \in {"temporal", "observability"}}

\* Of the program's rules, no other than the default deny is about a connection
\* of the server's parts, to OpenSearch or to the API server.
LEMMA NoRuleOpens ==
    ASSUME NEW r \in Rules
    PROVE  /\ ~(/\ r.dir = "ingress" /\ "temporal" \in r.pods
                /\ "temporal" \in r.peers /\ 7234 \in r.ports)
           /\ ~(/\ r.dir = "ingress" /\ "observability" \in r.pods
                /\ "observability" \in r.peers /\ 9200 \in r.ports)
           /\ ~(/\ r.dir = "egress" /\ "observability" \in r.pods
                /\ "apiserver" \in r.peers /\ 443 \in r.ports)
<1>1. CASE r \in DefaultDeny \union DnsAllow \union MetadataAllow
  BY <1>1 DEF DefaultDeny, DnsAllow, MetadataAllow, Rule
<1>2. CASE r \in ViciRules \union MigrationRules \union TemporalRules
  BY <1>2 DEF ViciRules, MigrationRules, TemporalRules, Rule, Pods
<1>3. CASE r \in ObservabilityRules
  BY <1>3 DEF ObservabilityRules, Rule, Pods
<1>4. CASE r \in CertManagerRules \union EsoRules
  BY <1>4 DEF CertManagerRules, EsoRules, Rule, Pods
<1> QED
  BY <1>1, <1>2, <1>3, <1>4 DEF Rules

\* Under the default deny and without rules by hand those connections are
\* closed.
LEMMA PathsAreClosed ==
    ASSUME Opened = {}, Denied \subseteq applied
    PROVE  /\ ~Reaches("temporal", "temporal", 7234)
           /\ ~Reaches("observability", "observability", 9200)
           /\ ~Reaches("observability", "apiserver", 443)
<1> DEFINE deny(ns, dir) == Rule(<<"DefaultDeny", ns>>, dir, Pods(ns), {}, {})
<1>1. ASSUME NEW ns \in {"temporal", "observability"}, NEW dir \in {"ingress", "egress"}
      PROVE  /\ deny(ns, dir) \in RulesAbout[dir][ns]
             /\ deny(ns, dir).policy \in applied
  <2>1. ns \in AllNamespaces /\ ns \in Peers /\ ns \in Pods(ns)
    BY PodFacts DEF Pods
  <2>2. deny(ns, dir) \in Rules
    BY <2>1 DEF Rules, DefaultDeny
  <2>3. /\ deny(ns, dir).dir = dir /\ deny(ns, dir).pods = Pods(ns)
        /\ deny(ns, dir).policy = <<"DefaultDeny", ns>>
    BY DEF Rule
  <2> HIDE DEF deny
  <2> QED
    BY <2>1, <2>2, <2>3 DEF RulesAbout, Denied
<1>2. \A ns \in {"temporal", "observability"}, dir \in {"ingress", "egress"} :
          \A r \in RulesAbout[dir][ns] : r \in Rules /\ r.dir = dir /\ ns \in r.pods
  BY PodFacts DEF RulesAbout
<1> HIDE DEF deny
<1>3. ~Admits("ingress", "temporal", "temporal", 7234)
  BY <1>1, <1>2, NoRuleOpens DEF Admits
<1>4. ~Admits("ingress", "observability", "observability", 9200)
  BY <1>1, <1>2, NoRuleOpens DEF Admits
<1>5. ~Admits("egress", "observability", "apiserver", 443)
  BY <1>1, <1>2, NoRuleOpens DEF Admits
<1> QED
  BY <1>3, <1>4, <1>5 DEF Reaches

LEMMA BlockedFails ==
    ASSUME Opened = {}, Denied \subseteq applied, NEW r \in Blocked \intersect Resources
    PROVE  ~Starts(r)
<1>1. \E path \in StartPathsOf[r] : ~Reaches(path[2], path[3], path[4])
  <2>1. CASE r = Release("temporal")
    <3> DEFINE path == <<r, "temporal", "temporal", 7234>>
    <3>1. path \in StartPaths
      BY <2>1 DEF StartPaths, ServerPorts
    <3> QED
      BY <3>1, PathsAreClosed DEF StartPathsOf, Paths
  <2>2. CASE r = Release("kube-prometheus")
    <3> DEFINE path == <<r, "observability", "apiserver", 443>>
    <3>1. path \in StartPaths
      BY <2>2 DEF StartPaths
    <3> QED
      BY <3>1, PathsAreClosed DEF StartPathsOf, Paths
  <2>3. CASE r \in SearchClients
    <3> DEFINE path == <<r, "observability", "observability", 9200>>
    <3>1. path \in StartPaths
      BY <2>3 DEF StartPaths
    <3> QED
      BY <3>1, PathsAreClosed DEF StartPathsOf, Paths
  <2> QED
    BY <2>1, <2>2, <2>3 DEF Blocked
<1> QED
  BY <1>1 DEF Starts, AllOpen

\* With the policies of network_policy.py alone a run that makes Temporal, the
\* index job, Jaeger or Prometheus ends, if it ends, with that workload cut
\* off: why NothingCutOff is about an environment with rules applied by hand.
THEOREM PoliciesCutOff ==
    ASSUME PoliciesComplete, Opened = {}, NEW r \in Blocked \intersect Resources
    PROVE  Spec => [](up = "done" => ~Works(r))
<1>1. CutOffInv => (up = "done" => ~Works(r))
  <2> SUFFICES ASSUME CutOffInv, up = "done" PROVE ~Works(r)
    OBVIOUS
  <2>1. \A rule \in Rules : rule.policy \in applied
    BY DEF PoliciesComplete, CutOffInv, OrderInv
  <2>2. ASSUME NEW ns \in {"temporal", "observability"}
        PROVE  <<"DefaultDeny", ns>> \in applied
    <3>1. Rule(<<"DefaultDeny", ns>>, "ingress", Pods(ns), {}, {}) \in Rules
      BY DEF Rules, DefaultDeny, AllNamespaces
    <3>2. Rule(<<"DefaultDeny", ns>>, "ingress", Pods(ns), {}, {}).policy
              = <<"DefaultDeny", ns>>
      BY DEF Rule
    <3> QED
      BY <2>1, <3>1, <3>2
  <2>3. Denied \subseteq applied
    BY <2>2 DEF Denied
  <2> QED
    BY <2>3, BlockedFails DEF Works
<1> QED
  BY <1>1, InitCutOff, NextCutOff, PTL DEF Spec

\* A resource that cannot start is never ready, and no run that is to make it
\* is done.
LEMMA StuckStep ==
    ASSUME NEW r0 \in Resources, OrderInv, ~Starts(r0), phase[r0] # "ready",
           up # "done", [Next]_vars
    PROVE  phase'[r0] # "ready" /\ up' # "done"
<1>1. \A ph \in [Resources -> Phases] :
          ph[r0] # "ready" => Started(ph)[r0] # "ready"
  BY DEF Started
<1>2. phase \in [Resources -> Phases]
  BY DEF OrderInv, TypeOK, Phases
<1>3. phase'[r0] # "ready"
  <2>1. ASSUME NEW r \in Resources, Settle(r) PROVE phase'[r0] # "ready"
    <3> DEFINE ph == [phase EXCEPT ![r] = "ready"]
    <3>1. r # r0
      BY <2>1 DEF Settle
    <3>2. ph \in [Resources -> Phases] /\ ph[r0] # "ready"
      BY <1>2, <3>1 DEF Phases
    <3>3. phase' = ph \/ phase' = Started(ph)
      BY <2>1 DEF Settle
    <3> QED
      BY <1>1, <3>2, <3>3
  <2>2. ASSUME NEW r \in Resources, Fail(r) \/ TimeOut(r)
        PROVE  phase'[r0] # "ready"
    BY <1>2, <2>2 DEF Fail, TimeOut
  <2>3. CASE Interrupt
    BY <2>3 DEF Interrupt
  <2>4. CASE Rerun
    <3> DEFINE ph(again) == [r \in Resources |->
                                IF phase[r] = "failed" \/ r \in again
                                THEN "absent" ELSE phase[r]]
    <3>1. PICK again \in SUBSET Stamped : phase' = Started(ph(again))
      BY <2>4 DEF Rerun
    <3>2. ph(again) \in [Resources -> Phases] /\ ph(again)[r0] # "ready"
      BY <1>2 DEF Phases
    <3> QED
      BY <1>1, <3>1, <3>2
  <2>5. CASE UNCHANGED phase
    BY <2>5
  <2> QED
    BY <2>1, <2>2, <2>3, <2>4, <2>5 DEF Next, vars, Finish, Populate, Sync
<1>4. up' # "done"
  BY DEF Next, vars, Settle, Fail, TimeOut, Interrupt, Finish, Rerun, Populate, Sync
<1> QED
  BY <1>3, <1>4

\* Once the default deny of both namespaces is there, no run of pulumi up that
\* is to make Temporal, the index job (opensearch.py), Jaeger or Prometheus
\* ever ends, if nobody adds rules by hand.
THEOREM BlockedNeverEnds ==
    ASSUME Opened = {}, Denied \subseteq Existing,
           NEW r \in Blocked \intersect Resources
    PROVE  Spec => [](up # "done")
<1> DEFINE Stuck == OrderInv /\ phase[r] # "ready" /\ up # "done"
<1>1. Init => Stuck
  <2> SUFFICES ASSUME Init PROVE Stuck
    OBVIOUS
  <2>1. OrderInv
    BY InitOrder
  <2>2. r \notin applied
    BY ResourcesAssumption DEF Init
  <2> QED
    BY <2>1, <2>2 DEF OrderInv, ReadyIsApplied, Init
<1>2. OrderInv => ~Starts(r)
  BY BlockedFails DEF OrderInv
<1>3. Stuck /\ [Next]_vars => Stuck'
  BY <1>2, NextOrder, StuckStep
<1>4. Stuck => up # "done"
  OBVIOUS
<1> QED
  BY <1>1, <1>3, <1>4, PTL DEF Spec

----------------------------------------------------------------------------
(* What the roles do not let through                                       *)

\* iam.py grants roles/secretmanager.secretAccessor to the account of the app
\* alone: unless somebody grants it to Temporal's too, the password of
\* Temporal's database never reaches the cluster, its schema job never starts,
\* and no run that is to make the job ends.
THEOREM TemporalSecretStaysOut ==
    ASSUME <<TemporalGsa, "secretmanager.secretAccessor">> \notin Granted,
           ExternalSecret("temporal-db-password") \notin Existing
    PROVE  Spec => [](/\ "temporal-db-password" \notin synced
                      /\ SchemaJob \notin applied
                      /\ SchemaJob \in Resources => up # "done")
<1> DEFINE Out == /\ "temporal-db-password" \notin synced
                  /\ SchemaJob \notin applied
<1>1. Init => Out
  BY NewAssumption DEF Init
<1>2. ~HasRole(TemporalGsa, "secretmanager.secretAccessor")
  BY DEF HasRole, Grants, TemporalGsa, AppGsa
<1>3. Out /\ [Next]_vars => Out'
  <2> SUFFICES ASSUME Out, [Next]_vars PROVE Out'
    OBVIOUS
  <2>1. \A s \in Slugs : Sync(s) => s # "temporal-db-password"
    BY <1>2 DEF Sync, Authorised, Gsa, SlugNamespace
  <2>2. \A r \in Resources : Settle(r) => r # SchemaJob
    BY DEF Settle, Starts, SchemaStarts
  <2> QED
    BY <2>1, <2>2
    DEF Next, vars, Settle, Fail, TimeOut, Interrupt, Finish, Rerun, Populate, Sync
<1>4. CutOffInv /\ Out => (SchemaJob \in Resources => up # "done")
  BY DEF CutOffInv
<1> QED
  BY <1>1, <1>3, <1>4, InitCutOff, NextCutOff, PTL DEF Spec
=============================================================================
