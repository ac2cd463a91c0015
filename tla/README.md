# TLA+ models of the Kyma lifecycle-manager sources

This directory holds TLA+ models of the Go sources under `src/`. They cover
the module template lookup that decides which ModuleTemplate a Kyma installs
for each module, an abstract specification of what that lookup promises, the
owner event handler that wakes a Kyma when one of its Manifests changes
state, the manager that deploys the watcher webhook chart on the Kymas'
remote (SKR) clusters, and the readiness check of a Manifest. It also holds
TLC configurations that check the models on small instances and TLAPS
proofs (type correctness, the no-downgrade guard, the refinement of the
abstract specification, and the webhook address cache).

## 1. The system and its parts (inventory)

| Part | Source | State it touches | Operations | Interacts with |
|---|---|---|---|---|
| Regular template resolver | `src/pkg/templatelookup/regular.go:18-296` | none of its own. It reads the ModuleTemplate catalog (via `List`), the Kyma spec and `status.modules`. | `GetRegularTemplates`, `GetAndValidate`, `getTemplate`, `getDesiredChannel`, `FilterTemplate` | the Kyma reconciler, which installs every module whose info has no error |
| Version-skew guard | `regular.go:141-220` | sets the info's error | `checkValidTemplateUpdate`: channel skew → version comparison; generation skew → log only | `status.modules` written by the installer |
| Legacy channel lookup | `src/unnamed/part_001:1-311` | none of its own | `GetTemplates`, `WithContext`, `getTemplate`, `DetermineTemplatesVisibility`, `CheckForOutdatedTemplate(s)` | as above, through the older `ModuleTemplateTO` |
| Owner event handler | `src/unnamed/part_000:40-234` | the controller's work queue | `Create`, `Update`, `Delete`, `Generic`, `getOwnerReconcileRequest(FromOwnerReference)`, `getOwnersReferences` | the informer of Manifests and the Kyma reconciler |
| Controller wiring | `src/controllers/setup.go:49-174` | the event filters and watches | `SetupWithManager`: a global `GenerationChangedPredicate`, a ModuleTemplate watch, a Manifest watch with the owner handler | the informers, the handler and the work queue |
| ModuleTemplate type | `src/api/v1beta1/moduletemplate_types.go` | the decoded descriptor memoised in `Descriptor.Object` | `GetDescriptor`, `GetComponentDescriptorCacheKey`, `SetLastSync` | the resolver |
| SKR webhook chart manager | `regular.go:297-477` (package `deploy`) | `kcpAddr`, the KCP address cached on first use; the chart on each SKR | `InstallWebhookChart`, `RemoveWebhookChart`, `generateHelmChartArgs`, `resolveKcpAddr`, `generateWatchableConfigs`, `installOrRemoveChartOnSKR` | the Kyma reconciler (not in `src/`), the Watcher CRs, the Istio load balancer, the SKR clusters |
| Metrics | `src/unnamed/part_002` | Prometheus gauges | `UpdateAll`, `CleanupMetrics`, … | none |
| Manifest ready check | `src/internal/manifest/v1beta1/ready_check.go` | none | `Run`, `parseCustomStateCheck`, `stableState`, `checkDeploymentState` | the declarative library, which sets the Manifest state from the verdict |
| Manifest parsing, cache helpers | `src/unnamed/part_001:619-703` | none | `ParseManifestToObjects`, `GetCacheFunc` | the file system |
| Template name index | `src/pkg/index/template_name.go` | a field index | `With` | the manager cache |
| Remote cluster client | `src/controllers/control-plane/control_plane_test.go:75-148` | none | `GetRESTConfig`, `WithClientCacheKey` | kubeconfig secrets |
| Watcher certificate manager | `src/tests/e2e_test/watcher_test.go:348-606` | certificates and secrets | `CreateSelfSignedCert`, `Remove`, `GetCACertificate`, … | cert-manager |
| Deep-copy functions, tests | `zz_generated.deepcopy.go`, the test parts of the files above | – | – | – |

The hard behaviours the code is exposed to:

- **Steps of several actors in an unexpected order.** Tenants switch
  channels, authors publish, delete and re-create templates, and the
  reconciler runs in between. The guard must stop a channel switch that
  would lower the installed version.
- **Events against reads.** The informer delivers Manifest events while
  the Kyma reconciler reads the Manifests. An event filter or a
  suppressed comparison can lose the wake-up for a state change.
- **Partial failures.** An undecodable descriptor aborts every lookup. A
  malformed owner reference ends the walk over the remaining references
  (this is reachable only when every reference is followed; `setup.go`
  follows the controller reference alone).
  A failed `RESTMapping` call drops a request.
- **A shared cache without a lock.** One chart manager serves the
  concurrent reconciliations of all Kymas and caches the KCP address in a
  plain field.
- **Checks that stop early.** The pre-install check skips a chart whose
  resources exist without comparing its values; the ready check looks at
  the first Deployment only.

## 2. Modules

| Module | Models | State / actions |
|---|---|---|
| `TemplateLookup` | `regular.go:18-296` | Pure operators only: `getDesiredChannel`, `getTemplate`, `GetAndValidate`, `FilterTemplate`, `checkValidTemplateUpdate`, `RegularTemplate` (one module of `GetRegularTemplates`), `GetRegularTemplates`. |
| `KymaReconcile` | one Kyma reconciled against a changing catalog | Variables `catalog`, `kyma` and `status`. `Reconcile(failed)` runs `GetRegularTemplates` and installs every error-free info. The environment actions are `SetKymaChannel`, `SetModuleChannel`, `UpdateTemplate`, `DeleteTemplate` and `CreateTemplate`. |
| `LegacyChannelLookup` | `part_001:1-311` | Pure operators of the older lookup, over the same data. |
| `LegacyReconcile` | the same loop with the legacy lookup | `InstallLegacy` is the legacy installer contract, which is not in `src/` (spec_modelled): apply a module on first install, and re-apply it only when its template is marked `Outdated`. Also `ReconcileLegacy`, `NextLegacy` and `SpecLegacy`. |
| `OwnerEnqueue` | `part_000` with `setup.go:52-65` | Variables `objects` (the Manifests), `events` (delivered, not yet handled, in order), `queue` (the work queue's set of pending requests) and `seen` (a history variable: what each Kyma's last reconciliation read). The actions are `HandleEvent`, `Reconcile(k)` and the Manifest changes `CreateDependent`, `SetState`, `UpdateSpec` and `DeleteDependent`. |
| `ModuleInstall` | spec sections 3, 4.1, 4.2 | The abstract specification: variables `catalog`, `kyma`, `installed`. `InstallModules` installs some modules, each from an `Admissible` template (the only existing one answering in the desired channel, not mandatory, not lower across channels); `Environment` changes catalog and Kyma. |
| `SKRWebhookChart` | `regular.go:317-477` | Variables `watchers`, `lb` (IP and http2 port), `kcpAddr` (the cache), `skr` (per Kyma: installed, rendered config, address), `ready`, `deleting`, `lbRead` (per Kyma: what a call in flight read from the Service) and `envSteps`. Actions `InstallWebhookChart(k, ok)`, `RemoveWebhookChart(k, ok)` (both through `ChartCall`, i.e. `generateHelmChartArgs` and `installOrRemoveChartOnSKR`), `ReadLoadBalancer(k)` (the first half of a cache miss, with several workers), and the environment `ApplyWatcher`, `DeleteWatcher`, `AssignLoadBalancerIP`, `ChangeLoadBalancerIP`, `DeleteSKRResources`, `DeleteKyma`. |
| `ManifestReadyCheck` | `ready_check.go:33-112` | `Run`, `parseCustomStateCheck`, `stableState`, `checkDeploymentState` as operators; one constant variable `in` ranges over every bounded input. |
| `KymaReconcileProofs`, `SKRWebhookChartProofs` | – | TLAPS proofs. |
| `MCKymaReconcile`, `MCLegacyReconcile`, `MCOwnerEnqueue` | – | Instances for TLC. |

**Abstraction.**

- A ModuleTemplate is a record: whether it exists, the set of module names
  its metadata answers to (label, `namespace/name` or object name), its
  descriptor, its channel, generation, and the mandatory, internal and beta
  flags.
- A descriptor is either `DecodeError` or a pair of the component name and
  a version.
- A version is a natural number ordered like semver, or `BadVersion` (a
  string `semver.NewVersion` rejects).
- Errors are tags named after the sentinel errors.
- `NoStatus` stands for both "no ModuleStatus" and "a ModuleStatus with a
  nil Template". Both skip the guard (`regular.go:149`).

In the owner handler:

- An owner reference is its owner's name plus three flags: whether its
  (group, kind) is Kyma's, whether its apiVersion parses, and whether it is
  the controller reference.
- `status.state` is a value from a small set, or `Missing`.
  `NestedString` turns `Missing` into `""`. No reported state is `""`
  (`StatesAssumption`).

The installer, the Kyma type, `IsValidVersionChange` and the Kyma reconciler
are not in `src/`. They are modelled from the spec and marked
`spec_modelled` in `PROJECT.json`:

- `Applied` and `Install`: the installer applies a module exactly when its
  info has no error, and records the template's channel, version and
  generation.
- `IsValidVersionChange`: new ≥ old.
- The Kyma reconciler reads the current states of its Manifests.

The template authors' `UpdateTemplate` follows the validating webhook that
the comment at `regular.go:212-215` relies on. A template's version never
decreases within an update.

In the chart manager:

- A Watcher is its module name and whether it watches the status field; a
  rendered chart config maps module names to that flag.
- An address is the pair (IP, port) that `net.JoinHostPort` formats;
  `NoAddr` is the empty cache.
- Failures of the remote client, the rest config and `Marshal` return
  before anything changes and are stutters. A failed Helm call is
  `ok = FALSE`: the address is still cached, the SKR is unchanged.
- `ConsistencyCheck` finds the release's resources by kind and name and
  does not compare their values, so it answers "installed" exactly when
  the resources exist.
- The caller (the Kyma reconciler) is not in `src/`: it installs while the
  Kyma lives and removes once the Kyma is being deleted (spec_modelled).

In the ready check, a rendered resource is whether it converts to a
Deployment plus the Deployment's Available condition, desired replicas
(or nil) and ready replicas; the custom resource is the value at each JSON
path (absent, not a string, or a state).

**What the code does that the model keeps.**

- `GetRegularTemplates` stores `FilterTemplate`'s result at line 60 and
  overwrites it with the unfiltered info at line 67. `RegularTemplate`
  computes `filtered` and drops it in the same way.
- The legacy `CheckForOutdatedTemplates` marks a copy and never writes it
  back. `GetTemplates` computes `checked` and drops it, so no template is
  ever marked `Outdated` and the installer never re-applies a module.

## 3. Runs

| Run | cfg | Expect | What it shows |
|---|---|---|---|
| `kyma_reconcile` | `MCKymaReconcile.cfg` | pass | `TypeOK`. `NoDowngradeOnChannelChange`: a module moves to another channel only at a version that parses and is not lower. `ImplementsModuleInstall`: the loop implements `ModuleInstall!Spec` under `installed <- status`, so only the unique, non-mandatory, non-lowering match of the desired channel is installed. |
| `kyma_generation_liveness` | `MCKymaReconcileLive.cfg` | pass | `GenerationSkewResolved`: a new generation of the installed template in its channel is eventually installed. |
| `kyma_visibility` | `MCKymaVisibility.cfg` | violation | `VisibilityRespected` fails. An internal template is installed for a non-internal Kyma, because line 67 discards `FilterTemplate`'s verdict. |
| `legacy_lost_update` | `MCLegacyLostUpdate.cfg` | violation | `LegacyGenerationSkewResolved` fails. In a typical trace, module A is installed from t2 at generation 2, and t2 is then deleted and re-created at generation 1 (an author's bump fails the same way). Line 125 marks the template outdated on a copy that is dropped, so A is never re-applied. With the checked entry returned instead, the same instance passes (4,032 states). |
| `owner_enqueue` | `MCOwnerEnqueue.cfg` | pass | `TypeOK`. `NoLostStateChange`: once all delivered events are handled, every Kyma that is not queued has read the current state of each Manifest it owns. This holds without the generation filter, and with a foreign reference and a malformed reference before the controller reference. |
| `owner_enqueue_setup` | `MCOwnerEnqueueSetup.cfg` | violation | `NoLostStateChange` fails with `setup.go`'s controller-wide `GenerationChangedPredicate`. A status-only Manifest update is filtered before the handler. |
| `owner_missing_state` | `MCOwnerEnqueueMissing.cfg` | violation | `MissingStateFailsOpen` fails. An update with `status.state` missing on both sides compares `"" = ""` and is suppressed (`part_000:195`). |
| `skr_webhook` | `SKRWebhookChart.cfg` | pass | One worker, pre-install check on. `TypeOK`; `AllSKRsAgreeOnAddr`: installed webhooks call back one KCP address however the IP changes; `WebhookRedeployed`: resources deleted on a live Kyma's SKR come back; `WebhookRemoved`: a deleted Kyma loses its chart. |
| `skr_webhook_nocheck` | `SKRWebhookNoCheck.cfg` | pass | Pre-install check off, several workers. `WatcherChangeReachesSKR`: every live SKR eventually carries the config of the current Watchers. |
| `skr_webhook_stale_config` | `SKRWebhookStaleConfig.cfg` | violation | The same property with the check on: install, apply a Watcher, and every later install is skipped by `ConsistencyCheck` (`regular.go:464`), against the TODOs at lines 351 and 459. |
| `skr_webhook_addr_race` | `SKRWebhookAddrRace.cfg` | violation | `AllSKRsAgreeOnAddr` with several workers: k1 misses the cache and reads ip1, the IP changes, k2 resolves and installs ip2, k1 writes ip1 and installs. The unlocked cache at `regular.go:409-429`. |
| `manifest_ready_check` | `ManifestReadyCheck.cfg` | violation | `ReadyMeansAllDeploymentsReady` fails at an initial state: the first Deployment is ready, the second is not, and `Run` says Ready (`ready_check.go:98`). |

**Bounds.**

- `MCKymaReconcile`: 2 modules (A, B), channels `regular` and `fast`, and
  versions {1, 2}. There are 6 templates:
  - t1: A, regular, v1
  - t2: A, fast, v2
  - t3: A, regular, v2, which matches only by descriptor and starts deleted
  - t4: B, regular, v1
  - t5: B, fast, v2, mandatory
  - t6: B, fast, with an undecodable descriptor; starts deleted

  Generations are capped at 2 (`MaxGeneration`), and only t1 and t2 get
  new versions (`AuthoredTemplates`).

  These bounds reach every branch of the lookup and the guard:
  - ambiguity, when t3 is re-created beside t1 or t6 beside t5;
  - not found, when a template is deleted;
  - mandatory, for B in fast;
  - a decode failure that aborts A's lookups while t6 exists;
  - B installed from the undecodable t6, after which the guard fails
    closed;
  - channel skew both ways, between v1 and v2;
  - generation skew;
  - a List failure for any subset of modules.

  The instance has 290,304 states.
- The liveness runs use module A and t1–t3 only (4,032 states). The
  legacy run uses the same instance.
- `MCOwnerEnqueue`: 2 Kymas, 2 Manifests, 2 states plus `Missing`,
  generations up to 2, and at most 2 events in flight. The reference lists
  are:
  - m1: a non-controller reference to k2, then the controller reference to
    k1;
  - m2: a malformed reference to k1, then the controller reference to k2.

  The instance has 581,181 states.
- `SKRWebhookChart`: 2 Kymas, 2 modules, 2 IPs plus `NoIP`, one http2
  port, at most 2 environment changes (`MaxEnvChanges`; the IP assignment
  is not counted). Two Kymas are the least that can disagree on the
  address or race on the cache; two modules and two changes let a Watcher
  be added and the IP change in one behaviour. 37,148 states with one
  worker, 82,612 with several.
- `ManifestReadyCheck`: up to 2 resources, replicas up to 1, states
  Ready, Warning and Processing, two JSON paths: every early return of
  `Run` and both outcomes of each Deployment test.

**Fairness.**

- `KymaReconcile`: `WF_vars(Reconcile({}))`. The work queue re-runs a Kyma
  after every failure, with backoff and a periodic requeue. List failures
  are transient, so a pass in which every List succeeds is eventually taken
  while it stays enabled.
- `LegacyReconcile`: `WF_vars(ReconcileLegacy({}))`, for the same reason
  as `KymaReconcile`.
- `SKRWebhookChart`: weak fairness of `InstallWebhookChart(k, TRUE)` and
  `RemoveWebhookChart(k, TRUE)`. The Kyma reconciler requeues after an
  error and periodically after success, and Helm failures are transient,
  so a chart call that stays possible is eventually made and succeeds.
  Weak fairness of the IP assignment: the cloud provider eventually gives
  the load balancer an IP. Nothing is fair for the environment's other
  steps, which are bounded.
- `OwnerEnqueue` has no liveness property and no fairness. Its
  environment is bounded (`MaxGeneration`, `MaxEvents`), so every behaviour
  reaches a state where no Manifest can change any more and all events are
  handled. That state is the end of the run, so `MCOwnerEnqueue.cfg`
  disables deadlock checking. The controller then waits, which is correct
  behaviour.

**Mutants.** Each property of a passing run is broken by a plausible bug in
the code it is about:

- testing the generation before the channel in `checkValidTemplateUpdate`
  (the legacy guard's order) breaks `NoDowngradeOnChannelChange`;
- dropping the ambiguity check breaks `ImplementsModuleInstall`;
- blocking generation skews breaks `GenerationSkewResolved`;
- comparing the new state with itself breaks `NoLostStateChange`;
- enqueuing the object instead of its owner breaks `OwnerEnqueue`'s
  `TypeOK`;
- reading an undecodable descriptor as version 0 breaks `KymaReconcile`'s
  `TypeOK`;
- `resolveKcpAddr` ignoring its cache breaks `AllSKRsAgreeOnAddr`, and
  not checking for an empty Ingress list breaks `SKRWebhookChart`'s
  `TypeOK`;
- skipping the install whenever the check is on breaks
  `WebhookRedeployed`; ignoring the mode breaks `WebhookRemoved`;
- rendering every Watcher as spec-only breaks `WatcherChangeReachesSKR`.

## 4. Proofs (checked by `tlapm`)

### `KymaReconcileProofs`

The proofs rest on three assumptions from the modules:

- `VersionsAssumption`: versions are naturals and `BadVersion` is none of
  them.
- `NamesAssumption`: `OtherName` and `NoTemplate` are not real names.
- `KymaReconcileAssumption`: the initial catalog and Kyma are well-formed.

`ChannelsAssumption` is not used. It is the one that mentions the empty
string, which the SMT backend cannot encode.

- **`TypeCorrect`: `Spec => []TypeOK`.** `TypeOK` is inductive as it
  stands. The proof has one step per action. It rests on these lemmas:
  - `getTemplateResult`, `GetAndValidateResult` and `RegularTemplateResult`:
    an info without an error names a template;
  - `checkValidTemplateUpdateResult`: the guard keeps the template and only
    adds `UpdateNotAllowed`;
  - `DescriptorVersionType`, `AppliedType`, `TemplateRecCreate` and
    `TemplateRecUpdate`: the record updates keep their shape.
- **`NoDowngrade`: `Spec => NoDowngradeOnChannelChange`.** This is the
  property of the `kyma_reconcile` run, proved for every catalog, Kyma and
  version set. The argument goes as follows:
  - Only `Reconcile` changes `status`.
  - A changed channel means the module's info has no error.
  - `GuardAdmitsOnlyUpgrades` then shows the following. The module was
    valid and `GetAndValidate` found a template, so `RegularTemplate` ran
    the guard. The guard took the channel-skew branch and did not set
    `UpdateNotAllowed`, so both versions parse and the new one is not lower.
  - The invariant it needs is only `TypeOK`, which supplies the types of
    the recorded and declared versions.
- **`Refinement`: `Spec => ImplementsModuleInstall`.** The initial states
  map to `ModuleInstall`'s (no module installed), and `RefinementStep`
  shows every step is a `ModuleInstall` step or a stutter of
  `<<catalog, kyma, status>>`: environment steps are `Environment`, a
  `Reconcile` that changes `status` is `InstallModules`, because
  `RegularTemplateAdmissible` shows the installed template is
  `Admissible` (via `getTemplateSelects`: an info without error names the
  only answering template and it is not mandatory; the non-lowering part
  is `GuardAdmitsOnlyUpgrades`). `InstanceSetsAgree` identifies the
  instance's copies of `TemplateRecs` and `Kymas` with the module's. The
  step needs only `TypeOK`.

### `SKRWebhookChartProofs`

It rests on `SKRWebhookChartAssumption` (`NoIP` is not an IP; ports are
naturals; the flags are Booleans).

- **`TypeCorrect`: `Spec => []TypeOK`**, with one worker or several.
  `TypeOK` is inductive; `TypeStep` has one step per action, with
  `ChartCallAddr` (the rendered address is a load-balancer address),
  `resolveKcpAddrResult` and `UninstalledChart` as lemmas.
- **`AgreeOnAddr`: `~ConcurrentReconciles => (Spec => []AllSKRsAgreeOnAddr)`.**
  `AllSKRsAgreeOnAddr` is not inductive: a step that installs on one SKR
  could record any address. The inductive invariant is `TypeOK /\
  NoPendingRead /\ AddrIsCached`: no call is between reading the Service
  and writing the cache, and every installed chart carries the cached
  address, which is then set. A call either finds the cache set
  (`resolveKcpAddrResult` returns it) or fills it with what it installs;
  `installOrRemoveChartOnSKRResult` shows an installed chart is either
  the one just rendered or the one already there. With several workers
  `ReadLoadBalancer` breaks `NoPendingRead`, and the run
  `skr_webhook_addr_race` shows the property then fails.
### `OwnerEnqueueProofs`

It rests on `OwnerEnqueueAssumption` (`Missing` is not a state; the
references are sequences of owner references; the flags are Booleans;
the bounds are naturals) and `StatesAssumption`: no reported state is the
empty string, so only a missing `status.state` reads as `""` through
`NestedString`. The module states this once, in `NestedStateChanges`,
and proves it with Zenon: the SMT backend cannot encode `""`.

- **`TypeCorrect`: `Spec => []TypeOK`**, for every configuration.
  `TypeOK` is inductive. `TypeStep` has one step per action, on these
  lemmas:
  - `RequestsAreOwners`: every request names an owner;
  - `EmitType`, `ObjectUpdates` and `ObservedType`: the record updates
    keep their shape.
- **`NoLostWakeUp`:
  `IsController /\ ~UseGenerationPredicate => (Spec => []NoLostStateChange)`.**
  This is the invariant of the `owner_enqueue` run, proved for all owners,
  dependents, states and references.
  - `IsController` is what `setup.go:64-65` installs.
  - `~UseGenerationPredicate` excludes the controller-wide filter. With
    the filter the property fails (run `owner_enqueue_setup`).
  - `NoLostStateChange` is not inductive. It says nothing while events
    are pending, so a step that handles the last event has nothing to
    start from.
  - The inductive invariant is `TypeOK /\ WakeUpPending`. For every
    dependent d and responsible owner k outside the queue, one of two
    things holds:
    - k's last read of d is current; or
    - some event for d still in `events` will enqueue k (`WakesUp`).
  - TLC checked the strengthening as an invariant on `MCOwnerEnqueue`'s
    instance (581,181 states) before the proof.
  - The argument follows the actions:
    - `HandleEvent` either enqueues k, or shifts the witnessing event one
      place in `Tail(events)`.
    - `Reconcile(k)` makes k's reads current.
    - A change to d either keeps what a reconciliation reads of d
      (`UpdateSpec`), or appends an event that wakes every responsible
      owner (`EmitKeepsWakeUps`). For a create or a delete this comes
      from the event type. For `SetState` it comes from
      `NestedStateChanges`.
  - `RequestCoversResponsible` carries `IsController`. With only the
    controller reference (`ControllerRefsResult`: at most one), no earlier
    malformed reference can end the walk.

**Only model-checked.**

- `GenerationSkewResolved` is a liveness property, and liveness under
  fairness is beyond TLAPS.
- `WatcherChangeReachesSKR`, `WebhookRedeployed` and `WebhookRemoved` are
  liveness properties and are checked by TLC only.
- `ManifestReadyCheck` has only a violation run. `MissingStateFailsOpen`
  is violated by the code (run `owner_missing_state`), so there is nothing
  to prove about it.
- `NoLostStateChange` with `IsController = FALSE` is not proved: it is not
  the configuration `setup.go` installs, and no run checks it.

## 5. Not modelled

- Metrics, the certificate manager, the REST config and the template name
  field index are I/O against clusters or registries, or registration
  without state, and decide no control flow the properties see. The
  field index is not used by any code under `src/`.
- In the chart manager: the `http2` port search falling through to port 0
  (all modelled ports are http2 ports), and `RemoveWebhookChart` failing
  when no Watcher exists (the model keeps one Watcher, since otherwise the
  removal can never succeed and `WebhookRemoved` fails for that reason).
- Remote module templates: the legacy `GetTemplates` branch at lines 48-56.
- A `RESTMapping` failure in the owner handler (`part_000:176-180`): the
  owner type is the controller's own CRD, whose mapping the manager
  serves.
- `Generic` events: never sent for Manifests.
- The memoisation in `GetDescriptor`.
- Logging and error wording.
- Generated deep-copy code and tests.

## 6. Plan for the next sittings

1. Extend `ModuleInstall` with visibility (internal and beta templates);
   `KymaReconcile` is then expected not to refine it (the finding of
   `kyma_visibility`).
2. Model duplicate owner references in the owner handler.
3. Model the CA certificate cache in `GetCACertificate`, with stale reads
   after a rotation.
4. Compose `SKRWebhookChart` with `KymaReconcile`: one reconciliation pass
   resolves templates and then installs the webhook.
