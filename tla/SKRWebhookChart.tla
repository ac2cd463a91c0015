--------------------------- MODULE SKRWebhookChart ---------------------------
(***************************************************************************)
(* SKRChartManager (package deploy, pkg/templatelookup/regular.go         *)
(* 317-477): installs and removes the runtime-watcher webhook chart on    *)
(* the SKR clusters of the Kymas.  One manager is shared by all Kyma      *)
(* reconciliations and caches the KCP address it resolved from the Istio  *)
(* ingress load balancer.  The chart values are the KCP address and one   *)
(* WatchableConfig per module, generated from the Watcher CRs of the KCP. *)
(*                                                                         *)
(* A Watcher is abstracted to its module name and whether it watches the  *)
(* status field; a chart on an SKR to whether its resources exist and the *)
(* values it was rendered with.  Failures of the remote client, of the    *)
(* rest config and of Marshal return before any state changes: they are  *)
(* stutters.  The caller (the Kyma reconciler, not under src/) installs   *)
(* while the Kyma lives and removes once it is being deleted.             *)
(***************************************************************************)
EXTENDS Naturals

CONSTANTS
  Kymas,           \* Kymas, one SKR each
  Modules,         \* module names Watchers are labelled with
  IPs,             \* external IPs the ingress load balancer may get
  NoIP,            \* Status.LoadBalancer.Ingress is empty
  Ports,           \* ports named "http2" the load balancer may expose
  EnablePreInstallCheck, \* enableWebhookPreInstallCheck
  ConcurrentReconciles,  \* Kymas are reconciled by more than one worker
  MaxEnvChanges    \* bound on changes the environment makes

ASSUME SKRWebhookChartAssumption ==
  /\ NoIP \notin IPs
  /\ Ports \subseteq Nat
  /\ EnablePreInstallCheck \in BOOLEAN
  /\ ConcurrentReconciles \in BOOLEAN
  /\ MaxEnvChanges \in Nat

Watchers == [module : Modules, statusOnly : BOOLEAN]

\* The chart's customConfigKey value: a WatchableConfig per module name.
ChartConfigs == UNION {[M -> BOOLEAN] : M \in SUBSET Modules}

\* net.JoinHostPort(externalIP, port), kept as the pair.
Addrs == IPs \X Ports

NoAddr == <<NoIP, 0>>              \* the empty kcpAddr ""
NoCfg == [m \in {} |-> FALSE]      \* a chart never rendered
LBNotAssigned == "ErrLoadBalancerIPIsNotAssigned"

Charts == [installed : BOOLEAN, cfg : ChartConfigs \cup {NoCfg},
           addr : Addrs \cup {NoAddr}]

VARIABLES
  watchers,  \* the Watcher CRs in the KCP
  lb,        \* the ingress load balancer: external IP and http2 port
  kcpAddr,   \* SKRChartManager.kcpAddr
  skr,       \* per Kyma, the webhook chart on its SKR
  ready,     \* per Kyma, condition SKRWebhookIsReady set to True
  deleting,  \* per Kyma, the Kyma is being deleted
  lbRead,    \* per Kyma, the address its call in flight read from the
             \* Service before writing m.kcpAddr, or NoAddr
  envSteps   \* changes the environment made so far

vars == <<watchers, lb, kcpAddr, skr, ready, deleting, lbRead, envSteps>>

TypeOK ==
  /\ watchers \subseteq Watchers
  /\ lb \in [ip : IPs \cup {NoIP}, port : Ports]
  /\ kcpAddr \in Addrs \cup {NoAddr}
  /\ skr \in [Kymas -> Charts]
  /\ ready \in [Kymas -> BOOLEAN]
  /\ deleting \in [Kymas -> BOOLEAN]
  /\ lbRead \in [Kymas -> Addrs \cup {NoAddr}]
  /\ envSteps \in 0..MaxEnvChanges

\* NewSKRChartManager leaves kcpAddr empty.
Init ==
  /\ watchers \in SUBSET Watchers \ {{}}
  /\ lb \in [ip : IPs \cup {NoIP}, port : Ports]
  /\ kcpAddr = NoAddr
  /\ skr = [k \in Kymas |-> [installed |-> FALSE, cfg |-> NoCfg,
                             addr |-> NoAddr]]
  /\ ready = [k \in Kymas |-> FALSE]
  /\ deleting = [k \in Kymas |-> FALSE]
  /\ lbRead = [k \in Kymas |-> NoAddr]
  /\ envSteps = 0

-----------------------------------------------------------------------------
\* Mutant of generateWatchableConfigs: StatusOnly never set.
generateWatchableConfigsSpecOnly(ws) ==
  {[m \in {w.module : w \in ws} |-> FALSE]}

(***************************************************************************)
(* generateWatchableConfigs: one entry per module name; when two Watchers  *)
(* name the same module the later one in the list wins, and the list      *)
(* order is not fixed, so any of them may.                                 *)
(***************************************************************************)
generateWatchableConfigs(ws) ==
  {f \in [{w.module : w \in ws} -> BOOLEAN] :
     \A m \in DOMAIN f : [module |-> m, statusOnly |-> f[m]] \in ws}

\* Mutant of resolveKcpAddr: the cache is never read.
resolveKcpAddrUncached ==
  IF lb.ip = NoIP THEN LBNotAssigned ELSE <<lb.ip, lb.port>>

\* Mutant of resolveKcpAddr: the empty Ingress list is not checked.
resolveKcpAddrUnchecked ==
  IF kcpAddr # NoAddr THEN kcpAddr ELSE <<lb.ip, lb.port>>

\* resolveKcpAddr: the cached address, else the load balancer's.
resolveKcpAddr ==
  CASE kcpAddr # NoAddr -> kcpAddr
    [] lb.ip = NoIP     -> LBNotAssigned
    [] OTHER            -> <<lb.ip, lb.port>>

\* Mutant of installOrRemoveChartOnSKR: with the check enabled the install
\* is skipped whatever ConsistencyCheck finds.
installOrRemoveChartOnSKRSkipAlways(k, mode, chart) ==
  CASE mode = "uninstall"    -> [skr[k] EXCEPT !.installed = FALSE]
    [] EnablePreInstallCheck -> skr[k]
    [] OTHER                 -> chart

\* Mutant of installOrRemoveChartOnSKR: the mode is not looked at.
installOrRemoveChartOnSKRIgnoresMode(k, mode, chart) ==
  IF EnablePreInstallCheck /\ skr[k].installed THEN skr[k] ELSE chart

(***************************************************************************)
(* installOrRemoveChartOnSKR, when it returns nil: the chart on the SKR   *)
(* afterwards.  Uninstall removes the resources.  With the pre-install    *)
(* check, ConsistencyCheck finds the resources of the release on the SKR  *)
(* (by kind and name; it does not compare the rendered values) and the     *)
(* install is skipped; when they are missing it installs.                 *)
(***************************************************************************)
installOrRemoveChartOnSKR(k, mode, chart) ==
  CASE mode = "uninstall"                        -> [skr[k] EXCEPT !.installed = FALSE]
    [] EnablePreInstallCheck /\ skr[k].installed -> skr[k]
    [] OTHER                                     -> chart

(***************************************************************************)
(* InstallWebhookChart and RemoveWebhookChart: generateHelmChartArgs lists *)
(* the Watchers (none is an error), renders their configs and resolves    *)
(* the KCP address, caching it; then the chart is installed or removed.    *)
(* ok is whether the chart call succeeds; a failed call still leaves the  *)
(* address cached.  A call that already read the Service (ReadLoadBal-   *)
(* ancer) writes and uses what it read, whatever the cache holds by now.  *)
(***************************************************************************)
ChartCall(k, mode, ok) ==
  LET addr == IF lbRead[k] # NoAddr THEN lbRead[k] ELSE resolveKcpAddr
  IN  /\ watchers # {}
      /\ addr # LBNotAssigned
      /\ kcpAddr' = addr
      /\ lbRead' = [lbRead EXCEPT ![k] = NoAddr]
      /\ \E cfg \in generateWatchableConfigs(watchers) :
           LET chart == [installed |-> TRUE, cfg |-> cfg, addr |-> addr]
           IN  skr' = IF ok THEN [skr EXCEPT ![k] =
                                   installOrRemoveChartOnSKR(k, mode, chart)]
                      ELSE skr

InstallWebhookChart(k, ok) ==
  /\ ~deleting[k]
  /\ ChartCall(k, "install", ok)
  /\ ready' = IF ok THEN [ready EXCEPT ![k] = TRUE] ELSE ready
  /\ UNCHANGED <<watchers, lb, deleting, envSteps>>

RemoveWebhookChart(k, ok) ==
  /\ deleting[k]
  /\ ChartCall(k, "uninstall", ok)
  /\ UNCHANGED <<watchers, lb, ready, deleting, envSteps>>

(***************************************************************************)
(* With several workers, reconciliations of different Kymas share the     *)
(* manager without a lock: resolveKcpAddr of one may find the cache empty *)
(* and read the Service (lines 409-428) before it writes m.kcpAddr (line  *)
(* 429), and others run in between.                                       *)
(***************************************************************************)
ReadLoadBalancer(k) ==
  /\ ConcurrentReconciles
  /\ lbRead[k] = NoAddr
  /\ watchers # {}
  /\ kcpAddr = NoAddr
  /\ lb.ip # NoIP
  /\ lbRead' = [lbRead EXCEPT ![k] = <<lb.ip, lb.port>>]
  /\ UNCHANGED <<watchers, lb, kcpAddr, skr, ready, deleting, envSteps>>

-----------------------------------------------------------------------------
(***************************************************************************)
(* The environment: Watchers applied and deleted (one is always kept),    *)
(* the load balancer getting or changing its IP, the webhook resources    *)
(* deleted on an SKR, a Kyma deleted.                                     *)
(***************************************************************************)
EnvStep(change) ==
  /\ envSteps < MaxEnvChanges
  /\ change
  /\ envSteps' = envSteps + 1

ApplyWatcher(w) ==
  /\ EnvStep(watchers' = watchers \cup {w})
  /\ UNCHANGED <<lb, kcpAddr, skr, ready, deleting, lbRead>>

DeleteWatcher(w) ==
  /\ watchers \ {w} # {}
  /\ EnvStep(watchers' = watchers \ {w})
  /\ UNCHANGED <<lb, kcpAddr, skr, ready, deleting, lbRead>>

\* The cloud provider assigns the external IP; later it may change.
AssignLoadBalancerIP(ip) ==
  /\ lb.ip = NoIP
  /\ lb' = [lb EXCEPT !.ip = ip]
  /\ UNCHANGED <<watchers, kcpAddr, skr, ready, deleting, lbRead, envSteps>>

ChangeLoadBalancerIP(ip) ==
  /\ lb.ip \notin {NoIP, ip}
  /\ EnvStep(lb' = [lb EXCEPT !.ip = ip])
  /\ UNCHANGED <<watchers, kcpAddr, skr, ready, deleting, lbRead>>

DeleteSKRResources(k) ==
  /\ skr[k].installed
  /\ EnvStep(skr' = [skr EXCEPT ![k].installed = FALSE])
  /\ UNCHANGED <<watchers, lb, kcpAddr, ready, deleting, lbRead>>

DeleteKyma(k) ==
  /\ ~deleting[k]
  /\ deleting' = [deleting EXCEPT ![k] = TRUE]
  /\ UNCHANGED <<watchers, lb, kcpAddr, skr, ready, lbRead, envSteps>>

Next ==
  \/ \E k \in Kymas, ok \in BOOLEAN :
       InstallWebhookChart(k, ok) \/ RemoveWebhookChart(k, ok)
  \/ \E w \in Watchers : ApplyWatcher(w) \/ DeleteWatcher(w)
  \/ \E ip \in IPs : AssignLoadBalancerIP(ip) \/ ChangeLoadBalancerIP(ip)
  \/ \E k \in Kymas : DeleteSKRResources(k) \/ DeleteKyma(k)
  \/ \E k \in Kymas : ReadLoadBalancer(k)

(***************************************************************************)
(* The Kyma reconciler requeues after an error and after every success,   *)
(* so a chart call that keeps being possible is eventually made and       *)
(* succeeds; the cloud provider eventually assigns the IP.                 *)
(***************************************************************************)
Fairness ==
  /\ \A k \in Kymas : WF_vars(InstallWebhookChart(k, TRUE))
                   /\ WF_vars(RemoveWebhookChart(k, TRUE))
  /\ WF_vars(\E ip \in IPs : AssignLoadBalancerIP(ip))

Spec == Init /\ [][Next]_vars /\ Fairness

-----------------------------------------------------------------------------
(***************************************************************************)
(* Properties.                                                             *)
(***************************************************************************)

\* The chart values a Watcher set calls for: one WatchableConfig per
\* watched module, taken from a Watcher of that module.
RendersWatchers(cfg) ==
  /\ DOMAIN cfg = {w.module : w \in watchers}
  /\ \A m \in DOMAIN cfg : [module |-> m, statusOnly |-> cfg[m]] \in watchers

\* A Watcher applied or deleted on the KCP reaches the SKR of every live
\* Kyma: its chart is eventually rendered from the current Watchers (the
\* TODOs at InstallWebhookChart and installOrRemoveChartOnSKR: keep the
\* webhook configuration in sync with the watchers' configuration).
WatcherChangeReachesSKR ==
  \A k \in Kymas :
    ~deleting[k] ~> (deleting[k] \/ RendersWatchers(skr[k].cfg))

\* Every SKR with the webhook installed calls back the same KCP address,
\* although the load balancer's IP may change between their installs
\* (the address resolveKcpAddr cached first).
AllSKRsAgreeOnAddr ==
  \A k1, k2 \in Kymas :
    skr[k1].installed /\ skr[k2].installed => skr[k1].addr = skr[k2].addr

\* Webhook resources deleted on the SKR of a live Kyma are installed again
\* (e2e test "Should redeploy watcher if it is deleted on remote cluster").
WebhookRedeployed ==
  \A k \in Kymas :
    (~skr[k].installed /\ ~deleting[k]) ~> (skr[k].installed \/ deleting[k])

\* Once a Kyma is being deleted, its webhook chart is eventually removed.
WebhookRemoved ==
  \A k \in Kymas : deleting[k] ~> ~skr[k].installed

=============================================================================
