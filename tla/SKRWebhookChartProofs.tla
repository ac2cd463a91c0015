------------------------ MODULE SKRWebhookChartProofs ------------------------
(***************************************************************************)
(* Proofs about SKRChartManager (SKRWebhookChart) for every value of the   *)
(* constants that satisfies SKRWebhookChartAssumption.                     *)
(*                                                                         *)
(* AllSKRsAgreeOnAddr is not inductive: an install on one SKR could record *)
(* any address.  It follows from AddrIsCached: an SKR with the webhook     *)
(* installed carries the address the manager has cached, and once the     *)
(* cache is filled resolveKcpAddr never changes it.  This needs one worker *)
(* (~ConcurrentReconciles): with several, a call that read the Service    *)
(* before the cache was filled overwrites it (run skr_webhook_addr_race). *)
(***************************************************************************)
EXTENDS SKRWebhookChart, TLAPS

USE SKRWebhookChartAssumption

\* Every installed chart calls back the cached KCP address.
AddrIsCached ==
  \A k \in Kymas :
    skr[k].installed => kcpAddr # NoAddr /\ skr[k].addr = kcpAddr

\* No call is between its read of the Service and its write of the cache.
NoPendingRead == \A k \in Kymas : lbRead[k] = NoAddr

IInv == TypeOK /\ NoPendingRead /\ AddrIsCached

-----------------------------------------------------------------------------
\* resolveKcpAddr, when it succeeds, returns an address of the load
\* balancer, and the cached one whenever the cache is filled.
LEMMA resolveKcpAddrResult ==
  ASSUME TypeOK, resolveKcpAddr # LBNotAssigned
  PROVE  /\ resolveKcpAddr \in Addrs
         /\ resolveKcpAddr # NoAddr
         /\ kcpAddr # NoAddr => resolveKcpAddr = kcpAddr
<1>1. CASE kcpAddr # NoAddr
  BY <1>1 DEF resolveKcpAddr, TypeOK
<1>2. CASE kcpAddr = NoAddr
  <2>1. lb.ip # NoIP /\ resolveKcpAddr = <<lb.ip, lb.port>>
    BY <1>2 DEF resolveKcpAddr
  <2>2. lb.ip \in IPs /\ lb.port \in Ports
    BY <2>1 DEF TypeOK
  <2> QED
    BY <1>2, <2>1, <2>2 DEF Addrs, NoAddr
<1> QED
  BY <1>1, <1>2

\* A chart whose resources are removed keeps its values.
LEMMA UninstalledChart ==
  ASSUME NEW c \in Charts
  PROVE  /\ [c EXCEPT !.installed = FALSE] \in Charts
         /\ ~[c EXCEPT !.installed = FALSE].installed
<1>1. DOMAIN c = {"installed", "cfg", "addr"}
  BY DEF Charts
<1> DEFINE d == [c EXCEPT !.installed = FALSE]
<1>2. /\ DOMAIN d = DOMAIN c
      /\ d.installed = FALSE /\ d.cfg = c.cfg /\ d.addr = c.addr
  BY <1>1
<1> QED
  BY <1>1, <1>2 DEF Charts

\* The chart a call leaves on SKR k is well formed, and installed only if
\* it was installed before or carries the address the call resolved.
LEMMA installOrRemoveChartOnSKRResult ==
  ASSUME TypeOK, NEW k \in Kymas, NEW mode, NEW chart \in Charts
  PROVE  LET c == installOrRemoveChartOnSKR(k, mode, chart)
         IN  /\ c \in Charts
             /\ c.installed => \/ c = skr[k] /\ skr[k].installed
                               \/ c = chart
<1>1. skr[k] \in Charts
  BY DEF TypeOK
<1>2. CASE mode = "uninstall"
  BY <1>1, <1>2, UninstalledChart DEF installOrRemoveChartOnSKR
<1>3. CASE mode # "uninstall"
  BY <1>1, <1>3 DEF installOrRemoveChartOnSKR
<1> QED
  BY <1>2, <1>3

-----------------------------------------------------------------------------
\* The address a chart call renders: the one its call read, else the
\* resolved one; either is a load-balancer address, and it is the cached
\* one when the call read nothing and the cache is filled.
LEMMA ChartCallAddr ==
  ASSUME TypeOK, NEW k \in Kymas, NEW mode, NEW ok, ChartCall(k, mode, ok)
  PROVE  LET addr == IF lbRead[k] # NoAddr THEN lbRead[k] ELSE resolveKcpAddr
         IN  /\ addr \in Addrs /\ addr # NoAddr
             /\ lbRead[k] = NoAddr /\ kcpAddr # NoAddr => addr = kcpAddr
             /\ kcpAddr' = addr
             /\ lbRead' = [lbRead EXCEPT ![k] = NoAddr]
             /\ \E cfg \in generateWatchableConfigs(watchers) :
                  skr' = IF ok THEN [skr EXCEPT ![k] = installOrRemoveChartOnSKR(
                                       k, mode, [installed |-> TRUE, cfg |-> cfg,
                                                 addr |-> addr])]
                         ELSE skr
<1> DEFINE addr == IF lbRead[k] # NoAddr THEN lbRead[k] ELSE resolveKcpAddr
<1>1. addr # LBNotAssigned /\ kcpAddr' = addr
      /\ lbRead' = [lbRead EXCEPT ![k] = NoAddr]
  BY DEF ChartCall
<1>2. /\ addr \in Addrs /\ addr # NoAddr
      /\ lbRead[k] = NoAddr /\ kcpAddr # NoAddr => addr = kcpAddr
  <2>1. CASE lbRead[k] # NoAddr
    BY <2>1 DEF TypeOK
  <2>2. CASE lbRead[k] = NoAddr
    BY <1>1, <2>2, resolveKcpAddrResult
  <2> QED
    BY <2>1, <2>2
<1>4. \E cfg \in generateWatchableConfigs(watchers) :
        skr' = IF ok THEN [skr EXCEPT ![k] = installOrRemoveChartOnSKR(
                             k, mode, [installed |-> TRUE, cfg |-> cfg,
                                       addr |-> addr])]
               ELSE skr
  BY DEF ChartCall
<1> QED
  BY <1>1, <1>2, <1>4

\* A chart call keeps the types, and with no read pending it keeps the
\* cache invariant: a call that installs records the address it also
\* caches, and the cache, once filled, is kept.
LEMMA ChartCallStep ==
  ASSUME TypeOK, NEW k \in Kymas, NEW mode, NEW ok \in BOOLEAN,
         ChartCall(k, mode, ok)
  PROVE  /\ kcpAddr' \in Addrs \cup {NoAddr}
         /\ skr' \in [Kymas -> Charts]
         /\ lbRead' \in [Kymas -> Addrs \cup {NoAddr}]
         /\ NoPendingRead /\ AddrIsCached => NoPendingRead' /\ AddrIsCached'
<1> DEFINE addr == IF lbRead[k] # NoAddr THEN lbRead[k] ELSE resolveKcpAddr
<1>1. /\ addr \in Addrs /\ addr # NoAddr
      /\ lbRead[k] = NoAddr /\ kcpAddr # NoAddr => addr = kcpAddr
      /\ kcpAddr' = addr
      /\ lbRead' = [lbRead EXCEPT ![k] = NoAddr]
  BY ChartCallAddr
<1>2. PICK cfg \in generateWatchableConfigs(watchers) :
        skr' = IF ok THEN [skr EXCEPT ![k] = installOrRemoveChartOnSKR(
                             k, mode, [installed |-> TRUE, cfg |-> cfg,
                                       addr |-> addr])]
               ELSE skr
  BY DEF ChartCall
<1> DEFINE chart == [installed |-> TRUE, cfg |-> cfg, addr |-> addr]
           c == installOrRemoveChartOnSKR(k, mode, chart)
<1>3. cfg \in ChartConfigs
  <2>1. {w.module : w \in watchers} \in SUBSET Modules
    BY DEF TypeOK, Watchers
  <2>2. cfg \in [{w.module : w \in watchers} -> BOOLEAN]
    BY DEF generateWatchableConfigs
  <2> QED
    BY <2>1, <2>2 DEF ChartConfigs
<1>4. chart \in Charts
  BY <1>1, <1>3 DEF Charts
<1>5. /\ c \in Charts
      /\ c.installed => \/ c = skr[k] /\ skr[k].installed
                        \/ c = chart
  BY <1>4, installOrRemoveChartOnSKRResult
<1>6. skr' \in [Kymas -> Charts]
  BY <1>2, <1>5 DEF TypeOK
<1>7. lbRead' \in [Kymas -> Addrs \cup {NoAddr}]
  BY <1>1 DEF TypeOK
<1>8. ASSUME NoPendingRead, AddrIsCached,
             NEW j \in Kymas, skr'[j].installed
      PROVE  kcpAddr' # NoAddr /\ skr'[j].addr = kcpAddr'
  <2>0. lbRead[k] = NoAddr
    BY <1>8 DEF NoPendingRead
  <2>1. CASE ok /\ j = k
    <3>1. skr'[j] = c
      BY <2>1, <1>2 DEF TypeOK
    <3>2. CASE c = skr[k] /\ skr[k].installed
      BY <1>1, <1>8, <2>0, <2>1, <3>1, <3>2 DEF AddrIsCached
    <3>3. CASE c = chart
      BY <1>1, <2>1, <3>1, <3>3
    <3> QED
      BY <1>5, <1>8, <3>1, <3>2, <3>3
  <2>2. CASE ~(ok /\ j = k)
    <3>1. skr'[j] = skr[j]
      BY <2>2, <1>2 DEF TypeOK
    <3> QED
      BY <1>1, <1>8, <2>0, <3>1 DEF AddrIsCached
  <2> QED
    BY <2>1, <2>2
<1>9. NoPendingRead => NoPendingRead'
  BY <1>1 DEF NoPendingRead, TypeOK
<1> QED
  BY <1>1, <1>6, <1>7, <1>8, <1>9 DEF AddrIsCached

\* Every step keeps the types.
LEMMA TypeStep == TypeOK /\ [Next]_vars => TypeOK'
<1> SUFFICES ASSUME TypeOK, [Next]_vars PROVE TypeOK'
  OBVIOUS
<1>1. ASSUME NEW k \in Kymas, NEW ok \in BOOLEAN,
             InstallWebhookChart(k, ok) \/ RemoveWebhookChart(k, ok)
      PROVE  TypeOK'
  <2>1. CASE InstallWebhookChart(k, ok)
    BY <2>1, ChartCallStep DEF InstallWebhookChart, TypeOK
  <2>2. CASE RemoveWebhookChart(k, ok)
    BY <2>2, ChartCallStep DEF RemoveWebhookChart, TypeOK
  <2> QED
    BY <1>1, <2>1, <2>2
<1>2. ASSUME NEW w \in Watchers, ApplyWatcher(w) \/ DeleteWatcher(w)
      PROVE  TypeOK'
  BY <1>2 DEF ApplyWatcher, DeleteWatcher, EnvStep, TypeOK
<1>3. ASSUME NEW ip \in IPs,
             AssignLoadBalancerIP(ip) \/ ChangeLoadBalancerIP(ip)
      PROVE  TypeOK'
  BY <1>3 DEF AssignLoadBalancerIP, ChangeLoadBalancerIP, EnvStep, TypeOK
<1>4. ASSUME NEW k \in Kymas, DeleteSKRResources(k) PROVE TypeOK'
  <2>1. [skr[k] EXCEPT !.installed = FALSE] \in Charts
    BY UninstalledChart DEF TypeOK
  <2>2. skr' = [skr EXCEPT ![k] = [skr[k] EXCEPT !.installed = FALSE]]
    BY <1>4 DEF DeleteSKRResources, EnvStep
  <2> QED
    BY <1>4, <2>1, <2>2 DEF DeleteSKRResources, EnvStep, TypeOK
<1>5. ASSUME NEW k \in Kymas, DeleteKyma(k) PROVE TypeOK'
  BY <1>5 DEF DeleteKyma, TypeOK
<1>6. ASSUME NEW k \in Kymas, ReadLoadBalancer(k) PROVE TypeOK'
  BY <1>6 DEF ReadLoadBalancer, TypeOK, Addrs
<1>7. CASE UNCHANGED vars
  BY <1>7 DEF vars, TypeOK
<1> QED
  BY <1>1, <1>2, <1>3, <1>4, <1>5, <1>6, <1>7 DEF Next

\* With one worker, every step keeps the inductive invariant.
LEMMA IInvStep ==
  ASSUME ~ConcurrentReconciles
  PROVE  IInv /\ [Next]_vars => IInv'
<1> SUFFICES ASSUME IInv, [Next]_vars PROVE IInv'
  OBVIOUS
<1>0. TypeOK'
  BY TypeStep DEF IInv
<1>1. ASSUME NEW k \in Kymas, NEW ok \in BOOLEAN,
             InstallWebhookChart(k, ok) \/ RemoveWebhookChart(k, ok)
      PROVE  IInv'
  BY <1>0, <1>1, ChartCallStep DEF InstallWebhookChart, RemoveWebhookChart, IInv
<1>2. ASSUME NEW w \in Watchers, ApplyWatcher(w) \/ DeleteWatcher(w)
      PROVE  IInv'
  BY <1>0, <1>2 DEF ApplyWatcher, DeleteWatcher, EnvStep, IInv, NoPendingRead,
                    AddrIsCached
<1>3. ASSUME NEW ip \in IPs,
             AssignLoadBalancerIP(ip) \/ ChangeLoadBalancerIP(ip)
      PROVE  IInv'
  BY <1>0, <1>3 DEF AssignLoadBalancerIP, ChangeLoadBalancerIP, EnvStep, IInv,
                    NoPendingRead, AddrIsCached
<1>4. ASSUME NEW k \in Kymas, DeleteSKRResources(k) PROVE IInv'
  <2>1. ~[skr[k] EXCEPT !.installed = FALSE].installed
    BY UninstalledChart DEF IInv, TypeOK
  <2>2. skr' = [skr EXCEPT ![k] = [skr[k] EXCEPT !.installed = FALSE]]
    BY <1>4 DEF DeleteSKRResources, EnvStep
  <2> QED
    BY <1>0, <1>4, <2>1, <2>2 DEF DeleteSKRResources, EnvStep, IInv, TypeOK,
                                  NoPendingRead, AddrIsCached
<1>5. ASSUME NEW k \in Kymas, DeleteKyma(k) PROVE IInv'
  BY <1>0, <1>5 DEF DeleteKyma, IInv, NoPendingRead, AddrIsCached
<1>6. ASSUME NEW k \in Kymas, ReadLoadBalancer(k) PROVE FALSE
  BY <1>6 DEF ReadLoadBalancer
<1>7. CASE UNCHANGED vars
  BY <1>0, <1>7 DEF vars, IInv, NoPendingRead, AddrIsCached
<1> QED
  BY <1>1, <1>2, <1>3, <1>4, <1>5, <1>6, <1>7 DEF Next

-----------------------------------------------------------------------------
\* Every reachable state of the chart manager and the SKRs is well typed,
\* with one worker or several.
THEOREM TypeCorrect == Spec => []TypeOK
<1>1. Init => TypeOK
  BY DEF Init, TypeOK, Charts, ChartConfigs, NoCfg, NoAddr
<1> QED
  BY <1>1, TypeStep, PTL DEF Spec

\* With one worker, however the load balancer's IP changes, every SKR with
\* the webhook installed calls back the same KCP address: the one
\* resolveKcpAddr cached first (regular.go:408-431).
THEOREM AgreeOnAddr == ~ConcurrentReconciles => (Spec => []AllSKRsAgreeOnAddr)
<1> SUFFICES ASSUME ~ConcurrentReconciles PROVE Spec => []AllSKRsAgreeOnAddr
  OBVIOUS
<1>1. Init => IInv
  BY DEF Init, IInv, TypeOK, NoPendingRead, AddrIsCached, Charts,
         ChartConfigs, NoCfg, NoAddr
<1>2. IInv => AllSKRsAgreeOnAddr
  BY DEF IInv, AddrIsCached, AllSKRsAgreeOnAddr
<1>3. IInv /\ [Next]_vars => IInv'
  BY IInvStep
<1> QED
  BY <1>1, <1>2, <1>3, PTL DEF Spec

=============================================================================
