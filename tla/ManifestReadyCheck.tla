-------------------------- MODULE ManifestReadyCheck --------------------------
(***************************************************************************)
(* ManifestCustomResourceReadyCheck.Run (internal/manifest/v1beta1/       *)
(* ready_check.go): the readiness verdict for an installed Manifest, from *)
(* the resources the chart rendered and the module's custom resource.      *)
(*                                                                         *)
(* Run is a pure function of what it reads, so the module holds one       *)
(* variable, the input, drawn from every input of the bounded sets.  A     *)
(* resource is abstracted to whether it converts to a Deployment and the  *)
(* Deployment status fields checkDeploymentState reads; the custom        *)
(* resource to the value at each JSON path (absent, not a string, or a    *)
(* state).                                                                 *)
(***************************************************************************)
EXTENDS Naturals, Sequences

CONSTANTS
  CRStates,      \* strings status fields of custom resources hold
  Paths,         \* JSON paths a CustomStateCheck may name
  DefaultPath,   \* customResourceStatePath, "status.state"
  MaxResources,  \* bound on the rendered resources
  MaxReplicas,   \* bound on replica counts
  Nil,           \* a nil pointer or a missing annotation
  Absent,        \* NestedString: found = false
  NotString,     \* NestedString: error, the field is not a string
  BadJSON        \* an annotation that does not unmarshal

\* The instances take CRStates to hold "Ready" and "Warning", DefaultPath
\* to be one of Paths, and the four sentinels to be model values.

Resources ==
  [isDeployment : {FALSE}, available : {FALSE}, replicas : {Nil},
   readyReplicas : {0}]
  \cup [isDeployment : {TRUE}, available : BOOLEAN,
        replicas : {Nil} \cup 0..MaxReplicas, readyReplicas : 0..MaxReplicas]

CustomStateChecks == [jsonPath : Paths, value : CRStates]

Inputs ==
  [resources : UNION {[1..n -> Resources] : n \in 0..MaxResources},
   specResource : BOOLEAN,            \* manifest.Spec.Resource != nil
   getOk : BOOLEAN,                   \* clnt.Get of the resource succeeds
   annotation : {Nil, BadJSON} \cup CustomStateChecks,
   cr : [Paths -> {Absent, NotString} \cup CRStates]]

VARIABLE in

Verdict(state, err) == [state |-> state, err |-> err]

\* deploymentutil.GetDeploymentCondition(Available) is True, or the
\* desired replica count is set and all of them are ready.
DeploymentReady(d) ==
  \/ d.available
  \/ d.replicas # Nil /\ d.replicas = d.readyReplicas

(***************************************************************************)
(* checkDeploymentState: the first resource that converts to a Deployment *)
(* is the one checked; without one there is nothing to wait for.          *)
(***************************************************************************)
checkDeploymentState(rs) ==
  LET deps == {i \in DOMAIN rs : rs[i].isDeployment}
  IN  deps = {} \/ DeploymentReady(rs[CHOOSE i \in deps :
                                        \A j \in deps : i <= j])

\* parseCustomStateCheck: the annotation, else status.state must be Ready.
parseCustomStateCheck(ann) ==
  IF ann = Nil THEN [jsonPath |-> DefaultPath, value |-> "Ready"] ELSE ann

\* stableState: Ready and Warning are the states a Manifest may settle in.
stableState(s) == s \in {"Ready", "Warning"}

(***************************************************************************)
(* Run, with its early returns in order; err is whether it returns an      *)
(* error.                                                                  *)
(***************************************************************************)
Run(i) ==
  LET check == parseCustomStateCheck(i.annotation)
      stateFromCR == i.cr[check.jsonPath]
      typedState == IF check.value = stateFromCR THEN "Ready" ELSE stateFromCR
  IN  CASE ~checkDeploymentState(i.resources) -> Verdict("Error", TRUE)
        [] ~i.specResource                    -> Verdict("Ready", FALSE)
        [] ~i.getOk                           -> Verdict("Error", TRUE)
        [] i.annotation = BadJSON             -> Verdict("Error", TRUE)
        [] stateFromCR = NotString            -> Verdict("Error", TRUE)
        [] stateFromCR = Absent               -> Verdict("Error", TRUE)
        [] ~stableState(typedState)           -> Verdict("Error", TRUE)
        [] OTHER                              -> Verdict(typedState, FALSE)

Init == in \in Inputs

Next == UNCHANGED in

Spec == Init /\ [][Next]_in

-----------------------------------------------------------------------------
\* A Manifest is reported Ready (or Warning) only when every Deployment it
\* installed is available or has all its replicas ready: Run answers for
\* the whole rendered chart, not for the first Deployment in it.
ReadyMeansAllDeploymentsReady ==
  ~Run(in).err =>
    \A i \in DOMAIN in.resources :
      in.resources[i].isDeployment => DeploymentReady(in.resources[i])

=============================================================================
