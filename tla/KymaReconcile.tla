---------------------------- MODULE KymaReconcile ----------------------------
(***************************************************************************)
(* One Kyma's reconciliation against a changing template catalog.          *)
(*                                                                         *)
(* The Kyma reconciler calls GetRegularTemplates (regular.go) and the      *)
(* installer applies every module whose info carries no error, recording  *)
(* the applied template in status.modules.  Template authors create,      *)
(* update and delete ModuleTemplates, and the tenant moves modules between *)
(* channels, at any moment between two reconciliations.  Reconciliations   *)
(* of one Kyma are serialized by the work queue, so one Reconcile step is  *)
(* a whole pass.                                                           *)
(***************************************************************************)
EXTENDS TemplateLookup

CONSTANTS
  InitCatalog,     \* the catalog the controller starts from
  InitKyma,        \* the tenant as first reconciled
  MaxGeneration,   \* bound on template generations
  AuthoredTemplates \* the templates authors publish new generations of

ASSUME KymaReconcileAssumption ==
  /\ InitCatalog \in [TemplateIds -> TemplateRecs]
  /\ InitKyma \in Kymas
  /\ MaxGeneration \in Nat
  /\ AuthoredTemplates \subseteq TemplateIds

VARIABLES
  catalog,   \* the ModuleTemplates in the control plane
  kyma,      \* the Kyma spec (channels) and its fixed markers
  status     \* status.modules: per module the applied template, or NoStatus

vars == <<catalog, kyma, status>>

TypeOK ==
  /\ catalog \in [TemplateIds -> TemplateRecs]
  /\ kyma \in Kymas
  /\ status \in [ModuleNames -> StatusRecs \cup {NoStatus}]

Init ==
  /\ catalog = InitCatalog
  /\ kyma = InitKyma
  /\ status = [m \in ModuleNames |-> NoStatus]

-----------------------------------------------------------------------------
(***************************************************************************)
(* Reconciliation.  The installer is out of this source tree; the spec     *)
(* says it applies a module exactly when its info carries no error, and   *)
(* that the status then records the applied template's channel, version   *)
(* and generation.                                                         *)
(***************************************************************************)
Applied(t) ==
  [template |-> t, channel |-> catalog[t].channel,
   version |-> DescriptorVersion(catalog[t]),
   generation |-> catalog[t].generation]

Install(infos) ==
  status' = [m \in ModuleNames |->
               IF infos[m].err = "nil" THEN Applied(infos[m].tpl)
                                       ELSE status[m]]

Reconcile(failedLists) ==
  /\ Install(GetRegularTemplates(catalog, kyma, status, failedLists))
  /\ UNCHANGED <<catalog, kyma>>

-----------------------------------------------------------------------------
(***************************************************************************)
(* The tenant edits spec.channel or a module's channel.                    *)
(***************************************************************************)
SetKymaChannel(c) ==
  /\ kyma' = [kyma EXCEPT !.channel = c]
  /\ UNCHANGED <<catalog, status>>

SetModuleChannel(m, c) ==
  /\ kyma' = [kyma EXCEPT !.moduleChannel[m] = c]
  /\ UNCHANGED <<catalog, status>>

(***************************************************************************)
(* Template authors (outside this source tree).  An update bumps the      *)
(* generation; the validating webhook the code comment relies on forbids   *)
(* lowering a template's version.  A re-created template starts at         *)
(* generation 1.                                                           *)
(***************************************************************************)
UpdateTemplate(t, v) ==
  /\ catalog[t].present
  /\ catalog[t].generation < MaxGeneration
  /\ catalog[t].desc # DecodeError
  /\ catalog[t].desc.version # BadVersion => v >= catalog[t].desc.version
  /\ catalog' = [catalog EXCEPT ![t].generation = @ + 1,
                                ![t].desc.version = v]
  /\ UNCHANGED <<kyma, status>>

DeleteTemplate(t) ==
  /\ catalog[t].present
  /\ catalog' = [catalog EXCEPT ![t].present = FALSE]
  /\ UNCHANGED <<kyma, status>>

CreateTemplate(t) ==
  /\ ~catalog[t].present
  /\ catalog' = [catalog EXCEPT ![t].present = TRUE, ![t].generation = 1]
  /\ UNCHANGED <<kyma, status>>

Next ==
  \/ \E failed \in SUBSET ModuleNames : Reconcile(failed)
  \/ \E c \in TemplateChannels : SetKymaChannel(c)
  \/ \E m \in ModuleNames, c \in TemplateChannels : SetModuleChannel(m, c)
  \/ \E t \in AuthoredTemplates, v \in Versions : UpdateTemplate(t, v)
  \/ \E t \in TemplateIds : DeleteTemplate(t) \/ CreateTemplate(t)

(***************************************************************************)
(* The work queue re-runs the reconciliation with backoff after every      *)
(* failure and on a periodic requeue, and List errors are transient: a     *)
(* pass whose List calls all succeed is eventually taken when enabled.     *)
(***************************************************************************)
Fairness == WF_vars(Reconcile({}))

Spec == Init /\ [][Next]_vars /\ Fairness

-----------------------------------------------------------------------------
(***************************************************************************)
(* Properties.                                                             *)
(***************************************************************************)

\* A module's installation moves to another channel only to a version not
\* lower than the one installed, and only when both versions parse
\* (checkValidTemplateUpdate's channel-skew branch, regular.go:161-207).
ChannelChangeNotLower ==
  \A m \in ModuleNames :
    ( /\ status[m] # NoStatus
      /\ status'[m] # NoStatus
      /\ status'[m].channel # status[m].channel )
    => /\ status[m].version \in Versions
       /\ status'[m].version \in Versions
       /\ status'[m].version >= status[m].version

NoDowngradeOnChannelChange == [][ChannelChangeNotLower]_vars

\* The reconciliation implements what resolution promises a tenant
\* (ModuleInstall): every status.modules entry it writes is the record of
\* the one valid, non-mandatory template answering to the module in its
\* desired channel, and never lowers a module across a channel change
\* (getTemplate, GetAndValidate and checkValidTemplateUpdate together).
MI == INSTANCE ModuleInstall WITH installed <- status

ImplementsModuleInstall == MI!Spec

\* The applied template of a module whose template got a new generation in
\* the channel it is installed from, and which still resolves to it.
GenerationSkew(m) ==
  LET info == RegularTemplate(catalog, kyma, status[m], m, TRUE)
  IN  /\ status[m] # NoStatus
      /\ info.tpl = status[m].template
      /\ catalog[info.tpl].generation # status[m].generation

\* Generation bumps within one channel are never blocked: a module whose
\* installed template has a newer generation is eventually re-applied
\* (the generation-skew branch of checkValidTemplateUpdate only logs).
GenerationSkewResolved ==
  \A m \in ModuleNames : GenerationSkew(m) ~> ~GenerationSkew(m)

\* A module is never installed from an internal template for a Kyma that is
\* not internal, nor from a beta template for a Kyma that is not beta
\* (FilterTemplate, regular.go:81-88; spec 4.1, visibility gating).
VisibilityRespected ==
  \A m \in ModuleNames :
    status[m] # NoStatus =>
      /\ catalog[status[m].template].internal => kyma.internal
      /\ catalog[status[m].template].beta => kyma.beta

=============================================================================
