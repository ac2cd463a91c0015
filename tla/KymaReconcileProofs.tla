------------------------- MODULE KymaReconcileProofs -------------------------
(***************************************************************************)
(* Proofs about the reconciliation of one Kyma with the regular template   *)
(* resolver (KymaReconcile), for every value of the constants that         *)
(* satisfies VersionsAssumption, NamesAssumption and                       *)
(* KymaReconcileAssumption (the channel assumptions are not needed).       *)
(***************************************************************************)
EXTENDS KymaReconcile, TLAPS

USE VersionsAssumption, NamesAssumption, KymaReconcileAssumption

\* The catalog is well formed.
CatalogOK(cat) == cat \in [TemplateIds -> TemplateRecs]

-----------------------------------------------------------------------------
(***************************************************************************)
(* Lemmas on the resolver's operators.                                     *)
(***************************************************************************)

\* A template's declared version is a parseable version or BadVersion
\* (the outcome of semver.NewVersion on descriptor.Version).
LEMMA DescriptorVersionType ==
  ASSUME NEW tp \in TemplateRecs
  PROVE  DescriptorVersion(tp) \in Versions \cup {BadVersion}
BY DEF DescriptorVersion, TemplateRecs, Descriptors

\* getTemplate returns a template exactly when it reports no error.
LEMMA getTemplateResult ==
  ASSUME NEW cat, NEW name, NEW ch, NEW listOk
  PROVE  LET r == getTemplate(cat, name, ch, listOk)
         IN  /\ r.err = "nil" => r.tpl \in TemplateIds
             /\ r.err # "nil" => r.tpl = NoTemplate
<1> DEFINE listed == {t \in TemplateIds : cat[t].present}
           filtered == {t \in listed :
                          \/ MetadataMatch(cat[t], name, ch)
                          \/ DescriptorMatch(cat[t], name, ch)}
<1>1. filtered # {} => (CHOOSE t \in filtered : TRUE) \in TemplateIds
  OBVIOUS
<1> QED
  BY <1>1 DEF getTemplate, LookupResult

\* getTemplate hands out a template only when it is the one existing
\* template answering to the name in the channel, and it is not mandatory
\* (regular.go:236-283).
LEMMA getTemplateSelects ==
  ASSUME NEW cat, NEW name, NEW ch, NEW listOk,
         getTemplate(cat, name, ch, listOk).err = "nil"
  PROVE  LET t == getTemplate(cat, name, ch, listOk).tpl
         IN  /\ {u \in TemplateIds :
                   /\ cat[u].present
                   /\ \/ MetadataMatch(cat[u], name, ch)
                      \/ DescriptorMatch(cat[u], name, ch)} = {t}
             /\ ~cat[t].mandatory
<1> DEFINE listed      == {t \in TemplateIds : cat[t].present}
           undecodable == {t \in listed :
                             /\ ~MetadataMatch(cat[t], name, ch)
                             /\ cat[t].desc = DecodeError}
           filtered    == {t \in listed :
                             \/ MetadataMatch(cat[t], name, ch)
                             \/ DescriptorMatch(cat[t], name, ch)}
           r == getTemplate(cat, name, ch, listOk)
<1>1. /\ listOk
      /\ undecodable = {}
      /\ ~\E t1, t2 \in filtered : t1 # t2
      /\ filtered # {}
  BY DEF getTemplate, LookupResult
<1>2. r = LET t == CHOOSE t \in filtered : TRUE
          IN  IF cat[t].mandatory THEN LookupResult(NoTemplate, "Mandatory")
                                  ELSE LookupResult(t, "nil")
  BY <1>1 DEF getTemplate
<1>3. PICK t \in filtered : filtered = {t}
  BY <1>1
<1>4. r = LookupResult(t, "nil") /\ ~cat[t].mandatory
  BY <1>2, <1>3 DEF LookupResult
<1> QED
  BY <1>3, <1>4 DEF LookupResult

\* GetAndValidate returns a template exactly when it reports no error.
LEMMA GetAndValidateResult ==
  ASSUME NEW cat, NEW name, NEW ch, NEW dch, NEW listOk
  PROVE  LET r == GetAndValidate(cat, name, ch, dch, listOk)
         IN  /\ r.err = "nil" => r.tpl \in TemplateIds
             /\ r.err # "nil" => r.tpl = NoTemplate
BY getTemplateResult DEF GetAndValidate

\* The skew guard keeps the template and either keeps the error or sets
\* ErrTemplateUpdateNotAllowed.
LEMMA checkValidTemplateUpdateResult ==
  ASSUME NEW info, NEW st, NEW cat,
         info = [tpl |-> info.tpl, err |-> info.err,
                 desiredChannel |-> info.desiredChannel]
  PROVE  /\ checkValidTemplateUpdate(info, st, cat).tpl = info.tpl
         /\ checkValidTemplateUpdate(info, st, cat).err
              \in {info.err, "UpdateNotAllowed"}
<1>1. /\ [info EXCEPT !.err = "UpdateNotAllowed"].tpl = info.tpl
      /\ [info EXCEPT !.err = "UpdateNotAllowed"].err = "UpdateNotAllowed"
  OBVIOUS
<1> QED
  BY <1>1 DEF checkValidTemplateUpdate

\* Re-creating a template keeps a well-formed catalog entry.
LEMMA TemplateRecCreate ==
  ASSUME NEW r \in TemplateRecs, NEW g \in Nat
  PROVE  [r EXCEPT !.present = TRUE, !.generation = g] \in TemplateRecs
<1> DEFINE s == [r EXCEPT !.present = TRUE, !.generation = g]
<1>1. DOMAIN r = {"present", "metaNames", "desc", "channel", "generation",
                  "mandatory", "internal", "beta"}
  BY DEF TemplateRecs
<1>2. /\ DOMAIN s = DOMAIN r
      /\ s.present = TRUE /\ s.generation = g
      /\ s.metaNames = r.metaNames /\ s.desc = r.desc /\ s.channel = r.channel
      /\ s.mandatory = r.mandatory /\ s.internal = r.internal /\ s.beta = r.beta
  BY <1>1
<1> QED
  BY <1>1, <1>2 DEF TemplateRecs

\* Publishing a new version of a decodable template keeps a well-formed
\* catalog entry.
LEMMA TemplateRecUpdate ==
  ASSUME NEW r \in TemplateRecs, NEW g \in Nat, NEW v \in Versions,
         r.desc # DecodeError
  PROVE  [r EXCEPT !.generation = g, !.desc.version = v] \in TemplateRecs
<1> DEFINE s == [r EXCEPT !.generation = g, !.desc.version = v]
           d == [r.desc EXCEPT !.version = v]
<1>1. DOMAIN r = {"present", "metaNames", "desc", "channel", "generation",
                  "mandatory", "internal", "beta"}
  BY DEF TemplateRecs
<1>2. r.desc \in [name : ModuleNames \cup {OtherName},
                  version : Versions \cup {BadVersion}]
  BY DEF TemplateRecs, Descriptors
<1>3. /\ DOMAIN d = {"name", "version"}
      /\ d.name = r.desc.name /\ d.version = v
  BY <1>2
<1>4. d \in Descriptors
  BY <1>2, <1>3 DEF Descriptors
<1>5. /\ DOMAIN s = DOMAIN r
      /\ s.desc = d /\ s.generation = g
      /\ s.present = r.present /\ s.metaNames = r.metaNames
      /\ s.channel = r.channel /\ s.mandatory = r.mandatory
      /\ s.internal = r.internal /\ s.beta = r.beta
  BY <1>1
<1> QED
  BY <1>1, <1>4, <1>5 DEF TemplateRecs

\* The info of one module names a template whenever it carries no error.
LEMMA RegularTemplateResult ==
  ASSUME NEW cat, NEW k, NEW st, NEW m, NEW listOk
  PROVE  LET r == RegularTemplate(cat, k, st, m, listOk)
         IN  r.err = "nil" => r.tpl \in TemplateIds
<1> DEFINE template == GetAndValidate(cat, m, k.moduleChannel[m], k.channel,
                                      listOk)
<1>1. /\ template.err = "nil" => template.tpl \in TemplateIds
      /\ template.err # "nil" => template.tpl = NoTemplate
  BY GetAndValidateResult
<1>2. template = [tpl |-> template.tpl, err |-> template.err,
                   desiredChannel |-> template.desiredChannel]
  BY DEF GetAndValidate
<1>3. /\ checkValidTemplateUpdate(template, st, cat).tpl = template.tpl
      /\ checkValidTemplateUpdate(template, st, cat).err
           \in {template.err, "UpdateNotAllowed"}
  BY <1>2, checkValidTemplateUpdateResult
<1> QED
  BY <1>1, <1>3 DEF RegularTemplate

-----------------------------------------------------------------------------
(***************************************************************************)
(* Type correctness.                                                       *)
(***************************************************************************)

\* The installer records a well-formed status for a resolved template.
LEMMA AppliedType ==
  ASSUME CatalogOK(catalog), NEW t \in TemplateIds
  PROVE  Applied(t) \in StatusRecs
BY DescriptorVersionType DEF CatalogOK, Applied, StatusRecs, TemplateRecs

\* One step of the reconciliation, the tenant or the authors keeps the
\* catalog, the Kyma and status.modules well formed.
LEMMA TypeStep == TypeOK /\ [Next]_vars => TypeOK'
<1> SUFFICES ASSUME TypeOK, [Next]_vars PROVE TypeOK'
  OBVIOUS
<1>1. ASSUME NEW failed \in SUBSET ModuleNames, Reconcile(failed)
      PROVE  TypeOK'
  <2> DEFINE infos == GetRegularTemplates(catalog, kyma, status, failed)
  <2>1. \A m \in ModuleNames : infos[m].err = "nil" => infos[m].tpl \in TemplateIds
    BY RegularTemplateResult DEF GetRegularTemplates
  <2>2. \A m \in ModuleNames :
          infos[m].err = "nil" => Applied(infos[m].tpl) \in StatusRecs
    BY <2>1, AppliedType DEF TypeOK, CatalogOK
  <2> QED
    BY <1>1, <2>2 DEF Reconcile, Install, TypeOK
<1>2. ASSUME NEW c \in TemplateChannels, SetKymaChannel(c) PROVE TypeOK'
  BY <1>2 DEF SetKymaChannel, TypeOK, Kymas
<1>3. ASSUME NEW m \in ModuleNames, NEW c \in TemplateChannels,
             SetModuleChannel(m, c)
      PROVE  TypeOK'
  BY <1>3 DEF SetModuleChannel, TypeOK, Kymas
<1>4. ASSUME NEW t \in AuthoredTemplates, NEW v \in Versions,
             UpdateTemplate(t, v)
      PROVE  TypeOK'
  <2>1. /\ catalog[t] \in TemplateRecs
        /\ catalog[t].generation + 1 \in Nat
        /\ catalog[t].desc # DecodeError
    <3>1. t \in TemplateIds
      OBVIOUS
    <3>2. catalog[t] \in TemplateRecs
      BY <3>1 DEF TypeOK
    <3>3. catalog[t].generation \in Nat
      BY <3>2 DEF TemplateRecs
    <3>4. catalog[t].desc # DecodeError
      BY <1>4, Zenon DEF UpdateTemplate
    <3>5. catalog[t].generation + 1 \in Nat
      BY <3>3
    <3> QED
      BY <3>2, <3>4, <3>5, Zenon
  <2>2. catalog'[t] = [catalog[t] EXCEPT !.generation = catalog[t].generation + 1,
                                         !.desc.version = v]
    BY <1>4 DEF UpdateTemplate, TypeOK
  <2>3. [catalog[t] EXCEPT !.generation = catalog[t].generation + 1,
                           !.desc.version = v] \in TemplateRecs
    BY <2>1, TemplateRecUpdate
  <2> QED
    BY <1>4, <2>2, <2>3 DEF UpdateTemplate, TypeOK
<1>5. ASSUME NEW t \in TemplateIds, DeleteTemplate(t) PROVE TypeOK'
  BY <1>5 DEF DeleteTemplate, TypeOK, TemplateRecs
<1>6. ASSUME NEW t \in TemplateIds, CreateTemplate(t) PROVE TypeOK'
  <2>1. catalog'[t] = [catalog[t] EXCEPT !.present = TRUE, !.generation = 1]
    BY <1>6 DEF CreateTemplate, TypeOK
  <2>2. [catalog[t] EXCEPT !.present = TRUE, !.generation = 1] \in TemplateRecs
    BY TemplateRecCreate DEF TypeOK
  <2>3. catalog'[t] \in TemplateRecs
    BY <2>1, <2>2
  <2> QED
    BY <1>6, <2>3 DEF CreateTemplate, TypeOK
<1>7. CASE UNCHANGED vars
  BY <1>7 DEF vars, TypeOK
<1> QED
  BY <1>1, <1>2, <1>3, <1>4, <1>5, <1>6, <1>7 DEF Next

\* Every reachable state of the reconciliation is well typed: the catalog,
\* the Kyma and status.modules keep their shapes under reconciliation
\* passes, channel edits and template edits.
THEOREM TypeCorrect == Spec => []TypeOK
<1>1. Init => TypeOK
  BY DEF Init, TypeOK
<1> QED
  BY <1>1, TypeStep, PTL DEF Spec

-----------------------------------------------------------------------------
(***************************************************************************)
(* No downgrade on a channel change.                                       *)
(***************************************************************************)

\* When the resolver hands out a template of another channel than the one
\* recorded in the module's status, both versions parse and the template's
\* is not lower (the channel-skew branch of checkValidTemplateUpdate,
\* regular.go:161-207, reached through GetRegularTemplates, lines 59-65).
LEMMA GuardAdmitsOnlyUpgrades ==
  ASSUME NEW cat \in [TemplateIds -> TemplateRecs], NEW k,
         NEW st \in StatusRecs, st # NoStatus, NEW m, NEW listOk,
         RegularTemplate(cat, k, st, m, listOk).err = "nil",
         cat[RegularTemplate(cat, k, st, m, listOk).tpl].channel # st.channel
  PROVE  LET tp == cat[RegularTemplate(cat, k, st, m, listOk).tpl]
         IN  /\ DescriptorVersion(tp) \in Versions
             /\ st.version \in Versions
             /\ DescriptorVersion(tp) >= st.version
<1> DEFINE template == GetAndValidate(cat, m, k.moduleChannel[m], k.channel,
                                      listOk)
           r == RegularTemplate(cat, k, st, m, listOk)
           tp == cat[template.tpl]
<1>1. k.valid[m]
  BY DEF RegularTemplate
<1>2. /\ template.err = "nil" => template.tpl \in TemplateIds
      /\ template.err # "nil" => template.tpl = NoTemplate
  BY GetAndValidateResult
<1>3. template.tpl \in TemplateIds
  <2>1. CASE template.tpl = NoTemplate
    <3>1. r = template
      BY <1>1, <2>1 DEF RegularTemplate
    <3> QED
      BY <1>2, <2>1, <3>1, NamesAssumption
  <2> QED
    BY <1>2, <2>1
<1>4. r = checkValidTemplateUpdate(template, st, cat)
  BY <1>1, <1>3, NamesAssumption DEF RegularTemplate
<1>5. template = [tpl |-> template.tpl, err |-> template.err,
                  desiredChannel |-> template.desiredChannel]
  BY DEF GetAndValidate
<1>6. r.tpl = template.tpl
  BY <1>4, <1>5, checkValidTemplateUpdateResult
<1>7. tp.channel # st.channel
  BY <1>6
<1>8. ~ \/ tp.desc = DecodeError
        \/ tp.desc.version = BadVersion
        \/ st.version = BadVersion
        \/ ~IsValidVersionChange(tp.desc.version, st.version)
  <2> SUFFICES ASSUME \/ tp.desc = DecodeError
                      \/ tp.desc.version = BadVersion
                      \/ st.version = BadVersion
                      \/ ~IsValidVersionChange(tp.desc.version, st.version)
               PROVE  FALSE
    OBVIOUS
  <2>1. r = [template EXCEPT !.err = "UpdateNotAllowed"]
    BY <1>4, <1>7 DEF checkValidTemplateUpdate
  <2>2. r.err = "UpdateNotAllowed"
    BY <1>5, <2>1
  <2> QED
    BY <2>2
<1>9. /\ tp \in TemplateRecs
      /\ st.version \in Versions \cup {BadVersion}
  BY <1>3 DEF StatusRecs
<1>10. tp.desc \in [name : ModuleNames \cup {OtherName},
                    version : Versions \cup {BadVersion}]
  BY <1>8, <1>9 DEF TemplateRecs, Descriptors
<1> QED
  BY <1>6, <1>8, <1>9, <1>10 DEF DescriptorVersion, IsValidVersionChange

\* The current resolver never moves an installed module to another channel
\* at a lower or unparseable version (regular.go:161-207): every step of
\* the reconciliation, the tenant and the template authors satisfies
\* ChannelChangeNotLower.
THEOREM NoDowngrade == Spec => NoDowngradeOnChannelChange
<1>1. TypeOK /\ [Next]_vars => [ChannelChangeNotLower]_vars
  <2> SUFFICES ASSUME TypeOK, [Next]_vars PROVE ChannelChangeNotLower
    OBVIOUS
  <2>1. CASE status' = status
    BY <2>1 DEF ChannelChangeNotLower
  <2>2. ASSUME NEW failed \in SUBSET ModuleNames, Reconcile(failed)
        PROVE  ChannelChangeNotLower
    <3> SUFFICES ASSUME NEW m \in ModuleNames,
                        status[m] # NoStatus,
                        status'[m] # NoStatus,
                        status'[m].channel # status[m].channel
                 PROVE  /\ status[m].version \in Versions
                        /\ status'[m].version \in Versions
                        /\ status'[m].version >= status[m].version
      BY DEF ChannelChangeNotLower
    <3> DEFINE info == RegularTemplate(catalog, kyma, status[m], m,
                                       m \notin failed)
    <3>1. status'[m] = IF info.err = "nil" THEN Applied(info.tpl)
                                          ELSE status[m]
      BY <2>2 DEF Reconcile, Install, GetRegularTemplates
    <3>2. info.err = "nil" /\ status'[m] = Applied(info.tpl)
      BY <3>1
    <3>3. status[m] \in StatusRecs
      BY DEF TypeOK
    <3>4. catalog[info.tpl].channel # status[m].channel
      BY <3>2 DEF Applied
    <3>5. LET tp == catalog[info.tpl]
          IN  /\ DescriptorVersion(tp) \in Versions
              /\ status[m].version \in Versions
              /\ DescriptorVersion(tp) >= status[m].version
      BY <3>2, <3>3, <3>4, GuardAdmitsOnlyUpgrades DEF TypeOK
    <3> QED
      BY <3>2, <3>5 DEF Applied
  <2> QED
    BY <2>1, <2>2 DEF Next, vars, SetKymaChannel, SetModuleChannel,
                      UpdateTemplate, DeleteTemplate, CreateTemplate
<1> QED
  BY <1>1, TypeCorrect, PTL DEF Spec, NoDowngradeOnChannelChange

-----------------------------------------------------------------------------
(***************************************************************************)
(* The reconciliation implements ModuleInstall.                            *)
(***************************************************************************)

\* ModuleInstall speaks of the same catalog entries and tenants.
LEMMA InstanceSetsAgree == MI!TemplateRecs = TemplateRecs /\ MI!Kymas = Kymas
BY DEF MI!TemplateRecs, TemplateRecs, MI!Kymas, Kymas, MI!Descriptors,
       Descriptors, MI!TemplateChannels, TemplateChannels

\* A module the reconciliation installs gets an admissible template: the
\* module is valid, the template is the one answering to it in its desired
\* channel, it is not mandatory, has a channel, and does not lower the
\* module across a channel change (GetRegularTemplates, regular.go:48-70).
LEMMA RegularTemplateAdmissible ==
  ASSUME TypeOK, NEW m \in ModuleNames, NEW listOk,
         RegularTemplate(catalog, kyma, status[m], m, listOk).err = "nil"
  PROVE  MI!Admissible(m, RegularTemplate(catalog, kyma, status[m], m,
                                          listOk).tpl)
<1> DEFINE ch == getDesiredChannel(kyma.moduleChannel[m], kyma.channel)
           template == GetAndValidate(catalog, m, kyma.moduleChannel[m],
                                      kyma.channel, listOk)
           g == getTemplate(catalog, m, ch, listOk)
           r == RegularTemplate(catalog, kyma, status[m], m, listOk)
<1>1. kyma.valid[m]
  BY DEF RegularTemplate
<1>2. template = [tpl |-> template.tpl, err |-> template.err,
                  desiredChannel |-> template.desiredChannel]
  BY DEF GetAndValidate
<1>3. /\ template.err = "nil" => template.tpl \in TemplateIds
      /\ template.err # "nil" => template.tpl = NoTemplate
  BY GetAndValidateResult
<1>4. template.err = "nil" /\ r.tpl = template.tpl
  <2>1. CASE status[m] # NoStatus /\ template.tpl # NoTemplate
    <3>1. r = checkValidTemplateUpdate(template, status[m], catalog)
      BY <1>1, <2>1 DEF RegularTemplate
    <3>2. /\ r.tpl = template.tpl
          /\ r.err \in {template.err, "UpdateNotAllowed"}
      BY <1>2, <3>1, checkValidTemplateUpdateResult
    <3> QED
      BY <3>2
  <2>2. CASE ~(status[m] # NoStatus /\ template.tpl # NoTemplate)
    <3>1. r = template
      BY <1>1, <2>2 DEF RegularTemplate
    <3> QED
      BY <3>1
  <2> QED
    BY <2>1, <2>2
<1>5. /\ g.err = "nil"
      /\ template.tpl = g.tpl
      /\ catalog[g.tpl].channel # ""
  BY <1>4 DEF GetAndValidate
<1>6. /\ {u \in TemplateIds :
           /\ catalog[u].present
           /\ \/ MetadataMatch(catalog[u], m, ch)
              \/ DescriptorMatch(catalog[u], m, ch)} = {g.tpl}
      /\ ~catalog[g.tpl].mandatory
  BY <1>5, getTemplateSelects
<1>7. MI!Answering(m, ch) = {r.tpl}
  BY <1>4, <1>5, <1>6 DEF MI!Answering, MI!MetadataMatch, MI!DescriptorMatch,
                          MetadataMatch, DescriptorMatch
<1>8. MI!NotLower(m, r.tpl)
  <2> SUFFICES ASSUME status[m] # NoStatus,
                      status[m].channel # catalog[r.tpl].channel
               PROVE  /\ status[m].version \in Versions
                      /\ DescriptorVersion(catalog[r.tpl]) \in Versions
                      /\ DescriptorVersion(catalog[r.tpl]) >= status[m].version
    BY DEF MI!NotLower, MI!DescriptorVersion, DescriptorVersion
  <2>1. status[m] \in StatusRecs /\ catalog \in [TemplateIds -> TemplateRecs]
    BY DEF TypeOK
  <2> QED
    BY <2>1, GuardAdmitsOnlyUpgrades
<1> QED
  BY <1>1, <1>4, <1>5, <1>6, <1>7, <1>8
     DEF MI!Admissible, MI!getDesiredChannel, getDesiredChannel

\* Every step of the reconciliation, the tenant and the template authors
\* is a step of ModuleInstall or leaves its variables alone.
LEMMA RefinementStep ==
  TypeOK /\ [Next]_vars => [MI!Next]_<<catalog, kyma, status>>
<1> SUFFICES ASSUME TypeOK, [Next]_vars
             PROVE  [MI!Next]_<<catalog, kyma, status>>
  OBVIOUS
<1>1. TypeOK'
  BY TypeStep
<1>2. ASSUME NEW failed \in SUBSET ModuleNames, Reconcile(failed)
      PROVE  MI!InstallModules
  <2> SUFFICES ASSUME NEW m \in ModuleNames
               PROVE  \/ status'[m] = status[m]
                      \/ \E t \in TemplateIds :
                           MI!Admissible(m, t) /\ status'[m] = MI!Record(t)
    BY <1>2 DEF MI!InstallModules, Reconcile
  <2> DEFINE info == RegularTemplate(catalog, kyma, status[m], m,
                                     m \notin failed)
  <2>1. status'[m] = IF info.err = "nil" THEN Applied(info.tpl) ELSE status[m]
    BY <1>2 DEF Reconcile, Install, GetRegularTemplates
  <2>2. CASE info.err = "nil"
    <3>1. info.tpl \in TemplateIds
      BY <2>2, RegularTemplateResult
    <3>2. MI!Admissible(m, info.tpl)
      BY <2>2, RegularTemplateAdmissible
    <3>3. status'[m] = MI!Record(info.tpl)
      BY <2>1, <2>2 DEF Applied, MI!Record, MI!DescriptorVersion,
                        DescriptorVersion
    <3> QED
      BY <3>1, <3>2, <3>3
  <2> QED
    BY <2>1, <2>2
<1>3. CASE UNCHANGED status
  <2>1. CASE UNCHANGED <<catalog, kyma>>
    BY <1>3, <2>1
  <2>2. CASE ~UNCHANGED <<catalog, kyma>>
    BY <1>1, <1>3, InstanceSetsAgree DEF MI!Next, MI!Environment, TypeOK
  <2> QED
    BY <2>1, <2>2
<1> QED
  BY <1>2, <1>3 DEF Next, MI!Next, vars, SetKymaChannel, SetModuleChannel,
                    UpdateTemplate, DeleteTemplate, CreateTemplate

\* The reconciliation implements ModuleInstall under the mapping of
\* status.modules to the installed records: whatever the catalog and the
\* tenant do, every status entry is written from an admissible template.
THEOREM Refinement == Spec => ImplementsModuleInstall
<1>1. Init => MI!Init
  BY InstanceSetsAgree DEF Init, MI!Init
<1> QED
  BY <1>1, RefinementStep, TypeCorrect, PTL
     DEF Spec, ImplementsModuleInstall, MI!Spec

=============================================================================
