---------------------------- MODULE LegacyReconcile ----------------------------
(***************************************************************************)
(* KymaReconcile with the older lookup of package channel in place of      *)
(* GetRegularTemplates: the same catalog, tenant and author actions.  The  *)
(* installer of this version is out of this source tree; the contract the  *)
(* lookup is written for (its ModuleTemplateTO.Outdated flag, the comment  *)
(* at part_001:157-163, spec 3 and 4.2) is that a module is applied when   *)
(* it has no status yet, and re-applied only when its template is marked  *)
(* outdated.                                                               *)
(***************************************************************************)
EXTENDS KymaReconcile

Legacy == INSTANCE LegacyChannelLookup

\* The installer's use of a ModuleTemplateTO: first installs, and updates of
\* templates marked outdated; an entry with an error is left alone.
InstallLegacy(infos) ==
  status' = [m \in ModuleNames |->
               IF /\ infos[m].err = "nil"
                  /\ status[m] = NoStatus \/ infos[m].outdated
                 THEN Applied(infos[m].tpl)
                 ELSE status[m]]

ReconcileLegacy(failedLists) ==
  /\ InstallLegacy(Legacy!GetTemplates(catalog, kyma, status, failedLists))
  /\ UNCHANGED <<catalog, kyma>>

NextLegacy ==
  \/ \E failed \in SUBSET ModuleNames : ReconcileLegacy(failed)
  \/ \E c \in TemplateChannels : SetKymaChannel(c)
  \/ \E m \in ModuleNames, c \in TemplateChannels : SetModuleChannel(m, c)
  \/ \E t \in AuthoredTemplates, v \in Versions : UpdateTemplate(t, v)
  \/ \E t \in TemplateIds : DeleteTemplate(t) \/ CreateTemplate(t)

\* The work queue re-runs the reconciliation periodically, as for the
\* regular lookup.
SpecLegacy == Init /\ [][NextLegacy]_vars /\ WF_vars(ReconcileLegacy({}))

\* The applied template of a module got a new generation and the legacy
\* lookup still resolves the module to it without error.
LegacyGenerationSkew(m) ==
  LET info == Legacy!GetTemplates(catalog, kyma, status, {})[m]
  IN  /\ status[m] # NoStatus
      /\ info.err = "nil"
      /\ info.tpl = status[m].template
      /\ catalog[info.tpl].generation # status[m].generation

\* A generation bump of the installed template is eventually re-applied by
\* the legacy lookup (CheckForOutdatedTemplate, part_001:125-128: "generation
\* skews always have to be handled"; spec 4.2: an outdated resolution must
\* be re-applied).
LegacyGenerationSkewResolved ==
  \A m \in ModuleNames : LegacyGenerationSkew(m) ~> ~LegacyGenerationSkew(m)

=============================================================================
