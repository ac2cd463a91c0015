---------------------------- MODULE ModuleInstall ----------------------------
(***************************************************************************)
(* What template resolution and the version-skew guard promise a tenant   *)
(* (spec sections 3 and 4), stated without the lookup: between any changes *)
(* of the catalog and of the Kyma, some of the Kyma's modules get          *)
(* installed, each from an admissible template, and the record of the     *)
(* installation is the template's channel, version and generation.         *)
(*                                                                         *)
(* A template is admissible for a module when the module is valid, the     *)
(* template is the only existing one answering to the module's name in    *)
(* the channel the module asks for, it is not mandatory, and, if the       *)
(* module is installed from another channel, both versions parse and the  *)
(* new one is not lower.                                                   *)
(***************************************************************************)
EXTENDS TemplateLookup

VARIABLES
  catalog,   \* the ModuleTemplates
  kyma,      \* the tenant
  installed  \* per module, the record of the installation, or NoStatus

\* The existing templates answering to module m in channel ch.
Answering(m, ch) ==
  {t \in TemplateIds :
     /\ catalog[t].present
     /\ MetadataMatch(catalog[t], m, ch) \/ DescriptorMatch(catalog[t], m, ch)}

\* The record an installation of template t leaves.
Record(t) ==
  [template |-> t, channel |-> catalog[t].channel,
   version |-> DescriptorVersion(catalog[t]),
   generation |-> catalog[t].generation]

\* Installing t for m does not move m to another channel at a lower or an
\* unparseable version.
NotLower(m, t) ==
  installed[m] # NoStatus /\ installed[m].channel # catalog[t].channel =>
    /\ installed[m].version \in Versions
    /\ DescriptorVersion(catalog[t]) \in Versions
    /\ DescriptorVersion(catalog[t]) >= installed[m].version

Admissible(m, t) ==
  LET ch == getDesiredChannel(kyma.moduleChannel[m], kyma.channel)
  IN  /\ kyma.valid[m]
      /\ Answering(m, ch) = {t}
      /\ ~catalog[t].mandatory
      /\ catalog[t].channel # ""
      /\ NotLower(m, t)

Init ==
  /\ catalog \in [TemplateIds -> TemplateRecs]
  /\ kyma \in Kymas
  /\ installed = [m \in ModuleNames |-> NoStatus]

\* Some modules are installed, each from an admissible template.
InstallModules ==
  /\ \A m \in ModuleNames :
       installed'[m] = installed[m]
       \/ \E t \in TemplateIds : Admissible(m, t) /\ installed'[m] = Record(t)
  /\ UNCHANGED <<catalog, kyma>>

\* Authors change templates and the tenant edits the Kyma.
Environment ==
  /\ catalog' \in [TemplateIds -> TemplateRecs]
  /\ kyma' \in Kymas
  /\ UNCHANGED installed

Next == InstallModules \/ Environment

Spec == Init /\ [][Next]_<<catalog, kyma, installed>>

=============================================================================
