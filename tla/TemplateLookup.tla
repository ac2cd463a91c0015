--------------------------- MODULE TemplateLookup ---------------------------
(***************************************************************************)
(* The module template resolver and the version-skew guard of             *)
(* src/pkg/templatelookup/regular.go, as pure operators over a catalog of  *)
(* ModuleTemplates, a Kyma (the tenant) and the Kyma's module status.      *)
(*                                                                         *)
(* Data is abstracted to what the resolution tells apart:                  *)
(*  - the three metadata identity predicates of getTemplate (the module    *)
(*    label, "namespace/name" and the object name) become one set          *)
(*    metaNames of module names a template answers to by its metadata;     *)
(*  - the embedded component descriptor is either DecodeError or a record  *)
(*    of its component name and its semantic version, where a version is  *)
(*    a natural number (ordered like semver) or BadVersion (a string       *)
(*    semver.NewVersion rejects);                                          *)
(*  - errors are tags naming the sentinel errors of regular.go.           *)
(***************************************************************************)
EXTENDS Naturals

CONSTANTS
  ModuleNames,     \* names a Kyma can request modules by
  OtherName,       \* a component name that is no requested module's name
  Channels,        \* the non-empty channel names
  DefaultChannel,  \* v1beta2.DefaultChannel
  TemplateIds,     \* the ModuleTemplate objects (namespace/name)
  Versions,        \* the parseable semantic versions, ordered as numbers
  BadVersion,      \* a version string semver.NewVersion cannot parse
  DecodeError,     \* a descriptor that compdesc.Decode rejects
  NoTemplate,      \* ModuleTemplateInfo.ModuleTemplate == nil
  NoStatus         \* no ModuleStatus, or one whose Template is nil

\* Versions are ordered like semantic versions; BadVersion is none of them.
ASSUME VersionsAssumption ==
  /\ Versions \subseteq Nat
  /\ BadVersion \notin Versions

\* The sentinels differ from every real name.
ASSUME NamesAssumption ==
  /\ OtherName \notin ModuleNames
  /\ NoTemplate \notin TemplateIds

\* "" is the unset channel; the default channel is a real one.
ASSUME ChannelsAssumption ==
  /\ "" \notin Channels
  /\ DefaultChannel \in Channels

\* The channel field of a template may be empty (an authoring error).
TemplateChannels == Channels \cup {""}

Descriptors == [name : ModuleNames \cup {OtherName},
                version : Versions \cup {BadVersion}] \cup {DecodeError}

\* One catalog entry: the fields of a ModuleTemplate the lookup reads, and
\* whether the object exists (is returned by List).
TemplateRecs == [present : BOOLEAN, metaNames : SUBSET ModuleNames,
                 desc : Descriptors, channel : TemplateChannels,
                 generation : Nat, mandatory : BOOLEAN,
                 internal : BOOLEAN, beta : BOOLEAN]

\* The tags of the errors a ModuleTemplateInfo can carry; "nil" is no error.
Errors == {"nil", "ListFailed", "DescriptorInvalid", "NotIdentified",
           "NoTemplates", "Mandatory", "NoChannel", "DescriptorFetch",
           "NotAllowed", "UpdateNotAllowed", "NotValid"}

\* ModuleTemplateInfo: the resolved template (or NoTemplate), the error and
\* the channel the lookup asked for.
Infos == [tpl : TemplateIds \cup {NoTemplate}, err : Errors,
          desiredChannel : TemplateChannels]

\* A v1beta2.ModuleStatus with a Template: the applied template and the
\* channel, version and template generation recorded for it.
StatusRecs == [template : TemplateIds, channel : TemplateChannels,
               version : Versions \cup {BadVersion}, generation : Nat]

\* The tenant: spec.channel, each module's channel ("" when unset), whether
\* upstream validation marked the module valid, and the internal and beta
\* markers of the Kyma.
Kymas == [channel : TemplateChannels,
          moduleChannel : [ModuleNames -> TemplateChannels],
          valid : [ModuleNames -> BOOLEAN],
          internal : BOOLEAN, beta : BOOLEAN]

-----------------------------------------------------------------------------
(***************************************************************************)
(* v1beta2.IsValidVersionChange is not part of this source tree; the spec *)
(* gives its policy: a change is valid when the new version is not lower  *)
(* than the previously installed one.                                      *)
(***************************************************************************)
IsValidVersionChange(newVersion, oldVersion) == newVersion >= oldVersion

\* getDesiredChannel: module channel, else the Kyma channel, else default.
getDesiredChannel(moduleChannel, globalChannel) ==
  CASE moduleChannel # "" -> moduleChannel
    [] globalChannel # "" -> globalChannel
    [] OTHER              -> DefaultChannel

\* The first three predicates of the getTemplate loop: label, namespace/name
\* and object name, each conjoined with the channel test.
MetadataMatch(tp, name, desiredChannel) ==
  /\ name \in tp.metaNames
  /\ tp.channel = desiredChannel

\* The fourth predicate: the component name of the decoded descriptor.
DescriptorMatch(tp, name, desiredChannel) ==
  /\ tp.desc # DecodeError
  /\ tp.desc.name = name
  /\ tp.channel = desiredChannel

LookupResult(t, e) == [tpl |-> t, err |-> e]

\* Mutant of getTemplate: the ambiguity check dropped, so the lookup picks
\* one of several matching templates.
getTemplatePicksAny(catalog, name, desiredChannel, listOk) ==
  LET listed      == {t \in TemplateIds : catalog[t].present}
      undecodable == {t \in listed :
                        /\ ~MetadataMatch(catalog[t], name, desiredChannel)
                        /\ catalog[t].desc = DecodeError}
      filtered    == {t \in listed :
                        \/ MetadataMatch(catalog[t], name, desiredChannel)
                        \/ DescriptorMatch(catalog[t], name, desiredChannel)}
  IN  CASE ~listOk            -> LookupResult(NoTemplate, "ListFailed")
        [] undecodable # {}   -> LookupResult(NoTemplate, "DescriptorInvalid")
        [] filtered = {}      -> LookupResult(NoTemplate, "NoTemplates")
        [] OTHER ->
             LET t == CHOOSE t \in filtered : TRUE
             IN  IF catalog[t].mandatory
                   THEN LookupResult(NoTemplate, "Mandatory")
                   ELSE LookupResult(t, "nil")

(***************************************************************************)
(* getTemplate: list all templates (the List call may fail), keep the ones *)
(* that match by metadata or, failing that, by descriptor.  A template     *)
(* that matches no metadata predicate must be decoded, and a decode error  *)
(* aborts the whole lookup, whichever module the template belongs to.     *)
(* More than one match is ambiguous, none is not found, and a single      *)
(* mandatory match is refused.                                             *)
(***************************************************************************)
getTemplate(catalog, name, desiredChannel, listOk) ==
  LET listed      == {t \in TemplateIds : catalog[t].present}
      undecodable == {t \in listed :
                        /\ ~MetadataMatch(catalog[t], name, desiredChannel)
                        /\ catalog[t].desc = DecodeError}
      filtered    == {t \in listed :
                        \/ MetadataMatch(catalog[t], name, desiredChannel)
                        \/ DescriptorMatch(catalog[t], name, desiredChannel)}
  IN  CASE ~listOk            -> LookupResult(NoTemplate, "ListFailed")
        [] undecodable # {}   -> LookupResult(NoTemplate, "DescriptorInvalid")
        [] \E t1, t2 \in filtered : t1 # t2
                              -> LookupResult(NoTemplate, "NotIdentified")
        [] filtered = {}      -> LookupResult(NoTemplate, "NoTemplates")
        [] OTHER ->
             LET t == CHOOSE t \in filtered : TRUE
             IN  IF catalog[t].mandatory
                   THEN LookupResult(NoTemplate, "Mandatory")
                   ELSE LookupResult(t, "nil")

\* GetAndValidate: resolve in the desired channel and refuse a template
\* whose own channel is empty.
GetAndValidate(catalog, name, channel, defaultChannel, listOk) ==
  LET desired == getDesiredChannel(channel, defaultChannel)
      r       == getTemplate(catalog, name, desired, listOk)
  IN  CASE r.err # "nil" ->
             [tpl |-> NoTemplate, err |-> r.err, desiredChannel |-> desired]
        [] catalog[r.tpl].channel = "" ->
             [tpl |-> NoTemplate, err |-> "NoChannel", desiredChannel |-> desired]
        [] OTHER ->
             [tpl |-> r.tpl, err |-> "nil", desiredChannel |-> desired]

(***************************************************************************)
(* FilterTemplate: on a copy of the info, record a descriptor error, then  *)
(* refuse an internal template for a non-internal Kyma and a beta template *)
(* for a non-beta Kyma (each later check overwrites the error).            *)
(***************************************************************************)
FilterTemplate(info, catalog, kyma) ==
  IF info.err # "nil" THEN info
  ELSE LET tp == catalog[info.tpl]
           descErr == IF tp.desc = DecodeError THEN "DescriptorFetch" ELSE "nil"
       IN  [info EXCEPT !.err =
              CASE tp.internal /\ ~kyma.internal -> "NotAllowed"
                [] tp.beta /\ ~kyma.beta         -> "NotAllowed"
                [] OTHER                         -> descErr]

\* Mutant of DescriptorVersion: an undecodable descriptor read as the zero
\* version instead of an unparseable one.
DescriptorVersionZero(tp) ==
  IF tp.desc = DecodeError THEN 0 ELSE tp.desc.version

\* The version a template's descriptor declares, BadVersion when it has none.
DescriptorVersion(tp) ==
  IF tp.desc = DecodeError THEN BadVersion ELSE tp.desc.version

\* Mutant of checkValidTemplateUpdate: the generation skew is tested first
\* and returns before the channel-skew branch (the order of the older
\* CheckForOutdatedTemplate).
checkValidTemplateUpdateGenerationFirst(info, st, catalog) ==
  IF st = NoStatus THEN info
  ELSE LET tp == catalog[info.tpl]
       IN  IF tp.generation # st.generation THEN info
           ELSE IF tp.channel # st.channel
             THEN IF \/ tp.desc = DecodeError
                     \/ tp.desc.version = BadVersion
                     \/ st.version = BadVersion
                     \/ ~IsValidVersionChange(tp.desc.version, st.version)
                    THEN [info EXCEPT !.err = "UpdateNotAllowed"]
                    ELSE info
             ELSE info

\* Mutant of checkValidTemplateUpdate: a generation skew is refused like a
\* channel skew downgrade instead of only being logged.
checkValidTemplateUpdateBlocksGeneration(info, st, catalog) ==
  IF st = NoStatus THEN info
  ELSE LET tp == catalog[info.tpl]
       IN  IF tp.channel # st.channel
             THEN IF \/ tp.desc = DecodeError
                     \/ tp.desc.version = BadVersion
                     \/ st.version = BadVersion
                     \/ ~IsValidVersionChange(tp.desc.version, st.version)
                    THEN [info EXCEPT !.err = "UpdateNotAllowed"]
                    ELSE info
             ELSE IF tp.generation # st.generation
                    THEN [info EXCEPT !.err = "UpdateNotAllowed"]
                    ELSE info

(***************************************************************************)
(* checkValidTemplateUpdate: with a recorded status, a channel skew is     *)
(* allowed only when both versions parse and the new one is not lower; a  *)
(* generation skew in the same channel is only logged.                    *)
(***************************************************************************)
checkValidTemplateUpdate(info, st, catalog) ==
  IF st = NoStatus THEN info
  ELSE LET tp == catalog[info.tpl]
       IN  IF tp.channel # st.channel
             THEN IF \/ tp.desc = DecodeError
                     \/ tp.desc.version = BadVersion
                     \/ st.version = BadVersion
                     \/ ~IsValidVersionChange(tp.desc.version, st.version)
                    THEN [info EXCEPT !.err = "UpdateNotAllowed"]
                    ELSE info
             ELSE info

(***************************************************************************)
(* GetRegularTemplates, for one module: an invalid module short-circuits;  *)
(* otherwise resolve, run FilterTemplate, and apply the skew guard.  Note  *)
(* the code stores FilterTemplate's result (line 60) and then overwrites   *)
(* it with the unfiltered info (line 67), so `filtered` below is computed  *)
(* exactly as the code computes it and then dropped.                      *)
(***************************************************************************)
RegularTemplate(catalog, kyma, st, m, listOk) ==
  IF ~kyma.valid[m]
    THEN [tpl |-> NoTemplate, err |-> "NotValid", desiredChannel |-> ""]
    ELSE LET template == GetAndValidate(catalog, m, kyma.moduleChannel[m],
                                        kyma.channel, listOk)
             filtered == FilterTemplate(template, catalog, kyma)
         IN  IF st # NoStatus /\ template.tpl # NoTemplate
               THEN checkValidTemplateUpdate(template, st, catalog)
               ELSE template

\* GetRegularTemplates over all modules; failedLists are the modules whose
\* List call fails.
GetRegularTemplates(catalog, kyma, status, failedLists) ==
  [m \in ModuleNames |->
     RegularTemplate(catalog, kyma, status[m], m, m \notin failedLists)]

=============================================================================
