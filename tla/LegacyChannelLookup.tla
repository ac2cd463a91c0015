------------------------- MODULE LegacyChannelLookup -------------------------
(***************************************************************************)
(* The older template lookup of package channel (src/unnamed/part_001,     *)
(* lines 1-311): GetTemplates, TemplateLookup.WithContext, getTemplate,   *)
(* DetermineTemplatesVisibility and CheckForOutdatedTemplates, over the    *)
(* same abstraction of templates as TemplateLookup.  Remote template       *)
(* references (RemoteModuleTemplateRef) are not modelled: every module is *)
(* looked up in the control-plane catalog.                                *)
(***************************************************************************)
EXTENDS Naturals

CONSTANTS ModuleNames, OtherName, Channels, DefaultChannel, TemplateIds,
          Versions, BadVersion, DecodeError, NoTemplate, NoStatus

TL == INSTANCE TemplateLookup

\* A ModuleTemplateTO: a ModuleTemplateInfo with the Outdated flag.
InfoTO(t, e, desired) ==
  [tpl |-> t, err |-> e, desiredChannel |-> desired, outdated |-> FALSE]

\* getTemplate: label and object name, then the descriptor; no mandatory
\* check.
getTemplate(catalog, name, desiredChannel, listOk) ==
  LET listed      == {t \in TemplateIds : catalog[t].present}
      undecodable == {t \in listed :
                        /\ ~TL!MetadataMatch(catalog[t], name, desiredChannel)
                        /\ catalog[t].desc = DecodeError}
      filtered    == {t \in listed :
                        \/ TL!MetadataMatch(catalog[t], name, desiredChannel)
                        \/ TL!DescriptorMatch(catalog[t], name, desiredChannel)}
  IN  CASE ~listOk          -> TL!LookupResult(NoTemplate, "ListFailed")
        [] undecodable # {} -> TL!LookupResult(NoTemplate, "DescriptorInvalid")
        [] \E t1, t2 \in filtered : t1 # t2
                            -> TL!LookupResult(NoTemplate, "NotIdentified")
        [] filtered = {}    -> TL!LookupResult(NoTemplate, "NoTemplates")
        [] OTHER -> TL!LookupResult(CHOOSE t \in filtered : TRUE, "nil")

\* TemplateLookup.WithContext.
WithContext(catalog, name, channel, defaultChannel, listOk) ==
  LET desired == TL!getDesiredChannel(channel, defaultChannel)
      r       == getTemplate(catalog, name, desired, listOk)
  IN  CASE r.err # "nil"                 -> InfoTO(NoTemplate, r.err, desired)
        [] catalog[r.tpl].channel = ""   -> InfoTO(NoTemplate, "NoChannel", desired)
        [] OTHER                         -> InfoTO(r.tpl, "nil", desired)

\* DetermineTemplatesVisibility, for one module (the map entry is written
\* back, so the error sticks).
DetermineTemplateVisibility(info, catalog, kyma) ==
  IF info.err # "nil" THEN info
  ELSE LET tp == catalog[info.tpl]
       IN  IF \/ tp.internal /\ ~kyma.internal
              \/ tp.beta /\ ~kyma.beta
             THEN [info EXCEPT !.err = "NotAllowed"]
             ELSE info

(***************************************************************************)
(* CheckForOutdatedTemplate: a generation skew marks the template outdated *)
(* and returns; only then is a channel skew examined, and a higher         *)
(* installed version leaves it not outdated (no error is set).             *)
(***************************************************************************)
CheckForOutdatedTemplate(info, st, catalog) ==
  IF st = NoStatus THEN info
  ELSE LET tp == catalog[info.tpl]
       IN  CASE tp.generation # st.generation -> [info EXCEPT !.outdated = TRUE]
             [] tp.channel # st.channel
                /\ tp.desc # DecodeError
                /\ tp.desc.version # BadVersion
                /\ st.version # BadVersion
                /\ ~(st.version > tp.desc.version)
                  -> [info EXCEPT !.outdated = TRUE]
             [] OTHER -> info

(***************************************************************************)
(* GetTemplates: look up each module, apply visibility, then run          *)
(* CheckForOutdatedTemplates.  That loop passes the address of a copy of  *)
(* each map entry and never stores the copy back, so the returned map     *)
(* holds the entries as DetermineTemplatesVisibility left them: `checked`  *)
(* is computed as the code computes it and then dropped.  The spec's      *)
(* Module.Valid flag has no counterpart in this version.                  *)
(***************************************************************************)
GetTemplates(catalog, kyma, status, failedLists) ==
  [m \in ModuleNames |->
     LET looked  == WithContext(catalog, m, kyma.moduleChannel[m],
                                kyma.channel, m \notin failedLists)
         visible == DetermineTemplateVisibility(looked, catalog, kyma)
         checked == IF status[m] # NoStatus /\ visible.tpl # NoTemplate
                      THEN CheckForOutdatedTemplate(visible, status[m], catalog)
                      ELSE visible
     IN  visible]

=============================================================================
