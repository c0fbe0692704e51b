------------------------------ MODULE ControlProofs ------------------------------
(***************************************************************************)
(* The composition that TLC runs has no behaviours of its own: each of its   *)
(* components behaves in it as it does alone.  So what is proved of a        *)
(* component holds of the composition, and the types of all of them together.*)
(***************************************************************************)
EXTENDS MCControl, CreditLedgerProofs, RunControlProofs, RecordsProofs, ActorsProofs

ControlParts == {"credit", "launch", "stream", "comments", "enrich", "text", "scrape", "actors"}

\* A step of the composition is a step of one component.
LEMMA OneComponentSteps ==
  ASSUME [ControlNext]_controlVars
  PROVE  /\ [Next]_vars /\ [LaunchNext]_launchVars /\ [StreamNext]_streamVars /\ [CommentNext]_commentVars
         /\ [EnrichmentNext]_enrichmentVars /\ [TextNext]_textVars /\ [ScrapeNext]_scrapeVars
         /\ [ActorsNext]_actorVars
         /\ UNCHANGED part
BY DEF ControlNext, controlVars, runsVars, recordsVars, besideVars, CreditStep, LaunchStep, StreamStep,
       CommentStep, EnrichStep, TextStep, ScrapeStep, ActorsStep

\* A behaviour of the composition is one of every component.
THEOREM ComponentsAreFree ==
  ControlSpec => /\ Spec /\ LaunchSpec /\ StreamSpec /\ CommentSpec
                 /\ EnrichmentSpec /\ TextSpec /\ ScrapeSpec /\ ActorsSpec
<1>1. ControlInit => /\ Init /\ LaunchInit /\ StreamInit /\ CommentInit
                     /\ EnrichmentInit /\ TextInit /\ ScrapeInit /\ ActorsInit
  BY DEF ControlInit
<1>2. [ControlNext]_controlVars =>
        /\ [Next]_vars /\ [LaunchNext]_launchVars /\ [StreamNext]_streamVars /\ [CommentNext]_commentVars
        /\ [EnrichmentNext]_enrichmentVars /\ [TextNext]_textVars /\ [ScrapeNext]_scrapeVars
        /\ [ActorsNext]_actorVars
  BY OneComponentSteps
<1> QED
  BY <1>1, <1>2, PTL DEF ControlSpec, Spec, LaunchSpec, StreamSpec, CommentSpec, EnrichmentSpec, TextSpec,
                         ScrapeSpec, ActorsSpec

\* Every row, message and program counter of the composition is one the code
\* can produce, for any number of runs, requests, records and actors.
THEOREM ControlTyped == ControlSpec => []ControlTypeOK
<1>1. ControlInit => part \in ControlParts
  BY DEF ControlInit, ControlParts
<1>2. part \in ControlParts /\ [ControlNext]_controlVars => (part \in ControlParts)'
  BY OneComponentSteps
<1>3. ControlSpec => [](part \in ControlParts)
  BY <1>1, <1>2, PTL DEF ControlSpec
<1>4. /\ part \in ControlParts /\ TypeOK /\ LaunchTypeOK /\ StreamTypeOK /\ CommentTypeOK
      /\ EnrichmentTypeOK /\ TextTypeOK /\ ScrapeTypeOK /\ ActorsTypeOK
      => ControlTypeOK
  BY DEF ControlParts, ControlTypeOK
<1> QED
  BY <1>3, <1>4, ComponentsAreFree, LedgerTypeCorrect, LaunchTypeCorrect, StreamTypeCorrect,
     CommentTypeCorrect, EnrichmentTyped, TextTypes, ScrapeTypes, ActorsTyped, PTL

=============================================================================
