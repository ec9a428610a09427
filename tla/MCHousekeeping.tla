--------------------------- MODULE MCHousekeeping ---------------------------
EXTENDS Housekeeping, TLC

Schema == INSTANCE XibiSchema

CONSTANTS
  parsed_body, inference_events, access_log,
  config_drift, provider_health,
  heartbeat, telegram

MCOrder     == <<parsed_body, inference_events, access_log>>
MCInterval  == parsed_body :> 1 @@ inference_events :> 1 @@ access_log :> 3
MCChecks    == <<config_drift, provider_health>>
MCProcs     == {heartbeat, telegram}
MCBody      == Schema!Bodies
\* Built needs no References.
Builder      == INSTANCE Migrations WITH References <- <<>>
MCReferences == Builder!Built
MCRows      == <<"checklist_instance_items">>

\* 36 is the last version before the table of the rows is replaced.
MCInstalled == {0, 11, 36}
=============================================================================
