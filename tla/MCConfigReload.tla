--------------------------- MODULE MCConfigReload ---------------------------
(* Two provider names, two identities; the editor knows three files.       *)
EXTENDS ConfigReload, TLC

CONSTANTS a, b

MCEditorConfigs == {"p" :> a, ("p" :> a) @@ ("q" :> b), Broken}
=============================================================================
