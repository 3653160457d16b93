-------------------------------- MODULE MCApp --------------------------------
(* Model checking of the application's own protocols: the push token, the     *)
(* counter on the web page, the installation id and the files the page saves, *)
(* with the simulated engine and the ringback player beside them.             *)
(* One behaviour is about one of them, chosen at the start.  The others stay  *)
(* as they begin, where none of their fair actions is enabled, so each of     *)
(* them satisfies its own fairness condition.                                 *)
EXTENDS PushToken, WebViewSync, DeviceId, BlobSave,
        SimulatedSip, Ringback, TLC

VARIABLE part     \* "token", "sync", "id", "save", "simulated" or "ringback"

Only(p, quiet) == part = p /\ UNCHANGED <<quiet, part>>

\* Those that are not the part need only one of their initial states.
AppInit ==
    /\ part \in {"token", "sync", "id", "save", "simulated", "ringback"}
    /\ TokenInit /\ SyncInit /\ IdInit /\ SaveInit
    /\ SimInit /\ RingInit
    /\ stable \/ calm    \* nothing is claimed without either
    /\ part # "token" => stable /\ calm
    /\ part # "sync" => unread = CHOOSE n \in Unread : TRUE
    /\ part # "id" => platform = "ios" /\ ~overlap /\ ~faulty
    /\ part # "save" => os = "ios" /\ obliging

appVars == <<tokenVars, syncVars, idVars, saveVars>>
soundVars == <<simVars, ringVars>>

AppNext ==
    \/ Only("token", <<syncVars, idVars, saveVars, soundVars>>) /\ TokenNext
    \/ Only("sync", <<tokenVars, idVars, saveVars, soundVars>>) /\ SyncNext
    \/ Only("id", <<tokenVars, syncVars, saveVars, soundVars>>) /\ IdNext
    \/ Only("save", <<tokenVars, syncVars, idVars, soundVars>>) /\ SaveNext
    \/ Only("simulated", <<appVars, ringVars>>) /\ SimNext
    \/ Only("ringback", <<appVars, simVars>>) /\ RingNext

AppSpec ==
    /\ AppInit
    /\ [][AppNext]_<<appVars, soundVars, part>>
    /\ SimFairness /\ RingFairness
(* The variables of every part keep to their types.                          *)
AppTypes == /\ TokenTypeOK /\ SyncTypeOK /\ IdTypeOK /\ SaveTypeOK
            /\ SimTypeOK /\ RingTypeOK

=============================================================================
