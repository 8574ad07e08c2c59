----------------------------- MODULE MCProcess -----------------------------
(***************************************************************************)
(* Two services and two runs of a server; applications with and without a  *)
(* version, on a settings module or on settings configured by hand.        *)
(***************************************************************************)
EXTENDS Process

CONSTANTS s1, s2

MCGlobalSettings == [n \in {"SERVICE_CONNECTIONS", "APPLICATION_VERSION"} |->
                        IF n = "SERVICE_CONNECTIONS" THEN {} ELSE NoVersion]
MCSettingsModule == [n \in {"SERVICE_CONNECTIONS"} |-> {s1}]
NoNames == [n \in {} |-> Empty]
Setting(name, value) == [n \in {name} |-> value]
MCConnections == {{s1}, {s1, s2}}
MCCacheSettings == {<<"session">>, <<"session", "insanic">>}
MCOptions == {Setting("SERVICE_NAME", "mine")}
MCAppConfigs == {NoNames, Setting("APPLICATION_VERSION", "2")}
=============================================================================
