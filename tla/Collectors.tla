------------------------------ MODULE Collectors ------------------------------
(***************************************************************************)
(* The collectors as lifespan starts them: those the settings enable,      *)
(* tasks of one event loop whose memories last as long as the process.     *)
(* lifespan can start the request collector too, though the settings       *)
(* refuse to enable it.                                                    *)
(***************************************************************************)
EXTENDS HAProxyCollector, RequestCollector, IntegrityCollector, DockerFindings

CONSTANT Settings  \* sets of collectors that a deployment enables

ASSUME SettingsAssumption ==
  Settings \subseteq SUBSET {"haproxy", "haproxy_request", "docker", "integrity"}

VARIABLE enabled

collectors == <<bounds, enabled, proxy, requests, integrity, dockerVars>>

Init ==
  /\ changes = 0 /\ failures = 0 /\ enabled \in Settings
  /\ ProxyInit /\ RequestInit /\ IntegrityInit /\ DockerInit

\* The process ends, at any moment, and is started again: new tasks, new memories.
Restart ==
  /\ Failure
  /\ ProxyFresh /\ RequestFresh /\ IntegrityFresh /\ DockerFresh
  /\ UNCHANGED enabled

Next ==
  \/ "haproxy" \in enabled /\ Proxy /\ UNCHANGED <<enabled, requests, integrity, dockerVars>>
  \/ "haproxy_request" \in enabled /\ Requests /\ UNCHANGED <<enabled, proxy, integrity, dockerVars>>
  \/ "integrity" \in enabled /\ Integrity /\ UNCHANGED <<enabled, proxy, requests, dockerVars>>
  \/ "docker" \in enabled /\ Docker /\ UNCHANGED <<enabled, proxy, requests, integrity>>
  \/ Restart

Spec == Init /\ [][Next]_collectors

TypeOK ==
  /\ ProxyTypeOK /\ RequestTypeOK /\ IntegrityTypeOK /\ DockerTypeOK
  /\ enabled \in Settings /\ changes \in 0..MaxChanges /\ failures \in 0..MaxFailures
=============================================================================
