-------------------------- MODULE MC_EngineRequests --------------------------
(* Every command id the requests of an instance can carry.                  *)
EXTENDS EngineRequests

MCCommands == [by : Requests] \cup [by : Operations, payload : Payloads, version : Versions]
              \cup [by : Operations]
==============================================================================
