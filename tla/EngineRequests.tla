---------------------------- MODULE EngineRequests ----------------------------
(***************************************************************************)
(* The requests the extension sends (sendRequest of engineTransport.ts),    *)
(* composed with the engine that serves them: how a request is numbered and *)
(* named, so that the engine can tell an overtaken request from a current   *)
(* one and a repeated mutation from a new one.  One transport serves one    *)
(* process; both start over with the next process.                          *)
(***************************************************************************)
EXTENDS RuntimeProtocol

CONSTANTS
  Operations,    \* operation ids of host mutations, and NoOperation
  NoOperation,   \* a request outside a host mutation
  MaxGeneration  \* bound: renderGeneration of a session, and what sendRequest may count to

VARIABLE revisionByDocument   \* per document: the last version sent and its generation

hostVars == <<revisionByDocument, vars>>

\* Mutant: the operation alone names the command.
CommandIdOfOperation(r, op, p, v) == IF op = NoOperation THEN [by |-> r] ELSE [by |-> op]

\* engineIdentityId('operation', `${operationId}:${method}:${payload}:${revision}`), or the request's own id.
CommandId(r, op, p, v) == IF op = NoOperation THEN [by |-> r] ELSE [by |-> op, payload |-> p, version |-> v]

Max2(a, b) == IF a > b THEN a ELSE b

\* Mutant: a session's own generation is taken as it is.
NextGenerationOwn(prior, v, own) ==
  IF own > 0 THEN own ELSE IF prior.version = v /\ prior.generation > 0 THEN prior.generation ELSE prior.generation + 1

\* A document whose revision or text changed gets a new generation; a session's own may be ahead of it.
NextGeneration(prior, v, own) ==
  Max2(own, IF prior.version = v /\ prior.generation > 0 THEN prior.generation ELSE prior.generation + 1)

ASSUME HostAssumption ==
  /\ MaxGeneration \in Nat
  /\ \A r \in Requests, op \in Operations, p \in Payloads, v \in Versions : CommandId(r, op, p, v) \in Commands

SendRequest(r) ==
  \E d \in Documents, v \in Versions, p \in Payloads, own \in 0 .. MaxGeneration,
     op \in Operations, mutation \in BOOLEAN :
    LET g == NextGeneration(revisionByDocument[d], v, own) IN
      /\ g <= MaxGeneration
      /\ revisionByDocument' = [revisionByDocument EXCEPT ![d] = [generation |-> g, version |-> v]]
      /\ Send(r, [document |-> d, generation |-> g, version |-> v, payload |-> p,
                  command |-> IF mutation THEN CommandId(r, op, p, v) ELSE NoCommand])

HostInit == Init /\ revisionByDocument = [d \in Documents |-> Unknown]

HostNext == \E r \in Requests :
  \/ SendRequest(r)
  \/ Step(r) /\ UNCHANGED revisionByDocument
  \/ pc[r] # "new" /\ Outside(r) /\ UNCHANGED revisionByDocument

\* Threads run and timers fire; no method is assumed to return.
Fairness == \A r \in Requests : WF_hostVars((Step(r) \/ Expire(r)) /\ UNCHANGED revisionByDocument)

HostSpec == HostInit /\ [][HostNext]_hostVars /\ Fairness

------------------------------------------------------------------------------
\* A request is found stale only after a newer one of its document was sent: of what the extension sent
\* last no request is ever taken for an old one.  (The editor draws again after STALE_GENERATION, and a request
\* that nothing overtook would draw for ever.)  A replay repeats what was found when its command ran.
StaleWasOvertaken ==
  [][\A r \in Requests : pc[r] # "checked" /\ outcome[r] = "none" /\ outcome'[r] = "stale" =>
       revisionByDocument[envelope[r].document].generation > envelope[r].generation]_hostVars

\* The engine never sees one command id with two payloads or two versions: a host operation may send several
\* mutations and repeat each, and none is refused for, or answered with, another's record.
CommandNamesContent ==
  \A r \in InFlight, i \in DOMAIN records : Mutation(r) /\ records[i].key = Key(r) =>
    records[i].payload = envelope[r].payload /\ records[i].version = envelope[r].version

\* Every request is answered or runs its method: one that waits behind a method that never returns is
\* answered by its deadline.
RequestsAnswered == \A r \in Requests : (pc[r] = "sent") ~> (pc[r] \in {"running", "done"})
==============================================================================
