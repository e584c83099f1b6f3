------------------------------ MODULE Settings ------------------------------
(***************************************************************************)
(* The rows that every process of the engine keeps in memory - an access   *)
(* token, a keypair, the webhooks of an event type, the configuration - and*)
(* the routes that change them.  One of the four is in view, chosen        *)
(* initially; the caches of different rows do not meet.                    *)
(*                                                                         *)
(* A value is a set: of a token or a keypair its state or nothing, of the  *)
(* webhooks whether the one in view is listed, of the configuration the    *)
(* allowed origins.  The other columns of the configuration are written and*)
(* cached with it and are not followed one by one.                         *)
(***************************************************************************)
EXTENDS Naturals

CONSTANTS
  Procs,      \* processes of the engine, over one database
  Modes,      \* deployments: for every process its ENGINE_MODE
  Slots,      \* bound: requests, jobs and notifications in progress
  Mandatory,  \* mandatoryAllowedCorsUrls
  Others,     \* origins that users add
  Empty,      \* nothing cached
  Nowhere,    \* the process of a free slot
  MaxEvents   \* bound: requests to change the row, failed queries, broken listeners, restarts

Origins == Mandatory \cup Others

ASSUME SettingsAssumption ==
  /\ MaxEvents \in Nat
  /\ Modes \subseteq [Procs -> {"server_only", "worker_only", "default"}]
  /\ Mandatory # {} /\ Nowhere \notin Procs

Kinds == {"token", "keypair", "hook", "config"}
Credentials == {"token", "keypair"}

\* The values of each kind; {} is no row, no webhook or a row without origins.
Values(k) ==
  CASE k = "token"   -> {{}, {"valid"}, {"revoked"}}
    [] k = "keypair" -> {{}, {"valid"}}
    [] k = "hook"    -> {{}, {"listed"}}
    [] k = "config"  -> SUBSET Origins

----------------------------------------------------------------------------
(* What the routes do: refuses if the handler validates its input, base if *)
(* it computes the new value from getConfig(), and then what it does       *)
(* between the write and the answer.                                       *)

Route(kind, does, then) ==
  [kind |-> kind, does |-> does, then |-> then, base |-> FALSE, refuses |-> FALSE]

createAccessToken == Route("token", "create", "clear")
revokeAccessToken == Route("token", "revoke", "clear")
updateAccessToken == Route("token", "label", "clear")
onToken           == Route("token", "create", "answer")
onLogout          == Route("token", "revoke", "answer")

addKeypair    == [Route("keypair", "create", "answer") EXCEPT !.refuses = TRUE]
removeKeypair == Route("keypair", "delete", "clear")

createWebhook == [Route("hook", "list", "answer") EXCEPT !.refuses = TRUE]
revokeWebhook == [Route("hook", "unlist", "answer") EXCEPT !.refuses = TRUE]

addUrlToCorsConfiguration      == [Route("config", "addOrigins", "reread") EXCEPT !.base = TRUE]
removeUrlToCorsConfiguration   == [Route("config", "removeOrigins", "reread") EXCEPT
                                     !.base = TRUE, !.refuses = TRUE]
setUrlsToCorsConfiguration     == Route("config", "setOrigins", "reread")
updateAuthConfiguration        == Route("config", "change", "reread")
updateBackendWalletBalanceConfiguration == Route("config", "change", "reread")
updateChainsConfiguration      == Route("config", "change", "reread")
updateTransactionConfiguration == Route("config", "change", "reread")
setIpAllowlist                 == Route("config", "change", "reread")
updateContractSubscriptionsConfiguration ==
  [Route("config", "change", "reread") EXCEPT !.refuses = TRUE]
updateWalletsConfiguration     == [Route("config", "change", "reread") EXCEPT !.refuses = TRUE]
updateCacheConfiguration       == [Route("config", "change", "restart") EXCEPT !.refuses = TRUE]

Routes ==
  {createAccessToken, revokeAccessToken, updateAccessToken, onToken, onLogout,
   addKeypair, removeKeypair, createWebhook, revokeWebhook,
   addUrlToCorsConfiguration, removeUrlToCorsConfiguration, setUrlsToCorsConfiguration,
   updateAuthConfiguration, updateBackendWalletBalanceConfiguration, updateChainsConfiguration,
   updateTransactionConfiguration, setIpAllowlist, updateContractSubscriptionsConfiguration,
   updateWalletsConfiguration, updateCacheConfiguration}

\* Not routes: a lookup on behalf of a request or a job, and the reaction of a worker
\* to updated_configuration_data.
lookup(k)       == Route(k, "nothing", "answer")
updatedListener == Route("config", "nothing", "restart")

Ops == Routes \cup {lookup(k) : k \in Kinds} \cup {updatedListener}

----------------------------------------------------------------------------
VARIABLES
  kind,      \* which of the four this is
  mode,      \* per process: ENGINE_MODE
  row,       \* the value in Postgres
  cache,     \* per process: the cached value, or Empty
  cron,      \* per process: clearCacheCron has scheduled its task
  listening, \* per process: its LISTEN connections are up
  notes,     \* per process: notifications on their way
  pc,        \* per slot: where it is
  at,        \* per slot: the process it runs in
  op,        \* per slot: what it is
  urls,      \* per slot: the origins of the request
  val,       \* per slot: the value it looked up
  wrote,     \* per slot: it has written its change
  firm,      \* per slot: the row has existed since the lookup began (history)
  behind,    \* per process: its cache missed a change it could not know of (history)
  events

vars == <<kind, mode, row, cache, cron, listening, notes, pc, at, op, urls, val, wrote, firm, behind,
          events>>

\* main: initServer, initWorker, or both in one process.
Servers == {p \in Procs : mode[p] # "worker_only"}
Workers == {p \in Procs : mode[p] # "server_only"}

PCs == {"idle", "query", "default", "fill", "found", "write", "clear", "written"}

TypeOK ==
  /\ kind \in Kinds /\ mode \in Modes
  /\ row \in Values(kind)
  /\ cache \in [Procs -> {Empty} \cup Values(kind)]
  /\ cron \in [Procs -> BOOLEAN] /\ listening \in [Procs -> BOOLEAN]
  /\ notes \in [Procs -> Nat]
  /\ pc \in [Slots -> PCs]
  /\ at \in [Slots -> Procs \cup {Nowhere}] /\ \A s \in Slots : pc[s] # "idle" => at[s] \in Procs
  /\ op \in [Slots -> Ops] /\ \A s \in Slots : op[s].kind = kind
  /\ urls \in [Slots -> SUBSET Origins]
  /\ val \in [Slots -> Values(kind)]
  /\ wrote \in [Slots -> BOOLEAN] /\ firm \in [Slots -> BOOLEAN]
  /\ behind \in [Procs -> BOOLEAN]
  /\ events \in 0..MaxEvents

\* A process of a server starts the cron once it is up, a process with a worker listens.
\* An old configuration row may have no origins yet.
Init ==
  /\ kind \in Kinds /\ mode \in Modes
  /\ row \in Values(kind) /\ (kind = "config" => row \in {{}, Mandatory})
  /\ cache = [p \in Procs |-> Empty]
  /\ cron = [p \in Procs |-> p \in Servers]
  /\ listening = [p \in Procs |-> p \in Workers]
  /\ notes = [p \in Procs |-> 0]
  /\ pc = [s \in Slots |-> "idle"]
  /\ at = [s \in Slots |-> Nowhere]
  /\ op = [s \in Slots |-> lookup(kind)]
  /\ urls = [s \in Slots |-> {}]
  /\ val = [s \in Slots |-> {}]
  /\ wrote = [s \in Slots |-> FALSE] /\ firm = [s \in Slots |-> FALSE]
  /\ behind = [p \in Procs |-> FALSE]
  /\ events = 0

Event == events < MaxEvents /\ events' = events + 1

Goto(s, l) == pc' = [pc EXCEPT ![s] = l]

GoOn(s, l) == Goto(s, l) /\ UNCHANGED <<at, op, urls, val, wrote, firm>>

\* The slots of ss are free again.
Free(ss) ==
  /\ pc' = [s \in Slots |-> IF s \in ss THEN "idle" ELSE pc[s]]
  /\ at' = [s \in Slots |-> IF s \in ss THEN Nowhere ELSE at[s]]
  /\ op' = [s \in Slots |-> IF s \in ss THEN lookup(kind) ELSE op[s]]
  /\ urls' = [s \in Slots |-> IF s \in ss THEN {} ELSE urls[s]]
  /\ val' = [s \in Slots |-> IF s \in ss THEN {} ELSE val[s]]
  /\ wrote' = [s \in Slots |-> s \notin ss /\ wrote[s]]
  /\ firm' = [s \in Slots |-> s \notin ss /\ firm[s]]

----------------------------------------------------------------------------
(* Lookups: getAccessToken, getKeypair, getWebhooksByEventType, getConfig  *)

\* Mutant: `has`, so that a cached null is an answer.
Served_Null(p) == cache[p] # Empty

\* `if (cached)`: a cached null is not an answer; a cached list or configuration is.
Served(p) == /\ cache[p] # Empty
             /\ kind \in Credentials => cache[p] # {}

\* Who looks up what: requests are authenticated by servers, workers read the others.
Readers == IF kind \in Credentials THEN Servers ELSE Procs

\* Starts o in a free slot: from the cache, if it needs the value and the cache serves it.
Start(s, p, o, us) ==
  LET needs == o.does = "nothing" \/ o.base IN
  /\ pc[s] = "idle"
  /\ at' = [at EXCEPT ![s] = p]
  /\ op' = [op EXCEPT ![s] = o]
  /\ urls' = [urls EXCEPT ![s] = us]
  /\ wrote' = [wrote EXCEPT ![s] = FALSE]
  /\ firm' = [firm EXCEPT ![s] = kind \in Credentials /\ row # {}]
  /\ val' = [val EXCEPT ![s] = IF needs /\ Served(p) THEN cache[p] ELSE {}]
  /\ Goto(s, IF needs /\ ~Served(p) THEN "query" ELSE IF o.does = "nothing" THEN "found" ELSE "write")
  /\ UNCHANGED <<kind, mode, row, cache, cron, listening, notes, behind>>

\* A request is authenticated or a job looks for its webhooks; what it gets is followed for
\* the credentials only.
Lookup(s) ==
  /\ \E p \in Readers : (Served(p) => kind \in Credentials) /\ Start(s, p, lookup(kind), {})
  /\ UNCHANGED events

\* The origins in the body of a request.
Bodies(o) ==
  CASE o.does = "addOrigins" -> SUBSET Others \ {{}}
    [] o.does = "removeOrigins" -> SUBSET Origins \ {{}}
    [] o.does = "setOrigins" -> SUBSET Others
    [] OTHER -> {{}}

\* A request that changes the row.
Request(s) ==
  /\ Event
  /\ \E p \in Servers, o \in {o \in Routes : o.kind = kind} :
       \E us \in Bodies(o) : Start(s, p, o, us)

\* The reading query; getConfiguration goes on to write the defaults of a row without origins.
Query(s) ==
  /\ pc[s] = "query"
  /\ val' = [val EXCEPT ![s] = row]
  /\ Goto(s, IF kind = "config" /\ row = {} THEN "default" ELSE "fill")
  /\ UNCHANGED <<kind, mode, row, cache, cron, listening, notes, at, op, urls, wrote, firm, behind,
                 events>>

\* Every change of the row of a webhook or of the configuration notifies the listeners.
Notify == notes' = IF kind \in {"hook", "config"}
                   THEN [p \in Procs |-> IF listening[p] THEN notes[p] + 1 ELSE notes[p]]
                   ELSE notes

\* A change by process a: the others cannot know of it, and a knows if it tells itself.
Changed(a, knows) ==
  behind' = [p \in Procs |-> behind[p] \/ (row' # row /\ (p # a \/ ~knows))]

\* getConfiguration: updateConfiguration with the mandatory origins.
Default(s) ==
  /\ pc[s] = "default"
  /\ row' = Mandatory
  /\ val' = [val EXCEPT ![s] = row']
  /\ Notify /\ Changed(at[s], FALSE)
  /\ Goto(s, "fill")
  /\ UNCHANGED <<kind, mode, cache, cron, listening, at, op, urls, wrote, firm, events>>

\* The value read some time ago goes into the cache, and the caller goes on with it: to its
\* change, to the answer, or to clearCacheCron, which schedules the task anew.
Fill(s) ==
  /\ pc[s] = "fill"
  /\ cache' = [cache EXCEPT ![at[s]] = val[s]]
  /\ behind' = [behind EXCEPT ![at[s]] = val[s] # row]
  /\ \/ /\ op[s].base /\ ~wrote[s]
        /\ GoOn(s, "write") /\ UNCHANGED cron
     \/ /\ kind \in Credentials
        /\ GoOn(s, "found") /\ UNCHANGED cron
     \/ /\ kind \notin Credentials /\ (wrote[s] \/ ~op[s].base)
        /\ cron' = IF op[s].then = "restart" THEN [cron EXCEPT ![at[s]] = TRUE] ELSE cron
        /\ Free({s})
  /\ UNCHANGED <<kind, mode, row, listening, notes, events>>

----------------------------------------------------------------------------
(* Changes                                                                 *)

\* The database takes the change; otherwise it throws (no such row, P2002).
Possible(o) ==
  CASE o.does = "create" -> row = {}
    [] o.does \in {"revoke", "label", "delete"} -> row # {}
    [] OTHER -> TRUE

\* Mutant: a keypair is marked and not deleted.
NewRow_Marked(o, us, base) ==
  CASE o.does = "create" -> {"valid"}
    [] o.does \in {"revoke", "delete"} -> {"revoked"}
    [] o.does = "list" -> {"listed"}
    [] o.does = "unlist" -> {}
    [] o.does = "addOrigins" -> us \cup Mandatory \cup base
    [] o.does = "removeOrigins" -> base \ us
    [] o.does = "setOrigins" -> us \cup Mandatory
    [] o.does \in {"change", "label", "nothing"} -> row

\* The row after the change; other columns of the configuration leave the origins alone.
NewRow(o, us, base) ==
  CASE o.does = "create" -> {"valid"}
    [] o.does = "revoke" -> {"revoked"}
    [] o.does = "delete" -> {}
    [] o.does = "list" -> {"listed"}
    [] o.does = "unlist" -> {}
    [] o.does = "addOrigins" -> us \cup Mandatory \cup base
    [] o.does = "removeOrigins" -> base \ us
    [] o.does = "setOrigins" -> us \cup Mandatory
    [] o.does \in {"change", "label", "nothing"} -> row

\* Mutant: any URL may be removed.
MustRefuse_Never(s) == FALSE

\* A validation fails, or the URLs to remove contain a mandatory one.
MustRefuse(s) == op[s].does = "removeOrigins" /\ urls[s] \cap Mandatory # {}

Refuse(s) ==
  /\ pc[s] = "write" /\ op[s].refuses
  /\ Free({s})
  /\ UNCHANGED <<kind, mode, row, cache, cron, listening, notes, behind, events>>

\* insert, update or delete, and on to what the handler does with its own cache.
Write(s) ==
  LET o == op[s] IN
  /\ pc[s] = "write" /\ ~MustRefuse(s) /\ Possible(o)
  /\ row' = NewRow(o, urls[s], val[s])
  /\ wrote' = [wrote EXCEPT ![s] = TRUE]
  /\ Notify /\ Changed(at[s], o.then # "answer")
  /\ firm' = [t \in Slots |-> firm[t] /\ row' # {}]
  /\ val' = [val EXCEPT ![s] = {}] /\ urls' = [urls EXCEPT ![s] = {}]
  /\ Goto(s, CASE o.then = "clear" -> "clear"
               [] o.then = "answer" -> "written"
               [] o.then \in {"reread", "restart"} -> "query")
  /\ UNCHANGED <<kind, mode, cache, cron, listening, at, op, events>>

WriteThrows(s) ==
  /\ pc[s] = "write" /\ ~Possible(op[s])
  /\ Free({s})
  /\ UNCHANGED <<kind, mode, row, cache, cron, listening, notes, behind, events>>

\* The routes that leave the cache alone.
Answer(s) ==
  /\ pc[s] = "written"
  /\ Free({s})
  /\ UNCHANGED <<kind, mode, row, cache, cron, listening, notes, behind, events>>

\* Mutant: the handler answers without clearing the cache.
Clear_Forgotten(s) ==
  /\ pc[s] = "clear"
  /\ Free({s})
  /\ UNCHANGED <<kind, mode, row, cache, cron, listening, notes, behind, events>>

\* accessTokenCache.clear() or keypairCache.clear().
Clear(s) ==
  /\ pc[s] = "clear"
  /\ cache' = [cache EXCEPT ![at[s]] = Empty]
  /\ behind' = [behind EXCEPT ![at[s]] = FALSE]
  /\ Free({s})
  /\ UNCHANGED <<kind, mode, row, cron, listening, notes, events>>

\* A request goes on with the credential it found, or without.
Found(s) ==
  /\ pc[s] = "found"
  /\ Free({s})
  /\ UNCHANGED <<kind, mode, row, cache, cron, listening, notes, behind, events>>

\* A query fails and so does what it is part of; a change that was made is not read back.
Throw(s) ==
  /\ pc[s] \in {"query", "default", "write"} /\ Event
  /\ behind' = [behind EXCEPT ![at[s]] = @ \/ wrote[s]]
  /\ Free({s})
  /\ UNCHANGED <<kind, mode, row, cache, cron, listening, notes>>

----------------------------------------------------------------------------
(* Listeners, cron and restarts                                            *)

\* new_webhook_data and updated_webhook_data: webhookCache.clear().
WebhookNotified(p) ==
  /\ kind = "hook" /\ listening[p] /\ notes[p] > 0
  /\ notes' = [notes EXCEPT ![p] = @ - 1]
  /\ cache' = [cache EXCEPT ![p] = Empty]
  /\ behind' = [behind EXCEPT ![p] = FALSE]
  /\ UNCHANGED <<kind, mode, row, cron, listening, pc, at, op, urls, val, wrote, firm, events>>

\* updated_configuration_data: getConfig(false), then clearCacheCron("worker").
ConfigNotified(s) ==
  \E p \in Workers :
    /\ kind = "config" /\ listening[p] /\ notes[p] > 0
    /\ pc[s] = "idle"
    /\ notes' = [notes EXCEPT ![p] = @ - 1]
    /\ at' = [at EXCEPT ![s] = p]
    /\ op' = [op EXCEPT ![s] = updatedListener]
    /\ Goto(s, "query")
    /\ UNCHANGED <<kind, mode, row, cache, cron, listening, urls, val, wrote, firm, behind, events>>

\* Mutant: clearCache leaves the keypairs out.
CronClear_NoKeypairs(p) ==
  /\ cron[p] /\ kind # "keypair"
  /\ cache' = [cache EXCEPT ![p] = Empty]
  /\ behind' = [behind EXCEPT ![p] = FALSE]
  /\ UNCHANGED <<kind, mode, row, cron, listening, notes, pc, at, op, urls, val, wrote, firm, events>>

\* clearCache.
CronClear(p) ==
  /\ cron[p]
  /\ cache' = [cache EXCEPT ![p] = Empty]
  /\ behind' = [behind EXCEPT ![p] = FALSE]
  /\ UNCHANGED <<kind, mode, row, cron, listening, notes, pc, at, op, urls, val, wrote, firm, events>>

\* "error" or "end" on a LISTEN connection: the pool is destroyed and nothing listens again.
ListenerDies(p) ==
  /\ listening[p] /\ Event
  /\ listening' = [listening EXCEPT ![p] = FALSE]
  /\ notes' = [notes EXCEPT ![p] = 0]
  /\ UNCHANGED <<kind, mode, row, cache, cron, pc, at, op, urls, val, wrote, firm, behind>>

\* The process is restarted.
Crash(p) ==
  /\ Event
  /\ cache' = [cache EXCEPT ![p] = Empty]
  /\ behind' = [behind EXCEPT ![p] = FALSE]
  /\ cron' = [cron EXCEPT ![p] = p \in Servers]
  /\ listening' = [listening EXCEPT ![p] = p \in Workers]
  /\ notes' = [notes EXCEPT ![p] = 0]
  /\ Free({s \in Slots : at[s] = p})
  /\ UNCHANGED <<kind, mode, row>>

----------------------------------------------------------------------------
Step(s) == \/ Query(s) \/ Default(s) \/ Fill(s) \/ Write(s) \/ WriteThrows(s) \/ Refuse(s)
           \/ Clear(s) \/ Answer(s) \/ Found(s)

Next ==
  \/ \E s \in Slots : Lookup(s) \/ Request(s) \/ Step(s) \/ Throw(s) \/ ConfigNotified(s)
  \/ \E p \in Procs : WebhookNotified(p) \/ CronClear(p) \/ ListenerDies(p) \/ Crash(p)

Spec == Init /\ [][Next]_vars

\* What was begun goes on, and node-cron runs its tasks.
FairSpec ==
  /\ Spec
  /\ \A s \in Slots : WF_vars(Step(s))
  /\ \A p \in Procs : WF_vars(CronClear(p))

----------------------------------------------------------------------------
\* A credential that exists when a request comes in, and goes on existing, is found: a
\* lookup that came back empty before it was added does not make it absent.
NoFalseAbsence ==
  kind \in Credentials =>
    \A s \in Slots : pc[s] = "found" /\ firm[s] => val[s] # {}

\* A process serves an outdated value only while a handler of its own is about to put that
\* right, or if it could not know: another process, or a route that leaves the cache alone,
\* made the change, or the value was read before the change and stored after it.
StaleHasReason ==
  \A p \in Procs : Served(p) /\ cache[p] # row =>
    behind[p] \/ \E s \in Slots : at[s] = p /\ wrote[s] /\ pc[s] \in {"clear", "query", "default", "fill"}

\* The mandatory origins are never lost, whatever outdated list an add or a remove works on
\* and however they overlap.
MandatoryOrigins ==
  kind = "config" =>
    /\ row # {} => Mandatory \subseteq row
    /\ \A p \in Procs : cache[p] # Empty => Mandatory \subseteq cache[p]

\* When the changes are over, a process with the cron comes to serve what is in the database.
Converges == \A p \in Procs : <>[](cron[p] => cache[p] \in {Empty, row})
=============================================================================
