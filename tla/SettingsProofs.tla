--------------------------- MODULE SettingsProofs ---------------------------
(***************************************************************************)
(* Settings, for any deployment, any number of processes, operations in    *)
(* progress, origins and events: types, and its three safety properties.   *)
(***************************************************************************)
EXTENDS Settings, TLAPS

----------------------------------------------------------------------------
(* What the table of operations says                                       *)

\* What an operation may do, by the kind of row it works on.
DoesOf(k) ==
  CASE k = "token"   -> {"create", "revoke", "label", "nothing"}
    [] k = "keypair" -> {"create", "delete", "nothing"}
    [] k = "hook"    -> {"list", "unlist", "nothing"}
    [] k = "config"  -> {"addOrigins", "removeOrigins", "setOrigins", "change", "nothing"}

\* The table is well formed: the origins that are left after a removal are computed from a
\* looked-up list, and nothing else but the configuration is computed from one.
WellFormed(o) ==
  /\ o.kind \in Kinds /\ o.does \in DoesOf(o.kind)
  /\ o.then \in {"clear", "answer", "reread", "restart"}
  /\ o.does = "removeOrigins" => o.base
  /\ o.base => o.kind = "config"

\* The operations of tokens and keypairs are well formed.
LEMMA CredentialOps ==
  /\ WellFormed(createAccessToken) /\ WellFormed(revokeAccessToken) /\ WellFormed(updateAccessToken)
  /\ WellFormed(onToken) /\ WellFormed(onLogout) /\ WellFormed(addKeypair) /\ WellFormed(removeKeypair)
  BY DEF WellFormed, DoesOf, Kinds, Route, createAccessToken, revokeAccessToken, updateAccessToken,
    onToken, onLogout, addKeypair, removeKeypair

\* So are those of webhooks and of the allowed origins.
LEMMA OriginOps ==
  /\ WellFormed(createWebhook) /\ WellFormed(revokeWebhook)
  /\ WellFormed(addUrlToCorsConfiguration) /\ WellFormed(removeUrlToCorsConfiguration)
  /\ WellFormed(setUrlsToCorsConfiguration)
  BY DEF WellFormed, DoesOf, Kinds, Route, createWebhook, revokeWebhook, addUrlToCorsConfiguration,
    removeUrlToCorsConfiguration, setUrlsToCorsConfiguration

\* So are the other changes of the configuration.
LEMMA ConfigOps ==
  /\ WellFormed(updateAuthConfiguration) /\ WellFormed(updateBackendWalletBalanceConfiguration)
  /\ WellFormed(updateChainsConfiguration) /\ WellFormed(updateTransactionConfiguration)
  /\ WellFormed(setIpAllowlist) /\ WellFormed(updateContractSubscriptionsConfiguration)
  /\ WellFormed(updateWalletsConfiguration) /\ WellFormed(updateCacheConfiguration)
  BY DEF WellFormed, DoesOf, Kinds, Route, updateAuthConfiguration,
    updateBackendWalletBalanceConfiguration, updateChainsConfiguration,
    updateTransactionConfiguration, setIpAllowlist, updateContractSubscriptionsConfiguration,
    updateWalletsConfiguration, updateCacheConfiguration

\* A lookup is an operation of the kind it looks up.
LEMMA LookupOp ==
  ASSUME NEW k \in Kinds
  PROVE  lookup(k) \in Ops /\ lookup(k).kind = k /\ WellFormed(lookup(k))
  BY DEF lookup, Route, Ops, WellFormed, DoesOf, Kinds

\* The listener's reread is one of the configuration.
LEMMA ListenerOp ==
  updatedListener \in Ops /\ updatedListener.kind = "config" /\ WellFormed(updatedListener)
  BY DEF updatedListener, Route, Ops, WellFormed, DoesOf, Kinds

\* Every operation is well formed.
LEMMA OpsWellFormed == \A o \in Ops : WellFormed(o)
<1>1. ASSUME NEW o \in Routes PROVE WellFormed(o)
  BY <1>1, CredentialOps, OriginOps, ConfigOps, Zenon DEF Routes
<1> QED BY <1>1, LookupOp, ListenerOp DEF Ops

----------------------------------------------------------------------------
(* Types                                                                   *)

\* No kind of row is without an empty value.
LEMMA EmptyValue == \A k \in Kinds : {} \in Values(k)
  BY DEF Values, Kinds

\* The two halves of TypeOK: what the processes share, and what the slots hold.
SharedTypes ==
  /\ kind \in Kinds /\ mode \in Modes
  /\ row \in Values(kind)
  /\ cache \in [Procs -> {Empty} \cup Values(kind)]
  /\ cron \in [Procs -> BOOLEAN] /\ listening \in [Procs -> BOOLEAN]
  /\ notes \in [Procs -> Nat]
  /\ behind \in [Procs -> BOOLEAN]
  /\ events \in 0..MaxEvents

SlotTypes ==
  /\ pc \in [Slots -> PCs]
  /\ at \in [Slots -> Procs \cup {Nowhere}] /\ \A s \in Slots : pc[s] # "idle" => at[s] \in Procs
  /\ op \in [Slots -> Ops] /\ \A s \in Slots : op[s].kind = kind
  /\ urls \in [Slots -> SUBSET Origins]
  /\ val \in [Slots -> Values(kind)]
  /\ wrote \in [Slots -> BOOLEAN] /\ firm \in [Slots -> BOOLEAN]

\* Ending an operation, or the operations of a process that stops, keeps the slots' types.
LEMMA FreeTypes ==
  ASSUME SharedTypes, SlotTypes, kind' = kind, NEW ss, Free(ss)
  PROVE  SlotTypes'
<1>1. lookup(kind) \in Ops /\ lookup(kind).kind = kind /\ {} \in Values(kind)
  BY LookupOp, EmptyValue DEF SharedTypes
<1>2. "idle" \in PCs
  BY DEF PCs
<1> QED BY <1>1, <1>2 DEF Free, SharedTypes, SlotTypes

\* Starting an operation keeps all types but that of the event counter.
LEMMA StartTypes ==
  ASSUME SharedTypes, SlotTypes, NEW s \in Slots, NEW p \in Procs, NEW o \in Ops, o.kind = kind,
         NEW us \in SUBSET Origins, Start(s, p, o, us), events' \in 0..MaxEvents
  PROVE  SharedTypes' /\ SlotTypes'
<1>1. {} \in Values(kind)
  BY EmptyValue DEF SharedTypes
<1>2. Served(p) => cache[p] \in Values(kind)
  BY DEF Served, SharedTypes
<1>3. {"query", "found", "write"} \subseteq PCs
  BY DEF PCs
<1>4. val' \in [Slots -> Values(kind)]
  BY <1>1, <1>2 DEF Start, SlotTypes
<1>5. pc' \in [Slots -> PCs]
  BY <1>3 DEF Start, Goto, SlotTypes
<1>6. firm' \in [Slots -> BOOLEAN] /\ wrote' \in [Slots -> BOOLEAN]
  BY DEF Start, SlotTypes
<1>7. at' \in [Slots -> Procs \cup {Nowhere}] /\ \A t \in Slots : pc'[t] # "idle" => at'[t] \in Procs
  BY DEF Start, Goto, SlotTypes
<1>8. op' \in [Slots -> Ops] /\ \A t \in Slots : op'[t].kind = kind'
  BY DEF Start, SlotTypes
<1>9. urls' \in [Slots -> SUBSET Origins]
  BY DEF Start, SlotTypes
<1>10. kind' = kind /\ SharedTypes'
  BY DEF Start, SharedTypes
<1> QED BY <1>4, <1>5, <1>6, <1>7, <1>8, <1>9, <1>10 DEF SlotTypes

\* A change makes a value of the row's kind.
LEMMA NewRowType ==
  ASSUME SharedTypes, NEW o \in Ops, o.kind = kind, NEW us \in SUBSET Origins, NEW base \in Values(kind)
  PROVE  NewRow(o, us, base) \in Values(kind)
<1>1. WellFormed(o)
  BY OpsWellFormed
<1>2. CASE kind = "token"
  BY <1>1, <1>2 DEF WellFormed, DoesOf, NewRow, Values, SharedTypes
<1>3. CASE kind = "keypair"
  BY <1>1, <1>3 DEF WellFormed, DoesOf, NewRow, Values, SharedTypes
<1>4. CASE kind = "hook"
  BY <1>1, <1>4 DEF WellFormed, DoesOf, NewRow, Values, SharedTypes
<1>5. CASE kind = "config"
  BY <1>1, <1>5 DEF WellFormed, DoesOf, NewRow, Values, SharedTypes, Origins
<1> QED BY <1>2, <1>3, <1>4, <1>5 DEF SharedTypes, Kinds

\* The defaults are written for a configuration only.
DefaultsOfConfig == \A s \in Slots : pc[s] = "default" => kind = "config"

\* A slot gets to "default" only from a query of a configuration.
LEMMA DefaultsStep ==
  ASSUME TypeOK, DefaultsOfConfig, [Next]_vars
  PROVE  DefaultsOfConfig'
<1> USE DEF DefaultsOfConfig, TypeOK
<1>1. ASSUME NEW s \in Slots, Lookup(s) PROVE DefaultsOfConfig'
  BY <1>1 DEF Lookup, Start, Goto
<1>2. ASSUME NEW s \in Slots, Request(s) PROVE DefaultsOfConfig'
  BY <1>2 DEF Request, Start, Goto, Event
<1>3. ASSUME NEW s \in Slots, Query(s) PROVE DefaultsOfConfig'
  BY <1>3 DEF Query, Goto
<1>4. ASSUME NEW s \in Slots, Default(s) PROVE DefaultsOfConfig'
  BY <1>4 DEF Default, Goto, Notify, Changed
<1>5. ASSUME NEW s \in Slots, Fill(s) PROVE DefaultsOfConfig'
  BY <1>5 DEF Fill, GoOn, Goto, Free
<1>6. ASSUME NEW s \in Slots, Write(s) PROVE DefaultsOfConfig'
  BY <1>6, OpsWellFormed DEF Write, Goto, Notify, Changed, WellFormed
<1>7. ASSUME NEW s \in Slots, WriteThrows(s) PROVE DefaultsOfConfig'
  BY <1>7 DEF WriteThrows, Free
<1>8. ASSUME NEW s \in Slots, Refuse(s) PROVE DefaultsOfConfig'
  BY <1>8 DEF Refuse, Free
<1>9. ASSUME NEW s \in Slots, Clear(s) PROVE DefaultsOfConfig'
  BY <1>9 DEF Clear, Free
<1>10. ASSUME NEW s \in Slots, Answer(s) PROVE DefaultsOfConfig'
  BY <1>10 DEF Answer, Free
<1>11. ASSUME NEW s \in Slots, Found(s) PROVE DefaultsOfConfig'
  BY <1>11 DEF Found, Free
<1>12. ASSUME NEW s \in Slots, Throw(s) PROVE DefaultsOfConfig'
  BY <1>12 DEF Throw, Free, Event
<1>13. ASSUME NEW s \in Slots, ConfigNotified(s) PROVE DefaultsOfConfig'
  BY <1>13 DEF ConfigNotified, Goto
<1>14. ASSUME NEW p \in Procs, WebhookNotified(p) PROVE DefaultsOfConfig'
  BY <1>14 DEF WebhookNotified
<1>15. ASSUME NEW p \in Procs, CronClear(p) PROVE DefaultsOfConfig'
  BY <1>15 DEF CronClear
<1>16. ASSUME NEW p \in Procs, ListenerDies(p) PROVE DefaultsOfConfig'
  BY <1>16 DEF ListenerDies, Event
<1>17. ASSUME NEW p \in Procs, Crash(p) PROVE DefaultsOfConfig'
  BY <1>17 DEF Crash, Event, Free
<1>18. CASE UNCHANGED vars
  BY <1>18 DEF vars
<1> QED BY <1>1, <1>2, <1>3, <1>4, <1>5, <1>6, <1>7, <1>8, <1>9, <1>10, <1>11, <1>12, <1>13, <1>14, <1>15, <1>16, <1>17, <1>18 DEF Next, Step

\* Every step keeps the types of what is shared and of what the slots hold.
LEMMA HalvesStep ==
  ASSUME SharedTypes, SlotTypes, DefaultsOfConfig, [Next]_vars
  PROVE  SharedTypes' /\ SlotTypes'
<1> USE SettingsAssumption
<1>1. ASSUME NEW s \in Slots, Lookup(s) PROVE SharedTypes' /\ SlotTypes'
  <2>1. PICK p \in Procs : Start(s, p, lookup(kind), {})
    BY <1>1 DEF Lookup, Readers, Servers
  <2>2. lookup(kind) \in Ops /\ lookup(kind).kind = kind
    BY LookupOp DEF SharedTypes
  <2> QED BY <1>1, <2>1, <2>2, StartTypes DEF Lookup, SharedTypes
<1>2. ASSUME NEW s \in Slots, Request(s) PROVE SharedTypes' /\ SlotTypes'
  <2>1. PICK p \in Procs, o \in Ops, us \in SUBSET Origins : o.kind = kind /\ Start(s, p, o, us)
    BY <1>2 DEF Request, Servers, Bodies, Origins, Ops
  <2>2. events' \in 0..MaxEvents
    BY <1>2 DEF Request, Event, SharedTypes
  <2> QED BY <2>1, <2>2, StartTypes
<1>3. ASSUME NEW s \in Slots, Query(s) PROVE SharedTypes' /\ SlotTypes'
  BY <1>3 DEF Query, Goto, SharedTypes, SlotTypes, PCs
<1>4. ASSUME NEW s \in Slots, Default(s) PROVE SharedTypes' /\ SlotTypes'
  <2>1. notes' \in [Procs -> Nat]
    BY <1>4 DEF Default, Notify, SharedTypes
  <2>2. kind = "config" /\ Mandatory \in Values(kind)
    BY <1>4 DEF Default, DefaultsOfConfig, Values, Origins
  <2>3. SharedTypes'
    BY <1>4, <2>1, <2>2 DEF Default, Changed, SharedTypes
  <2> QED BY <1>4, <2>2, <2>3 DEF Default, Goto, SlotTypes, PCs
<1>5. ASSUME NEW s \in Slots, Fill(s) PROVE SharedTypes' /\ SlotTypes'
  <2>1. at[s] \in Procs /\ val[s] \in Values(kind)
    BY <1>5 DEF Fill, SlotTypes
  <2>2. kind' = kind /\ SharedTypes'
    BY <1>5, <2>1 DEF Fill, SharedTypes
  <2>3. CASE Free({s})
    BY <2>2, <2>3, FreeTypes
  <2>4. CASE GoOn(s, "write") \/ GoOn(s, "found")
    BY <2>1, <2>2, <2>4 DEF GoOn, Goto, SlotTypes, PCs
  <2> QED BY <1>5, <2>3, <2>4 DEF Fill
<1>6. ASSUME NEW s \in Slots, Write(s) PROVE SharedTypes' /\ SlotTypes'
  <2>1. notes' \in [Procs -> Nat]
    BY <1>6 DEF Write, Notify, SharedTypes
  <2>2. NewRow(op[s], urls[s], val[s]) \in Values(kind)
    BY NewRowType DEF SlotTypes
  <2>3. SharedTypes'
    BY <1>6, <2>1, <2>2 DEF Write, Changed, SharedTypes
  <2>4. {} \in Values(kind) /\ WellFormed(op[s])
    BY EmptyValue, OpsWellFormed DEF SharedTypes, SlotTypes
  <2>5. pc' \in [Slots -> PCs]
    BY <1>6, <2>4 DEF Write, Goto, WellFormed, SlotTypes, PCs
  <2>6. at[s] \in Procs
    BY <1>6 DEF Write, SlotTypes
  <2>7. /\ at' \in [Slots -> Procs \cup {Nowhere}] /\ \A t \in Slots : pc'[t] # "idle" => at'[t] \in Procs
        /\ op' \in [Slots -> Ops] /\ \A t \in Slots : op'[t].kind = kind'
    BY <1>6, <2>6 DEF Write, Goto, SlotTypes
  <2>8. /\ urls' \in [Slots -> SUBSET Origins] /\ val' \in [Slots -> Values(kind')]
        /\ wrote' \in [Slots -> BOOLEAN] /\ firm' \in [Slots -> BOOLEAN]
    BY <1>6, <2>4 DEF Write, SlotTypes
  <2> QED BY <2>3, <2>5, <2>7, <2>8 DEF SlotTypes
<1>7. ASSUME NEW s \in Slots, WriteThrows(s) \/ Refuse(s) \/ Answer(s) \/ Found(s) PROVE SharedTypes' /\ SlotTypes'
  <2>1. kind' = kind /\ SharedTypes' /\ Free({s})
    BY <1>7 DEF WriteThrows, Refuse, Answer, Found, SharedTypes
  <2> QED BY <2>1, FreeTypes
<1>8. ASSUME NEW s \in Slots, Clear(s) PROVE SharedTypes' /\ SlotTypes'
  <2>1. kind' = kind /\ SharedTypes' /\ Free({s})
    BY <1>8 DEF Clear, SharedTypes
  <2> QED BY <2>1, FreeTypes
<1>9. ASSUME NEW s \in Slots, Throw(s) PROVE SharedTypes' /\ SlotTypes'
  <2>1. wrote[s] \in BOOLEAN /\ at[s] \in Procs
    BY <1>9 DEF Throw, SlotTypes
  <2>2. behind' \in [Procs -> BOOLEAN]
    BY <1>9, <2>1, Zenon DEF Throw, SharedTypes
  <2>3. events' \in 0..MaxEvents
    BY <1>9 DEF Throw, Event, SharedTypes
  <2>4. kind' = kind /\ SharedTypes' /\ Free({s})
    BY <1>9, <2>2, <2>3 DEF Throw, SharedTypes
  <2> QED BY <2>4, FreeTypes
<1>10. ASSUME NEW s \in Slots, ConfigNotified(s) PROVE SharedTypes' /\ SlotTypes'
  <2>1. PICK p \in Procs : /\ kind = "config" /\ notes[p] > 0
                           /\ notes' = [notes EXCEPT ![p] = @ - 1]
                           /\ at' = [at EXCEPT ![s] = p]
    BY <1>10 DEF ConfigNotified, Workers
  <2>2. SharedTypes'
    BY <1>10, <2>1 DEF ConfigNotified, SharedTypes
  <2> QED BY <1>10, <2>1, <2>2, ListenerOp DEF ConfigNotified, Goto, SlotTypes, PCs
<1>11. ASSUME NEW p \in Procs, WebhookNotified(p) \/ CronClear(p) \/ ListenerDies(p) PROVE SharedTypes' /\ SlotTypes'
  <2>1. SharedTypes'
    <3>1. CASE WebhookNotified(p)
      BY <3>1 DEF WebhookNotified, SharedTypes
    <3>2. CASE CronClear(p)
      BY <3>2 DEF CronClear, SharedTypes
    <3>3. CASE ListenerDies(p)
      BY <3>3 DEF ListenerDies, Event, SharedTypes
    <3> QED BY <1>11, <3>1, <3>2, <3>3
  <2> QED BY <1>11, <2>1 DEF WebhookNotified, CronClear, ListenerDies, SlotTypes
<1>12. ASSUME NEW p \in Procs, Crash(p) PROVE SharedTypes' /\ SlotTypes'
  <2>1. kind' = kind /\ SharedTypes'
    BY <1>12 DEF Crash, Event, SharedTypes
  <2> QED BY <1>12, <2>1, FreeTypes DEF Crash
<1>13. CASE UNCHANGED vars
  BY <1>13 DEF vars, SharedTypes, SlotTypes
<1> QED BY <1>1, <1>2, <1>3, <1>4, <1>5, <1>6, <1>7, <1>8, <1>9, <1>10, <1>11, <1>12, <1>13 DEF Next, Step

\* Together: every step keeps TypeOK.
LEMMA TypeStep ==
  ASSUME TypeOK, DefaultsOfConfig, [Next]_vars
  PROVE  TypeOK'
<1>1. SharedTypes /\ SlotTypes
  BY DEF TypeOK, SharedTypes, SlotTypes
<1>2. SharedTypes' /\ SlotTypes'
  BY <1>1, HalvesStep
<1> QED BY <1>2 DEF TypeOK, SharedTypes, SlotTypes

\* The initial states have the types.
LEMMA TypeInit == Init => TypeOK /\ DefaultsOfConfig
<1> SUFFICES ASSUME Init PROVE TypeOK /\ DefaultsOfConfig
  OBVIOUS
<1>1. {} \in Values(kind) /\ lookup(kind) \in Ops /\ lookup(kind).kind = kind
  BY EmptyValue, LookupOp DEF Init
<1> QED BY <1>1, SettingsAssumption DEF Init, TypeOK, DefaultsOfConfig, PCs

\* Types of the database's row, the caches and the operations in progress, in every
\* deployment of the engine.
THEOREM TypeCorrect == Spec => []TypeOK
<1>1. TypeOK /\ DefaultsOfConfig /\ [Next]_vars => (TypeOK /\ DefaultsOfConfig)'
  BY TypeStep, DefaultsStep
<1> QED BY <1>1, TypeInit, PTL DEF Spec

----------------------------------------------------------------------------
(* A credential that exists is found                                       *)

\* While a lookup is firm the row is there, and once it has read it has found it.
FirmLookups ==
  \A s \in Slots : firm[s] =>
    /\ kind \in Credentials /\ row # {}
    /\ pc[s] \in {"fill", "found"} => val[s] # {}

\* The row goes away only by a change that ends the firmness of every lookup, and neither
\* a query of an existing row nor the cache answers with nothing.
LEMMA FirmStep ==
  ASSUME TypeOK, DefaultsOfConfig, FirmLookups, [Next]_vars
  PROVE  FirmLookups'
<1> USE DEF FirmLookups, TypeOK
<1>1. ASSUME NEW s \in Slots, Lookup(s) PROVE FirmLookups'
  BY <1>1 DEF Lookup, Start, Goto, Served
<1>2. ASSUME NEW s \in Slots, Request(s) PROVE FirmLookups'
  BY <1>2 DEF Request, Start, Goto, Event, Served
<1>3. ASSUME NEW s \in Slots, Query(s) PROVE FirmLookups'
  BY <1>3 DEF Query, Goto
<1>4. ASSUME NEW s \in Slots, Default(s) PROVE FirmLookups'
  BY <1>4 DEF Default, Goto, Notify, Changed, DefaultsOfConfig, Credentials
<1>5. ASSUME NEW s \in Slots, Fill(s) PROVE FirmLookups'
  BY <1>5 DEF Fill, GoOn, Goto, Free
<1>6. ASSUME NEW s \in Slots, Write(s) PROVE FirmLookups'
  BY <1>6, OpsWellFormed DEF Write, Goto, Notify, Changed, WellFormed
<1>7. ASSUME NEW s \in Slots, WriteThrows(s) PROVE FirmLookups'
  BY <1>7 DEF WriteThrows, Free
<1>8. ASSUME NEW s \in Slots, Refuse(s) PROVE FirmLookups'
  BY <1>8 DEF Refuse, Free
<1>9. ASSUME NEW s \in Slots, Clear(s) PROVE FirmLookups'
  BY <1>9 DEF Clear, Free
<1>10. ASSUME NEW s \in Slots, Answer(s) PROVE FirmLookups'
  BY <1>10 DEF Answer, Free
<1>11. ASSUME NEW s \in Slots, Found(s) PROVE FirmLookups'
  BY <1>11 DEF Found, Free
<1>12. ASSUME NEW s \in Slots, Throw(s) PROVE FirmLookups'
  BY <1>12 DEF Throw, Free, Event
<1>13. ASSUME NEW s \in Slots, ConfigNotified(s) PROVE FirmLookups'
  BY <1>13 DEF ConfigNotified, Goto
<1>14. ASSUME NEW p \in Procs, WebhookNotified(p) PROVE FirmLookups'
  BY <1>14 DEF WebhookNotified
<1>15. ASSUME NEW p \in Procs, CronClear(p) PROVE FirmLookups'
  BY <1>15 DEF CronClear
<1>16. ASSUME NEW p \in Procs, ListenerDies(p) PROVE FirmLookups'
  BY <1>16 DEF ListenerDies, Event
<1>17. ASSUME NEW p \in Procs, Crash(p) PROVE FirmLookups'
  BY <1>17 DEF Crash, Event, Free
<1>18. CASE UNCHANGED vars
  BY <1>18 DEF vars
<1> QED BY <1>1, <1>2, <1>3, <1>4, <1>5, <1>6, <1>7, <1>8, <1>9, <1>10, <1>11, <1>12, <1>13, <1>14, <1>15, <1>16, <1>17, <1>18 DEF Next, Step

\* `if (cached)` in getAccessToken and getKeypair: an earlier lookup that found nothing
\* never hides a credential that exists.
THEOREM AddedIsFound == Spec => []NoFalseAbsence
<1> DEFINE I == TypeOK /\ DefaultsOfConfig /\ FirmLookups
<1>1. Init => I
  BY TypeInit DEF Init, FirmLookups
<1>2. I /\ [Next]_vars => I'
  BY TypeStep, DefaultsStep, FirmStep
<1>3. I => NoFalseAbsence
  BY DEF FirmLookups, NoFalseAbsence
<1> QED BY <1>1, <1>2, <1>3, PTL DEF Spec

----------------------------------------------------------------------------
(* The mandatory origins                                                   *)

\* A list that is about to be cached, or that a change is computed from, is complete.
CompleteLists ==
  kind = "config" =>
    \A s \in Slots : pc[s] = "fill" \/ (pc[s] = "write" /\ op[s].base) => Mandatory \subseteq val[s]

\* A row without origins gets the mandatory ones before it is used, and every change
\* keeps or adds them.
LEMMA OriginsStep ==
  ASSUME TypeOK, MandatoryOrigins, CompleteLists, [Next]_vars
  PROVE  MandatoryOrigins' /\ CompleteLists'
<1> USE DEF MandatoryOrigins, CompleteLists, TypeOK
<1>1. ASSUME NEW s \in Slots, Lookup(s) PROVE MandatoryOrigins' /\ CompleteLists'
  BY <1>1 DEF Lookup, Start, Goto, Served, Credentials, lookup, Route
<1>2. ASSUME NEW s \in Slots, Request(s) PROVE MandatoryOrigins' /\ CompleteLists'
  <2>1. PICK p \in Procs, o \in Ops, us \in SUBSET Origins : o.kind = kind /\ Start(s, p, o, us)
    BY <1>2 DEF Request, Servers, Bodies, Origins, Ops
  <2>2. MandatoryOrigins'
    BY <2>1 DEF Start
  <2>3. CASE o.base /\ Served(p)
    BY <2>1, <2>3 DEF Start, Goto, Served
  <2>4. CASE o.base /\ ~Served(p)
    BY <2>1, <2>4 DEF Start, Goto
  <2>5. CASE ~o.base
    BY <2>1, <2>5 DEF Start, Goto
  <2> QED BY <2>2, <2>3, <2>4, <2>5
<1>3. ASSUME NEW s \in Slots, Query(s) PROVE MandatoryOrigins' /\ CompleteLists'
  BY <1>3 DEF Query, Goto
<1>4. ASSUME NEW s \in Slots, Default(s) PROVE MandatoryOrigins' /\ CompleteLists'
  BY <1>4 DEF Default, Goto, Notify, Changed
<1>5. ASSUME NEW s \in Slots, Fill(s) PROVE MandatoryOrigins' /\ CompleteLists'
  BY <1>5 DEF Fill, GoOn, Goto, Free
<1>6. ASSUME NEW s \in Slots, Write(s) PROVE MandatoryOrigins' /\ CompleteLists'
  BY <1>6, OpsWellFormed DEF Write, Goto, Notify, Changed, WellFormed, NewRow, MustRefuse, DoesOf
<1>7. ASSUME NEW s \in Slots, WriteThrows(s) PROVE MandatoryOrigins' /\ CompleteLists'
  BY <1>7 DEF WriteThrows, Free
<1>8. ASSUME NEW s \in Slots, Refuse(s) PROVE MandatoryOrigins' /\ CompleteLists'
  BY <1>8 DEF Refuse, Free
<1>9. ASSUME NEW s \in Slots, Clear(s) PROVE MandatoryOrigins' /\ CompleteLists'
  BY <1>9 DEF Clear, Free
<1>10. ASSUME NEW s \in Slots, Answer(s) PROVE MandatoryOrigins' /\ CompleteLists'
  BY <1>10 DEF Answer, Free
<1>11. ASSUME NEW s \in Slots, Found(s) PROVE MandatoryOrigins' /\ CompleteLists'
  BY <1>11 DEF Found, Free
<1>12. ASSUME NEW s \in Slots, Throw(s) PROVE MandatoryOrigins' /\ CompleteLists'
  BY <1>12 DEF Throw, Free, Event
<1>13. ASSUME NEW s \in Slots, ConfigNotified(s) PROVE MandatoryOrigins' /\ CompleteLists'
  BY <1>13 DEF ConfigNotified, Goto
<1>14. ASSUME NEW p \in Procs, WebhookNotified(p) PROVE MandatoryOrigins' /\ CompleteLists'
  BY <1>14 DEF WebhookNotified
<1>15. ASSUME NEW p \in Procs, CronClear(p) PROVE MandatoryOrigins' /\ CompleteLists'
  BY <1>15 DEF CronClear
<1>16. ASSUME NEW p \in Procs, ListenerDies(p) PROVE MandatoryOrigins' /\ CompleteLists'
  BY <1>16 DEF ListenerDies, Event
<1>17. ASSUME NEW p \in Procs, Crash(p) PROVE MandatoryOrigins' /\ CompleteLists'
  BY <1>17 DEF Crash, Event, Free
<1>18. CASE UNCHANGED vars
  BY <1>18 DEF vars
<1> QED BY <1>1, <1>2, <1>3, <1>4, <1>5, <1>6, <1>7, <1>8, <1>9, <1>10, <1>11, <1>12, <1>13, <1>14, <1>15, <1>16, <1>17, <1>18 DEF Next, Step

\* The CORS routes never lose a mandatory origin, in the row or in a cache, although they
\* compute the new list from a cached one that others may have changed.
THEOREM OriginsKept == Spec => []MandatoryOrigins
<1> DEFINE I == TypeOK /\ DefaultsOfConfig /\ MandatoryOrigins /\ CompleteLists
<1>1. Init => MandatoryOrigins /\ CompleteLists
  BY DEF Init, MandatoryOrigins, CompleteLists
<1>2. I /\ [Next]_vars => I'
  BY TypeStep, DefaultsStep, OriginsStep
<1> QED BY <1>1, <1>2, TypeInit, PTL DEF Spec

----------------------------------------------------------------------------
(* Outdated caches                                                         *)

\* A step that makes a cache outdated is one its process cannot know of, or the write of a
\* handler that goes on to clear or to fill it.
LEMMA StaleStep ==
  ASSUME TypeOK, StaleHasReason, [Next]_vars
  PROVE  StaleHasReason'
<1> USE DEF StaleHasReason, Served, TypeOK
<1>1. ASSUME NEW s \in Slots, Lookup(s) PROVE StaleHasReason'
  BY <1>1 DEF Lookup, Start, Goto, Served
<1>2. ASSUME NEW s \in Slots, Request(s) PROVE StaleHasReason'
  BY <1>2 DEF Request, Start, Goto, Event, Served
<1>3. ASSUME NEW s \in Slots, Query(s) PROVE StaleHasReason'
  BY <1>3 DEF Query, Goto
<1>4. ASSUME NEW s \in Slots, Default(s) PROVE StaleHasReason'
  <2>1. CASE row' = row
    BY <1>4, <2>1 DEF Default, Goto, Changed
  <2>2. CASE row' # row
    BY <1>4, <2>2 DEF Default, Changed
  <2> QED BY <2>1, <2>2
<1>5. ASSUME NEW s \in Slots, Fill(s) PROVE StaleHasReason'
  <2>1. (cache'[at[s]] # row => behind'[at[s]]) /\ row' = row /\ kind' = kind
    BY <1>5 DEF Fill
  <2>2. \A p \in Procs : p # at[s] => cache'[p] = cache[p] /\ behind'[p] = behind[p]
    BY <1>5 DEF Fill
  <2>3. \A t \in Slots : t # s => pc'[t] = pc[t] /\ at'[t] = at[t] /\ wrote'[t] = wrote[t]
    BY <1>5 DEF Fill, GoOn, Goto, Free
  <2> SUFFICES ASSUME NEW p \in Procs, Served(p)', cache'[p] # row'
               PROVE  behind'[p] \/ \E t \in Slots : at'[t] = p /\ wrote'[t]
                                       /\ pc'[t] \in {"clear", "query", "default", "fill"}
    BY DEF StaleHasReason
  <2>4. CASE p = at[s]
    BY <2>1, <2>4
  <2>5. CASE p # at[s]
    <3>1. Served(p) /\ cache[p] # row
      BY <2>1, <2>2, <2>5
    <3> QED BY <2>2, <2>3, <2>5, <3>1
  <2> QED BY <2>4, <2>5
<1>6. ASSUME NEW s \in Slots, Write(s) PROVE StaleHasReason'
  <2>1. /\ cache' = cache /\ at' = at /\ kind' = kind /\ pc[s] = "write"
        /\ \A t \in Slots : t # s => pc'[t] = pc[t] /\ wrote'[t] = wrote[t]
    BY <1>6 DEF Write, Goto
  <2>2. op[s].then # "answer" => pc'[s] \in {"clear", "query"} /\ wrote'[s]
    BY <1>6, OpsWellFormed DEF Write, Goto, WellFormed
  <2>3. \A p \in Procs : behind[p] => behind'[p]
    BY <1>6 DEF Write, Changed
  <2>4. \A p \in Procs : row' # row /\ (p # at[s] \/ op[s].then = "answer") => behind'[p]
    BY <1>6 DEF Write, Changed
  <2> QED BY <2>1, <2>2, <2>3, <2>4
<1>7. ASSUME NEW s \in Slots, WriteThrows(s) PROVE StaleHasReason'
  BY <1>7 DEF WriteThrows, Free
<1>8. ASSUME NEW s \in Slots, Refuse(s) PROVE StaleHasReason'
  BY <1>8 DEF Refuse, Free
<1>9. ASSUME NEW s \in Slots, Clear(s) PROVE StaleHasReason'
  BY <1>9 DEF Clear, Free
<1>10. ASSUME NEW s \in Slots, Answer(s) PROVE StaleHasReason'
  BY <1>10 DEF Answer, Free
<1>11. ASSUME NEW s \in Slots, Found(s) PROVE StaleHasReason'
  BY <1>11 DEF Found, Free
<1>12. ASSUME NEW s \in Slots, Throw(s) PROVE StaleHasReason'
  BY <1>12 DEF Throw, Free, Event
<1>13. ASSUME NEW s \in Slots, ConfigNotified(s) PROVE StaleHasReason'
  BY <1>13 DEF ConfigNotified, Goto
<1>14. ASSUME NEW p \in Procs, WebhookNotified(p) PROVE StaleHasReason'
  BY <1>14 DEF WebhookNotified
<1>15. ASSUME NEW p \in Procs, CronClear(p) PROVE StaleHasReason'
  BY <1>15 DEF CronClear
<1>16. ASSUME NEW p \in Procs, ListenerDies(p) PROVE StaleHasReason'
  BY <1>16 DEF ListenerDies, Event
<1>17. ASSUME NEW p \in Procs, Crash(p) PROVE StaleHasReason'
  BY <1>17 DEF Crash, Event, Free
<1>18. CASE UNCHANGED vars
  BY <1>18 DEF vars
<1> QED BY <1>1, <1>2, <1>3, <1>4, <1>5, <1>6, <1>7, <1>8, <1>9, <1>10, <1>11, <1>12, <1>13, <1>14, <1>15, <1>16, <1>17, <1>18 DEF Next, Step

\* No handler leaves its own process's cache outdated: it clears or rereads it, unless
\* the route is one that relies on the listeners and the cron.
THEOREM StalenessExplained == Spec => []StaleHasReason
<1> DEFINE I == TypeOK /\ DefaultsOfConfig /\ StaleHasReason
<1>1. Init => StaleHasReason
  BY DEF Init, StaleHasReason, Served
<1>2. I /\ [Next]_vars => I'
  BY TypeStep, DefaultsStep, StaleStep
<1> QED BY <1>1, <1>2, TypeInit, PTL DEF Spec
=============================================================================
