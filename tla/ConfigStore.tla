---------------------------- MODULE ConfigStore ----------------------------
(***************************************************************************)
(* The settings of the host: ConfigStore with its SecretStore, and the     *)
(* routes that Runs and Swarm plans freeze from them.  A change of the     *)
(* settings goes through two files, the secrets and the configuration,     *)
(* that are written one after the other; reads of a secret go on at the    *)
(* same time and may store it again.                                       *)
(*                                                                         *)
(* A Provider is its revision, whether the model that routes name is       *)
(* enabled in it, is its default, or neither, and what the annotations of  *)
(* that model are good for ("fit"): the reasoning effort that routes ask   *)
(* for, and a rating of its capability. A secret is the number of its      *)
(* reference; its value never changes. The identifiers of Providers are    *)
(* random, so one that was deleted does not come back. Left out: keys from *)
(* the environment, settings on which nothing here depends, migrations, an *)
(* unreadable file, stores without a file.                                 *)
(***************************************************************************)
EXTENDS Naturals, Sequences, FiniteSets

CONSTANTS
  Providers,
  Clients,     \* requests that change the settings, one at a time
  Fits,        \* bound: what the annotations of a model may be good for
  MaxChanges,  \* bound: requests made
  MaxMishaps   \* bound: writes and reads that fail, secrets to encrypt again, crashes

VARIABLES
  config,   \* #config
  file,     \* the configuration file
  records,  \* #data.records: references that have a secret
  vault,    \* the same in the secret file
  writes,   \* writeJsonAtomic of the secret file: snapshots on their way, oldest first
  job,      \* #mutation: where the request of each client is
  read,     \* SecretStore.get in progress, for each owner of a secret
  route,    \* the routes being frozen
  issued,   \* secrets made so far, and so the newest reference
  gone,     \* identifiers of Providers that were deleted
  stray,    \* references whose removal failed, was cut by a crash or raced with a read
  changes, mishaps

vars == <<config, file, records, vault, writes, job, read, route, issued, gone, stray,
          changes, mishaps>>

Web == "web"
None == "none"
Owners == Providers \cup {Web}
NoRef == 0

Marks == {"reasoning", "rating"}
ASSUME FitsAssumption == Fits \subseteq SUBSET Marks

Absent == [rev |-> 0, model |-> "off", fit |-> {}]
Exists(c, p) == c.prov[p].rev > 0
Existing(c) == {p \in Providers : Exists(c, p)}
RefsOf(c) == {c.ref[o] : o \in Owners} \ {NoRef}

Enabled(c, p) == Exists(c, p) /\ c.prov[p].model # "off"

\* evaluateModelRouteCompatibility, and what the pool asks of a model beside it
Usable(c, p) == Enabled(c, p) /\ "reasoning" \in c.prov[p].fit
Rated(c, p) == "rating" \in c.prov[p].fit

NoJob == [at |-> "idle", next |-> None, made |-> NoRef, prev |-> NoRef]
NoRead == [at |-> "idle", ref |-> NoRef, wanted |-> FALSE]
NoRoute == [at |-> "idle", base |-> None, main |-> None, aux |-> None, got |-> {}]

\* A host with settings from earlier: a Provider p with a key, and one for the auxiliary
\* model or none.
Init ==
  /\ \E p \in Providers : \E a \in (Providers \ {p}) \cup {None} :
       LET keys == [o \in Owners |-> IF o = p THEN 1 ELSE IF o = a THEN 2 ELSE NoRef] IN
       /\ config = [prov |-> [q \in Providers |-> IF q \in {p, a}
                                                THEN [rev |-> 1, model |-> "default", fit |-> Marks]
                                                ELSE Absent],
                    ref |-> keys, main |-> [p |-> p, named |-> TRUE], aux |-> a,
                    pool |-> {p, a} \ {None}]
       /\ issued = Cardinality({p, a} \ {None})
  /\ records = 1..issued
  /\ file = config /\ vault = records /\ writes = <<>>
  /\ job = [c \in Clients |-> NoJob]
  /\ read = [o \in Owners |-> NoRead]
  /\ route = NoRoute
  /\ gone = {} /\ stray = {}
  /\ changes = 0 /\ mishaps = 0

------------------------------------------------------------------------------
(* What a request makes of the configuration. *)

\* disableIncompatibleModelPoolEntries
Compatible(c) == [c EXCEPT !.pool = {p \in @ : Usable(c, p) /\ Rated(c, p)}]

\* applyProviderUpdate: the revision moves with the default model and the rest of the route
\* shape ("shape": the endpoint, the type, other overrides), not with what is enabled.
Updated(c, p, model, fit, shape) ==
  LET old == c.prov[p]
      same == ~shape /\ fit = old.fit /\ (old.model = "default") = (model = "default")
  IN  [c EXCEPT !.prov[p] = [rev |-> IF Exists(c, p) /\ same THEN old.rev ELSE old.rev + 1,
                             model |-> model, fit |-> fit]]

\* An update may not break an auxiliary route that worked.
KeepsAuxiliary(c, next) == c.aux # None /\ Usable(c, c.aux) => Usable(next, next.aux)

Named(c, p) == [p |-> p, named |-> c.prov[p].model = "default"]

Activated(c, p) == [c EXCEPT !.main = Named(c, p)]

WithRef(c, o, r) ==
  LET owned == [c EXCEPT !.ref[o] = r]
  IN  IF o = Web THEN owned ELSE [owned EXCEPT !.prov[o].rev = @ + 1]

Cleared(c, o) == [WithRef(c, o, NoRef) EXCEPT !.pool = @ \ {o}]

Copied(c, p, q) == [c EXCEPT !.prov[q] = [c.prov[p] EXCEPT !.rev = 1]]

\* deleteProviderModel: the annotations go too, and what its type supports is left.
Unlisted(c, p, fit, shape) ==
  [Updated(c, p, "off", fit \ {"rating"}, shape) EXCEPT !.pool = @ \ {p}]

\* The roles after p is gone: the default role falls back to f, the auxiliary follows it.
Deleted(c, p, f) ==
  LET main == IF c.main.p = p THEN Named(c, f) ELSE c.main
  IN  [c EXCEPT !.prov[p] = Absent, !.ref[p] = NoRef, !.pool = @ \ {p}, !.main = main,
                !.aux = IF @ # p THEN @ ELSE IF main.named THEN main.p ELSE None]

\* assertModelRolesConfigValid
RolesValid(c) == /\ Exists(c, c.main.p)
                 /\ c.main.named => Usable(c, c.main.p)
                 /\ c.aux # None => Usable(c, c.aux)

\* #read: disabled pool entries and a repaired auxiliary role.
Repaired(c) ==
  LET r == Compatible(c)
  IN  [r EXCEPT !.aux = IF @ = None \/ Usable(r, @) THEN @
                        ELSE IF c.main.named THEN c.main.p ELSE None]

------------------------------------------------------------------------------
(* Changes.  The next request runs when the one before it is settled. *)

\* Mutant: requests are not queued behind each other.
MutTurn(c) == job[c].at = "idle"

\* update, setMcpServerEnabled, setProviderModelCatalog, reloadFromDisk
Turn(c) == \A d \in Clients : job[d].at = "idle"

Asked == changes < MaxChanges /\ changes' = changes + 1

Begin(c, at, next, made, prev) ==
  job' = [job EXCEPT ![c] = [at |-> at, next |-> next, made |-> made, prev |-> prev]]

\* A request that needs no new secret: the configuration is written next.
Write(c, next, prev) ==
  /\ Begin(c, "config", next, NoRef, prev)
  /\ UNCHANGED <<config, file, records, vault, writes, read, route, issued, gone, stray, mishaps>>

UpdateProvider(c) ==
  /\ Turn(c) /\ Asked
  /\ \E p \in Providers \ gone, model \in {"off", "on", "default"}, fit \in Fits,
        shape, activate \in BOOLEAN :
       LET next == Updated(config, p, model, fit, shape)
       IN  /\ KeepsAuxiliary(config, next)
           /\ Write(c, Compatible(IF activate THEN Activated(next, p) ELSE next), NoRef)

\* provider-model-add, of a new model or one that is there: the annotations it brings replace
\* the old ones, and neither the pool nor the auxiliary role is looked at.  The first model of
\* a Provider becomes its default.
AddModel(c) ==
  /\ Turn(c) /\ Asked
  /\ \E p \in Existing(config), model \in {"on", "default"}, fit \in Fits,
        shape \in BOOLEAN :
       /\ config.prov[p].model = "default" => model = "default"
       /\ Write(c, Updated(config, p, model, fit, shape), NoRef)

DeleteModel(c) ==
  /\ Turn(c) /\ Asked
  /\ \E p \in Existing(config), fit \in Fits, shape \in BOOLEAN :
       /\ config.aux # p /\ config.prov[p].model # "default"
       /\ Write(c, Unlisted(config, p, fit, shape), NoRef)

CopyProvider(c) ==
  /\ Turn(c) /\ Asked
  /\ \E p \in Existing(config), q \in Providers \ gone :
       ~Exists(config, q) /\ Write(c, Copied(config, p, q), NoRef)

DeleteProvider(c) ==
  /\ Turn(c) /\ Asked
  /\ \E p \in Existing(config) : \E f \in Existing(config) \ {p} :
       Write(c, Deleted(config, p, f), config.ref[p])

ClearCredential(c) ==
  /\ Turn(c) /\ Asked
  /\ \E o \in Existing(config) \cup {Web} : Write(c, Cleared(config, o), config.ref[o])

SetRoles(c) ==
  /\ Turn(c) /\ Asked
  /\ \E p \in Providers, named \in BOOLEAN, aux \in Providers \cup {None} :
       LET next == [config EXCEPT !.main = [p |-> p, named |-> named], !.aux = aux]
       IN  RolesValid(next) /\ Write(c, next, NoRef)

\* assertEnabledModelPoolEntriesValid, with revisions that are still the current ones.
SetPool(c) ==
  /\ Turn(c) /\ Asked
  /\ \E pool \in SUBSET Providers :
       /\ \A p \in pool : Usable(config, p) /\ Rated(config, p) /\ config.ref[p] \in records
       /\ Write(c, [config EXCEPT !.pool = pool], NoRef)

\* SecretStore.set: the record is there, and the file is on its way.  The encryption before
\* it changes nothing, and one that fails refuses the request.
Stored(r, by) ==
  /\ records' = records \cup {r}
  /\ writes' = Append(writes, [data |-> records', by |-> by])

\* The credential of a Provider, alone or with its settings, or of the web search.
SetCredential(c) ==
  /\ Turn(c) /\ Asked /\ issued' = issued + 1
  /\ \E o \in Owners \ gone :
       /\ \/ /\ o \in Existing(config) \cup {Web}
             /\ Begin(c, "secret", WithRef(config, o, issued'), issued', config.ref[o])
          \/ /\ o # Web
             /\ \E model \in {"off", "on", "default"}, fit \in Fits :
                  LET next == Updated(config, o, model, fit, FALSE)
                  IN  /\ KeepsAuxiliary(config, next)
                      /\ Begin(c, "secret", WithRef(Compatible(next), o, issued'), issued',
                               config.ref[o])
       /\ Stored(issued', c)
  /\ UNCHANGED <<config, file, vault, read, route, gone, stray, mishaps>>

\* reloadFromDisk: the file is read and repaired; what is in it already is not written.
ReloadFromDisk(c) ==
  /\ Turn(c) /\ Asked
  /\ IF Repaired(file) = file
     THEN config' = file /\ UNCHANGED job
     ELSE Begin(c, "config", Repaired(file), NoRef, NoRef) /\ UNCHANGED config
  /\ UNCHANGED <<file, records, vault, writes, read, route, issued, gone, stray, mishaps>>

\* SecretStore.delete
Dropped(r, by) ==
  /\ records' = records \ {r}
  /\ writes' = Append(writes, [data |-> records', by |-> by])

\* A read of r that has not stored it yet may do so after its removal.
Racing(r) == {r} \cap {read[o].ref : o \in {o \in Owners : read[o].at = "decrypt"}}

\* #writeConfig succeeded: the configuration is in force, and its previous secret goes.
ConfigWritten(c) ==
  LET j == job[c]
  IN  /\ j.at = "config"
      /\ file' = j.next /\ config' = j.next
      /\ gone' = gone \cup (Existing(config) \ Existing(j.next))
      /\ IF j.prev \in records
         THEN /\ Dropped(j.prev, c) /\ job' = [job EXCEPT ![c].at = "drop"]
              /\ stray' = stray \cup Racing(j.prev)
         ELSE /\ job' = [job EXCEPT ![c] = NoJob] /\ UNCHANGED <<records, writes, stray>>
      /\ UNCHANGED <<vault, read, route, issued, changes, mishaps>>

Mishap == mishaps < MaxMishaps /\ mishaps' = mishaps + 1

\* Mutant: the new secret is left where it is.
MutConfigFailed(c) ==
  /\ job[c].at = "config" /\ Mishap
  /\ job' = [job EXCEPT ![c] = NoJob]
  /\ UNCHANGED <<config, file, records, vault, writes, read, route, issued, gone, stray, changes>>

\* It failed: the new secret is taken back.
ConfigFailed(c) ==
  LET j == job[c]
  IN  /\ j.at = "config" /\ Mishap
      /\ IF j.made # NoRef
         THEN Dropped(j.made, c) /\ job' = [job EXCEPT ![c].at = "undo"]
         ELSE job' = [job EXCEPT ![c] = NoJob] /\ UNCHANGED <<records, writes>>
      /\ UNCHANGED <<config, file, vault, read, route, issued, gone, stray, changes>>

------------------------------------------------------------------------------
(* The routes of a Run, and of a Swarm plan. *)

\* The capture at the start of getProviderApiKeyForRevision: the record that has the secret.
Capture(p) == [at |-> "decrypt", ref |-> config.ref[p], wanted |-> TRUE]

\* Mutant: the revision is not looked at.
MutAtRevision(c, p) == Exists(config, p)

\* Provider p still is as configuration c had it: assertProviderRevisions, and the check of
\* getProviderApiKeyForRevision.
AtRevision(c, p) == Exists(config, p) /\ config.prov[p].rev = c.prov[p].rev

Resolvable(c, p) == Usable(c, p) /\ AtRevision(c, p) /\ config.ref[p] \in records

Freeze(r, P) ==
  /\ route.at = "idle" /\ P # {}
  /\ \A p \in P : Resolvable(config, p) /\ read[p] = NoRead
  /\ route' = r
  /\ read' = [o \in Owners |-> IF o \in P THEN Capture(o) ELSE read[o]]
  /\ UNCHANGED <<config, file, records, vault, writes, job, issued, gone, stray, changes,
                 mishaps>>

\* resolveRunRoutes takes the configuration and resolves the main route first.
FreezeRun ==
  \E p \in Providers :
    Freeze([at |-> "main", base |-> config, main |-> p, aux |-> config.aux, got |-> {}], {p})

\* freezeModelPoolPlan resolves the entries it assigned, all at once.  One enabled entry
\* without a rating refuses the plan.
FreezePlan ==
  /\ \A p \in config.pool : Rated(config, p)
  /\ \E P \in SUBSET config.pool : Freeze([NoRoute EXCEPT !.at = "plan", !.base = config], P)

\* getWebSearchApiKey
ReadWebKey ==
  /\ read[Web] = NoRead /\ config.ref[Web] \in records
  /\ read' = [read EXCEPT ![Web] = [Capture(Web) EXCEPT !.wanted = FALSE]]
  /\ UNCHANGED <<config, file, records, vault, writes, job, route, issued, gone, stray, changes,
                 mishaps>>

\* The freeze is over without routes; nobody waits for the reads it still has.
Refused(reads) ==
  /\ route' = NoRoute
  /\ read' = [o \in Owners |-> IF reads[o] = NoRead THEN NoRead
                               ELSE [reads[o] EXCEPT !.wanted = FALSE]]

\* The approval route of r, from the configuration the main route came from: the auxiliary
\* model if there is one to try, or else the main one.
Approve(r, reads) ==
  LET ask(p, aux) == /\ reads[p] = NoRead
                     /\ route' = [r EXCEPT !.at = "approval", !.aux = aux]
                     /\ read' = [reads EXCEPT ![p] = Capture(p)]
  IN  IF r.aux # None /\ Resolvable(r.base, r.aux) THEN ask(r.aux, r.aux)
      ELSE IF Resolvable(r.base, r.main) THEN ask(r.main, None)
      ELSE Refused(reads)

\* The read of owner o ends with its secret.
Answered(o) ==
  LET reads == [read EXCEPT ![o] = NoRead]
      bound == [p |-> o, key |-> read[o].ref]
      with == [route EXCEPT !.got = @ \cup {bound}]
      more == \E p \in Providers : reads[p] # NoRead /\ reads[p].wanted
  IN  IF ~read[o].wanted THEN read' = reads /\ UNCHANGED route
      ELSE IF route.at = "main" THEN Approve(with, reads)
      ELSE IF route.at = "plan" /\ ~more /\ \E p \in route.base.pool : ~AtRevision(route.base, p)
      THEN Refused(reads)
      ELSE /\ read' = reads
           /\ route' = IF route.at = "plan" /\ more THEN with ELSE [with EXCEPT !.at = "done"]

\* It ends with an error.  An approval by the auxiliary model falls back to the main one.
Failed(o) ==
  LET reads == [read EXCEPT ![o] = NoRead]
  IN  IF ~read[o].wanted THEN read' = reads /\ UNCHANGED route
      ELSE IF route.at = "approval" /\ route.aux # None
      THEN Approve([route EXCEPT !.aux = None], reads)
      ELSE Refused(reads)

KeyRead(o) ==
  /\ read[o].at = "decrypt" /\ Answered(o)
  /\ UNCHANGED <<config, file, records, vault, writes, job, issued, gone, stray, changes,
                 mishaps>>

KeyUnreadable(o) ==
  /\ read[o].at = "decrypt" /\ Mishap /\ Failed(o)
  /\ UNCHANGED <<config, file, records, vault, writes, job, issued, gone, stray, changes>>

\* The backend asked for the secret to be encrypted again: it is stored under its reference,
\* whether or not it was deleted meanwhile.
Reencrypt(o) ==
  /\ read[o].at = "decrypt" /\ Mishap
  /\ read' = [read EXCEPT ![o].at = "store"]
  /\ Stored(read[o].ref, o)
  /\ UNCHANGED <<config, file, vault, job, route, issued, gone, stray, changes>>

RoutesTaken ==
  /\ route.at = "done" /\ route' = NoRoute
  /\ UNCHANGED <<config, file, records, vault, writes, job, read, issued, gone, stray, changes,
                 mishaps>>

------------------------------------------------------------------------------
(* The secret file, and the host. *)

\* The oldest write is done, and whoever awaits it goes on.
SecretWritten ==
  /\ writes # <<>>
  /\ LET w == Head(writes)
     IN  /\ vault' = w.data
         /\ IF w.by \in Clients
            THEN /\ job' = [job EXCEPT ![w.by] =
                              IF @.at = "secret" THEN [@ EXCEPT !.at = "config"] ELSE NoJob]
                 /\ UNCHANGED <<read, route>>
            ELSE Answered(w.by) /\ UNCHANGED job
  /\ writes' = Tail(writes)
  /\ UNCHANGED <<config, file, records, issued, gone, stray, changes, mishaps>>

\* It failed: the request fails, whatever it did before, and so does the read.
SecretFailed ==
  /\ writes # <<>> /\ Mishap
  /\ LET w == Head(writes)
     IN  IF w.by \in Clients
         THEN LET j == job[w.by]
              IN  /\ job' = [job EXCEPT ![w.by] = NoJob]
                  /\ stray' = stray \cup {IF j.at = "drop" THEN j.prev ELSE j.made}
                  /\ UNCHANGED <<read, route>>
         ELSE Failed(w.by) /\ UNCHANGED <<job, stray>>
  /\ writes' = Tail(writes)
  /\ UNCHANGED <<config, file, records, vault, issued, gone, changes>>

\* The host dies and comes back with what is in the files.
Crash ==
  /\ Mishap
  /\ config' = Repaired(file) /\ file' = config'
  /\ records' = vault /\ writes' = <<>>
  /\ stray' = stray \cup UNION {{job[c].made, job[c].prev} \ {NoRef} : c \in Clients}
  /\ job' = [c \in Clients |-> NoJob]
  /\ read' = [o \in Owners |-> NoRead] /\ route' = NoRoute
  /\ UNCHANGED <<vault, issued, gone, changes>>

Change(c) == \/ UpdateProvider(c) \/ AddModel(c) \/ DeleteModel(c) \/ CopyProvider(c)
             \/ DeleteProvider(c) \/ ClearCredential(c) \/ SetRoles(c) \/ SetPool(c)
             \/ SetCredential(c) \/ ReloadFromDisk(c)

Next == \/ \E c \in Clients : Change(c) \/ ConfigWritten(c) \/ ConfigFailed(c)
        \/ FreezeRun \/ FreezePlan \/ ReadWebKey \/ RoutesTaken
        \/ \E o \in Owners : KeyRead(o) \/ KeyUnreadable(o) \/ Reencrypt(o)
        \/ SecretWritten \/ SecretFailed \/ Crash

Spec == Init /\ [][Next]_vars

------------------------------------------------------------------------------
(* Properties *)

\* What the settings rely on is there, through failed writes and crashes at every step: the
\* secrets of the configuration in memory and on disk, and for each entry that is enabled in
\* the pool its Provider, its model among the enabled ones, and a credential.  (Not that the
\* model is usable: AddModel may replace its annotations.)
CredentialsAreThere ==
  /\ RefsOf(file) \subseteq vault /\ RefsOf(config) \subseteq records
  /\ \A p \in config.pool : Enabled(config, p) /\ config.ref[p] # NoRef

Quiet == /\ \A c \in Clients : job[c].at = "idle"
         /\ \A o \in Owners : read[o] = NoRead
         /\ writes = <<>>

\* A secret that was replaced or cleared is not kept, unless its removal failed, was cut by
\* a crash, or met a read that stored it again.
ClearedSecretsAreGone == Quiet => vault \subseteq RefsOf(file) \cup stray

\* The routes of one freeze have the keys of the configuration they were taken from, however
\* often the Providers change while the keys are being read.
RoutesAreWhole == \A b \in route.got : b.key = route.base.ref[b.p]
=============================================================================
