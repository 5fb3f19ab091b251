--------------------------- MODULE ConfigStoreProofs ---------------------------
(***************************************************************************)
(* Proofs about ConfigStore, for every set of Providers and every bound.   *)
(* First what every request makes of the configuration (Admitted), then    *)
(* the two files: a secret that a configuration names is in the file of    *)
(* the secrets and in every snapshot on its way to it.  Then the routes:   *)
(* while a Provider keeps its revision it keeps its key.  Last the secrets *)
(* that are let go (Removed): no snapshot that follows holds one of them,  *)
(* unless a read raced with it.                                            *)
(***************************************************************************)
EXTENDS ConfigStore, FiniteSetTheorems, TLAPS

\* The values that name a Provider, a client and the web search are told apart.
Distinct == /\ Web \notin Providers /\ None \notin Providers
            /\ \A c \in Clients : c \notin Owners

Prov == [rev : Nat, model : {"off", "on", "default"}, fit : SUBSET Marks]
Roles == [p : Providers, named : BOOLEAN]
Configs == [prov : [Providers -> Prov], ref : [Owners -> Nat], main : Roles,
            aux : Providers \cup {None}, pool : SUBSET Providers]
Refs == Nat \ {NoRef}
Jobs == [at : {"idle", "secret", "config", "undo", "drop"}, next : Configs \cup {None},
         made : Nat, prev : Nat]
Snapshots == [data : SUBSET Refs, by : Clients \cup Owners]
Reads == [at : {"idle", "decrypt", "store"}, ref : Nat, wanted : BOOLEAN]
Routes == [at : {"idle", "main", "approval", "plan", "done"}, base : Configs \cup {None},
           main : Providers \cup {None}, aux : Providers \cup {None},
           got : SUBSET [p : Owners, key : Nat]]

\* The secrets of configuration c are in S.
Held(c, S) == \A o \in Owners : c.ref[o] # NoRef => c.ref[o] \in S

\* Held, in the words of the property.
LEMMA HeldRefs == \A c, S : Held(c, S) <=> RefsOf(c) \subseteq S
BY DEF Held, RefsOf

\* A configuration whose pool has enabled models with keys, and no secret has two owners.
Sound(c) ==
  /\ \A p \in c.pool : Enabled(c, p) /\ c.ref[p] # NoRef
  /\ \A o, q \in Owners : o # q /\ c.ref[o] = c.ref[q] => c.ref[o] = NoRef
  /\ \A p \in Providers : ~Exists(c, p) => c.ref[p] = NoRef

\* A Provider that is still there has a later revision, or the same one and the same key.
Moves(a, b) ==
  \A p \in Providers : Exists(b, p) =>
    /\ a.prov[p].rev <= b.prov[p].rev
    /\ a.prov[p].rev = b.prov[p].rev => a.ref[p] = b.ref[p]

\* What a request makes of configuration a with a new secret m (or none), if it lets secret
\* v go and the Providers g were deleted before.
Admitted(a, b, m, v, g) ==
  /\ b \in Configs /\ Sound(b) /\ Moves(a, b)
  /\ \A o \in Owners : b.ref[o] \in {a.ref[o], m, NoRef}
  /\ \A o \in Owners : b.ref[o] # NoRef => b.ref[o] # v
  /\ \A o \in Owners : a.ref[o] \in {b.ref[o], v}
  /\ m # NoRef => \E o \in Owners : b.ref[o] = m
  /\ v # NoRef => \E o \in Owners : a.ref[o] = v
  /\ \A p \in g : ~Exists(b, p)

Given(a, g) == /\ a \in Configs /\ Sound(a) /\ g \subseteq Providers
               /\ \A p \in g : ~Exists(a, p)

------------------------------------------------------------------------------
(* What every request makes of the configuration. *)

\* The fields of a configuration are of their types.
LEMMA Fields ==
  ASSUME NEW c \in Configs
  PROVE  /\ c.prov \in [Providers -> Prov] /\ c.ref \in [Owners -> Nat] /\ c.main \in Roles
         /\ c.aux \in Providers \cup {None} /\ c.pool \subseteq Providers
         /\ \A p \in Providers : c.prov[p] \in Prov /\ c.prov[p].rev \in Nat /\ c.ref[p] \in Nat
BY DEF Configs, Prov, Owners

\* Configuration b has the Providers and the keys of c, and of its pool what is enabled.
Tidied(b, c) == /\ b \in Configs /\ b.prov = c.prov /\ b.ref = c.ref
                /\ b.pool \subseteq c.pool /\ \A p \in b.pool : Enabled(c, p)

\* Compatible, and with it Repaired, tidies a configuration.
LEMMA CompatibleFields ==
  ASSUME NEW c \in Configs
  PROVE  Tidied(Compatible(c), c)
BY DEF Compatible, Configs, Tidied, Usable

\* A repair tidies as well, and leaves an auxiliary role or none.
LEMMA RepairedFields ==
  ASSUME NEW c \in Configs
  PROVE  Tidied(Repaired(c), c)
<1> DEFINE r == Compatible(c)
           x == IF r.aux = None \/ Usable(r, r.aux) THEN r.aux
                ELSE IF c.main.named THEN c.main.p ELSE None
<1>1. Tidied(r, c)
  BY CompatibleFields
<1>2. r.aux \in Providers \cup {None}
  BY <1>1, Fields DEF Tidied
<1>3. x \in Providers \cup {None}
  BY <1>2, Fields DEF Roles
<1>4. Repaired(c) = [r EXCEPT !.aux = x]
  BY DEF Repaired
<1> HIDE DEF r, x
<1> QED
  BY <1>1, <1>3, <1>4 DEF Tidied, Configs

\* The role of p as the default.
LEMMA NamedRole ==
  ASSUME NEW c \in Configs, NEW p \in Providers
  PROVE  Named(c, p) \in Roles
BY DEF Named, Roles

\* Activated changes a role.
LEMMA ActivatedFields ==
  ASSUME NEW c \in Configs, NEW p \in Providers
  PROVE  /\ Activated(c, p) \in Configs
         /\ Activated(c, p).prov = c.prov /\ Activated(c, p).ref = c.ref
         /\ Activated(c, p).pool = c.pool
BY NamedRole DEF Activated, Configs

\* Configuration u differs from c in Provider p, whose revision did not go back.
Kept(c, u, p) ==
  /\ u \in Configs /\ u.ref = c.ref /\ u.pool = c.pool
  /\ \A q \in Providers \ {p} : u.prov[q] = c.prov[q]
  /\ u.prov[p].rev > 0 /\ u.prov[p].rev >= c.prov[p].rev

\* Updated changes one Provider, and its revision never goes back.
LEMMA UpdatedFields ==
  ASSUME NEW c \in Configs, NEW p \in Providers,
         NEW model \in {"off", "on", "default"}, NEW fit \in SUBSET Marks,
         NEW shape \in BOOLEAN
  PROVE  /\ Kept(c, Updated(c, p, model, fit, shape), p)
         /\ Updated(c, p, model, fit, shape).prov[p].model = model
<1> DEFINE same == /\ ~shape /\ fit = c.prov[p].fit
                   /\ (c.prov[p].model = "default") = (model = "default")
           r == IF Exists(c, p) /\ same THEN c.prov[p].rev ELSE c.prov[p].rev + 1
           new == [rev |-> r, model |-> model, fit |-> fit]
<1>1. r \in Nat /\ r > 0 /\ r >= c.prov[p].rev
  BY Fields DEF Exists
<1>2. new \in Prov /\ new.rev = r /\ new.model = model
  BY <1>1 DEF Prov
<1>3. Updated(c, p, model, fit, shape) = [c EXCEPT !.prov[p] = new]
  BY DEF Updated
<1> HIDE DEF new, r
<1>4. [c EXCEPT !.prov[p] = new] = [c EXCEPT !.prov = [c.prov EXCEPT ![p] = new]]
  BY DEF Configs
<1>5. [c.prov EXCEPT ![p] = new] \in [Providers -> Prov]
  BY <1>2, Fields
<1> QED
  BY <1>1, <1>2, <1>3, <1>4, <1>5 DEF Configs, Kept

\* Configuration b has the keys of a; Providers changed to a later revision or not at all.
Edited(a, b, g) ==
  /\ b \in Configs /\ b.ref = a.ref
  /\ \A p \in b.pool : Enabled(b, p) /\ b.ref[p] # NoRef
  /\ \A p \in Providers : \/ b.prov[p] = a.prov[p]
                          \/ p \notin g /\ b.prov[p].rev > 0 /\ b.prov[p].rev >= a.prov[p].rev

\* That is admitted.
LEMMA EditedAdmitted ==
  ASSUME NEW a, NEW g, Given(a, g), NEW b, Edited(a, b, g)
  PROVE  Admitted(a, b, NoRef, NoRef, g)
<1>1. Sound(b)
  BY Fields DEF Given, Sound, Exists, Edited
<1>2. Moves(a, b)
  BY Fields DEF Given, Moves, Exists, Owners, Edited
<1>3. \A q \in g : ~Exists(b, q)
  BY DEF Given, Exists, Edited
<1> QED
  BY <1>1, <1>2, <1>3 DEF Admitted, Edited

\* An update of a Provider is, once the pool is tidied.
LEMMA TidiedEdited ==
  ASSUME NEW a, NEW g, Given(a, g), NEW p \in Providers \ g, NEW u, Kept(a, u, p),
         NEW b, Tidied(b, u)
  PROVE  Edited(a, b, g)
BY DEF Given, Edited, Kept, Tidied, Sound, Enabled, Exists

\* A new key of owner o, or none.
Rekeyed(c, b, o, r) ==
  /\ b \in Configs /\ b.ref = [c.ref EXCEPT ![o] = r] /\ b.pool \subseteq c.pool
  /\ \A q \in Providers \ {o} : b.prov[q] = c.prov[q]
  /\ o \in Providers => /\ b.prov[o].rev = c.prov[o].rev + 1
                        /\ b.prov[o].model = c.prov[o].model

\* WithRef gives one, and moves the revision of its Provider.
LEMMA WithRefFields ==
  ASSUME NEW c \in Configs, Distinct, NEW o \in Owners, NEW r \in Nat
  PROVE  Rekeyed(c, WithRef(c, o, r), o, r)
<1> DEFINE n == [c EXCEPT !.ref[o] = r]
           new == [c.prov[o] EXCEPT !.rev = @ + 1]
<1>1. n \in Configs /\ n.ref = [c.ref EXCEPT ![o] = r] /\ n.prov = c.prov /\ n.pool = c.pool
  BY Fields DEF Configs
<1>2. CASE o = Web
  BY <1>1, <1>2 DEF WithRef, Distinct, Rekeyed
<1>3. CASE o # Web
  <2>1. o \in Providers
    BY <1>3 DEF Owners
  <2>2. new \in Prov /\ new.rev = c.prov[o].rev + 1 /\ new.model = c.prov[o].model
    BY <2>1, Fields DEF Prov
  <2>3. WithRef(c, o, r) = [n EXCEPT !.prov = [n.prov EXCEPT ![o] = new]]
    BY <1>1, <1>3, <2>1, Fields DEF WithRef, Configs
  <2> HIDE DEF new, n
  <2>4. [n.prov EXCEPT ![o] = new] \in [Providers -> Prov]
    BY <1>1, <2>2, Fields
  <2> QED
    BY <1>1, <2>1, <2>2, <2>3, <2>4 DEF Configs, Rekeyed
<1> QED
  BY <1>2, <1>3

\* A key that nobody has, or none for an owner that leaves the pool, is admitted.
LEMMA RekeyedAdmitted ==
  ASSUME NEW a, NEW g, Given(a, g), NEW u, Edited(a, u, g),
         NEW o \in Owners, o \in Providers => Exists(u, o),
         NEW r \in Nat, NEW b, Rekeyed(u, b, o, r),
         \/ r = NoRef /\ o \notin b.pool
         \/ r # NoRef /\ \A q \in Owners : a.ref[q] # r
  PROVE  Admitted(a, b, r, a.ref[o], g)
<1>1. /\ b.ref = [a.ref EXCEPT ![o] = r] /\ a.ref \in [Owners -> Nat] /\ b \in Configs
      /\ \A p \in Providers : u.prov[p].rev \in Nat /\ a.prov[p].rev \in Nat
  BY Fields DEF Rekeyed, Edited, Given
<1>2. Sound(b)
  <2>1. \A p \in b.pool : Enabled(b, p) /\ b.ref[p] # NoRef
    BY <1>1, Fields DEF Rekeyed, Edited, Enabled, Exists, Owners
  <2>2. \A x, y \in Owners : x # y /\ b.ref[x] = b.ref[y] => b.ref[x] = NoRef
    BY <1>1 DEF Given, Sound
  <2>3. \A p \in Providers : ~Exists(b, p) => b.ref[p] = NoRef
    BY <1>1 DEF Given, Sound, Rekeyed, Edited, Exists, Owners
  <2> QED
    BY <2>1, <2>2, <2>3 DEF Sound
<1>3. Moves(a, b)
  BY <1>1 DEF Given, Moves, Rekeyed, Edited, Exists, Owners
<1>4. \A p \in g : ~Exists(b, p)
  BY <1>1 DEF Given, Rekeyed, Edited, Exists
<1>5. \A x \in Owners : b.ref[x] # NoRef => b.ref[x] # a.ref[o]
  BY <1>1 DEF Given, Sound
<1>6. /\ \A x \in Owners : a.ref[x] \in {b.ref[x], a.ref[o]}
      /\ b.ref[o] = r
  BY <1>1
<1> QED
  BY <1>1, <1>2, <1>3, <1>4, <1>5, <1>6 DEF Admitted

\* A copy is an edit.
LEMMA CopiedEdited ==
  ASSUME NEW a, NEW g, Given(a, g), NEW p \in Providers, Exists(a, p),
         NEW q \in Providers \ g, ~Exists(a, q)
  PROVE  Edited(a, Copied(a, p, q), g)
<1> DEFINE new == [a.prov[p] EXCEPT !.rev = 1]
<1>1. a \in Configs
  BY DEF Given
<1>2. new \in Prov /\ new.rev = 1
  BY <1>1, Fields DEF Prov
<1>3. Copied(a, p, q) = [a EXCEPT !.prov = [a.prov EXCEPT ![q] = new]]
  BY <1>1 DEF Copied, Configs
<1> HIDE DEF new
<1>4. [a.prov EXCEPT ![q] = new] \in [Providers -> Prov]
  BY <1>1, <1>2, Fields
<1>5. a.prov[q].rev = 0
  BY <1>1, Fields DEF Exists
<1>6. /\ Copied(a, p, q) \in Configs /\ Copied(a, p, q).prov = [a.prov EXCEPT ![q] = new]
      /\ Copied(a, p, q).ref = a.ref /\ Copied(a, p, q).pool = a.pool
  BY <1>1, <1>3, <1>4 DEF Configs
<1> QED
  BY <1>1, <1>2, <1>5, <1>6, Fields DEF Edited, Given, Sound, Enabled, Exists

\* An update of p is an edit, if what it leaves in the pool is enabled.
LEMMA KeptEdited ==
  ASSUME NEW a, NEW g, Given(a, g), NEW p \in Providers \ g, NEW u, Kept(a, u, p),
         NEW b \in Configs, b.prov = u.prov, b.ref = u.ref, b.pool \subseteq u.pool,
         p \in b.pool => u.prov[p].model # "off"
  PROVE  Edited(a, b, g)
<1>1. b.ref = a.ref /\ \A q \in Providers \ {p} : b.prov[q] = a.prov[q]
  BY DEF Kept
<1>2. b.prov[p].rev > 0 /\ b.prov[p].rev >= a.prov[p].rev
  BY DEF Kept
<1>3. ASSUME NEW q \in b.pool PROVE Enabled(b, q) /\ b.ref[q] # NoRef
  <2>1. q \in a.pool /\ q \in Providers
    BY Fields DEF Kept, Given
  <2>2. Enabled(a, q) /\ a.ref[q] # NoRef
    BY <2>1 DEF Given, Sound
  <2>3. CASE q = p
    BY <1>1, <1>2, <2>2, <2>3 DEF Enabled, Exists
  <2>4. CASE q # p
    BY <1>1, <2>1, <2>2, <2>4 DEF Enabled, Exists
  <2> QED
    BY <2>3, <2>4
<1> QED
  BY <1>1, <1>2, <1>3 DEF Edited

\* A pool of Providers whose model is enabled is an edit.
LEMMA PoolEdited ==
  ASSUME NEW a, NEW g, Given(a, g), NEW pool \in SUBSET Providers,
         \A p \in pool : Enabled(a, p) /\ a.ref[p] # NoRef
  PROVE  Edited(a, [a EXCEPT !.pool = pool], g)
BY DEF Edited, Given, Configs, Enabled, Exists

\* So are any roles.
LEMMA RolesEdited ==
  ASSUME NEW a, NEW g, Given(a, g), NEW role \in Roles, NEW aux \in Providers \cup {None}
  PROVE  Edited(a, [a EXCEPT !.main = role, !.aux = aux], g)
BY DEF Edited, Given, Configs, Sound, Enabled, Exists

\* A Provider that is deleted takes its key along.
LEMMA DeletedAdmitted ==
  ASSUME NEW a, NEW g, Given(a, g), NEW p \in Providers, Exists(a, p), NEW f \in Providers
  PROVE  Admitted(a, Deleted(a, p, f), NoRef, a.ref[p], g)
<1> DEFINE main == IF a.main.p = p THEN Named(a, f) ELSE a.main
           aux == IF a.aux # p THEN a.aux ELSE IF main.named THEN main.p ELSE None
           b == Deleted(a, p, f)
<1>1. a \in Configs
  BY DEF Given
<1>2. main \in Roles
  BY <1>1, Fields, NamedRole
<1>3. aux \in Providers \cup {None}
  BY <1>1, <1>2, Fields DEF Roles
<1>4. b = [a EXCEPT !.prov = [a.prov EXCEPT ![p] = Absent], !.ref = [a.ref EXCEPT ![p] = NoRef],
                    !.pool = a.pool \ {p}, !.main = main, !.aux = aux]
  BY <1>1 DEF Deleted, Configs
<1> HIDE DEF main, aux, b
<1>5. /\ [a.prov EXCEPT ![p] = Absent] \in [Providers -> Prov]
      /\ [a.ref EXCEPT ![p] = NoRef] \in [Owners -> Nat]
  BY <1>1, Fields DEF Absent, Prov, NoRef, Owners
<1>6. /\ b \in Configs /\ b.prov = [a.prov EXCEPT ![p] = Absent]
      /\ b.ref = [a.ref EXCEPT ![p] = NoRef] /\ b.pool = a.pool \ {p}
  BY <1>1, <1>2, <1>3, <1>4, <1>5 DEF Configs
<1>7. /\ b.prov[p].rev = 0 /\ \A q \in Providers \ {p} : b.prov[q] = a.prov[q]
      /\ b.ref[p] = NoRef /\ \A o \in Owners \ {p} : b.ref[o] = a.ref[o]
      /\ p \in Owners /\ Providers \subseteq Owners
  BY <1>1, <1>6, Fields DEF Absent, Owners
<1>8. Sound(b)
  BY <1>1, <1>6, <1>7, Fields DEF Given, Sound, Enabled, Exists
<1>9. Moves(a, b) /\ \A q \in g : ~Exists(b, q)
  BY <1>1, <1>6, <1>7, Fields DEF Given, Moves, Exists
<1> QED
  BY <1>6, <1>7, <1>8, <1>9 DEF Admitted, Given, Sound, b
------------------------------------------------------------------------------
(* The two files. *)

Types ==
  /\ config \in Configs /\ issued \in Nat /\ gone \subseteq Providers
  /\ records \subseteq Refs /\ vault \subseteq Refs
  /\ job \in [Clients -> Jobs] /\ writes \in Seq(Snapshots)

\* The secrets of the configuration are wherever they are looked for: in memory, in the file
\* and in every snapshot that will become the file.
Files ==
  /\ file = config /\ Sound(config)
  /\ \A p \in gone : ~Exists(config, p)
  /\ Held(config, records) /\ Held(config, vault)
  /\ \A i \in 1..Len(writes) : Held(config, writes[i].data)
  /\ \A o \in Owners : config.ref[o] <= issued

\* A request at a time; what the one in progress will write is admitted.
Requests ==
  /\ \A c, d \in Clients : job[c].at # "idle" /\ job[d].at # "idle" => c = d
  /\ \A c \in Clients : job[c].at \in {"secret", "config"} =>
       /\ Admitted(config, job[c].next, job[c].made, job[c].prev, gone)
       /\ job[c].made <= issued
       /\ job[c].made # NoRef => \A o \in Owners : config.ref[o] # job[c].made

\* Its secret is in its own snapshot and in those behind it; once that snapshot is the file,
\* it is everywhere.
Secrets ==
  /\ \A c \in Clients : job[c].at = "secret" => job[c].made # NoRef
  /\ \A c \in Clients : job[c].at \in {"secret", "config"} /\ job[c].made # NoRef =>
       job[c].made \in records
  /\ \A c \in Clients : job[c].at = "config" /\ job[c].made # NoRef =>
       /\ job[c].made \in vault
       /\ \A i \in 1..Len(writes) : job[c].made \in writes[i].data
  /\ \A i \in 1..Len(writes) : writes[i].by \in Clients =>
       /\ job[writes[i].by].at \in {"secret", "undo", "drop"}
       /\ job[writes[i].by].at = "secret" =>
            \A k \in i..Len(writes) : job[writes[i].by].made \in writes[k].data
  /\ \A i, k \in 1..Len(writes) : writes[i].by \in Clients /\ writes[i].by = writes[k].by => i = k

Store == Types /\ Files /\ Requests /\ Secrets

\* Reads and routes leave the files alone.
LEMMA StoreUnchanged ==
  ASSUME Store, UNCHANGED <<config, file, records, vault, writes, job, issued, gone>>
  PROVE  Store'
BY DEF Store, Types, Files, Requests, Secrets, Sound, Admitted, Moves, Held, Exists, Enabled

\* What a snapshot at the end of the queue changes.
LEMMA Appended ==
  ASSUME NEW q \in Seq(Snapshots), NEW x \in Snapshots
  PROVE  /\ Append(q, x) \in Seq(Snapshots) /\ Len(Append(q, x)) = Len(q) + 1 /\ Len(q) \in Nat
         /\ \A i \in 1..Len(q) : Append(q, x)[i] = q[i]
         /\ Append(q, x)[Len(q) + 1] = x
OBVIOUS

\* What is left when the oldest one is taken.
LEMMA Taken ==
  ASSUME NEW q \in Seq(Snapshots), q # <<>>
  PROVE  /\ Tail(q) \in Seq(Snapshots) /\ Len(q) \in Nat \ {0} /\ Len(Tail(q)) = Len(q) - 1
         /\ \A i \in 1..Len(Tail(q)) : Tail(q)[i] = q[i + 1]
         /\ Head(q) = q[1] /\ q[1] \in Snapshots
OBVIOUS

\* A request that needs no secret.
LEMMA WriteStore ==
  ASSUME Store, NEW c \in Clients, NEW b, NEW v \in Nat, Turn(c),
         Admitted(config, b, NoRef, v, gone), Write(c, b, v)
  PROVE  Store'
<1> USE DEF Store
<1>1. [at |-> "config", next |-> b, made |-> NoRef, prev |-> v] \in Jobs
  BY DEF Jobs, Admitted, NoRef
<1>2. Types'
  BY <1>1 DEF Types, Write, Begin
<1>3. Files'
  BY DEF Files, Write, Sound, Held, Exists, Enabled
<1>4. /\ \A d \in Clients \ {c} : job'[d] = job[d] /\ job[d].at = "idle"
      /\ job'[c].at = "config" /\ job'[c].next = b /\ job'[c].made = NoRef /\ job'[c].prev = v
      /\ job[c].at = "idle"
  BY DEF Types, Turn, Write, Begin
<1>5. Admitted(config, b, NoRef, v, gone)'
  BY DEF Write
<1>6. Requests'
  BY <1>4, <1>5 DEF Requests, Write, Types, NoRef
<1>7. Secrets'
  BY <1>4 DEF Secrets, Write
<1> QED
  BY <1>2, <1>3, <1>6, <1>7

\* The snapshots after one more that has the secrets of the configuration.
LEMMA AppendStore ==
  ASSUME Store, NEW x \in Snapshots, writes' = Append(writes, x), records' = x.data,
         UNCHANGED <<config, file, vault, gone>>, issued' \in Nat, issued <= issued',
         Held(config, x.data)
  PROVE  /\ writes' \in Seq(Snapshots) /\ records' \subseteq Refs /\ Files'
         /\ Len(writes') = Len(writes) + 1 /\ Len(writes) \in Nat
         /\ \A i \in 1..Len(writes) : writes'[i] = writes[i]
         /\ writes'[Len(writes) + 1] = x
<1>1. writes \in Seq(Snapshots)
  BY DEF Store, Types
<1>2. /\ writes' \in Seq(Snapshots) /\ Len(writes') = Len(writes) + 1 /\ Len(writes) \in Nat
      /\ \A i \in 1..Len(writes) : writes'[i] = writes[i]
      /\ writes'[Len(writes) + 1] = x
  BY <1>1, Appended
<1>3. records' \subseteq Refs
  BY DEF Snapshots
<1>4. \A i \in 1..Len(writes') : Held(config, writes'[i].data)
  BY <1>2 DEF Store, Files
<1>5. \A o \in Owners : config.ref[o] <= issued'
  BY DEF Store, Types, Files, Configs
<1>6. Files'
  BY <1>4, <1>5 DEF Store, Files, Sound, Exists, Enabled, Held
<1> QED
  BY <1>2, <1>3, <1>6

\* A request that stores a new secret first.
LEMMA RekeyStore ==
  ASSUME Store, NEW c \in Clients, NEW b, NEW v \in Nat, Turn(c), issued' = issued + 1,
         Admitted(config, b, issued', v, gone), Begin(c, "secret", b, issued', v),
         Stored(issued', c), UNCHANGED <<config, file, vault, gone>>
  PROVE  Store'
<1> DEFINE x == [data |-> records', by |-> c]
<1>1. issued' \in Refs /\ issued' \in Nat /\ issued <= issued'
  BY DEF Store, Types, Refs, NoRef
<1>2. records' \subseteq Refs /\ records \subseteq records' /\ issued' \in records'
  BY <1>1 DEF Store, Types, Stored
<1>3. x \in Snapshots /\ x.data = records' /\ x.by = c
  BY <1>2 DEF Snapshots
<1>4. Held(config, x.data)
  BY <1>2, <1>3 DEF Store, Files, Held
<1>5. writes' = Append(writes, x)
  BY DEF Stored
<1> HIDE DEF x
<1>6. /\ writes' \in Seq(Snapshots) /\ records' \subseteq Refs /\ Files'
      /\ Len(writes') = Len(writes) + 1 /\ Len(writes) \in Nat
      /\ \A i \in 1..Len(writes) : writes'[i] = writes[i]
      /\ writes'[Len(writes) + 1] = x
  BY <1>1, <1>3, <1>4, <1>5, AppendStore
<1>7. [at |-> "secret", next |-> b, made |-> issued', prev |-> v] \in Jobs
  BY <1>1 DEF Jobs, Admitted
<1>8. Types'
  BY <1>1, <1>6, <1>7 DEF Store, Types, Begin
<1>9. /\ \A d \in Clients \ {c} : job'[d] = job[d] /\ job[d].at = "idle"
      /\ job'[c].at = "secret" /\ job'[c].next = b /\ job'[c].made = issued' /\ job'[c].prev = v
      /\ job[c].at = "idle"
  BY DEF Store, Types, Turn, Begin
<1>10. Admitted(config', b, issued', v, gone')
  OBVIOUS
<1>11. \A o \in Owners : config'.ref[o] # issued'
  BY <1>1 DEF Store, Types, Files, Configs
<1>12. Requests'
  BY <1>1, <1>9, <1>10, <1>11 DEF Store, Requests, Types, NoRef
<1>13. Secrets'
  <2>1. \A i \in 1..Len(writes) : writes[i].by \notin Clients
    BY <1>9 DEF Store, Secrets
  <2> QED
    BY <1>1, <1>2, <1>3, <1>6, <1>9, <2>1 DEF Secrets, Refs
<1> QED
  BY <1>6, <1>8, <1>12, <1>13 DEF Store

\* A secret is stored again under its reference.
LEMMA ReencryptStore ==
  ASSUME Store, Distinct, NEW o \in Owners, NEW r \in Refs, Stored(r, o),
         UNCHANGED <<config, file, vault, job, issued, gone>>
  PROVE  Store'
<1> DEFINE x == [data |-> records', by |-> o]
<1>2. records' \subseteq Refs /\ records \subseteq records'
  BY DEF Store, Types, Stored
<1>3. x \in Snapshots /\ x.data = records' /\ x.by = o /\ o \notin Clients
  BY <1>2 DEF Snapshots, Distinct
<1>4. Held(config, x.data)
  BY <1>2, <1>3 DEF Store, Files, Held
<1>5. writes' = Append(writes, x)
  BY DEF Stored
<1> HIDE DEF x
<1>6. /\ writes' \in Seq(Snapshots) /\ records' \subseteq Refs /\ Files'
      /\ Len(writes') = Len(writes) + 1 /\ Len(writes) \in Nat
      /\ \A i \in 1..Len(writes) : writes'[i] = writes[i]
      /\ writes'[Len(writes) + 1] = x
  <2>1. issued' \in Nat /\ issued <= issued'
    BY DEF Store, Types
  <2> QED
    BY <1>3, <1>4, <1>5, <2>1, AppendStore
<1>8. Types'
  BY <1>6 DEF Store, Types
<1>12. Requests'
  BY DEF Store, Requests, Admitted, Sound, Moves, Exists, Enabled
<1>13. Secrets'
  BY <1>2, <1>3, <1>6 DEF Store, Secrets
<1> QED
  BY <1>6, <1>8, <1>12, <1>13 DEF Store

\* The configuration of a request that is about to be written has its secrets everywhere.
LEMMA NextHeld ==
  ASSUME Store, NEW c \in Clients, job[c].at = "config", NEW S, Held(config, S),
         job[c].made # NoRef => job[c].made \in S
  PROVE  Held(job[c].next, S)
BY DEF Store, Requests, Admitted, Held

\* While it is, there is no snapshot that a request waits for.
LEMMA NobodyWaits ==
  ASSUME Store, NEW c \in Clients, job[c].at = "config"
  PROVE  /\ \A d \in Clients \ {c} : job[d].at = "idle"
         /\ \A i \in 1..Len(writes) : writes[i].by \notin Clients
BY DEF Store, Requests, Secrets

\* The configuration is in force, and its previous secret goes.
LEMMA ConfigWrittenStore ==
  ASSUME Store, NEW c \in Clients, ConfigWritten(c)
  PROVE  Store'
<1> DEFINE next == job[c].next
           x == [data |-> records', by |-> c]
<1>1. /\ job[c].at = "config" /\ file' = next /\ config' = next /\ vault' = vault
      /\ issued' = issued /\ gone' = gone \cup (Existing(config) \ Existing(next))
  BY DEF ConfigWritten
<1>2. /\ Admitted(config, next, job[c].made, job[c].prev, gone) /\ job[c].made <= issued
      /\ job[c] \in Jobs /\ job[c].made \in Nat /\ job[c].prev \in Nat
  BY <1>1 DEF Store, Types, Requests, Jobs
<1>3. next \in Configs /\ Sound(next)
  BY <1>2 DEF Admitted
<1>4. gone' \subseteq Providers /\ \A p \in gone' : ~Exists(next, p)
  BY <1>1, <1>2 DEF Store, Types, Existing, Admitted
<1>5. \A o \in Owners : next.ref[o] <= issued'
  <2> SUFFICES ASSUME NEW o \in Owners PROVE next.ref[o] <= issued
    BY <1>1
  <2>1. next.ref[o] \in {config.ref[o], job[c].made, NoRef}
    BY <1>2 DEF Admitted
  <2>2. config.ref[o] <= issued /\ 0 <= issued
    BY DEF Store, Types, Files
  <2> QED
    BY <1>2, <2>1, <2>2 DEF NoRef
<1>6. Held(next, records) /\ Held(next, vault)
  BY <1>1, NextHeld DEF Store, Files, Secrets
<1>7. \A i \in 1..Len(writes) : Held(next, writes[i].data)
  BY <1>1, NextHeld DEF Store, Files, Secrets
<1>8. /\ \A d \in Clients \ {c} : job[d].at = "idle"
      /\ \A i \in 1..Len(writes) : writes[i].by \notin Clients
  BY <1>1, NobodyWaits
<1>9. CASE job[c].prev \in records
  <2>1. /\ records' = records \ {job[c].prev} /\ writes' = Append(writes, x)
        /\ job' = [job EXCEPT ![c].at = "drop"]
    BY <1>9 DEF ConfigWritten, Dropped
  <2>2. Held(next, records')
    BY <1>2, <1>6, <2>1 DEF Held, Admitted
  <2>3. x \in Snapshots /\ x.data = records' /\ x.by = c
    BY <2>1 DEF Store, Types, Snapshots
  <2>4. writes \in Seq(Snapshots)
    BY DEF Store, Types
  <2> HIDE DEF x, next
  <2>5. /\ writes' \in Seq(Snapshots) /\ Len(writes') = Len(writes) + 1 /\ Len(writes) \in Nat
        /\ \A i \in 1..Len(writes) : writes'[i] = writes[i]
        /\ writes'[Len(writes) + 1] = x
    BY <2>1, <2>3, <2>4, Appended
  <2>6. [job[c] EXCEPT !.at = "drop"] \in Jobs
    BY <1>2 DEF Jobs
  <2>7. Types'
    BY <1>1, <1>3, <1>4, <2>1, <2>5, <2>6 DEF Store, Types
  <2>8. Files'
    <3>1. \A i \in 1..Len(writes') : Held(next, writes'[i].data)
      BY <1>7, <2>2, <2>3, <2>5
    <3> QED
      BY <1>1, <1>3, <1>4, <1>5, <1>6, <2>2, <3>1 DEF Files
  <2>9. job'[c].at = "drop" /\ \A d \in Clients \ {c} : job'[d].at = "idle"
    BY <1>2, <1>8, <2>1 DEF Store, Types, Jobs
  <2>10. Requests'
    BY <2>9 DEF Requests
  <2>11. Secrets'
    BY <1>8, <2>3, <2>5, <2>9 DEF Secrets
  <2> QED
    BY <2>7, <2>8, <2>10, <2>11 DEF Store
<1>10. CASE job[c].prev \notin records
  <2>1. /\ records' = records /\ writes' = writes /\ job' = [job EXCEPT ![c] = NoJob]
    BY <1>10 DEF ConfigWritten
  <2>2. NoJob \in Jobs
    BY DEF NoJob, Jobs, NoRef
  <2> HIDE DEF next
  <2>3. Types'
    BY <1>1, <1>3, <1>4, <2>1, <2>2 DEF Store, Types
  <2>4. Files'
    BY <1>1, <1>3, <1>4, <1>5, <1>6, <1>7, <2>1 DEF Files
  <2>5. \A d \in Clients : job'[d].at = "idle"
    BY <1>8, <2>1 DEF Store, Types, NoJob
  <2> QED
    BY <1>8, <2>1, <2>3, <2>4, <2>5 DEF Store, Requests, Secrets
<1> QED
  BY <1>9, <1>10

\* It could not be written, and its new secret is taken back.
LEMMA ConfigFailedStore ==
  ASSUME Store, NEW c \in Clients, ConfigFailed(c)
  PROVE  Store'
<1> DEFINE x == [data |-> records', by |-> c]
<1>1. job[c].at = "config" /\ UNCHANGED <<config, file, vault, issued, gone>>
  BY DEF ConfigFailed
<1>2. /\ job[c] \in Jobs
      /\ job[c].made # NoRef => \A o \in Owners : config.ref[o] # job[c].made
  BY <1>1 DEF Store, Types, Requests
<1>3. /\ \A d \in Clients \ {c} : job[d].at = "idle"
      /\ \A i \in 1..Len(writes) : writes[i].by \notin Clients
  BY <1>1, NobodyWaits
<1>4. CASE job[c].made # NoRef
  <2>1. /\ records' = records \ {job[c].made} /\ writes' = Append(writes, x)
        /\ job' = [job EXCEPT ![c].at = "undo"]
    BY <1>4 DEF ConfigFailed, Dropped
  <2>2. x \in Snapshots /\ x.data = records' /\ x.by = c
    BY <2>1 DEF Store, Types, Snapshots
  <2>3. Held(config, x.data)
    BY <1>2, <1>4, <2>1, <2>2 DEF Store, Files, Held
  <2>4. issued' \in Nat /\ issued <= issued'
    BY <1>1 DEF Store, Types
  <2> HIDE DEF x
  <2>5. /\ writes' \in Seq(Snapshots) /\ records' \subseteq Refs /\ Files'
        /\ Len(writes') = Len(writes) + 1 /\ Len(writes) \in Nat
        /\ \A i \in 1..Len(writes) : writes'[i] = writes[i]
        /\ writes'[Len(writes) + 1] = x
    BY <1>1, <2>1, <2>2, <2>3, <2>4, AppendStore
  <2>6. [job[c] EXCEPT !.at = "undo"] \in Jobs
    BY <1>2 DEF Jobs
  <2>7. Types'
    BY <1>1, <2>1, <2>5, <2>6 DEF Store, Types
  <2>8. job'[c].at = "undo" /\ \A d \in Clients \ {c} : job'[d].at = "idle"
    BY <1>2, <1>3, <2>1 DEF Store, Types, Jobs
  <2>9. Requests'
    BY <2>8 DEF Requests
  <2>10. Secrets'
    BY <1>3, <2>2, <2>5, <2>8 DEF Secrets
  <2> QED
    BY <2>5, <2>7, <2>9, <2>10 DEF Store
<1>5. CASE job[c].made = NoRef
  <2>1. job' = [job EXCEPT ![c] = NoJob] /\ UNCHANGED <<records, writes>>
    BY <1>5 DEF ConfigFailed
  <2>2. NoJob \in Jobs
    BY DEF NoJob, Jobs, NoRef
  <2>3. \A d \in Clients : job'[d].at = "idle"
    BY <1>3, <2>1 DEF Store, Types, NoJob
  <2>4. Types'
    BY <1>1, <2>1, <2>2 DEF Store, Types
  <2>5. Files'
    BY <1>1, <2>1 DEF Store, Files, Sound, Held, Exists, Enabled
  <2>6. Requests'
    BY <2>3 DEF Requests
  <2>7. Secrets'
    BY <1>3, <2>1, <2>3 DEF Secrets
  <2> QED
    BY <2>4, <2>5, <2>6, <2>7 DEF Store
<1> QED
  BY <1>4, <1>5

\* Requests are in order when some of them are over, or have their secret stored.
LEMMA RequestsLeft ==
  ASSUME Store, UNCHANGED <<config, gone, issued>>,
         \A d \in Clients : \/ job'[d].at = "idle"
                            \/ /\ job[d].at # "idle" /\ job'[d].made = job[d].made
                               /\ job'[d].at \in {"secret", "config"} =>
                                    /\ job[d].at \in {"secret", "config"}
                                    /\ job'[d].next = job[d].next
                                    /\ job'[d].prev = job[d].prev
  PROVE  Requests'
<1>1. \A c, d \in Clients : job'[c].at # "idle" /\ job'[d].at # "idle" => c = d
  BY DEF Store, Requests
<1>2. ASSUME NEW c \in Clients, job'[c].at \in {"secret", "config"}
      PROVE  /\ Admitted(config', job'[c].next, job'[c].made, job'[c].prev, gone')
             /\ job'[c].made <= issued'
             /\ job'[c].made # NoRef => \A o \in Owners : config'.ref[o] # job'[c].made
  <2>1. /\ job[c].at \in {"secret", "config"} /\ job'[c].made = job[c].made
        /\ job'[c].next = job[c].next /\ job'[c].prev = job[c].prev
    BY <1>2
  <2> QED
    BY <2>1 DEF Store, Requests
<1> QED
  BY <1>1, <1>2 DEF Requests

\* The oldest snapshot is the file, and whoever awaits it goes on.
LEMMA SecretWrittenStore ==
  ASSUME Store, SecretWritten
  PROVE  Store'
<1> DEFINE w == Head(writes)
<1>1. /\ writes # <<>> /\ vault' = w.data /\ writes' = Tail(writes)
      /\ UNCHANGED <<config, file, records, issued, gone>>
  BY DEF SecretWritten
<1>2. writes \in Seq(Snapshots)
  BY DEF Store, Types
<1>3. /\ Tail(writes) \in Seq(Snapshots) /\ Len(writes) \in Nat \ {0}
      /\ Len(Tail(writes)) = Len(writes) - 1
      /\ \A i \in 1..Len(Tail(writes)) : Tail(writes)[i] = writes[i + 1]
      /\ w = writes[1] /\ w \in Snapshots
  BY <1>1, <1>2, Taken
<1> HIDE DEF w
<1>4. /\ writes' \in Seq(Snapshots)
      /\ \A i \in 1..Len(writes') : i + 1 \in 1..Len(writes) /\ writes'[i] = writes[i + 1]
      /\ w = writes[1] /\ 1 \in 1..Len(writes) /\ vault' \subseteq Refs
  BY <1>1, <1>3 DEF Snapshots
<1>5. Files'
  <2>1. Held(config, vault')
    BY <1>1, <1>4 DEF Store, Files
  <2>2. \A i \in 1..Len(writes') : Held(config, writes'[i].data)
    BY <1>4 DEF Store, Files
  <2> QED
    BY <1>1, <2>1, <2>2 DEF Store, Files, Held, Sound, Exists, Enabled
<1>6. CASE w.by \in Clients
  <2> DEFINE c == w.by
  <2>1. job' = [job EXCEPT ![c] = IF @.at = "secret" THEN [@ EXCEPT !.at = "config"] ELSE NoJob]
    BY <1>6 DEF SecretWritten, w
  <2>2. /\ job[c].at \in {"secret", "undo", "drop"} /\ job[c] \in Jobs
        /\ \A d \in Clients \ {c} : job[d].at = "idle"
        /\ job[c].at = "secret" => \A k \in 1..Len(writes) : job[c].made \in writes[k].data
        /\ job[c].at = "secret" => job[c].made \in records /\ job[c].made # NoRef
        /\ \A i \in 1..Len(writes') : writes'[i].by \notin Clients
    <3>1. /\ job[c].at \in {"secret", "undo", "drop"} /\ job[c] \in Jobs
          /\ job[c].at = "secret" => \A k \in 1..Len(writes) : job[c].made \in writes[k].data
          /\ job[c].at = "secret" => job[c].made \in records /\ job[c].made # NoRef
      BY <1>4, <1>6 DEF Store, Types, Secrets
    <3>2. \A d \in Clients \ {c} : job[d].at = "idle"
      BY <1>6, <3>1 DEF Store, Requests
    <3>3. \A i \in 1..Len(writes') : writes'[i].by \notin Clients
      <4> SUFFICES ASSUME NEW i \in 1..Len(writes'), writes'[i].by \in Clients PROVE FALSE
        OBVIOUS
      <4>1. /\ i + 1 \in 1..Len(writes) /\ writes[i + 1].by \in Clients
            /\ job[writes[i + 1].by].at \in {"secret", "undo", "drop"}
        BY <1>4 DEF Store, Secrets
      <4>2. writes[i + 1].by = c
        BY <3>2, <4>1
      <4>3. i + 1 = 1
        BY <1>4, <1>6, <4>1, <4>2 DEF Store, Secrets
      <4> QED
        BY <4>3
    <3> QED
      BY <3>1, <3>2, <3>3
  <2>3. CASE job[c].at = "secret"
    <3>1. job' = [job EXCEPT ![c] = [job[c] EXCEPT !.at = "config"]]
      BY <2>1, <2>3
    <3>2. /\ [job[c] EXCEPT !.at = "config"] \in Jobs
          /\ job'[c].at = "config" /\ job'[c].made = job[c].made
          /\ job'[c].next = job[c].next /\ job'[c].prev = job[c].prev
          /\ \A d \in Clients \ {c} : job'[d].at = "idle"
      BY <1>6, <2>2, <3>1 DEF Jobs, Store, Types
    <3>3. Types'
      BY <1>1, <1>4, <3>1, <3>2 DEF Store, Types
    <3>4. Requests'
      BY <1>1, <2>3, <3>2, RequestsLeft
    <3>5. Secrets'
      BY <1>1, <1>4, <2>2, <2>3, <3>2 DEF Secrets
    <3> QED
      BY <1>5, <3>3, <3>4, <3>5 DEF Store
  <2>4. CASE job[c].at # "secret"
    <3>1. job' = [job EXCEPT ![c] = NoJob] /\ NoJob \in Jobs /\ NoJob.at = "idle"
      BY <2>1, <2>4 DEF NoJob, Jobs, NoRef
    <3>2. \A d \in Clients : job'[d].at = "idle"
      BY <2>2, <3>1 DEF Store, Types
    <3>3. Types'
      BY <1>1, <1>4, <3>1 DEF Store, Types
    <3>4. Requests'
      BY <3>2 DEF Requests
    <3>5. Secrets'
      BY <2>2, <3>2 DEF Secrets
    <3> QED
      BY <1>5, <3>3, <3>4, <3>5 DEF Store
  <2> QED
    BY <2>3, <2>4
<1>7. CASE w.by \notin Clients
  <2>1. job' = job
    BY <1>7 DEF SecretWritten, w
  <2>2. Types'
    BY <1>1, <1>4, <2>1 DEF Store, Types
  <2>3. Requests'
    BY <1>1, <2>1 DEF Store, Requests, Admitted, Sound, Moves, Exists, Enabled
  <2>4. Secrets'
    BY <1>1, <1>3, <1>4, <2>1 DEF Store, Secrets
  <2> QED
    BY <1>5, <2>2, <2>3, <2>4 DEF Store
<1> QED
  BY <1>6, <1>7

\* The oldest snapshot does not become the file, and whoever awaits it gives up.
LEMMA SecretFailedStore ==
  ASSUME Store, SecretFailed
  PROVE  Store'
<1> DEFINE w == Head(writes)
<1>1. /\ writes # <<>> /\ writes' = Tail(writes)
      /\ UNCHANGED <<config, file, records, vault, issued, gone>>
  BY DEF SecretFailed
<1>2. writes \in Seq(Snapshots)
  BY DEF Store, Types
<1>3. /\ writes' \in Seq(Snapshots)
      /\ \A i \in 1..Len(writes') : i + 1 \in 1..Len(writes) /\ writes'[i] = writes[i + 1]
      /\ w = writes[1] /\ 1 \in 1..Len(writes)
  <2>1. /\ Tail(writes) \in Seq(Snapshots) /\ Len(writes) \in Nat \ {0}
        /\ Len(Tail(writes)) = Len(writes) - 1
        /\ \A i \in 1..Len(Tail(writes)) : Tail(writes)[i] = writes[i + 1]
        /\ w = writes[1]
    BY <1>1, <1>2, Taken
  <2> HIDE DEF w
  <2> QED
    BY <1>1, <2>1
<1> HIDE DEF w
<1>4. Files'
  <2>1. \A i \in 1..Len(writes') : Held(config, writes'[i].data)
    BY <1>3 DEF Store, Files
  <2> QED
    BY <1>1, <2>1 DEF Store, Files, Held, Sound, Exists, Enabled
<1>5. CASE w.by \in Clients
  <2>1. job' = [job EXCEPT ![w.by] = NoJob] /\ NoJob \in Jobs /\ NoJob.at = "idle"
    BY <1>5 DEF SecretFailed, w, NoJob, Jobs, NoRef
  <2>2. \A d \in Clients : job'[d].at = "idle"
    BY <1>3, <1>5, <2>1 DEF Store, Types, Requests, Secrets
  <2>3. \A i \in 1..Len(writes') : writes'[i].by \notin Clients
    <3> SUFFICES ASSUME NEW i \in 1..Len(writes'), writes'[i].by \in Clients PROVE FALSE
      OBVIOUS
    <3>1. /\ i + 1 \in 1..Len(writes) /\ writes[i + 1].by \in Clients
          /\ job[writes[i + 1].by].at # "idle" /\ job[w.by].at # "idle"
      BY <1>3, <1>5 DEF Store, Secrets
    <3>2. writes[i + 1].by = w.by
      BY <1>5, <3>1 DEF Store, Requests
    <3>3. i + 1 = 1
      BY <1>3, <1>5, <3>1, <3>2 DEF Store, Secrets
    <3> QED
      BY <3>3
  <2>4. Types'
    BY <1>1, <1>3, <2>1 DEF Store, Types
  <2>5. Requests'
    BY <2>2 DEF Requests
  <2>6. Secrets'
    BY <2>2, <2>3 DEF Secrets
  <2> QED
    BY <1>4, <2>4, <2>5, <2>6 DEF Store
<1>6. CASE w.by \notin Clients
  <2>1. job' = job
    BY <1>6 DEF SecretFailed, w
  <2>2. Types'
    BY <1>1, <1>3, <2>1 DEF Store, Types
  <2>3. Requests'
    BY <1>1, <2>1 DEF Store, Requests, Admitted, Sound, Moves, Exists, Enabled
  <2>4. Secrets'
    BY <1>1, <1>3, <2>1 DEF Store, Secrets
  <2> QED
    BY <1>4, <2>2, <2>3, <2>4 DEF Store
<1> QED
  BY <1>5, <1>6

\* A repaired configuration is as sound, and relies on the same secrets.
LEMMA RepairedSound ==
  ASSUME NEW c \in Configs, Sound(c)
  PROVE  /\ Repaired(c) \in Configs /\ Sound(Repaired(c)) /\ Repaired(c).ref = c.ref
         /\ \A p \in Providers : Exists(Repaired(c), p) = Exists(c, p)
BY RepairedFields DEF Tidied, Sound, Enabled, Exists

\* The host comes back with what is in the files.
LEMMA CrashStore ==
  ASSUME Store, Crash
  PROVE  Store'
<1>1. /\ config' = Repaired(file) /\ file' = config' /\ records' = vault /\ writes' = <<>>
      /\ job' = [d \in Clients |-> NoJob] /\ UNCHANGED <<vault, issued, gone>>
  BY DEF Crash
<1>2. /\ config' \in Configs /\ Sound(config') /\ config'.ref = config.ref
      /\ \A p \in Providers : Exists(config', p) = Exists(config, p)
  BY <1>1, RepairedSound DEF Store, Types, Files
<1>3. NoJob \in Jobs /\ NoJob.at = "idle"
  BY DEF NoJob, Jobs, NoRef
<1>4. writes' \in Seq(Snapshots) /\ Len(writes') = 0
  BY <1>1
<1>5. Types'
  BY <1>1, <1>2, <1>3, <1>4 DEF Store, Types
<1>6. Files'
  BY <1>1, <1>2, <1>4 DEF Store, Types, Files, Held
<1>7. \A d \in Clients : job'[d].at = "idle"
  BY <1>1, <1>3
<1>8. Requests' /\ Secrets'
  BY <1>4, <1>7 DEF Requests, Secrets
<1> QED
  BY <1>5, <1>6, <1>8 DEF Store

------------------------------------------------------------------------------
(* Every request is one of the above. *)

\* A configuration whose files are in order can be edited.
LEMMA StoreGiven ==
  ASSUME Store
  PROVE  Given(config, gone) /\ Edited(config, config, gone)
BY DEF Store, Types, Files, Given, Edited, Sound

\* A request that needs no secret keeps the files in order.
LEMMA UpdateProviderStore ==
  ASSUME Store, NEW c \in Clients, UpdateProvider(c)
  PROVE  Store'
<1>1. PICK p \in Providers \ gone, model \in {"off", "on", "default"}, fit \in SUBSET Marks,
           shape \in BOOLEAN, activate \in BOOLEAN :
        Write(c, Compatible(IF activate THEN Activated(Updated(config, p, model, fit, shape), p)
                            ELSE Updated(config, p, model, fit, shape)), NoRef)
  BY FitsAssumption DEF UpdateProvider
<1> DEFINE next == Updated(config, p, model, fit, shape)
           u == IF activate THEN Activated(next, p) ELSE next
<1>2. Turn(c)
  BY DEF UpdateProvider
<1>3. Given(config, gone) /\ config \in Configs
  BY StoreGiven DEF Given
<1>4. Kept(config, next, p)
  BY <1>3, UpdatedFields
<1> HIDE DEF next
<1>5. Kept(config, u, p)
  BY <1>4, ActivatedFields DEF Kept
<1>6. Tidied(Compatible(u), u)
  BY <1>5, CompatibleFields DEF Kept
<1>7. Write(c, Compatible(u), NoRef)
  BY <1>1 DEF next
<1> HIDE DEF u
<1>8. Admitted(config, Compatible(u), NoRef, NoRef, gone)
  BY <1>3, <1>5, <1>6, TidiedEdited, EditedAdmitted
<1> QED
  BY <1>2, <1>7, <1>8, WriteStore DEF NoRef

\* Models and copies.
LEMMA ModelStore ==
  ASSUME Store, NEW c \in Clients, AddModel(c) \/ DeleteModel(c) \/ CopyProvider(c)
  PROVE  Store'
<1>1. Turn(c)
  BY DEF AddModel, DeleteModel, CopyProvider
<1>2. Given(config, gone)
  BY StoreGiven
<1>3. CASE AddModel(c)
  <2>1. PICK p \in Existing(config), model \in {"on", "default"}, fit \in SUBSET Marks,
             shape \in BOOLEAN :
          Write(c, Updated(config, p, model, fit, shape), NoRef)
    BY <1>3, FitsAssumption DEF AddModel
  <2> DEFINE u == Updated(config, p, model, fit, shape)
  <2>2. p \in Providers \ gone /\ Write(c, u, NoRef)
    BY <1>2, <2>1 DEF Existing, Given
  <2>3. Kept(config, u, p) /\ u.prov[p].model = model
    BY <1>2, <2>2, UpdatedFields DEF Given
  <2> HIDE DEF u
  <2>4. Admitted(config, u, NoRef, NoRef, gone)
    BY <1>2, <2>2, <2>3, KeptEdited, EditedAdmitted DEF Kept
  <2> QED
    BY <1>1, <2>2, <2>4, WriteStore DEF NoRef
<1>4. CASE DeleteModel(c)
  <2>1. PICK p \in Existing(config), fit \in SUBSET Marks, shape \in BOOLEAN :
          Write(c, Unlisted(config, p, fit, shape), NoRef)
    BY <1>4, FitsAssumption DEF DeleteModel
  <2> DEFINE u == Updated(config, p, "off", fit \ {"rating"}, shape)
             b == [u EXCEPT !.pool = @ \ {p}]
  <2>2. p \in Providers \ gone /\ Write(c, b, NoRef)
    BY <1>2, <2>1 DEF Existing, Given, Unlisted
  <2>3. Kept(config, u, p)
    BY <1>2, <2>2, UpdatedFields DEF Given
  <2> HIDE DEF u
  <2>4. b \in Configs /\ b.prov = u.prov /\ b.ref = u.ref /\ b.pool = u.pool \ {p}
    BY <2>3 DEF Kept, Configs
  <2> HIDE DEF b
  <2>6. Edited(config, b, gone)
    BY <1>2, <2>2, <2>3, <2>4, KeptEdited
  <2>5. Admitted(config, b, NoRef, NoRef, gone)
    BY <1>2, <2>6, EditedAdmitted
  <2> QED
    BY <1>1, <2>2, <2>5, WriteStore DEF NoRef
<1>5. CASE CopyProvider(c)
  <2>1. PICK p \in Existing(config), q \in Providers \ gone :
          ~Exists(config, q) /\ Write(c, Copied(config, p, q), NoRef)
    BY <1>5 DEF CopyProvider
  <2>2. Admitted(config, Copied(config, p, q), NoRef, NoRef, gone)
    BY <1>2, <2>1, CopiedEdited, EditedAdmitted DEF Existing
  <2> QED
    BY <1>1, <2>1, <2>2, WriteStore DEF NoRef
<1> QED
  BY <1>3, <1>4, <1>5

\* Roles and the pool.
LEMMA RoleStore ==
  ASSUME Store, NEW c \in Clients, SetRoles(c) \/ SetPool(c)
  PROVE  Store'
<1>1. Turn(c)
  BY DEF SetRoles, SetPool
<1>2. Given(config, gone)
  BY StoreGiven
<1>3. CASE SetRoles(c)
  <2>1. PICK p \in Providers, named \in BOOLEAN, aux \in Providers \cup {None} :
          Write(c, [config EXCEPT !.main = [p |-> p, named |-> named], !.aux = aux], NoRef)
    BY <1>3 DEF SetRoles
  <2>2. [p |-> p, named |-> named] \in Roles
    BY DEF Roles
  <2>3. Admitted(config, [config EXCEPT !.main = [p |-> p, named |-> named], !.aux = aux],
                 NoRef, NoRef, gone)
    BY <1>2, <2>2, RolesEdited, EditedAdmitted
  <2> QED
    BY <1>1, <2>1, <2>3, WriteStore DEF NoRef
<1>4. CASE SetPool(c)
  <2>1. PICK pool \in SUBSET Providers :
          /\ \A p \in pool : Usable(config, p) /\ config.ref[p] \in records
          /\ Write(c, [config EXCEPT !.pool = pool], NoRef)
    BY <1>4 DEF SetPool
  <2>2. \A p \in pool : Enabled(config, p) /\ config.ref[p] # NoRef
    BY <2>1 DEF Store, Types, Refs, Usable
  <2>3. Admitted(config, [config EXCEPT !.pool = pool], NoRef, NoRef, gone)
    BY <1>2, <2>2, PoolEdited, EditedAdmitted
  <2> QED
    BY <1>1, <2>1, <2>3, WriteStore DEF NoRef
<1> QED
  BY <1>3, <1>4

\* A Provider or a credential that goes.
LEMMA RemovalStore ==
  ASSUME Store, Distinct, NEW c \in Clients, DeleteProvider(c) \/ ClearCredential(c)
  PROVE  Store'
<1>1. Turn(c)
  BY DEF DeleteProvider, ClearCredential
<1>2. Given(config, gone) /\ Edited(config, config, gone) /\ config \in Configs
  BY StoreGiven DEF Given
<1>3. \A o \in Owners : config.ref[o] \in Nat
  BY <1>2, Fields
<1>4. CASE DeleteProvider(c)
  <2>1. PICK p \in Existing(config) : \E f \in Existing(config) \ {p} :
          Write(c, Deleted(config, p, f), config.ref[p])
    BY <1>4 DEF DeleteProvider
  <2>2. PICK f \in Existing(config) \ {p} : Write(c, Deleted(config, p, f), config.ref[p])
    BY <2>1
  <2>3. Admitted(config, Deleted(config, p, f), NoRef, config.ref[p], gone)
    BY <1>2, DeletedAdmitted DEF Existing
  <2>4. p \in Owners
    BY DEF Existing, Owners
  <2> QED
    BY <1>1, <1>3, <2>2, <2>3, <2>4, WriteStore
<1>5. CASE ClearCredential(c)
  <2>1. PICK o \in Existing(config) \cup {Web} : Write(c, Cleared(config, o), config.ref[o])
    BY <1>5 DEF ClearCredential
  <2>2. /\ o \in Owners
        /\ o \in Providers => Exists(config, o)
    BY DEF Existing, Owners, Distinct
  <2>3. Rekeyed(config, WithRef(config, o, NoRef), o, NoRef)
    BY <1>2, <2>2, WithRefFields DEF NoRef
  <2>4. Rekeyed(config, Cleared(config, o), o, NoRef) /\ o \notin Cleared(config, o).pool
    BY <2>3 DEF Rekeyed, Cleared, Configs
  <2>5. Admitted(config, Cleared(config, o), NoRef, config.ref[o], gone)
    BY <1>2, <2>2, <2>4, RekeyedAdmitted DEF NoRef
  <2> QED
    BY <1>1, <1>3, <2>1, <2>2, <2>5, WriteStore
<1> QED
  BY <1>4, <1>5

\* A new secret, alone or with the settings of its Provider.
LEMMA SetCredentialStore ==
  ASSUME Store, Distinct, NEW c \in Clients, SetCredential(c)
  PROVE  Store'
<1>1. Turn(c) /\ issued' = issued + 1 /\ UNCHANGED <<config, file, vault, gone>>
  BY DEF SetCredential
<1>2. Given(config, gone) /\ Edited(config, config, gone) /\ config \in Configs
  BY StoreGiven DEF Given
<1>3. \A q \in Owners : config.ref[q] \in Nat /\ config.ref[q] # issued'
  BY <1>1, <1>2, Fields DEF Store, Types, Files
<1>4. issued' \in Nat /\ issued' # NoRef
  BY <1>1 DEF Store, Types, NoRef
<1>5. PICK o \in Owners \ gone :
        /\ \/ /\ o \in Existing(config) \cup {Web}
              /\ Begin(c, "secret", WithRef(config, o, issued'), issued', config.ref[o])
           \/ /\ o # Web
              /\ \E model \in {"off", "on", "default"}, fit \in SUBSET Marks :
                   Begin(c, "secret", WithRef(Compatible(Updated(config, o, model, fit, FALSE)), o,
                                              issued'), issued', config.ref[o])
        /\ Stored(issued', c)
  BY FitsAssumption DEF SetCredential
<1>6. CASE /\ o \in Existing(config) \cup {Web}
           /\ Begin(c, "secret", WithRef(config, o, issued'), issued', config.ref[o])
  <2>1. o \in Providers => Exists(config, o)
    BY <1>6 DEF Existing, Distinct
  <2>2. Rekeyed(config, WithRef(config, o, issued'), o, issued')
    BY <1>2, <1>4, WithRefFields
  <2>3. Admitted(config, WithRef(config, o, issued'), issued', config.ref[o], gone)
    BY <1>2, <1>3, <1>4, <2>1, <2>2, RekeyedAdmitted
  <2> QED
    BY <1>1, <1>3, <1>5, <1>6, <2>3, RekeyStore
<1>7. CASE /\ o # Web
           /\ \E model \in {"off", "on", "default"}, fit \in SUBSET Marks :
                Begin(c, "secret", WithRef(Compatible(Updated(config, o, model, fit, FALSE)), o,
                                           issued'), issued', config.ref[o])
  <2>1. PICK model \in {"off", "on", "default"}, fit \in SUBSET Marks :
          Begin(c, "secret", WithRef(Compatible(Updated(config, o, model, fit, FALSE)), o, issued'),
                issued', config.ref[o])
    BY <1>7
  <2> DEFINE u == Updated(config, o, model, fit, FALSE)
             t == Compatible(u)
  <2>2. o \in Providers \ gone
    BY <1>7 DEF Owners
  <2>3. Kept(config, u, o)
    BY <1>2, <2>2, UpdatedFields
  <2> HIDE DEF u
  <2>4. Tidied(t, u) /\ t \in Configs
    BY <2>3, CompatibleFields DEF Kept, Tidied
  <2> HIDE DEF t
  <2>5. Edited(config, t, gone)
    BY <1>2, <2>2, <2>3, <2>4, TidiedEdited
  <2>6. Exists(t, o)
    BY <2>3, <2>4 DEF Kept, Tidied, Exists
  <2>7. Rekeyed(t, WithRef(t, o, issued'), o, issued')
    BY <1>4, <2>4, WithRefFields
  <2>8. Admitted(config, WithRef(t, o, issued'), issued', config.ref[o], gone)
    BY <1>2, <1>3, <1>4, <2>5, <2>6, <2>7, RekeyedAdmitted
  <2>9. Begin(c, "secret", WithRef(t, o, issued'), issued', config.ref[o])
    BY <2>1 DEF t, u
  <2> QED
    BY <1>1, <1>3, <1>5, <2>8, <2>9, RekeyStore
<1> QED
  BY <1>5, <1>6, <1>7

\* The file is read again: it is in force already, or repaired.
LEMMA ReloadStore ==
  ASSUME Store, NEW c \in Clients, ReloadFromDisk(c)
  PROVE  Store'
<1>1. /\ Turn(c) /\ file = config /\ config \in Configs /\ Sound(config)
  BY DEF ReloadFromDisk, Store, Types, Files
<1>2. CASE Repaired(file) = file
  BY <1>1, <1>2, StoreUnchanged DEF ReloadFromDisk
<1>3. CASE Repaired(file) # file
  <2>1. Write(c, Repaired(config), NoRef)
    BY <1>1, <1>3 DEF ReloadFromDisk, Write
  <2>2. Tidied(Repaired(config), config)
    BY <1>1, RepairedFields
  <2>3. Edited(config, Repaired(config), gone)
    BY <1>1, <2>2 DEF Tidied, Edited, Sound, Enabled, Exists
  <2>4. Admitted(config, Repaired(config), NoRef, NoRef, gone)
    BY <2>3, StoreGiven, EditedAdmitted
  <2> QED
    BY <1>1, <2>1, <2>4, WriteStore DEF NoRef
<1> QED
  BY <1>2, <1>3

------------------------------------------------------------------------------
(* The routes. *)

\* Somebody waits for the read of Provider o, and it reads the key that o had when the
\* routes were begun.
Expected(r, rd, o) ==
  o \in Providers /\ r.at \in {"main", "approval", "plan"} /\ rd[o].ref = r.base.ref[o]

\* Route r and reads rd under configuration c: the configuration r began with has moved on to
\* c, and r has its keys.
Freezing(r, rd, c, g) ==
  /\ r \in Routes /\ rd \in [Owners -> Reads]
  /\ r.at # "idle" => /\ r.base \in Configs /\ Moves(r.base, c)
                      /\ \A p \in Providers : Exists(r.base, p) /\ ~Exists(c, p) => p \in g
  /\ r.at \in {"main", "approval"} =>
       /\ r.main \in Providers
       /\ \A o, q \in Owners : rd[o].wanted /\ rd[q].wanted => o = q
  /\ \A o \in Owners : rd[o].wanted => Expected(r, rd, o)
  /\ \A o \in Owners : rd[o].at = "decrypt" => rd[o].ref \in Refs
  /\ \A b \in r.got : b.key = r.base.ref[b.p]

Frozen == Freezing(route, read, config, gone)

\* A capture at the revision of the route takes the key of the route.
LEMMA CaptureExpected ==
  ASSUME Store, NEW r \in Routes, r.base \in Configs, Moves(r.base, config),
         NEW p \in Providers, Resolvable(r.base, p)
  PROVE  /\ Capture(p) \in Reads /\ Capture(p).ref = r.base.ref[p]
         /\ Capture(p).ref \in Refs /\ Capture(p).wanted
BY DEF Store, Types, Files, Moves, Resolvable, AtRevision, Capture, Reads, Refs

\* A freeze that is over leaves nobody waiting.
LEMMA RefusedFrozen ==
  ASSUME NEW rd \in [Owners -> Reads], Refused(rd), NEW c, NEW g,
         \A o \in Owners : rd[o].at = "decrypt" => rd[o].ref \in Refs
  PROVE  Freezing(route', read', c, g)
<1>1. route' = NoRoute /\ NoRoute \in Routes
  BY DEF Refused, NoRoute, Routes
<1>2. /\ read' \in [Owners -> Reads] /\ \A o \in Owners : ~read'[o].wanted
      /\ \A o \in Owners : read'[o].at = "decrypt" => read'[o].ref \in Refs
  BY DEF Refused, NoRead, Reads, NoRef
<1> QED
  BY <1>1, <1>2 DEF Freezing, NoRoute

\* The approval route is asked for when nothing else is.
LEMMA ApproveFrozen ==
  ASSUME Store, NEW r, NEW rd, Freezing(r, rd, config, gone),
         r.at \in {"main", "approval"}, \A o \in Owners : ~rd[o].wanted, Approve(r, rd)
  PROVE  Freezing(route', read', config, gone)
<1>1. /\ r \in Routes /\ rd \in [Owners -> Reads] /\ r.base \in Configs /\ Moves(r.base, config)
      /\ r.main \in Providers /\ r.aux \in Providers \cup {None}
  BY DEF Freezing, Routes
<1>2. ASSUME NEW p \in Providers, NEW aux \in Providers \cup {None}, Resolvable(r.base, p),
             route' = [r EXCEPT !.at = "approval", !.aux = aux],
             read' = [rd EXCEPT ![p] = Capture(p)]
      PROVE  Freezing(route', read', config, gone)
  <2>1. /\ Capture(p) \in Reads /\ Capture(p).ref = r.base.ref[p]
        /\ Capture(p).ref \in Refs /\ Capture(p).wanted
    BY <1>1, <1>2, CaptureExpected
  <2>2. /\ route' \in Routes /\ route'.at = "approval" /\ route'.base = r.base
        /\ route'.main = r.main /\ route'.got = r.got
    BY <1>1, <1>2 DEF Routes
  <2>3. /\ read' \in [Owners -> Reads] /\ read'[p] = Capture(p) /\ p \in Owners
        /\ \A o \in Owners \ {p} : read'[o] = rd[o]
    BY <1>1, <1>2, <2>1 DEF Owners
  <2> QED
    BY <1>1, <2>1, <2>2, <2>3 DEF Freezing, Expected
<1>3. CASE r.aux # None /\ Resolvable(r.base, r.aux)
  <2>1. /\ route' = [r EXCEPT !.at = "approval", !.aux = r.aux]
        /\ read' = [rd EXCEPT ![r.aux] = Capture(r.aux)]
    BY <1>3 DEF Approve
  <2> QED
    BY <1>1, <1>2, <1>3, <2>1
<1>4. CASE ~(r.aux # None /\ Resolvable(r.base, r.aux)) /\ Resolvable(r.base, r.main)
  <2>1. /\ route' = [r EXCEPT !.at = "approval", !.aux = None]
        /\ read' = [rd EXCEPT ![r.main] = Capture(r.main)]
    BY <1>4 DEF Approve
  <2> QED
    BY <1>1, <1>2, <1>4, <2>1
<1>5. CASE ~(r.aux # None /\ Resolvable(r.base, r.aux)) /\ ~Resolvable(r.base, r.main)
  <2>1. Refused(rd)
    BY <1>5 DEF Approve
  <2> QED
    BY <2>1, RefusedFrozen DEF Freezing
<1> QED
  BY <1>3, <1>4, <1>5

\* A read that is over.
LEMMA Ended ==
  ASSUME Frozen, NEW o \in Owners
  PROVE  /\ [read EXCEPT ![o] = NoRead] \in [Owners -> Reads]
         /\ ~[read EXCEPT ![o] = NoRead][o].wanted
         /\ \A q \in Owners \ {o} : [read EXCEPT ![o] = NoRead][q] = read[q]
         /\ Freezing(route, [read EXCEPT ![o] = NoRead], config, gone)
<1> DEFINE rd == [read EXCEPT ![o] = NoRead]
<1>1. /\ rd \in [Owners -> Reads] /\ ~rd[o].wanted /\ rd[o].at = "idle"
      /\ \A q \in Owners \ {o} : rd[q] = read[q]
  BY DEF Frozen, Freezing, NoRead, Reads, NoRef
<1> HIDE DEF rd
<1>2. Freezing(route, rd, config, gone)
  BY <1>1 DEF Frozen, Freezing, Expected
<1> QED
  BY <1>1, <1>2 DEF rd

\* It ended with its secret.
LEMMA AnsweredFrozen ==
  ASSUME Store, Frozen, NEW o \in Owners, Answered(o)
  PROVE  Freezing(route', read', config, gone)
<1> DEFINE rd == [read EXCEPT ![o] = NoRead]
           bound == [p |-> o, key |-> read[o].ref]
           with == [route EXCEPT !.got = @ \cup {bound}]
           more == \E p \in Providers : rd[p] # NoRead /\ rd[p].wanted
<1>1. /\ rd \in [Owners -> Reads] /\ ~rd[o].wanted
      /\ \A q \in Owners \ {o} : rd[q] = read[q]
      /\ Freezing(route, rd, config, gone)
  BY Ended
<1>2. CASE ~read[o].wanted
  BY <1>1, <1>2 DEF Answered
<1>3. CASE read[o].wanted
  <2>1. Expected(route, read, o) /\ route \in Routes /\ read[o] \in Reads
    BY <1>3 DEF Frozen, Freezing
  <2>2. bound \in [p : Owners, key : Nat] /\ bound.p = o /\ bound.key = route.base.ref[o]
    BY <2>1 DEF Expected, Reads
  <2> HIDE DEF bound
  <2>3. /\ with \in Routes /\ with.at = route.at /\ with.base = route.base
        /\ with.main = route.main /\ with.got = route.got \cup {bound}
    BY <2>1, <2>2 DEF Routes
  <2> HIDE DEF rd, with
  <2>4. Freezing(with, rd, config, gone)
    BY <1>1, <2>2, <2>3 DEF Freezing, Expected
  <2>5. CASE route.at = "main"
    <3>1. \A q \in Owners : ~rd[q].wanted
      BY <1>1, <1>3, <2>5 DEF Frozen, Freezing
    <3>2. Approve(with, rd)
      BY <1>3, <2>5 DEF Answered, with, bound, rd
    <3> QED
      BY <2>3, <2>4, <2>5, <3>1, <3>2, ApproveFrozen
  <2>6. CASE Refused(rd)
    BY <1>1, <2>6, RefusedFrozen DEF Freezing
  <2>7. CASE read' = rd /\ route' = with
    BY <2>4, <2>7
  <2>8. CASE ~(route.at = "plan" /\ more) /\ route.at # "main"
             /\ read' = rd /\ route' = [with EXCEPT !.at = "done"]
    <3>1. route.at \in {"approval", "plan"}
      BY <2>1, <2>8 DEF Expected
    <3>2. \A q \in Owners : ~rd[q].wanted
      <4>1. CASE route.at = "approval"
        BY <1>1, <1>3, <4>1 DEF Frozen, Freezing
      <4>2. CASE route.at = "plan"
        <5>1. ~more
          BY <2>8, <4>2
        <5>2. \A q \in Owners : rd[q].wanted => q \in Providers
          BY <1>1 DEF Freezing, Expected
        <5>3. ~NoRead.wanted
          BY DEF NoRead
        <5> QED
          BY <5>1, <5>2, <5>3
      <4> QED
        BY <3>1, <4>1, <4>2
    <3>3. /\ route' \in Routes /\ route'.at = "done" /\ route'.base = with.base
          /\ route'.got = with.got
      BY <2>3, <2>8 DEF Routes
    <3> QED
      BY <2>3, <2>4, <2>8, <3>1, <3>2, <3>3 DEF Freezing
  <2> QED
    BY <1>3, <2>5, <2>6, <2>7, <2>8 DEF Answered, with, bound, rd
<1> QED
  BY <1>2, <1>3

\* It ended with an error.
LEMMA FailedFrozen ==
  ASSUME Store, Frozen, NEW o \in Owners, Failed(o)
  PROVE  Freezing(route', read', config, gone)
<1> DEFINE rd == [read EXCEPT ![o] = NoRead]
           again == [route EXCEPT !.aux = None]
<1>1. /\ rd \in [Owners -> Reads] /\ ~rd[o].wanted
      /\ \A q \in Owners \ {o} : rd[q] = read[q]
      /\ Freezing(route, rd, config, gone)
  BY Ended
<1>2. CASE ~read[o].wanted
  BY <1>1, <1>2 DEF Failed
<1>3. CASE read[o].wanted /\ route.at = "approval" /\ route.aux # None
  <2>1. Approve(again, rd)
    BY <1>3 DEF Failed
  <2>2. /\ again \in Routes /\ again.at = route.at /\ again.base = route.base
        /\ again.main = route.main /\ again.got = route.got
    BY DEF Frozen, Freezing, Routes
  <2> HIDE DEF rd, again
  <2>3. \A q \in Owners : ~rd[q].wanted
    BY <1>1, <1>3 DEF Frozen, Freezing
  <2>4. Freezing(again, rd, config, gone)
    BY <1>1, <2>2 DEF Freezing, Expected
  <2> QED
    BY <1>3, <2>1, <2>2, <2>3, <2>4, ApproveFrozen
<1>4. CASE read[o].wanted /\ ~(route.at = "approval" /\ route.aux # None)
  <2>1. Refused(rd)
    BY <1>4 DEF Failed
  <2> HIDE DEF rd
  <2> QED
    BY <1>1, <2>1, RefusedFrozen DEF Freezing
<1> QED
  BY <1>2, <1>3, <1>4

\* A freeze begins with captures of the configuration it is taken from.
LEMMA FreezeFrozen ==
  ASSUME Store, Frozen, FreezeRun \/ FreezePlan
  PROVE  Frozen'
<1>1. UNCHANGED <<config, gone>> /\ config \in Configs /\ route.at = "idle"
  BY DEF FreezeRun, FreezePlan, Freeze, Store, Types
<1>2. read \in [Owners -> Reads] /\ \A o \in Owners : ~read[o].wanted
  BY <1>1 DEF Frozen, Freezing, Expected
<1>3. Moves(config, config)
  BY DEF Moves, Store, Types, Configs, Prov
<1>4. ASSUME NEW r \in Routes, r.base = config, r.got = {}, r.at \in {"main", "plan"},
             NEW P \in SUBSET Providers, Freeze(r, P),
             r.at = "main" => r.main \in Providers /\ \E p \in Providers : P = {p}
      PROVE  Frozen'
  <2>1. /\ route' = r
        /\ read' = [o \in Owners |-> IF o \in P THEN Capture(o) ELSE read[o]]
        /\ \A p \in P : Resolvable(config, p)
    BY <1>4 DEF Freeze
  <2>2. \A p \in P : /\ Capture(p) \in Reads /\ Capture(p).ref = config.ref[p]
                     /\ Capture(p).ref \in Refs
    BY <1>1, <1>3, <1>4, <2>1, CaptureExpected
  <2>3. /\ read' \in [Owners -> Reads] /\ P \subseteq Owners
        /\ \A o \in P : read'[o] = Capture(o)
        /\ \A o \in Owners \ P : read'[o] = read[o]
    BY <1>2, <2>1, <2>2 DEF Owners
  <2>4. \A o \in Owners : read'[o].wanted => o \in P
    BY <1>2, <2>3
  <2> QED
    BY <1>1, <1>2, <1>3, <1>4, <2>1, <2>2, <2>3, <2>4 DEF Frozen, Freezing, Expected
<1>5. CASE FreezeRun
  <2>1. PICK p \in Providers :
          Freeze([at |-> "main", base |-> config, main |-> p, aux |-> config.aux, got |-> {}], {p})
    BY <1>5 DEF FreezeRun
  <2>2. [at |-> "main", base |-> config, main |-> p, aux |-> config.aux, got |-> {}] \in Routes
    BY <1>1, Fields DEF Routes
  <2> QED
    BY <1>4, <2>1, <2>2
<1>6. CASE FreezePlan
  <2>1. PICK P \in SUBSET config.pool : Freeze([NoRoute EXCEPT !.at = "plan", !.base = config], P)
    BY <1>6 DEF FreezePlan
  <2> DEFINE r == [NoRoute EXCEPT !.at = "plan", !.base = config]
  <2>2. r \in Routes /\ r.at = "plan" /\ r.base = config /\ r.got = {}
    BY <1>1 DEF Routes, NoRoute
  <2>3. P \in SUBSET Providers
    BY <1>1, Fields
  <2>4. Freeze(r, P)
    BY <2>1
  <2> HIDE DEF r
  <2> QED
    BY <1>4, <2>2, <2>3, <2>4
<1> QED
  BY <1>5, <1>6

\* The other steps of reads and routes.
LEMMA ReadFrozen ==
  ASSUME Store, Frozen, Distinct,
         \/ ReadWebKey \/ RoutesTaken
         \/ \E o \in Owners : KeyRead(o) \/ KeyUnreadable(o) \/ Reencrypt(o)
  PROVE  Frozen'
<1>1. CASE ReadWebKey
  <2> DEFINE new == [Capture(Web) EXCEPT !.wanted = FALSE]
  <2>1. /\ read' = [read EXCEPT ![Web] = new] /\ config.ref[Web] \in records
        /\ UNCHANGED <<config, gone, route>>
    BY <1>1 DEF ReadWebKey
  <2>2. new \in Reads /\ ~new.wanted /\ new.ref \in Refs
    BY <2>1 DEF Capture, Reads, Refs, Store, Types
  <2> HIDE DEF new
  <2> QED
    BY <2>1, <2>2 DEF Frozen, Freezing, Expected, Owners
<1>2. CASE RoutesTaken
  <2>1. /\ route' = NoRoute /\ NoRoute \in Routes /\ route.at = "done"
        /\ UNCHANGED <<config, gone, read>>
    BY <1>2 DEF RoutesTaken, NoRoute, Routes
  <2> QED
    BY <2>1 DEF Frozen, Freezing, Expected, NoRoute
<1>3. ASSUME NEW o \in Owners, KeyRead(o) \/ KeyUnreadable(o) \/ Reencrypt(o) PROVE Frozen'
  <2>1. UNCHANGED <<config, gone>>
    BY <1>3 DEF KeyRead, KeyUnreadable, Reencrypt
  <2>2. CASE KeyRead(o)
    BY <2>1, <2>2, AnsweredFrozen DEF KeyRead, Frozen
  <2>3. CASE KeyUnreadable(o)
    BY <2>1, <2>3, FailedFrozen DEF KeyUnreadable, Frozen
  <2>4. CASE Reencrypt(o)
    <3>1. read' = [read EXCEPT ![o].at = "store"] /\ route' = route /\ read[o] \in Reads
      BY <2>4 DEF Reencrypt, Frozen, Freezing
    <3>2. /\ [read[o] EXCEPT !.at = "store"] \in Reads
          /\ [read[o] EXCEPT !.at = "store"].at = "store"
          /\ [read[o] EXCEPT !.at = "store"].ref = read[o].ref
          /\ [read[o] EXCEPT !.at = "store"].wanted = read[o].wanted
      BY <3>1 DEF Reads
    <3>3. read' = [read EXCEPT ![o] = [read[o] EXCEPT !.at = "store"]]
      BY <3>1
    <3>4. /\ read' \in [Owners -> Reads] /\ read'[o].at = "store"
          /\ read'[o].ref = read[o].ref /\ read'[o].wanted = read[o].wanted
          /\ \A q \in Owners \ {o} : read'[q] = read[q]
      BY <3>2, <3>3 DEF Frozen, Freezing
    <3> QED
      BY <2>1, <3>1, <3>4 DEF Frozen, Freezing, Expected
  <2> QED
    BY <1>3, <2>2, <2>3, <2>4
<1> QED
  BY <1>1, <1>2, <1>3

\* The routes keep up with a new configuration.
LEMMA ConfigWrittenFrozen ==
  ASSUME Store, Frozen, NEW c \in Clients, ConfigWritten(c)
  PROVE  Frozen'
<1> DEFINE next == job[c].next
<1>1. /\ config' = next /\ UNCHANGED <<read, route>>
      /\ gone' = gone \cup (Existing(config) \ Existing(next))
      /\ Admitted(config, next, job[c].made, job[c].prev, gone)
  BY DEF ConfigWritten, Store, Requests
<1> HIDE DEF next
<1>2. next \in Configs /\ Moves(config, next) /\ \A p \in gone : ~Exists(next, p)
  BY <1>1 DEF Admitted
<1>3. ASSUME route.at # "idle"
      PROVE  /\ route.base \in Configs /\ Moves(route.base, next)
             /\ \A p \in Providers : Exists(route.base, p) /\ ~Exists(next, p) => p \in gone'
  <2>1. /\ route.base \in Configs /\ Moves(route.base, config) /\ config \in Configs
        /\ \A p \in Providers : Exists(route.base, p) /\ ~Exists(config, p) => p \in gone
    BY <1>3 DEF Frozen, Freezing, Store, Types
  <2>2. \A p \in Providers : /\ route.base.prov[p].rev \in Nat /\ config.prov[p].rev \in Nat
                             /\ next.prov[p].rev \in Nat
    BY <1>2, <2>1, Fields
  <2>3. Moves(route.base, next)
    BY <1>2, <2>1, <2>2 DEF Moves, Exists
  <2> QED
    BY <1>1, <2>1, <2>3 DEF Existing
<1> QED
  BY <1>1, <1>3 DEF Frozen, Freezing, Expected

------------------------------------------------------------------------------
(* The two together. *)

Inv == Store /\ Frozen

\* It holds for the settings from earlier.
LEMMA InitInv ==
  ASSUME Init, Distinct
  PROVE  Inv
<1>1. PICK p \in Providers : \E a \in (Providers \ {p}) \cup {None} :
        /\ config = [prov |-> [q \in Providers |-> IF q \in {p, a}
                                                   THEN [rev |-> 1, model |-> "default", fit |-> Marks]
                                                   ELSE Absent],
                     ref |-> [o \in Owners |-> IF o = p THEN 1 ELSE IF o = a THEN 2 ELSE NoRef],
                     main |-> [p |-> p, named |-> TRUE], aux |-> a, pool |-> {p, a} \ {None}]
        /\ issued = Cardinality({p, a} \ {None})
  BY DEF Init
<1>2. PICK a \in (Providers \ {p}) \cup {None} :
        /\ config = [prov |-> [q \in Providers |-> IF q \in {p, a}
                                                   THEN [rev |-> 1, model |-> "default", fit |-> Marks]
                                                   ELSE Absent],
                     ref |-> [o \in Owners |-> IF o = p THEN 1 ELSE IF o = a THEN 2 ELSE NoRef],
                     main |-> [p |-> p, named |-> TRUE], aux |-> a, pool |-> {p, a} \ {None}]
        /\ issued = Cardinality({p, a} \ {None})
  BY <1>1
<1>3. /\ file = config /\ records = 1..issued /\ vault = records /\ writes = <<>> /\ gone = {}
      /\ job = [c \in Clients |-> NoJob] /\ read = [o \in Owners |-> NoRead] /\ route = NoRoute
  BY DEF Init
<1>4. \/ p # None /\ a # p /\ Web \notin {p, a}
      \/ a = None /\ p # None
  BY DEF Distinct
<1>5. issued = IF a = None THEN 1 ELSE 2
  <2>1. CASE a = None
    <3>1. {p, a} \ {None} = {p}
      BY <1>4, <2>1
    <3> QED
      BY <1>2, <2>1, <3>1, FS_Singleton
  <2>2. CASE a # None
    <3>1. {p, a} \ {None} = {p} \cup {a} /\ a \notin {p}
      BY <1>4, <2>2
    <3>2. IsFiniteSet({p}) /\ Cardinality({p}) = 1
      BY FS_Singleton
    <3>3. Cardinality({p} \cup {a}) = 2
      BY <3>1, <3>2, FS_AddElement
    <3> QED
      BY <1>2, <2>2, <3>1, <3>3
  <2> QED
    BY <2>1, <2>2
<1>6. /\ NoJob \in Jobs /\ NoJob.at = "idle" /\ NoRead \in Reads /\ ~NoRead.wanted
      /\ NoRead.at = "idle" /\ NoRoute \in Routes /\ NoRoute.at = "idle" /\ NoRoute.got = {}
  BY DEF NoJob, Jobs, NoRead, Reads, NoRoute, Routes, NoRef
<1>7. config \in Configs
  BY <1>2 DEF Configs, Prov, Roles, Absent, NoRef
<1>8. Types
  BY <1>3, <1>5, <1>6, <1>7 DEF Types, Refs, NoRef
<1>9. Sound(config)
  BY <1>2, <1>4 DEF Sound, Enabled, Exists, Absent, NoRef, Owners
<1>10. Files
  <2>1. \A o \in Owners : config.ref[o] \in 0..issued
    BY <1>2, <1>5 DEF NoRef, Distinct, Owners, None, Web
  <2>2. Held(config, records) /\ Held(config, vault)
    BY <1>3, <1>5, <2>1 DEF Held, NoRef
  <2>3. Len(writes) = 0
    BY <1>3
  <2>4. \A o \in Owners : config.ref[o] <= issued
    BY <1>5, <2>1
  <2> QED
    BY <1>3, <1>9, <2>2, <2>3, <2>4 DEF Files
<1>11. Requests /\ Secrets
  BY <1>3, <1>6 DEF Requests, Secrets
<1>12. Frozen
  BY <1>3, <1>6 DEF Frozen, Freezing
<1> QED
  BY <1>8, <1>10, <1>11, <1>12 DEF Inv, Store

\* It is kept by every step.
LEMMA NextInv ==
  ASSUME Inv, Distinct, [Next]_vars
  PROVE  Inv'
<1> USE DEF Inv
<1>1. ASSUME NEW c \in Clients, Change(c) PROVE Inv'
  <2>1. Store'
    BY <1>1, UpdateProviderStore, ModelStore, RoleStore, RemovalStore, SetCredentialStore,
       ReloadStore DEF Change
  <2>2. UNCHANGED <<read, route, gone>>
    BY <1>1 DEF Change, UpdateProvider, AddModel, DeleteModel, CopyProvider, DeleteProvider,
       ClearCredential, SetRoles, SetPool, SetCredential, ReloadFromDisk, Write
  <2>3. config' = config
    BY <1>1 DEF Change, UpdateProvider, AddModel, DeleteModel, CopyProvider, DeleteProvider,
       ClearCredential, SetRoles, SetPool, SetCredential, ReloadFromDisk, Write, Store, Files
  <2> QED
    BY <2>1, <2>2, <2>3 DEF Frozen
<1>2. ASSUME NEW c \in Clients, ConfigWritten(c) PROVE Inv'
  BY <1>2, ConfigWrittenStore, ConfigWrittenFrozen
<1>3. ASSUME NEW c \in Clients, ConfigFailed(c) PROVE Inv'
  <2>1. UNCHANGED <<config, gone, read, route>>
    BY <1>3 DEF ConfigFailed
  <2> QED
    BY <1>3, <2>1, ConfigFailedStore DEF Frozen
<1>4. CASE FreezeRun \/ FreezePlan
  BY <1>4, FreezeFrozen, StoreUnchanged DEF FreezeRun, FreezePlan, Freeze
<1>5. CASE ReadWebKey \/ RoutesTaken
  BY <1>5, ReadFrozen, StoreUnchanged DEF ReadWebKey, RoutesTaken
<1>6. ASSUME NEW o \in Owners, KeyRead(o) \/ KeyUnreadable(o) PROVE Inv'
  BY <1>6, ReadFrozen, StoreUnchanged DEF KeyRead, KeyUnreadable
<1>7. ASSUME NEW o \in Owners, Reencrypt(o) PROVE Inv'
  <2>1. read[o].ref \in Refs
    BY <1>7 DEF Reencrypt, Frozen, Freezing
  <2>2. Store'
    BY <1>7, <2>1, ReencryptStore DEF Reencrypt
  <2> QED
    BY <1>7, <2>2, ReadFrozen
<1>8. CASE SecretWritten
  <2>1. UNCHANGED <<config, gone>>
    BY <1>8 DEF SecretWritten
  <2>2. CASE Head(writes).by \in Clients
    BY <1>8, <2>1, <2>2, SecretWrittenStore DEF SecretWritten, Frozen
  <2>3. CASE Head(writes).by \notin Clients
    <3>1. Head(writes).by \in Owners
      BY <1>8, <2>3, Taken DEF SecretWritten, Store, Types, Snapshots
    <3> QED
      BY <1>8, <2>1, <2>3, <3>1, SecretWrittenStore, AnsweredFrozen DEF SecretWritten, Frozen
  <2> QED
    BY <2>2, <2>3
<1>9. CASE SecretFailed
  <2>1. UNCHANGED <<config, gone>>
    BY <1>9 DEF SecretFailed
  <2>2. CASE Head(writes).by \in Clients
    BY <1>9, <2>1, <2>2, SecretFailedStore DEF SecretFailed, Frozen
  <2>3. CASE Head(writes).by \notin Clients
    <3>1. Head(writes).by \in Owners
      BY <1>9, <2>3, Taken DEF SecretFailed, Store, Types, Snapshots
    <3> QED
      BY <1>9, <2>1, <2>3, <3>1, SecretFailedStore, FailedFrozen DEF SecretFailed, Frozen
  <2> QED
    BY <2>2, <2>3
<1>10. CASE Crash
  <2>1. /\ read' = [o \in Owners |-> NoRead] /\ NoRead \in Reads /\ ~NoRead.wanted
        /\ NoRead.at = "idle" /\ route' = NoRoute /\ NoRoute \in Routes
        /\ NoRoute.at = "idle" /\ NoRoute.got = {}
    BY <1>10 DEF Crash, NoRead, Reads, NoRoute, Routes, NoRef
  <2>2. Frozen'
    BY <2>1 DEF Frozen, Freezing
  <2> QED
    BY <1>10, <2>2, CrashStore
<1>11. CASE UNCHANGED vars
  BY <1>11, StoreUnchanged DEF vars, Frozen
<1> QED
  BY <1>1, <1>2, <1>3, <1>4, <1>5, <1>6, <1>7, <1>8, <1>9, <1>10, <1>11 DEF Next

\* It says what the properties say.
LEMMA InvSays ==
  ASSUME Inv
  PROVE  CredentialsAreThere /\ RoutesAreWhole
<1>1. CredentialsAreThere
  BY HeldRefs DEF Inv, Store, Files, Sound, CredentialsAreThere
<1>2. RoutesAreWhole
  BY DEF Inv, Frozen, Freezing, RoutesAreWhole
<1> QED
  BY <1>1, <1>2

\* The secrets that the configuration names are in memory and on disk, and what the pool
\* enables has a Provider, an enabled model and a key: #writeConfig, SecretStore.set and
\* delete, and a crash between them.
THEOREM SafeCredentials ==
  ASSUME Distinct
  PROVE  Spec => []CredentialsAreThere
<1>1. Init => Inv
  BY InitInv
<1>2. Inv /\ [Next]_vars => Inv'
  BY NextInv
<1>3. Inv => CredentialsAreThere
  BY InvSays
<1> QED
  BY <1>1, <1>2, <1>3, PTL DEF Spec

\* The routes that resolveRunRoutes and freezeModelPoolPlan return have the keys of the
\* configuration they were taken from, however the Providers change meanwhile.
THEOREM SafeRoutes ==
  ASSUME Distinct
  PROVE  Spec => []RoutesAreWhole
<1>1. Init => Inv
  BY InitInv
<1>2. Inv /\ [Next]_vars => Inv'
  BY NextInv
<1>3. Inv => RoutesAreWhole
  BY InvSays
<1> QED
  BY <1>1, <1>2, <1>3, PTL DEF Spec

------------------------------------------------------------------------------
(* The secrets that were let go. *)

\* The secrets a request has made, and those it will let go.
Flying == {job[c].made : c \in Clients} \cup {job[c].prev : c \in Clients}

\* The secrets anybody knows of.
Known == RefsOf(config) \cup stray \cup Flying

InForce == RefsOf(config) \cup {NoRef}

\* The secret whose removal a request awaits.
Leaving(j) == IF j.at = "undo" THEN j.made ELSE j.prev

\* Nothing is stored but what somebody knows of.
NothingElse ==
  /\ records \subseteq Known /\ vault \subseteq Known
  /\ \A i \in 1..Len(writes) : writes[i].data \subseteq Known

\* A read that may store its secret again reads one that is in force, or was let go since.
ReadsKnown == \A o \in Owners : read[o].at = "decrypt" => read[o].ref \in RefsOf(config) \cup stray

\* The secret that a request does not let go is in force, or it has none.
RequestsKeep ==
  \A c \in Clients :
    /\ job[c].at = "idle" => job[c].made = NoRef /\ job[c].prev = NoRef
    /\ job[c].at = "undo" => job[c].prev \in InForce
    /\ job[c].at = "drop" => job[c].made \in InForce

\* Secret r is in no snapshot from number i on, unless a read stored it again.
GoneFrom(q, i, r, s) == \A k \in i..Len(q) : r \in q[k].data => r \in s

\* The one that it lets go is gone from memory, and from its snapshot and those behind it.
RequestsRemove ==
  \A c \in Clients : job[c].at \in {"undo", "drop"} =>
    /\ Leaving(job[c]) \notin RefsOf(config)
    /\ Leaving(job[c]) \in records => Leaving(job[c]) \in stray
    /\ \A i \in 1..Len(writes) : writes[i].by = c => GoneFrom(writes, i, Leaving(job[c]), stray)

Removed == NothingElse /\ ReadsKnown /\ RequestsKeep /\ RequestsRemove

\* What is removed stays so while nothing is stored and nothing is let go.
LEMMA RemovedSame ==
  ASSUME Removed, UNCHANGED <<config, records, vault, writes, job, stray>>, ReadsKnown'
  PROVE  Removed'
BY DEF Removed, NothingElse, RequestsKeep, RequestsRemove, Known, Flying, InForce, RefsOf,
       GoneFrom, Leaving

\* Who else is there but the one request has no secrets.
LEMMA OthersIdle ==
  ASSUME Store, Removed, NEW c \in Clients, job[c].at # "idle"
  PROVE  \A d \in Clients \ {c} : job[d].at = "idle" /\ job[d].made = NoRef /\ job[d].prev = NoRef
BY DEF Store, Requests, Removed, RequestsKeep

\* A secret that is stored is of use, or strays, or is of the request in progress.
LEMMA KnownOf ==
  ASSUME Store, Removed, NEW c \in Clients, job[c].at # "idle",
         NEW r \in Refs, r \in Known
  PROVE  r \in RefsOf(config) \/ r \in stray \/ r = job[c].made \/ r = job[c].prev
<1>1. \A d \in Clients \ {c} : job[d].made = NoRef /\ job[d].prev = NoRef
  BY OthersIdle
<1> QED
  BY <1>1 DEF Known, Flying, Refs

\* The secret that a request will let go is in force until then.
LEMMA PrevInForce ==
  ASSUME Store, Removed, NEW c \in Clients, job[c].at # "drop"
  PROVE  job[c].prev \in InForce
<1>1. CASE job[c].at \in {"secret", "config"}
  <2>1. job[c].prev # NoRef => \E o \in Owners : config.ref[o] = job[c].prev
    BY <1>1 DEF Store, Requests, Admitted
  <2> QED
    BY <2>1 DEF InForce, RefsOf
<1>2. CASE job[c].at \in {"idle", "undo"}
  BY <1>2 DEF Removed, RequestsKeep, InForce
<1> QED
  BY <1>1, <1>2 DEF Store, Types, Jobs

\* A request begins.
LEMMA BegunRemoved ==
  ASSUME Store, Removed, NEW c \in Clients, Turn(c), NEW j \in Jobs,
         j.at \in {"secret", "config"}, job' = [job EXCEPT ![c] = j],
         UNCHANGED <<config, vault, read, stray>>,
         \/ UNCHANGED <<records, writes>>
         \/ Stored(j.made, c)
  PROVE  Removed'
<1>1. /\ job'[c] = j /\ \A d \in Clients \ {c} : job'[d] = job[d]
      /\ \A d \in Clients : job[d].at = "idle" /\ job[d].made = NoRef /\ job[d].prev = NoRef
  BY DEF Store, Types, Turn, Removed, RequestsKeep
<1>2. Known \ {NoRef} \subseteq Known' /\ j.made \in Known'
  BY <1>1 DEF Known, Flying, RefsOf
<1>3. /\ records \subseteq Known' /\ vault' \subseteq Known'
      /\ \A i \in 1..Len(writes) : writes[i].data \subseteq Known'
  <2>1. /\ records \subseteq Refs /\ vault \subseteq Refs
        /\ \A i \in 1..Len(writes) : writes[i].data \subseteq Refs
    <3>1. \A i \in 1..Len(writes) : writes[i] \in Snapshots
      BY DEF Store, Types
    <3> QED
      BY <3>1 DEF Store, Types, Snapshots
  <2> QED
    BY <1>2, <2>1 DEF Removed, NothingElse, Refs
<1>4. NothingElse'
  <2>1. CASE UNCHANGED <<records, writes>>
    BY <1>3, <2>1 DEF NothingElse
  <2>2. CASE Stored(j.made, c)
    <3> DEFINE x == [data |-> records', by |-> c]
    <3>1. records' \subseteq Known'
      BY <1>2, <1>3, <2>2 DEF Stored
    <3>2. writes' = Append(writes, x) /\ writes \in Seq(Snapshots) /\ x.data = records'
      BY <2>2 DEF Stored, Store, Types
    <3> HIDE DEF x
    <3>3. \A i \in 1..Len(writes') : writes'[i] = x \/ \E k \in 1..Len(writes) : writes'[i] = writes[k]
      BY <3>2
    <3> QED
      BY <1>3, <3>1, <3>2, <3>3 DEF NothingElse
  <2> QED
    BY <2>1, <2>2
<1>5. ReadsKnown'
  BY DEF Removed, ReadsKnown, RefsOf
<1>6. RequestsKeep' /\ RequestsRemove'
  BY <1>1 DEF RequestsKeep, RequestsRemove
<1> QED
  BY <1>4, <1>5, <1>6 DEF Removed

\* Every request that begins does it like that.
LEMMA ChangeRemoved ==
  ASSUME Store, Store', Removed, NEW c \in Clients, Change(c)
  PROVE  Removed'
<1>1. Turn(c)
  <2>1. UpdateProvider(c) \/ AddModel(c) \/ DeleteModel(c) \/ CopyProvider(c) => Turn(c)
    BY Zenon DEF UpdateProvider, AddModel, DeleteModel, CopyProvider
  <2>2. DeleteProvider(c) \/ ClearCredential(c) \/ SetRoles(c) \/ SetPool(c) => Turn(c)
    BY Zenon DEF DeleteProvider, ClearCredential, SetRoles, SetPool
  <2>3. SetCredential(c) \/ ReloadFromDisk(c) => Turn(c)
    BY Zenon DEF SetCredential, ReloadFromDisk
  <2> QED
    BY <2>1, <2>2, <2>3 DEF Change
<1>2. job' \in [Clients -> Jobs]
  BY DEF Store, Types
<1>3. ASSUME NEW at \in {"secret", "config"}, NEW b, NEW m, NEW v, Begin(c, at, b, m, v),
             UNCHANGED <<config, vault, read, stray>>,
             UNCHANGED <<records, writes>> \/ Stored(m, c)
      PROVE  Removed'
  <2> DEFINE j == [at |-> at, next |-> b, made |-> m, prev |-> v]
  <2>1. job' = [job EXCEPT ![c] = j] /\ j.at = at /\ j.made = m
    BY <1>3 DEF Begin
  <2> HIDE DEF j
  <2>2. j \in Jobs
    BY <1>2, <2>1 DEF Store, Types
  <2> QED
    BY <1>1, <1>3, <2>1, <2>2, BegunRemoved
<1>4. ASSUME NEW b, NEW v, Write(c, b, v) PROVE Removed'
  <2>1. /\ Begin(c, "config", b, NoRef, v) /\ UNCHANGED <<records, writes>>
        /\ UNCHANGED <<config, vault, read, stray>>
    BY <1>4 DEF Write
  <2> QED
    BY <1>3, <2>1
<1>5. CASE SetCredential(c)
  <2>1. UNCHANGED <<config, vault, read, stray>> /\ Stored(issued', c)
    BY <1>5 DEF SetCredential
  <2>2. \E b, v : Begin(c, "secret", b, issued', v)
    BY <1>5 DEF SetCredential
  <2> QED
    BY <1>3, <2>1, <2>2
<1>6. CASE ReloadFromDisk(c)
  <2>1. UNCHANGED <<config, vault, read, stray, records, writes>>
    BY <1>6 DEF ReloadFromDisk, Store, Files
  <2>2. CASE Repaired(file) = file
    <3>1. UNCHANGED job
      BY <1>6, <2>2 DEF ReloadFromDisk
    <3>2. ReadsKnown'
      BY <2>1 DEF Removed, ReadsKnown, RefsOf
    <3> QED
      BY <2>1, <3>1, <3>2, RemovedSame
  <2>3. CASE Repaired(file) # file
    <3>1. Begin(c, "config", Repaired(file), NoRef, NoRef)
      BY <1>6, <2>3 DEF ReloadFromDisk
    <3> QED
      BY <1>3, <2>1, <3>1
  <2> QED
    BY <2>2, <2>3
<1>7. CASE UpdateProvider(c)
  <2>1. \E b, v : Write(c, b, v)
    BY <1>7 DEF UpdateProvider
  <2> QED
    BY <1>4, <2>1
<1>8. CASE AddModel(c) \/ DeleteModel(c) \/ CopyProvider(c)
  <2>1. \E b, v : Write(c, b, v)
    BY <1>8 DEF AddModel, DeleteModel, CopyProvider
  <2> QED
    BY <1>4, <2>1
<1>9. CASE DeleteProvider(c) \/ ClearCredential(c)
  <2>1. \E b, v : Write(c, b, v)
    BY <1>9, Zenon DEF DeleteProvider, ClearCredential
  <2> QED
    BY <1>4, <2>1
<1>10. CASE SetRoles(c) \/ SetPool(c)
  <2>1. \E b, v : Write(c, b, v)
    BY <1>10, Zenon DEF SetRoles, SetPool
  <2> QED
    BY <1>4, <2>1
<1> QED
  BY <1>5, <1>6, <1>7, <1>8, <1>9, <1>10 DEF Change

\* A read that goes on reads what it did, or starts with the secret in force.
GoesOn(rd) ==
  \A q \in Owners : rd[q].at = "decrypt" =>
    \/ read[q].at = "decrypt" /\ rd[q].ref = read[q].ref
    \/ rd[q].ref = config.ref[q] /\ rd[q].ref \in records

\* Then it is known, as long as what is in force is, or strays.
LEMMA GoesOnKnown ==
  ASSUME Store, Removed, GoesOn(read'), stray \subseteq stray', config' = config
  PROVE  ReadsKnown'
<1> SUFFICES ASSUME NEW q \in Owners, read'[q].at = "decrypt"
             PROVE  read'[q].ref \in RefsOf(config) \cup stray'
  BY DEF ReadsKnown, RefsOf
<1>1. CASE read[q].at = "decrypt" /\ read'[q].ref = read[q].ref
  BY <1>1 DEF Removed, ReadsKnown
<1>2. CASE read'[q].ref = config.ref[q] /\ read'[q].ref \in records
  BY <1>2 DEF Store, Types, Refs, RefsOf
<1> QED
  BY <1>1, <1>2 DEF GoesOn

LEMMA RefusedGoesOn ==
  ASSUME NEW rd \in [Owners -> Reads], GoesOn(rd), Refused(rd)
  PROVE  GoesOn(read')
<1>1. read' = [q \in Owners |-> IF rd[q] = NoRead THEN NoRead ELSE [rd[q] EXCEPT !.wanted = FALSE]]
  BY DEF Refused
<1>2. ASSUME NEW q \in Owners PROVE read'[q].at = rd[q].at /\ read'[q].ref = rd[q].ref
  BY <1>1, <1>2 DEF Reads
<1> QED
  BY <1>2 DEF GoesOn

LEMMA ApproveGoesOn ==
  ASSUME NEW r, NEW rd \in [Owners -> Reads], GoesOn(rd), Approve(r, rd)
  PROVE  GoesOn(read')
<1>1. ASSUME NEW p, Resolvable(r.base, p), read' = [rd EXCEPT ![p] = Capture(p)]
      PROVE  GoesOn(read')
  <2>1. config.ref[p] \in records /\ Capture(p).ref = config.ref[p]
    BY <1>1 DEF Resolvable, Capture
  <2>2. ASSUME NEW q \in Owners PROVE read'[q] = IF q = p THEN Capture(p) ELSE rd[q]
    BY <1>1
  <2> QED
    BY <2>1, <2>2 DEF GoesOn
<1> QED
  BY <1>1, RefusedGoesOn DEF Approve

\* However a read ends, the others go on.
LEMMA EndedGoesOn ==
  ASSUME Frozen, NEW o \in Owners, Answered(o) \/ Failed(o)
  PROVE  GoesOn(read')
<1> DEFINE rd == [read EXCEPT ![o] = NoRead]
<1>1. rd \in [Owners -> Reads] /\ \A q \in Owners : rd[q] = IF q = o THEN NoRead ELSE read[q]
  BY DEF Frozen, Freezing, NoRead, Reads, NoRef
<1> HIDE DEF rd
<1>2. GoesOn(rd)
  BY <1>1 DEF GoesOn, NoRead
<1>3. ASSUME NEW r, Approve(r, rd) \/ Refused(rd) \/ read' = rd PROVE GoesOn(read')
  BY <1>1, <1>2, <1>3, ApproveGoesOn, RefusedGoesOn
<1>4. CASE Answered(o)
  BY <1>3, <1>4 DEF Answered, rd
<1>5. CASE Failed(o)
  BY <1>3, <1>5 DEF Failed, rd
<1> QED
  BY <1>4, <1>5

\* Reads that end, and those that begin.
LEMMA ReadRemoved ==
  ASSUME Inv, Removed,
         \/ FreezeRun \/ FreezePlan \/ ReadWebKey \/ RoutesTaken
         \/ \E o \in Owners : KeyRead(o) \/ KeyUnreadable(o)
  PROVE  Removed'
<1> USE DEF Inv
<1>1. ASSUME NEW r, NEW P, Freeze(r, P)
      PROVE  UNCHANGED <<config, records, vault, writes, job, stray>> /\ GoesOn(read')
  <2>1. /\ read' = [o \in Owners |-> IF o \in P THEN Capture(o) ELSE read[o]]
        /\ \A p \in P : config.ref[p] \in records
        /\ UNCHANGED <<config, records, vault, writes, job, stray>>
    BY <1>1 DEF Freeze, Resolvable
  <2> QED
    BY <2>1 DEF GoesOn, Capture
<1>2. CASE ReadWebKey
  <2>1. [Capture(Web) EXCEPT !.wanted = FALSE].ref = config.ref[Web]
    BY DEF Capture
  <2>2. /\ read' = [read EXCEPT ![Web] = [Capture(Web) EXCEPT !.wanted = FALSE]]
        /\ config.ref[Web] \in records /\ read \in [Owners -> Reads]
        /\ UNCHANGED <<config, records, vault, writes, job, stray>>
    BY <1>2 DEF ReadWebKey, Frozen, Freezing
  <2>3. GoesOn(read')
    BY <2>1, <2>2 DEF GoesOn
  <2> QED
    BY <2>2, <2>3, GoesOnKnown, RemovedSame
<1>3. CASE RoutesTaken
  <2>1. UNCHANGED <<config, records, vault, writes, job, stray, read>>
    BY <1>3 DEF RoutesTaken
  <2> QED
    BY <2>1, RemovedSame DEF Removed, ReadsKnown, RefsOf
<1>4. CASE FreezeRun \/ FreezePlan
  <2>1. \E r, P : Freeze(r, P)
    BY <1>4 DEF FreezeRun, FreezePlan
  <2>2. UNCHANGED <<config, records, vault, writes, job, stray>> /\ GoesOn(read')
    BY <1>1, <2>1
  <2> QED
    BY <2>2, GoesOnKnown, RemovedSame
<1>5. ASSUME NEW o \in Owners, KeyRead(o) \/ KeyUnreadable(o) PROVE Removed'
  <2>1. /\ Answered(o) \/ Failed(o)
        /\ UNCHANGED <<config, records, vault, writes, job, stray>>
    BY <1>5 DEF KeyRead, KeyUnreadable
  <2>2. GoesOn(read')
    BY <2>1, EndedGoesOn
  <2> QED
    BY <2>1, <2>2, GoesOnKnown, RemovedSame
<1> QED
  BY <1>2, <1>3, <1>4, <1>5

\* A secret that is stored again is in force, or was let go meanwhile and strays.
LEMMA ReencryptRemoved ==
  ASSUME Inv, Removed, Distinct, NEW o \in Owners, Reencrypt(o)
  PROVE  Removed'
<1> DEFINE x == [data |-> records', by |-> o]
           r == read[o].ref
<1>1. /\ records' = records \cup {r} /\ writes' = Append(writes, x)
      /\ read' = [read EXCEPT ![o].at = "store"] /\ read[o].at = "decrypt"
      /\ UNCHANGED <<config, vault, job, stray>>
  BY DEF Reencrypt, Stored
<1>2. r \in RefsOf(config) \cup stray
  BY <1>1 DEF Removed, ReadsKnown
<1>3. writes \in Seq(Snapshots) /\ x.data = records' /\ x.by = o /\ o \notin Clients
  BY DEF Inv, Store, Types, Distinct
<1> HIDE DEF x, r
<1>4. /\ Len(writes) \in Nat /\ Len(writes') = Len(writes) + 1
      /\ writes'[Len(writes) + 1] = x /\ \A i \in 1..Len(writes) : writes'[i] = writes[i]
  BY <1>1, <1>3
<1>5. Known' = Known
  BY <1>1 DEF Known, Flying, RefsOf
<1>6. NothingElse'
  <2>1. records' \subseteq Known
    BY <1>1, <1>2 DEF Removed, NothingElse, Known
  <2> QED
    BY <1>1, <1>3, <1>4, <1>5, <2>1 DEF Removed, NothingElse
<1>7. ReadsKnown'
  <2>1. ASSUME NEW q \in Owners, read'[q].at = "decrypt"
        PROVE  read[q].at = "decrypt" /\ read'[q].ref = read[q].ref
    BY <1>1, <2>1 DEF Inv, Frozen, Freezing, Reads
  <2> QED
    BY <1>1, <2>1 DEF Removed, ReadsKnown, RefsOf
<1>8. RequestsKeep'
  BY <1>1 DEF Removed, RequestsKeep, InForce, RefsOf
<1>9. ASSUME NEW c \in Clients, job[c].at \in {"undo", "drop"}
      PROVE  LET lost == Leaving(job[c])
             IN  /\ lost \notin RefsOf(config) /\ (lost \in records' => lost \in stray)
                 /\ \A i \in 1..Len(writes') :
                      writes'[i].by = c => GoneFrom(writes', i, lost, stray)
  <2> DEFINE g == Leaving(job[c])
  <2>1. /\ g \notin RefsOf(config) /\ (g \in records => g \in stray)
        /\ \A i \in 1..Len(writes) : writes[i].by = c => GoneFrom(writes, i, g, stray)
    BY <1>9 DEF Removed, RequestsRemove
  <2> HIDE DEF g
  <2>2. g \in records' => g \in stray
    BY <1>1, <1>2, <2>1
  <2>3. ASSUME NEW i \in 1..Len(writes'), writes'[i].by = c
        PROVE  GoneFrom(writes', i, g, stray)
    <3>1. i \in 1..Len(writes) /\ writes[i].by = c
      BY <1>3, <1>4, <2>3
    <3>2. GoneFrom(writes, i, g, stray)
      BY <2>1, <3>1
    <3> QED
      BY <1>3, <1>4, <2>2, <3>1, <3>2 DEF GoneFrom
  <2> QED
    BY <2>1, <2>2, <2>3 DEF g
<1>10. RequestsRemove'
  BY <1>1, <1>9 DEF RequestsRemove, RefsOf, Leaving
<1> QED
  BY <1>6, <1>7, <1>8, <1>10 DEF Removed

\* The configuration is in force, and the secret it names no more goes: a read of it that has
\* not ended may store it again.
LEMMA ConfigWrittenRemoved ==
  ASSUME Store, Removed, NEW c \in Clients, ConfigWritten(c)
  PROVE  Removed'
<1> DEFINE next == job[c].next
           prev == job[c].prev
           made == job[c].made
           x == [data |-> records', by |-> c]
<1>1. /\ job[c].at = "config" /\ config' = next /\ vault' = vault /\ read' = read
      /\ job[c] \in Jobs /\ prev \in Nat /\ made \in Nat
  BY DEF ConfigWritten, Store, Types, Jobs
<1>2. /\ \A o \in Owners : next.ref[o] # NoRef => next.ref[o] # prev
      /\ \A o \in Owners : config.ref[o] \in {next.ref[o], prev}
      /\ made # NoRef => \E o \in Owners : next.ref[o] = made
      /\ prev # NoRef => \E o \in Owners : config.ref[o] = prev
  BY <1>1 DEF Store, Requests, Admitted
<1>3. /\ \A d \in Clients \ {c} : job[d].at = "idle"
      /\ \A i \in 1..Len(writes) : writes[i].by \notin Clients
  BY <1>1, NobodyWaits
<1>4. /\ writes \in Seq(Snapshots) /\ records \subseteq Refs /\ vault \subseteq Refs
      /\ \A i \in 1..Len(writes) : writes[i] \in Snapshots
  BY DEF Store, Types
<1> HIDE DEF next, prev, made
<1>5. RefsOf(config) \subseteq RefsOf(next) \cup {prev} /\ prev \notin RefsOf(next)
  BY <1>2 DEF RefsOf
<1>6. made \in RefsOf(next) \cup {NoRef}
  BY <1>2 DEF RefsOf
<1>7. CASE prev \in records
  <2>1. /\ records' = records \ {prev} /\ writes' = Append(writes, x)
        /\ job' = [job EXCEPT ![c].at = "drop"] /\ stray' = stray \cup Racing(prev)
    BY <1>7 DEF ConfigWritten, Dropped, prev
  <2>2. /\ job'[c].at = "drop" /\ job'[c].made = made /\ job'[c].prev = prev
        /\ \A d \in Clients \ {c} : job'[d] = job[d]
    BY <1>1, <2>1 DEF Store, Types, Jobs, made, prev
  <2>3. x.data = records' /\ x.by = c
    OBVIOUS
  <2> HIDE DEF x
  <2>4. /\ Len(writes) \in Nat /\ Len(writes') = Len(writes) + 1
        /\ writes'[Len(writes) + 1] = x /\ \A i \in 1..Len(writes) : writes'[i] = writes[i]
    BY <1>4, <2>1
  <2>5. Known \subseteq Known'
    <3>1. Flying' = Flying
      BY <2>2 DEF Flying, made, prev
    <3>2. prev \in Flying
      BY DEF Flying, prev
    <3> QED
      BY <1>1, <1>5, <2>1, <3>1, <3>2 DEF Known
  <2>6. NothingElse'
    BY <1>1, <2>1, <2>3, <2>4, <2>5 DEF Removed, NothingElse
  <2>7. ReadsKnown'
    <3> SUFFICES ASSUME NEW o \in Owners, read[o].at = "decrypt"
                 PROVE  read[o].ref \in RefsOf(next) \cup stray'
      BY <1>1 DEF ReadsKnown
    <3>1. CASE read[o].ref = prev
      BY <2>1, <3>1 DEF Racing
    <3>2. CASE read[o].ref # prev
      BY <1>5, <2>1, <3>2 DEF Removed, ReadsKnown
    <3> QED
      BY <3>1, <3>2
  <2>8. RequestsKeep'
    BY <1>1, <1>3, <1>6, <2>2 DEF Removed, RequestsKeep, InForce
  <2>9. RequestsRemove'
    <3>1. Leaving(job'[c]) = prev
      BY <2>2 DEF Leaving
    <3>2. prev \notin records' /\ prev \notin RefsOf(config')
      BY <1>1, <1>5, <2>1
    <3>3. ASSUME NEW i \in 1..Len(writes'), writes'[i].by = c
          PROVE  GoneFrom(writes', i, prev, stray')
      <4>1. i = Len(writes) + 1
        BY <1>3, <2>4, <3>3
      <4> QED
        BY <2>3, <2>4, <3>2, <4>1 DEF GoneFrom
    <3>4. \A d \in Clients \ {c} : job'[d].at = "idle"
      BY <1>3, <2>2
    <3> QED
      BY <3>1, <3>2, <3>3, <3>4 DEF RequestsRemove
  <2> QED
    BY <2>6, <2>7, <2>8, <2>9 DEF Removed
<1>8. CASE prev \notin records
  <2>1. job' = [job EXCEPT ![c] = NoJob] /\ UNCHANGED <<records, writes, stray>>
    BY <1>8 DEF ConfigWritten, prev
  <2>2. prev = NoRef
    BY <1>2, <1>8 DEF Store, Files, Held
  <2>3. RefsOf(config) \subseteq RefsOf(next)
    BY <1>5, <2>2 DEF RefsOf
  <2>4. job'[c] = NoJob /\ \A d \in Clients \ {c} : job'[d] = job[d]
    BY <2>1 DEF Store, Types
  <2>5. \A d \in Clients \ {c} : job[d].at = "idle" /\ job[d].made = NoRef /\ job[d].prev = NoRef
    BY <1>1, OthersIdle
  <2>6. ASSUME NEW r \in Refs, r \in Known PROVE r \in Known'
    <3>1. r \in RefsOf(config) \/ r \in stray \/ r = made \/ r = prev
      BY <1>1, <2>6, KnownOf DEF made, prev
    <3> QED
      BY <1>1, <1>6, <2>1, <2>2, <2>3, <3>1 DEF Known, Refs
  <2>7. NothingElse'
    BY <1>1, <1>4, <2>1, <2>6 DEF Removed, NothingElse, Snapshots
  <2>8. ReadsKnown'
    BY <1>1, <2>1, <2>3 DEF Removed, ReadsKnown
  <2>9. RequestsKeep' /\ RequestsRemove'
    BY <1>3, <2>4, <2>5 DEF RequestsKeep, RequestsRemove, NoJob
  <2> QED
    BY <2>7, <2>8, <2>9 DEF Removed
<1> QED
  BY <1>7, <1>8

\* The new secret is taken back.
LEMMA ConfigFailedRemoved ==
  ASSUME Store, Removed, NEW c \in Clients, ConfigFailed(c)
  PROVE  Removed'
<1> DEFINE made == job[c].made
           x == [data |-> records', by |-> c]
<1>1. job[c].at = "config" /\ UNCHANGED <<config, vault, read, stray>> /\ job[c] \in Jobs
  BY DEF ConfigFailed, Store, Types
<1>2. made # NoRef => made \notin RefsOf(config)
  BY <1>1 DEF Store, Requests, RefsOf
<1>3. /\ \A d \in Clients \ {c} : job[d].at = "idle"
      /\ \A i \in 1..Len(writes) : writes[i].by \notin Clients
  BY <1>1, NobodyWaits
<1>4. /\ writes \in Seq(Snapshots) /\ records \subseteq Refs /\ vault \subseteq Refs
      /\ \A i \in 1..Len(writes) : writes[i] \in Snapshots
  BY DEF Store, Types
<1>5. job[c].prev \in InForce
  BY <1>1, PrevInForce
<1>6. ReadsKnown'
  BY <1>1 DEF Removed, ReadsKnown, RefsOf
<1> HIDE DEF made
<1>7. CASE made # NoRef
  <2>1. /\ records' = records \ {made} /\ writes' = Append(writes, x)
        /\ job' = [job EXCEPT ![c].at = "undo"]
    BY <1>7 DEF ConfigFailed, Dropped, made
  <2>2. /\ job'[c].at = "undo" /\ job'[c].made = made /\ job'[c].prev = job[c].prev
        /\ \A d \in Clients \ {c} : job'[d] = job[d]
    BY <1>1, <2>1 DEF Store, Types, Jobs, made
  <2>3. x.data = records' /\ x.by = c
    OBVIOUS
  <2> HIDE DEF x
  <2>4. /\ Len(writes) \in Nat /\ Len(writes') = Len(writes) + 1
        /\ writes'[Len(writes) + 1] = x /\ \A i \in 1..Len(writes) : writes'[i] = writes[i]
    BY <1>4, <2>1
  <2>5. Known' = Known
    BY <1>1, <2>2 DEF Known, Flying, made, RefsOf
  <2>6. NothingElse'
    BY <1>1, <2>1, <2>3, <2>4, <2>5 DEF Removed, NothingElse
  <2>7. RequestsKeep'
    BY <1>1, <1>5, <2>2 DEF Removed, RequestsKeep, InForce, RefsOf
  <2>8. RequestsRemove'
    <3>1. Leaving(job'[c]) = made
      BY <2>2 DEF Leaving
    <3>2. made \notin records' /\ made \notin RefsOf(config')
      BY <1>1, <1>2, <1>7, <2>1
    <3>3. ASSUME NEW i \in 1..Len(writes'), writes'[i].by = c
          PROVE  GoneFrom(writes', i, made, stray')
      <4>1. i = Len(writes) + 1
        BY <1>3, <2>4, <3>3
      <4> QED
        BY <2>3, <2>4, <3>2, <4>1 DEF GoneFrom
    <3>4. \A d \in Clients \ {c} : job'[d].at = "idle"
      BY <1>3, <2>2
    <3> QED
      BY <3>1, <3>2, <3>3, <3>4 DEF RequestsRemove
  <2> QED
    BY <1>6, <2>6, <2>7, <2>8 DEF Removed
<1>8. CASE made = NoRef
  <2>1. job' = [job EXCEPT ![c] = NoJob] /\ UNCHANGED <<records, writes>>
    BY <1>8 DEF ConfigFailed, made
  <2>2. job'[c] = NoJob /\ \A d \in Clients \ {c} : job'[d] = job[d]
    BY <2>1 DEF Store, Types
  <2>3. \A d \in Clients \ {c} : job[d].at = "idle" /\ job[d].made = NoRef /\ job[d].prev = NoRef
    BY <1>1, OthersIdle
  <2>4. ASSUME NEW r \in Refs, r \in Known PROVE r \in Known'
    <3>1. r \in RefsOf(config) \/ r \in stray \/ r = made \/ r = job[c].prev
      BY <1>1, <2>4, KnownOf DEF made
    <3> QED
      BY <1>1, <1>5, <1>8, <3>1 DEF Known, Refs, InForce, RefsOf
  <2>5. NothingElse'
    BY <1>1, <1>4, <2>1, <2>4 DEF Removed, NothingElse, Snapshots
  <2>6. RequestsKeep' /\ RequestsRemove'
    BY <1>3, <2>2, <2>3 DEF RequestsKeep, RequestsRemove, NoJob
  <2> QED
    BY <1>6, <2>5, <2>6 DEF Removed
<1> QED
  BY <1>7, <1>8

\* The oldest snapshot is taken, and a request that awaited it is over.  What it let go is
\* in no later snapshot; if its own failed, it strays.
LEMMA SettledRemoved ==
  ASSUME Store, Removed, NEW c \in Clients, writes # <<>>, writes[1].by = c,
         config' = config, records' = records, writes' = Tail(writes),
         vault' \in {vault, writes[1].data}, read' = read, stray \subseteq stray',
         job' = [job EXCEPT ![c] = NoJob],
         \/ /\ job[c].at \in {"undo", "drop"} /\ vault' = writes[1].data
         \/ (IF job[c].at = "drop" THEN job[c].prev ELSE job[c].made) \in stray'
  PROVE  Removed'
<1>1. /\ writes' \in Seq(Snapshots) /\ Len(writes) \in Nat \ {0}
      /\ \A i \in 1..Len(writes') : i + 1 \in 1..Len(writes) /\ writes'[i] = writes[i + 1]
      /\ \A i \in 1..Len(writes) : writes[i] \in Snapshots
      /\ records \subseteq Refs /\ vault \subseteq Refs /\ 1 \in 1..Len(writes)
  BY Taken DEF Store, Types
<1>2. job[c].at \in {"secret", "undo", "drop"}
  BY <1>1 DEF Store, Secrets
<1>3. \A d \in Clients \ {c} : job[d].at = "idle" /\ job[d].made = NoRef /\ job[d].prev = NoRef
  BY <1>2, OthersIdle
<1>4. job'[c] = NoJob /\ \A d \in Clients \ {c} : job'[d] = job[d]
  BY DEF Store, Types
<1> DEFINE left == Leaving(job[c])
           kept == IF job[c].at = "drop" THEN job[c].made ELSE job[c].prev
<1>5. kept \in InForce
  BY <1>2, PrevInForce DEF Removed, RequestsKeep
<1>6. /\ left = IF job[c].at = "drop" \/ job[c].at = "secret" THEN job[c].prev ELSE job[c].made
      /\ job[c].at = "secret" => left \in InForce /\ kept = left
  BY <1>2, <1>5 DEF Leaving
<1> HIDE DEF left, kept
<1>7. ASSUME NEW S \in SUBSET Refs, S \subseteq Known,
             vault' = writes[1].data /\ job[c].at \in {"undo", "drop"} => (left \in S => left \in stray)
      PROVE  S \subseteq Known'
  <2> SUFFICES ASSUME NEW r \in S PROVE r \in RefsOf(config) \cup stray'
    BY DEF Known
  <2>1. r \in RefsOf(config) \/ r \in stray \/ r = job[c].made \/ r = job[c].prev
    BY <1>2, <1>7, KnownOf
  <2>2. r \in InForce => r \in RefsOf(config)
    BY <1>7 DEF InForce, Refs
  <2> QED
    BY <1>2, <1>5, <1>6, <1>7, <2>1, <2>2 DEF kept
<1>8. job[c].at \in {"undo", "drop"} =>
        /\ left \in records => left \in stray
        /\ \A k \in 1..Len(writes) : left \in writes[k].data => left \in stray
  BY <1>1 DEF Removed, RequestsRemove, GoneFrom, left
<1>9. NothingElse'
  <2>1. records' \subseteq Known'
    BY <1>1, <1>7, <1>8 DEF Removed, NothingElse
  <2>2. ASSUME NEW k \in 1..Len(writes) PROVE writes[k].data \subseteq Known'
    <3>1. writes[k].data \in SUBSET Refs /\ writes[k].data \subseteq Known
      BY <1>1 DEF Snapshots, Removed, NothingElse
    <3> QED
      BY <1>7, <1>8, <3>1
  <2>3. vault' \subseteq Known'
    <3>1. CASE vault' = writes[1].data
      BY <1>1, <2>2, <3>1
    <3>2. CASE vault' # writes[1].data
      BY <1>1, <1>7, <3>2 DEF Removed, NothingElse
    <3> QED
      BY <3>1, <3>2
  <2> QED
    BY <1>1, <2>1, <2>2, <2>3 DEF NothingElse
<1>10. ReadsKnown'
  BY DEF Removed, ReadsKnown, RefsOf
<1>11. RequestsKeep' /\ RequestsRemove'
  BY <1>3, <1>4 DEF RequestsKeep, RequestsRemove, NoJob
<1> QED
  BY <1>9, <1>10, <1>11 DEF Removed

\* It is taken, and nobody's request is over.
LEMMA TakenRemoved ==
  ASSUME Store, Removed, writes # <<>>, UNCHANGED <<config, records, stray>>,
         writes' = Tail(writes), vault' \in {vault, writes[1].data}, ReadsKnown',
         \A d \in Clients : /\ job'[d].made = job[d].made /\ job'[d].prev = job[d].prev
                            /\ \/ job'[d].at = job[d].at
                               \/ job'[d].at = "config"
  PROVE  Removed'
<1>1. /\ writes' \in Seq(Snapshots) /\ Len(writes) \in Nat \ {0}
      /\ Len(writes') = Len(writes) - 1 /\ 1 \in 1..Len(writes)
      /\ \A i \in 1..Len(writes') : i + 1 \in 1..Len(writes) /\ writes'[i] = writes[i + 1]
  BY Taken DEF Store, Types
<1>2. Known' = Known
  BY DEF Known, Flying, RefsOf
<1>3. NothingElse'
  BY <1>1, <1>2 DEF Removed, NothingElse
<1>4. RequestsKeep'
  BY DEF Removed, RequestsKeep, InForce, RefsOf
<1>5. RequestsRemove'
  <2> SUFFICES ASSUME NEW d \in Clients, job'[d].at \in {"undo", "drop"}
               PROVE  /\ Leaving(job'[d]) \notin RefsOf(config)
                      /\ Leaving(job'[d]) \in records => Leaving(job'[d]) \in stray
                      /\ \A i \in 1..Len(writes') : writes'[i].by = d =>
                           GoneFrom(writes', i, Leaving(job'[d]), stray)
    BY DEF RequestsRemove, RefsOf
  <2>1. job'[d].at = job[d].at
    OBVIOUS
  <2> DEFINE r == Leaving(job[d])
  <2>2. Leaving(job'[d]) = r
    BY <2>1 DEF Leaving
  <2>3. /\ r \notin RefsOf(config) /\ (r \in records => r \in stray)
        /\ \A i \in 1..Len(writes) : writes[i].by = d => GoneFrom(writes, i, r, stray)
    BY <2>1 DEF Removed, RequestsRemove
  <2> HIDE DEF r
  <2>4. ASSUME NEW i \in 1..Len(writes'), writes'[i].by = d PROVE GoneFrom(writes', i, r, stray)
    <3>1. GoneFrom(writes, i + 1, r, stray)
      BY <1>1, <2>3, <2>4
    <3>2. ASSUME NEW k \in i..Len(writes') PROVE k + 1 \in (i + 1)..Len(writes)
      BY <1>1
    <3>3. ASSUME NEW k \in i..Len(writes') PROVE writes'[k] = writes[k + 1]
      BY <1>1
    <3> QED
      BY <3>1, <3>2, <3>3 DEF GoneFrom
  <2> QED
    BY <2>2, <2>3, <2>4
<1> QED
  BY <1>3, <1>4, <1>5 DEF Removed

\* The secret file is written, or it fails.
LEMMA SecretRemoved ==
  ASSUME Inv, Removed, Distinct, SecretWritten \/ SecretFailed
  PROVE  Removed'
<1> USE DEF Inv
<1> DEFINE w == Head(writes)
           c == w.by
<1>1. /\ writes # <<>> /\ writes' = Tail(writes) /\ w = writes[1] /\ w \in Snapshots
      /\ UNCHANGED <<config, records>> /\ vault' \in {vault, writes[1].data}
      /\ writes[1].by = c /\ stray \subseteq stray' /\ 1 \in 1..Len(writes)
  BY Taken DEF SecretWritten, SecretFailed, Store, Types
<1>2. job \in [Clients -> Jobs]
  BY DEF Store, Types
<1>3. CASE c \in Clients
  <2>1. read' = read
    BY <1>3 DEF SecretWritten, SecretFailed
  <2>2. job[c].at \in {"secret", "undo", "drop"} /\ job[c] \in Jobs
    BY <1>1, <1>2, <1>3 DEF Store, Secrets
  <2>3. CASE SecretWritten
    <3>1. /\ vault' = writes[1].data /\ stray' = stray
          /\ job' = [job EXCEPT ![c] = IF job[c].at = "secret" THEN [job[c] EXCEPT !.at = "config"]
                                       ELSE NoJob]
      BY <1>1, <1>3, <2>3 DEF SecretWritten
    <3>2. CASE job[c].at = "secret"
      <4>1. job' = [job EXCEPT ![c] = [job[c] EXCEPT !.at = "config"]]
        BY <3>1, <3>2
      <4>2. \A d \in Clients : /\ job'[d].made = job[d].made /\ job'[d].prev = job[d].prev
                               /\ job'[d].at = job[d].at \/ job'[d].at = "config"
        BY <1>2, <1>3, <2>2, <4>1 DEF Jobs
      <4>3. ReadsKnown'
        BY <1>1, <2>1, <3>1 DEF Removed, ReadsKnown, RefsOf
      <4> HIDE DEF w
      <4> QED
        BY <1>1, <3>1, <4>2, <4>3, TakenRemoved
    <3>3. CASE job[c].at # "secret"
      <4>1. job' = [job EXCEPT ![c] = NoJob] /\ job[c].at \in {"undo", "drop"}
        BY <2>2, <3>1, <3>3
      <4> HIDE DEF w
      <4> QED
        BY <1>1, <1>3, <2>1, <3>1, <4>1, SettledRemoved
    <3> QED
      BY <3>2, <3>3
  <2>4. CASE SecretFailed
    <3>1. /\ job' = [job EXCEPT ![c] = NoJob] /\ vault' = vault
          /\ (IF job[c].at = "drop" THEN job[c].prev ELSE job[c].made) \in stray'
      BY <1>3, <2>4 DEF SecretFailed
    <3> HIDE DEF w
    <3> QED
      BY <1>1, <1>3, <2>1, <3>1, SettledRemoved
  <2> QED
    BY <2>3, <2>4
<1>4. CASE c \notin Clients
  <2>1. c \in Owners
    BY <1>1, <1>4 DEF Snapshots
  <2>2. Answered(c) \/ Failed(c)
    BY <1>4 DEF SecretWritten, SecretFailed
  <2>3. job' = job /\ stray' = stray
    BY <1>4 DEF SecretWritten, SecretFailed
  <2> HIDE DEF w
  <2>4. GoesOn(read')
    BY <2>1, <2>2, EndedGoesOn
  <2>5. ReadsKnown'
    BY <1>1, <2>4, GoesOnKnown
  <2> QED
    BY <1>1, <2>3, <2>5, TakenRemoved
<1> QED
  BY <1>3, <1>4

\* The requests of a host that dies leave their secrets behind.
LEMMA CrashRemoved ==
  ASSUME Store, Removed, Crash
  PROVE  Removed'
<1>1. /\ records' = vault /\ vault' = vault /\ writes' = <<>> /\ stray \subseteq stray'
      /\ Flying \ {NoRef} \subseteq stray'
      /\ job' = [d \in Clients |-> NoJob] /\ read' = [o \in Owners |-> NoRead]
  <2>1. /\ records' = vault /\ vault' = vault /\ writes' = <<>>
        /\ stray' = stray \cup UNION {{job[c].made, job[c].prev} \ {NoRef} : c \in Clients}
        /\ job' = [d \in Clients |-> NoJob] /\ read' = [o \in Owners |-> NoRead]
    BY DEF Crash
  <2>2. Flying \ {NoRef} \subseteq UNION {{job[c].made, job[c].prev} \ {NoRef} : c \in Clients}
    <3>1. SUFFICES ASSUME NEW r \in Flying \ {NoRef}
                   PROVE  r \in UNION {{job[c].made, job[c].prev} \ {NoRef} : c \in Clients}
      OBVIOUS
    <3>2. PICK c \in Clients : r \in {job[c].made, job[c].prev} \ {NoRef}
      BY DEF Flying
    <3>3. {job[c].made, job[c].prev} \ {NoRef} \in {{job[d].made, job[d].prev} \ {NoRef} : d \in Clients}
      OBVIOUS
    <3> QED
      BY <3>2, <3>3
  <2> QED
    BY <2>1, <2>2
<1>2. config'.ref = config.ref
  BY RepairedSound DEF Crash, Store, Types, Files
<1>3. vault \subseteq Refs
  BY DEF Store, Types
<1>4. vault \subseteq Known'
  BY <1>1, <1>2, <1>3 DEF Removed, NothingElse, Known, RefsOf, Refs
<1>5. NothingElse'
  <2>1. Len(writes') = 0
    BY <1>1
  <2> QED
    BY <1>1, <1>4, <2>1 DEF NothingElse
<1>6. ReadsKnown'
  BY <1>1 DEF ReadsKnown, NoRead
<1>7. RequestsKeep' /\ RequestsRemove'
  BY <1>1 DEF RequestsKeep, RequestsRemove, NoJob
<1> QED
  BY <1>5, <1>6, <1>7 DEF Removed

LEMMA InitRemoved ==
  ASSUME Init, Distinct
  PROVE  Removed
<1>1. PICK p \in Providers, a \in Providers \cup {None} :
        /\ a # p
        /\ config.ref = [o \in Owners |-> IF o = p THEN 1 ELSE IF o = a THEN 2 ELSE NoRef]
        /\ issued = Cardinality({p, a} \ {None})
  <2>1. PICK p \in Providers : \E a \in (Providers \ {p}) \cup {None} :
        /\ config = [prov |-> [q \in Providers |-> IF q \in {p, a}
                                                   THEN [rev |-> 1, model |-> "default", fit |-> Marks]
                                                   ELSE Absent],
                     ref |-> [o \in Owners |-> IF o = p THEN 1 ELSE IF o = a THEN 2 ELSE NoRef],
                     main |-> [p |-> p, named |-> TRUE], aux |-> a, pool |-> {p, a} \ {None}]
        /\ issued = Cardinality({p, a} \ {None})
    BY DEF Init
  <2>2. PICK a \in (Providers \ {p}) \cup {None} :
        /\ config = [prov |-> [q \in Providers |-> IF q \in {p, a}
                                                   THEN [rev |-> 1, model |-> "default", fit |-> Marks]
                                                   ELSE Absent],
                     ref |-> [o \in Owners |-> IF o = p THEN 1 ELSE IF o = a THEN 2 ELSE NoRef],
                     main |-> [p |-> p, named |-> TRUE], aux |-> a, pool |-> {p, a} \ {None}]
        /\ issued = Cardinality({p, a} \ {None})
    BY <2>1
  <2>3. config.ref = [o \in Owners |-> IF o = p THEN 1 ELSE IF o = a THEN 2 ELSE NoRef]
    BY <2>2
  <2>4. a # p /\ a \in Providers \cup {None}
    BY DEF Distinct
  <2> QED
    BY <2>2, <2>3, <2>4
<1>2. /\ records = 1..issued /\ vault = records /\ writes = <<>>
      /\ job = [c \in Clients |-> NoJob] /\ read = [o \in Owners |-> NoRead]
  BY DEF Init
<1>3. p \in Owners /\ p # None /\ (a # None => a \in Owners)
  BY <1>1 DEF Owners, Distinct
<1>4. issued = IF a = None THEN 1 ELSE 2
  <2>1. CASE a = None
    <3>1. {p, a} \ {None} = {p}
      BY <1>3, <2>1
    <3> QED
      BY <1>1, <2>1, <3>1, FS_Singleton
  <2>2. CASE a # None
    <3>1. {p, a} \ {None} = {p} \cup {a} /\ a \notin {p}
      BY <1>1, <1>3, <2>2
    <3>2. IsFiniteSet({p}) /\ Cardinality({p}) = 1
      BY FS_Singleton
    <3>3. Cardinality({p} \cup {a}) = 2
      BY <3>1, <3>2, FS_AddElement
    <3> QED
      BY <1>1, <2>2, <3>1, <3>3
  <2> QED
    BY <2>1, <2>2
<1>5. 1..issued \subseteq RefsOf(config)
  <2>1. config.ref[p] = 1 /\ (a # None => config.ref[a] = 2)
    BY <1>1, <1>3
  <2>2. 1 \in RefsOf(config) /\ (a # None => 2 \in RefsOf(config))
    BY <1>3, <2>1 DEF RefsOf, NoRef
  <2> QED
    BY <1>4, <2>2
<1>6. NothingElse
  <2>1. Len(writes) = 0
    BY <1>2
  <2> QED
    BY <1>2, <1>5, <2>1 DEF NothingElse, Known
<1>7. ReadsKnown
  BY <1>2 DEF ReadsKnown, NoRead
<1>8. RequestsKeep /\ RequestsRemove
  BY <1>2 DEF RequestsKeep, RequestsRemove, NoJob
<1> QED
  BY <1>6, <1>7, <1>8 DEF Removed

LEMMA NextRemoved ==
  ASSUME Inv, Inv', Removed, Distinct, [Next]_vars
  PROVE  Removed'
<1> USE DEF Inv
<1>1. ASSUME NEW c \in Clients, Change(c) \/ ConfigWritten(c) \/ ConfigFailed(c)
      PROVE  Removed'
  BY <1>1, ChangeRemoved, ConfigWrittenRemoved, ConfigFailedRemoved
<1>2. CASE FreezeRun \/ FreezePlan \/ ReadWebKey \/ RoutesTaken
  BY <1>2, ReadRemoved
<1>3. ASSUME NEW o \in Owners, KeyRead(o) \/ KeyUnreadable(o)
      PROVE  Removed'
  <2>1. \E q \in Owners : KeyRead(q) \/ KeyUnreadable(q)
    BY <1>3, Zenon
  <2> QED
    BY <2>1, ReadRemoved, Zenon
<1>4. ASSUME NEW o \in Owners, Reencrypt(o) PROVE Removed'
  BY <1>4, ReencryptRemoved
<1>5. CASE SecretWritten \/ SecretFailed
  BY <1>5, SecretRemoved
<1>6. CASE Crash
  BY <1>6, CrashRemoved
<1>7. CASE UNCHANGED vars
  <2>1. UNCHANGED <<config, records, vault, writes, job, stray, read>>
    BY <1>7 DEF vars
  <2>2. ReadsKnown'
    BY <2>1 DEF Removed, ReadsKnown, RefsOf
  <2> QED
    BY <2>1, <2>2, RemovedSame
<1> QED
  BY <1>1, <1>2, <1>3, <1>4, <1>5, <1>6, <1>7 DEF Next

\* A secret that was replaced or cleared is not kept on disk, whatever fails before and after
\* it, unless its own removal failed or raced with a read: setProviderCredential,
\* clearProviderCredential and deleteProvider with SecretStore.delete.
THEOREM SecretsAreCleared ==
  ASSUME Distinct
  PROVE  Spec => []ClearedSecretsAreGone
<1>1. Init => Inv /\ Removed
  BY InitInv, InitRemoved
<1>2. Inv /\ Removed /\ [Next]_vars => (Inv /\ Removed)'
  <2> SUFFICES ASSUME Inv, Removed, [Next]_vars PROVE Inv' /\ Removed'
    OBVIOUS
  <2>1. Inv'
    BY NextInv
  <2> QED
    BY <2>1, NextRemoved
<1>3. Inv /\ Removed => ClearedSecretsAreGone
  <2> SUFFICES ASSUME Inv, Removed, Quiet PROVE vault \subseteq RefsOf(file) \cup stray
    BY DEF ClearedSecretsAreGone
  <2>1. \A c \in Clients : job[c].made = NoRef /\ job[c].prev = NoRef
    BY DEF Quiet, Removed, RequestsKeep
  <2>2. vault \subseteq Refs /\ file = config
    BY DEF Inv, Store, Types, Files
  <2> QED
    BY <2>1, <2>2 DEF Removed, NothingElse, Known, Flying, Refs
<1> QED
  BY <1>1, <1>2, <1>3, PTL DEF Spec

=============================================================================
