----------------------------- MODULE ReplicaSync -----------------------------
(***************************************************************************)
(* The durable commit stream and the renderer's replica of it.             *)
(*                                                                         *)
(* Backend: ApplicationStateCoordinator runs every durable command and     *)
(* every query as one job of a serial queue, so a job is one step here: a   *)
(* command appends its result to the log, takes the next sequence number   *)
(* and publishes the envelope before the queue moves on; a query reads the  *)
(* database together with the current cursor.                              *)
(*                                                                         *)
(* Transport: commits are pushed in order (webContents.send); the answers  *)
(* of invoke calls travel separately, and either may reach the renderer    *)
(* first.  A push is lost when there is no window or the send throws.      *)
(*                                                                         *)
(* Renderer: the preload bridge buffers pushes until the store subscribes; *)
(* the agent-replica store merges pushes and command answers through one   *)
(* reconciler, and asks for snapshots when it sees a gap.                  *)
(*                                                                         *)
(* A Session record is abstracted to its revision and its lifecycle;       *)
(* revision 0 stands for a Session that does not exist (or is not cached). *)
(* The message pages the store keeps beside the records are left out: what *)
(* it loads, selects and asks for is decided without them.                 *)
(* The backend instance id is left out: the renderer does not outlive the   *)
(* main process that owns the coordinator.                                 *)
(***************************************************************************)
EXTENDS Naturals, Sequences, FiniteSets

CONSTANTS Sessions,       \* Session ids
          Projects,       \* Project ids
          ProjectOf,      \* the Project a Session belongs to
          Persisted,      \* the Sessions in the database when the backend starts
          Opened,         \* the Projects in it
          None,           \* "undefined" in the store
          MaxSeq,         \* bound: durable commits
          MaxFaults,      \* bound: lost pushes and failed queries
          MaxUser,        \* bound: navigations and searches of the user
          MaxLoads,       \* bound: session:get calls outstanding at once
          MaxReplies,     \* bound: answers of renderer commands on their way at once
          PageSize,       \* Sessions a bootstrap snapshot holds at most
          BufferCap       \* MAX_BUFFERED_DOMAIN_EVENTS

ASSUME SessionsAssumption == ProjectOf \in [Sessions -> Projects] /\ Persisted \subseteq Sessions
                              /\ Opened \subseteq Projects
                              /\ \A s \in Persisted : ProjectOf[s] \in Opened
ASSUME NoneAssumption == None \notin Sessions \cup Projects \cup Nat
ASSUME BoundsAssumption ==
    /\ MaxSeq \in Nat /\ MaxFaults \in Nat /\ MaxUser \in Nat
    /\ MaxLoads \in Nat /\ MaxReplies \in Nat /\ PageSize \in Nat \ {0} /\ BufferCap \in Nat \ {0}

VARIABLES log,        \* every durable commit with the database after it
          events,     \* pushes on their way to the renderer, oldest first
          replies,    \* answers of renderer commands on their way back
          faults,     \* faults so far
          buffer, overflowed, subscribed,   \* the preload bridge
          cursor,     \* the sequence the store has applied, or None
          rprojects, sess,                  \* the cached durable state
          selProj, selSess, nav,            \* the selection
          boot,       \* bootstrapInFlight
          loads,      \* session:get calls in flight outside a bootstrap
          merges, searches,                 \* unversioned list/search answers
          windowed    \* history: commits delivered while a bootstrap was in flight

backend  == <<log, faults>>
preload  == <<buffer, overflowed, subscribed>>
cache    == <<rprojects, sess>>
choice   == <<selProj, selSess, nav>>
queries  == <<merges, searches>>
net      == <<events, replies, windowed>>
renderer == <<cursor, cache, choice, boot, loads, queries>>
vars     == <<backend, net, preload, renderer>>

-----------------------------------------------------------------------------
(* The durable state *)

Absent == [rev |-> 0, life |-> "active"]

Exists(r) == r.rev > 0
Live(r)   == Exists(r) /\ r.life = "active"

\* The database after the first n commits: what a query job reads when the
\* coordinator's #sequence is n.
InitialDb ==
    [s \in Sessions |-> IF s \in Persisted THEN [rev |-> 1, life |-> "active"] ELSE Absent]
DbAt(n)       == IF n = 0 THEN InitialDb ELSE log[n].db
ProjectsAt(n) == IF n = 0 THEN Opened ELSE log[n].projects
Sequence      == Len(log)
Db            == DbAt(Sequence)

\* The changes a durable command can make: a topic, the Session (or Project)
\* it is about, how the envelope describes the messages, the state after.
Change(topic, subject, mode, db, ps) ==
    [topic |-> topic, subject |-> subject, mode |-> mode,
     db |-> db, projects |-> ps]

SessionChange(s, mode, rec) ==
    Change("session.changed", s, mode, [Db EXCEPT ![s] = rec], ProjectsAt(Sequence))

Next_(r) == [r EXCEPT !.rev = @ + 1]

\* A message commit: commitFirstTurn, fork, commitMutation.
AppendChange(s) == SessionChange(s, "upsert", Next_(Db[s]))

\* rewind: the later messages become inactive, the whole page is invalid.
RewindChange(s) == SessionChange(s, "invalidate_all", Next_(Db[s]))

SetLife(s, l) == SessionChange(s, "none", [Next_(Db[s]) EXCEPT !.life = l])

RemoveSessionChange(s) ==
    Change("session.removed", s, "none", [Db EXCEPT ![s] = Absent], ProjectsAt(Sequence))

ProjectChange(ps) ==
    Change("project.changed", None, "none",
           [s \in Sessions |-> IF ProjectOf[s] \in ps THEN Db[s] ELSE Absent], ps)

UsageChange(s) == Change("session.usage.changed", s, "none", Db, ProjectsAt(Sequence))

\* The ids of Sessions and Projects are not reused after a deletion.
Unused(s) == s \notin Persisted /\ \A n \in 1..Sequence : log[n].subject # s
NewProjects == {p \in Projects : \A n \in 0..Sequence : p \notin ProjectsAt(n)}

Changes ==
    LET ps == ProjectsAt(Sequence)
    IN  {ProjectChange(ps \cup {p}) : p \in NewProjects}
          \cup {ProjectChange(ps \ {p}) : p \in ps}
          \cup UNION { CASE ~Exists(Db[s])  -> IF ProjectOf[s] \in ps /\ Unused(s)
                                               THEN {AppendChange(s)} ELSE {}
                         [] Live(Db[s])     -> {AppendChange(s), RewindChange(s),
                                                UsageChange(s), SetLife(s, "archived")}
                         [] OTHER           -> {SetLife(s, "active"),
                                                RemoveSessionChange(s)} : s \in Sessions }

Fault(b) == /\ b => faults < MaxFaults
            /\ faults' = IF b THEN faults + 1 ELSE faults

\* A command's job: commit, take the next sequence, publish, answer the caller.
\* A failed publication is only diagnosed.
Command ==
    /\ Sequence < MaxSeq
    /\ \E c \in Changes, lost \in BOOLEAN, fromRenderer \in BOOLEAN :
          /\ Fault(lost)
          /\ log' = Append(log, c)
          /\ events' = IF lost THEN events ELSE Append(events, Sequence + 1)
          /\ replies' = IF fromRenderer /\ subscribed /\ Cardinality(replies) < MaxReplies
                        THEN replies \cup {Sequence + 1} ELSE replies
    /\ UNCHANGED <<windowed, preload, renderer>>

-----------------------------------------------------------------------------
(* The replica store *)

\* A query in flight: at = None until its job has run in the coordinator, then
\* the sequence it was read at.  A load that selects its Session when it ends holds
\* the navigation revision it was started at.
Idle       == [ph |-> "idle", at |-> None, s |-> None, prev |-> FALSE]
BootAsked  == [Idle EXCEPT !.ph = "asked"]
BootLoad(s, prev) == [ph |-> "loading", at |-> None, s |-> s, prev |-> prev]
Load(s)    == [s |-> s, at |-> None, nav |-> None]
LoadToSelect(s, n) == [Load(s) EXCEPT !.nav = n]

Cached(c, s) == Exists(c[s])

\* The Session the store falls back to: some active one of the Project.
Fallback(c, p) ==
    LET candidates == {s \in Sessions : Live(c[s]) /\ ProjectOf[s] = p}
    IN  IF candidates = {} THEN {None} ELSE candidates

StartBootstrap == boot' = IF boot.ph = "idle" THEN BootAsked ELSE boot

Ask(l) == /\ Cardinality(loads) < MaxLoads
          /\ loads' = loads \cup {l}

StartLoad(s) == Ask(Load(s))

StartLoadIfAny(s) == IF s = None THEN UNCHANGED loads ELSE StartLoad(s)

\* project.changed: take the list, drop the Sessions of removed Projects and
\* move the selection when its Project is gone.
ApplyProjects(c) ==
    LET kept == [s \in Sessions |->
                    IF ProjectOf[s] \in rprojects \ c.projects THEN Absent ELSE sess[s]]
        gone == selProj # None /\ selProj \notin c.projects
    IN  /\ rprojects' = c.projects
        /\ sess' = kept
        /\ IF gone
           THEN \E p \in (IF c.projects = {} THEN {None} ELSE c.projects) :
                  /\ selProj' = p
                  /\ \E f \in Fallback(kept, p) :
                       /\ selSess' = f
                       /\ StartLoadIfAny(f)
                       \* nothing cached: list the Project's newest Session
                       /\ merges' = IF f = None /\ p # None
                                    THEN merges \cup {[p |-> p, nav |-> nav, at |-> None]}
                                    ELSE merges
           ELSE UNCHANGED <<selProj, selSess, loads, merges>>
        /\ UNCHANGED <<boot, nav, searches>>

\* session.changed: a revision gap reloads the Session, anything else is merged.
ApplySession(c) ==
    LET s == c.subject
        incoming == c.db[s]
    IN  IF Cached(sess, s) /\ incoming.rev > sess[s].rev + 1
        THEN StartLoad(s) /\ UNCHANGED <<cache, choice, boot, queries>>
        ELSE /\ sess' = [sess EXCEPT ![s] = incoming]
             /\ IF incoming.life = "archived" /\ s = selSess
                THEN \E f \in Fallback(sess', ProjectOf[s]) :
                        selSess' = f /\ StartLoadIfAny(f)
                ELSE /\ UNCHANGED selSess
                     /\ StartLoadIfAny(IF c.mode = "invalidate_all" /\ s = selSess
                                       THEN s ELSE None)
             /\ UNCHANGED <<rprojects, selProj, nav, boot, queries>>

\* session.removed: drop it, and select another Session of its Project.
ApplyRemoved(c) ==
    LET s == c.subject
    IN  /\ sess' = [sess EXCEPT ![s] = Absent]
        /\ \E f \in (IF selSess = s THEN Fallback(sess', ProjectOf[s]) ELSE {selSess}) :
              selSess' = f /\ StartLoadIfAny(f)
        /\ UNCHANGED <<rprojects, selProj, nav, boot, queries>>

Apply(c) ==
    CASE c.topic = "project.changed" -> ApplyProjects(c)
      [] c.topic = "session.changed" -> ApplySession(c)
      [] c.topic = "session.removed" -> ApplyRemoved(c)
      [] OTHER -> UNCHANGED <<cache, choice, boot, loads, queries>>

\* Mutant: a gap is taken for a duplicate.
MutReconcile(n) ==
    CASE cursor = None -> StartBootstrap /\ UNCHANGED <<cursor, cache, choice, loads, queries>>
      [] cursor # None /\ n # cursor + 1 -> UNCHANGED renderer
      [] OTHER -> cursor' = n /\ Apply(log[n])

\* reconcile(commit): a gap asks for a snapshot, an old sequence is a duplicate,
\* the next one is applied.
Reconcile(n) ==
    CASE cursor = None -> StartBootstrap /\ UNCHANGED <<cursor, cache, choice, loads, queries>>
      [] cursor # None /\ n > cursor + 1 ->
            StartBootstrap /\ UNCHANGED <<cursor, cache, choice, loads, queries>>
      [] cursor # None /\ n <= cursor -> UNCHANGED renderer
      [] OTHER -> cursor' = n /\ Apply(log[n])

\* The history is kept for runs without a fault.
Witness(n) == windowed' = IF boot.ph = "idle" \/ faults > 0 THEN windowed
                          ELSE windowed \cup {n}

\* A push reaches the preload bridge: buffered until a listener is there.
DeliverEvent ==
    /\ events # <<>>
    /\ events' = Tail(events)
    /\ IF subscribed
       THEN Reconcile(Head(events)) /\ Witness(Head(events)) /\ UNCHANGED preload
       ELSE /\ IF Len(buffer) >= BufferCap
               THEN buffer' = <<>> /\ overflowed' = TRUE
               ELSE /\ buffer' = IF overflowed THEN buffer ELSE Append(buffer, Head(events))
                    /\ UNCHANGED overflowed
            /\ UNCHANGED <<subscribed, renderer, windowed>>
    /\ UNCHANGED <<backend, replies>>

\* The answer of a renderer command goes through the same reconciler.
DeliverReply ==
    /\ \E n \in replies : replies' = replies \ {n} /\ Reconcile(n) /\ Witness(n)
    /\ UNCHANGED <<backend, events, preload>>

\* initialize(): subscribe, replaying the buffer (or its overflow) into a store
\* without a cursor, which is a bootstrap; otherwise initialize bootstraps itself.
Subscribe ==
    /\ ~subscribed
    /\ subscribed' = TRUE
    /\ buffer' = <<>> /\ overflowed' = FALSE
    /\ StartBootstrap
    /\ UNCHANGED <<backend, net, cursor, cache, choice, loads, queries>>

-----------------------------------------------------------------------------
(* Snapshots *)

AnswerBootstrap ==
    /\ boot.ph = "asked" /\ boot.at = None
    /\ boot' = [boot EXCEPT !.at = Sequence]
    /\ UNCHANGED <<backend, net, preload, cursor, cache, choice, loads, queries>>

\* The page of a snapshot: the newest active Sessions, up to PageSize of them.
Pages(db) ==
    LET live == {s \in Sessions : Live(db[s])}
    IN  {pg \in SUBSET live : /\ Cardinality(pg) <= PageSize
                              /\ pg # live => Cardinality(pg) = PageSize}

\* performBootstrap up to its first loadSession, for one page: replace the lists and
\* the cursor by the snapshot's, keep the selection when it is still there, or restore
\* the record selected before when the page does not hold it.
InstallPage(pg) ==
    LET at   == boot.at
        ps   == ProjectsAt(at)
        snap == [s \in Sessions |-> IF s \in pg THEN DbAt(at)[s] ELSE Absent]
    IN  \E p \in (IF selProj \in ps THEN {selProj} ELSE IF ps = {} THEN {None} ELSE ps) :
        LET inPage  == selSess \in pg /\ ProjectOf[selSess] = p
            restore == /\ selSess # None /\ ~inPage
                       /\ Live(sess[selSess]) /\ ProjectOf[selSess] = p
            merged  == IF restore THEN [snap EXCEPT ![selSess] = sess[selSess]] ELSE snap
        IN  \E f \in (IF selProj = p /\ selSess = None THEN {None}
                      ELSE IF inPage \/ restore THEN {selSess} ELSE Fallback(snap, p)) :
            /\ cursor' = at
            /\ rprojects' = ps /\ sess' = merged
            /\ selProj' = p /\ selSess' = f
            /\ boot' = IF f = None THEN Idle ELSE BootLoad(f, restore)
            /\ UNCHANGED <<nav, loads, queries>>

InstallBootstrap == \E pg \in Pages(DbAt(boot.at)) : InstallPage(pg)

DeliverBootstrap ==
    /\ boot.ph = "asked" /\ boot.at # None
    /\ \/ InstallBootstrap /\ UNCHANGED faults
       \/ /\ Fault(TRUE) /\ boot' = Idle
          /\ UNCHANGED <<cursor, cache, choice, loads, queries>>
    /\ UNCHANGED <<log, net, preload>>

\* Mutant: a late answer replaces the cached record whatever its revision.
MutInstallSession(s, snap) == sess' = [sess EXCEPT ![s] = snap]

\* loadSession's continuation: an answer older than the cached record is ignored.
InstallSession(s, snap) ==
    sess' = IF Cached(sess, s) /\ sess[s].rev > snap.rev THEN sess
            ELSE [sess EXCEPT ![s] = snap]

AnswerBootLoad ==
    /\ boot.ph = "loading" /\ boot.at = None
    /\ boot' = [boot EXCEPT !.at = Sequence]
    /\ UNCHANGED <<backend, net, preload, cursor, cache, choice, loads, queries>>

\* Mutant: a failed load of the restored record is retried.
MutDeliverBootLoad ==
    /\ boot.ph = "loading" /\ boot.at # None
    /\ LET snap == DbAt(boot.at)[boot.s]
       IN  IF Exists(snap)
           THEN InstallSession(boot.s, snap) /\ boot' = Idle
           ELSE boot' = [boot EXCEPT !.at = None] /\ UNCHANGED sess
    /\ UNCHANGED <<backend, net, preload, cursor, rprojects, choice, loads, queries>>

\* The rest of performBootstrap: a failed load of the restored record drops it
\* and falls back; any other failed load ends the bootstrap.
DeliverBootLoad ==
    /\ boot.ph = "loading" /\ boot.at # None
    /\ LET s == boot.s
           snap == DbAt(boot.at)[s]
       IN  \E failed \in BOOLEAN :
           /\ ~Exists(snap) => failed
           /\ Fault(failed /\ Exists(snap))
           /\ CASE ~failed -> InstallSession(s, snap) /\ boot' = Idle /\ UNCHANGED selSess
                [] failed /\ boot.prev ->
                     /\ sess' = [sess EXCEPT ![s] = Absent]
                     /\ \E f \in Fallback(sess', selProj) :
                          /\ selSess' = f
                          /\ boot' = IF f = None THEN Idle ELSE BootLoad(f, FALSE)
                [] OTHER -> boot' = Idle /\ UNCHANGED <<sess, selSess>>
    /\ UNCHANGED <<log, net, preload, cursor, rprojects, selProj, nav,
                   loads, queries>>

AnswerLoad ==
    /\ \E l \in loads : /\ l.at = None
                        /\ loads' = (loads \ {l}) \cup {[l EXCEPT !.at = Sequence]}
    /\ UNCHANGED <<backend, net, preload, cursor, cache, choice, boot, queries>>

\* loadSession ends.  One that selectSession started selects its Session when
\* the user has not navigated since, and loads it once more.
DeliverLoad ==
    /\ \E l \in loads, failed \in BOOLEAN :
          LET s == l.s
              snap == DbAt(l.at)[s]
              selects == l.nav = nav /\ ~failed /\ Live(sess'[s])
          IN  /\ l.at # None
              /\ ~Exists(snap) => failed
              /\ Fault(failed /\ Exists(snap))
              /\ IF failed THEN UNCHANGED sess ELSE InstallSession(s, snap)
              /\ loads' = (loads \ {l}) \cup (IF selects THEN {Load(s)} ELSE {})
              /\ selProj' = IF selects THEN ProjectOf[s] ELSE selProj
              /\ selSess' = IF selects THEN s ELSE selSess
    /\ UNCHANGED <<log, net, preload, cursor, rprojects, nav, boot, queries>>

-----------------------------------------------------------------------------
(* The user *)

\* selectSession of a Session the user has seen: a cached active one is selected
\* at once, an uncached one (a search hit) is loaded first.
SelectSession(s) ==
    /\ nav + searches < MaxUser /\ ~Unused(s)
    /\ nav' = nav + 1
    /\ \/ /\ Live(sess[s])
          /\ selProj' = ProjectOf[s] /\ selSess' = s
          /\ StartLoad(s)
       \/ /\ ~Cached(sess, s)
          /\ Ask(LoadToSelect(s, nav + 1))
          /\ UNCHANGED <<selProj, selSess>>
       \/ /\ Cached(sess, s) /\ ~Live(sess[s])
          /\ UNCHANGED <<selProj, selSess, loads>>
    /\ UNCHANGED <<backend, net, preload, cursor, cache, boot, queries>>

\* selectProject, whose callers leave selectLatest at its default.
SelectProject(p) ==
    /\ nav + searches < MaxUser /\ p \in rprojects
    /\ nav' = nav + 1 /\ selProj' = p
    /\ \E f \in Fallback(sess, p) : selSess' = f /\ StartLoadIfAny(f)
    /\ UNCHANGED <<backend, net, preload, cursor, cache, boot, queries>>

BeginDraft(p) ==
    /\ nav + searches < MaxUser /\ p \in rprojects
    /\ nav' = nav + 1 /\ selProj' = p /\ selSess' = None
    /\ UNCHANGED <<backend, net, preload, cursor, cache, boot, loads, queries>>

\* search() and loadOlderSessions(): every Session of the answer, some of the active
\* ones, is merged over the cached record, whatever its revision.
Search ==
    /\ nav + searches < MaxUser /\ cursor # None
    /\ searches' = searches + 1
    /\ merges' = merges \cup {[p |-> None, nav |-> nav, at |-> None]}
    /\ UNCHANGED <<backend, net, preload, cursor, cache, choice, boot, loads>>

AnswerMerge ==
    /\ \E m \in merges : /\ m.at = None
                         /\ merges' = (merges \ {m}) \cup {[m EXCEPT !.at = Sequence]}
    /\ UNCHANGED <<backend, net, preload, cursor, cache, choice, boot, loads, searches>>

\* A search answer (p = None); or the answer of the Project fallback of
\* project.changed, which holds one Session or none (none too when the query
\* failed), selects it or nothing when the user has not navigated since, and loads
\* what is then selected.
DeliverMerge ==
    /\ \E m \in {x \in merges : x.at # None} :
          LET live == {s \in Sessions : Live(DbAt(m.at)[s]) /\ m.p \in {None, ProjectOf[s]}}
          IN  \E hits \in SUBSET live :
              /\ merges' = merges \ {m}
              /\ Fault(m.p # None /\ hits = {} /\ live # {})
              /\ sess' = [s \in Sessions |-> IF s \in hits THEN DbAt(m.at)[s] ELSE sess[s]]
              /\ IF m.p = None THEN UNCHANGED <<selSess, loads>>
                 ELSE /\ Cardinality(hits) <= 1
                      /\ \E f \in (IF m.nav = nav /\ selProj = m.p
                                   THEN IF hits = {} THEN {None} ELSE hits ELSE {selSess}) :
                            selSess' = f /\ StartLoadIfAny(f)
    /\ UNCHANGED <<log, net, preload, cursor, rprojects, selProj, nav, boot, searches>>

-----------------------------------------------------------------------------
Init ==
    /\ log = <<>> /\ events = <<>> /\ replies = {} /\ faults = 0
    /\ buffer = <<>> /\ overflowed = FALSE /\ subscribed = FALSE
    /\ cursor = None /\ rprojects = {}
    /\ sess = [s \in Sessions |-> Absent]
    /\ selProj = None /\ selSess = None /\ nav = 0
    /\ boot = Idle /\ loads = {} /\ merges = {} /\ searches = 0 /\ windowed = {}

\* A bootstrap in flight has exactly one next step, until it ends.
BootstrapStep == AnswerBootstrap \/ DeliverBootstrap \/ AnswerBootLoad \/ DeliverBootLoad

Next ==
    \/ Command \/ DeliverEvent \/ DeliverReply \/ Subscribe
    \/ BootstrapStep
    \/ AnswerLoad \/ DeliverLoad
    \/ \E s \in Sessions : SelectSession(s)
    \/ \E p \in Projects : SelectProject(p) \/ BeginDraft(p)
    \/ Search \/ AnswerMerge \/ DeliverMerge

Spec == Init /\ [][Next]_vars

\* Queued jobs run and every answer is eventually delivered: the coordinator's
\* queue continues after a failed job, and invoke promises settle.
Fairness == WF_vars(BootstrapStep)

FairSpec == Spec /\ Fairness

-----------------------------------------------------------------------------
(* Properties *)

\* A record of s that the commits up to n replaced, or deleted.
Outdated(r, s, n) ==
    /\ Exists(r)
    /\ \/ r.rev < DbAt(n)[s].rev
       \/ ~Exists(DbAt(n)[s]) /\ \E m \in 0..n : Exists(DbAt(m)[s])

Reloads(s) == {l \in loads : l.s = s}
                \cup (IF boot.ph = "loading" /\ boot.s = s THEN {boot} ELSE {})

\* The cached record of s is outdated, and no session:get under way will tell: what
\* was read for the ones already answered is outdated too.
Adrift(s) ==
    /\ cursor # None /\ Outdated(sess[s], s, cursor)
    /\ \A l \in Reloads(s) : l.at # None /\ Outdated(DbAt(l.at)[s], s, cursor)

\* A list or search answer that holds s arrives.
Merged(s) == merges' \subseteq merges /\ merges' # merges /\ sess'[s] # sess[s]

\* An answer of session:get arrives for s: for a Session that is not cached (any
\* more), or it is a failure.
Answers(s) == {l \in Reloads(s) : l.at # None /\ l \notin Reloads(s)'}
UnaskedAnswer(s) == Answers(s) # {} /\ ~Cached(sess, s)
FailedReload(s) == \E l \in Answers(s) : faults' # faults \/ ~Exists(DbAt(l.at)[s])

\* There are three ways only to leave a cached Session behind the cursor with
\* nothing under way that brings it up to date: a list or search answer, merged
\* whatever its revision; an answer of session:get that arrives when the record is
\* not cached any more, and is installed with nothing to compare it to; and a
\* reload that failed.  No commit, gap, resync, navigation or crossing of loads does.
NeverLeftBehind ==
    [][\A s \in Sessions : Adrift(s)' =>
          Adrift(s) \/ Merged(s) \/ UnaskedAnswer(s) \/ FailedReload(s)]_vars

Quiet == /\ subscribed /\ events = <<>> /\ replies = {}
         /\ boot = Idle /\ loads = {} /\ merges = {}

\* The selected Session is always cached and belongs to the selected Project,
\* through archive, removal, resync and navigation in any order.
SelectionConsistent ==
    selSess # None => Cached(sess, selSess) /\ ProjectOf[selSess] = selProj

\* Without a lost push or failed query, a replica with nothing in flight is up
\* to date, or the newest commit reached it while a bootstrap was in flight.
LagExplained == Quiet /\ faults = 0 => cursor = Sequence \/ Sequence \in windowed

\* What the user looks at can be relied on: agent-replica.ts selects only what it
\* holds, and a gap in its cursor starts a resync.
ViewIsSound == SelectionConsistent /\ LagExplained

\* A resync ends: no answer, failed load or removed Session leaves the store with
\* a bootstrap in flight forever, which would swallow every later gap.
ResyncCompletes == (boot.ph # "idle") ~> (boot.ph = "idle")
=============================================================================
