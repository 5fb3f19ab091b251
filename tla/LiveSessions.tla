---------------------------- MODULE LiveSessions ----------------------------
(***************************************************************************)
(* LiveSessionContextRegistry: who may hold, use and tear down the runtime *)
(* context of a Session, together with the parties it arbitrates between:  *)
(* the SessionManager's contexts and Runs, the durable bindings of         *)
(* DurableExecutionStatePort, and the application services that create,    *)
(* load, run, update, archive, rewind, delete and restore Sessions and     *)
(* remove or relocate Projects.                                            *)
(*                                                                         *)
(* An action is what one asynchronous handler does between two real waits  *)
(* (file, plugin or process I/O, a Run, the coordinator's queue).  Owner   *)
(* and operation tokens are UUIDs in the code; here a token is any one     *)
(* that nobody holds, so that a released token never comes back while a    *)
(* handler still carries it.  Token 0 stands for "no token".               *)
(***************************************************************************)
EXTENDS Naturals, FiniteSets

CONSTANTS Sessions, Projects, ProjectOf,
          Tokens,      \* UUIDs
          MaxRev,      \* bound: Session revisions
          MaxStarts,   \* bound: new-Session starts in progress at once
          MaxChecks    \* bound: restores and deletions in progress at once

ASSUME LiveAssumption ==
    /\ ProjectOf \in [Sessions -> Projects]
    /\ Tokens \subseteq Nat \ {0}
    /\ MaxRev \in Nat \ {0} /\ MaxStarts \in Nat /\ MaxChecks \in Nat

VARIABLES
    db,        \* durable Session: lifecycle and revision
    projects,  \* durable Projects
    entry,     \* the registry's lifecycle entry of a Session
    evicting,  \* the registry's Project evictions: the operation's token, or 0
    ctx,       \* the SessionManager's context: none, open, closing
    run,       \* its Run: idle, running, failing (its first turn could not be stored),
               \* or settling its side effects
    planning,  \* the context is committing a plan status (mutationInProgress)
    binding,   \* the durable binding of the context
    starts,    \* new-Session starts in progress
    loading,   \* #load in progress: its stage and the revision it restored
    evop,      \* archive or rewind in progress
    checked,   \* restores and deletions past their idle check
    removal    \* Project removal or relocation in progress

vars == <<db, projects, entry, evicting, ctx, run, planning, binding, starts, loading,
          evop, checked, removal>>

Phases == {"none", "reserved", "loading", "live", "mutating", "evicting",
           "invalid", "releasing"}

NoEntry   == [phase |-> "none", owner |-> 0, op |-> 0, bound |-> FALSE, teardown |-> "none"]
NoBinding == [owner |-> 0, isNew |-> FALSE, invalid |-> FALSE, rev |-> 0]
NoLoad    == [st |-> "no", rev |-> 0]
NoEvop    == [kind |-> "no", st |-> "no", tok |-> 0]
NoRemoval == [st |-> "no", tok |-> 0, list |-> {}]
Gone      == [life |-> "none", rev |-> 0]

SessionsOf(p) == {s \in Sessions : ProjectOf[s] = p}

\* Tokens carried by an entry, an eviction, a binding or a handler.
InUse == {entry[s].owner : s \in Sessions} \cup {entry[s].op : s \in Sessions}
         \cup {evicting[p] : p \in Projects} \cup {binding[s].owner : s \in Sessions}
         \cup {o.tok : o \in starts} \cup {evop[s].tok : s \in Sessions}
         \cup {removal[p].tok : p \in Projects}

Fresh == Tokens \ InUse

Set(f, s, v) == [f EXCEPT ![s] = v]

-----------------------------------------------------------------------------
(* The registry's guards and helpers *)

\* Mutant: a Run that is settling its side effects counts as idle.
MutManagerIdle(s) == run[s] # "running" /\ ~planning[s]

\* #assertManagerSessionMutationIdle
ManagerIdle(s) == run[s] = "idle" /\ ~planning[s]

\* assertSessionIdle
SessionIdle(s) == entry[s].phase \in {"none", "live"} /\ ManagerIdle(s)

\* Mutant: the Runs of the Project's live Sessions are not looked at.
MutProjectIdle(p) ==
    /\ evicting[p] = 0
    /\ \A s \in Sessions : entry[s].bound /\ ProjectOf[s] = p => entry[s].phase = "live"

\* #assertProjectSessionsIdle: an unbound load or mutation blocks every Project.
ProjectIdle(p) ==
    /\ evicting[p] = 0
    /\ \A s \in Sessions :
          /\ ~(entry[s].phase \in {"loading", "mutating"} /\ ~entry[s].bound)
          /\ entry[s].bound /\ ProjectOf[s] = p =>
                entry[s].phase = "live" /\ ManagerIdle(s)

\* #scheduleTeardown: one teardown per entry, after `before` has settled.
TornDown(e, before) ==
    IF e.teardown # "none" THEN e
    ELSE [e EXCEPT !.phase = "releasing", !.teardown = before]

\* invalidate(sessionId, runId): the phase changes even when a teardown is
\* already under way.
Invalidated(e, before) ==
    IF e.phase = "none" THEN e
    ELSE TornDown([e EXCEPT !.phase = "invalid"], before)

\* forget(sessionId, ownerToken)
Forget(s, tok) == IF binding[s].owner = tok THEN Set(binding, s, NoBinding) ELSE binding

-----------------------------------------------------------------------------
(* New Sessions: #reserveAndStart, #startNew *)

\* reserveNew: what the database says is not looked at yet.
ReserveNew(s) ==
    /\ entry[s].phase = "none"
    /\ evicting[ProjectOf[s]] = 0
    /\ Cardinality(starts) < MaxStarts
    /\ \E t \in Fresh :
          /\ entry' = Set(entry, s, [NoEntry EXCEPT !.phase = "reserved", !.owner = t,
                                                    !.bound = TRUE])
          /\ starts' = starts \cup {[s |-> s, st |-> "asked", tok |-> t]}
    /\ UNCHANGED <<db, projects, evicting, ctx, run, planning, binding, loading, evop,
                   checked, removal>>

Step(o, st) == starts' = (starts \ {o}) \cup {[o EXCEPT !.st = st]}

\* The candidate must be new and its Project must exist.
Ask(o) ==
    /\ o.st = "asked" /\ db[o.s].life = "none" /\ ProjectOf[o.s] \in projects
    /\ Step(o, "creating")
    /\ UNCHANGED <<db, projects, entry, evicting, ctx, run, planning, binding, loading,
                   evop, checked, removal>>

\* It does not, a read fails, or createSession throws: a context already.
CreateFails(o) ==
    /\ o.st \in {"asked", "creating"}
    /\ Step(o, "failing")
    /\ UNCHANGED <<db, projects, entry, evicting, ctx, run, planning, binding, loading,
                   evop, checked, removal>>

\* createSession resolved: bind, adopt and start the Run in one go, unless the
\* binding or the entry is another's, or the Run refuses to start.
Created(o) ==
    LET bindable == binding[o.s].owner \in {0, o.tok}
        adopted  == bindable /\ entry[o.s].owner = o.tok /\ entry[o.s].phase = "reserved"
    IN  /\ o.st = "creating" /\ ctx[o.s] = "none"
        /\ ctx' = Set(ctx, o.s, "open")
        /\ binding' = IF bindable THEN Set(binding, o.s, [owner |-> o.tok, isNew |-> TRUE,
                                                         invalid |-> FALSE, rev |-> 1])
                      ELSE binding
        /\ entry' = IF adopted THEN [entry EXCEPT ![o.s].phase = "live"] ELSE entry
        /\ \/ adopted /\ run' = Set(run, o.s, "running") /\ Step(o, "started")
           \/ UNCHANGED run /\ Step(o, "failing")
        /\ UNCHANGED <<db, projects, planning, evicting, loading, evop, checked, removal>>

\* commitFirstTurn succeeds: the binding follows, the waiting start returns.
CommitFirstTurn(s) ==
    /\ run[s] = "running" /\ binding[s].isNew /\ ~binding[s].invalid
    /\ db[s].life = "none" /\ ProjectOf[s] \in projects
    /\ db' = Set(db, s, [life |-> "active", rev |-> 1])
    /\ binding' = [binding EXCEPT ![s].isNew = FALSE]
    /\ starts' = {o \in starts : ~(o.s = s /\ o.st = "started")}
    /\ UNCHANGED <<projects, entry, evicting, ctx, run, planning, loading, evop, checked,
                   removal>>

\* commitFirstTurn fails: the waiting start is rejected at once, while the Run is
\* still in its catch.  That Run commits nothing more.
FirstTurnFails(s) ==
    /\ run[s] = "running" /\ binding[s].isNew /\ ~binding[s].invalid
    /\ run' = Set(run, s, "failing")
    /\ starts' = {IF o.s = s /\ o.st = "started" THEN [o EXCEPT !.st = "failing"] ELSE o :
                    o \in starts}
    /\ UNCHANGED <<db, projects, entry, evicting, ctx, planning, binding, loading, evop,
                   checked, removal>>

\* The Run settles before it came to its first turn: the start fails.
StartFails(o) ==
    /\ o.st = "started" /\ run[o.s] = "idle"
    /\ Step(o, "failing")
    /\ UNCHANGED <<db, projects, entry, evicting, ctx, run, planning, binding, loading,
                   evop, checked, removal>>

\* releaseOwned: only the owner's entry is torn down.
ReleaseOwned(o) ==
    /\ o.st = "failing"
    /\ starts' = starts \ {o}
    /\ entry' = IF entry[o.s].owner = o.tok
                THEN Set(entry, o.s, TornDown(entry[o.s], "closing")) ELSE entry
    /\ UNCHANGED <<db, projects, evicting, ctx, run, planning, binding, loading, evop,
                   checked, removal>>

-----------------------------------------------------------------------------
(* Loading: ensureLoaded, #load, #cleanupFailedLoad *)

EnsureLoaded(s) ==
    /\ entry[s].phase = "none"
    /\ \E t \in Fresh :
          entry' = Set(entry, s, [NoEntry EXCEPT !.phase = "loading", !.owner = t])
    /\ loading' = Set(loading, s, [st |-> "reading", rev |-> 0])
    /\ UNCHANGED <<db, projects, evicting, ctx, run, planning, binding, starts, evop,
                   checked, removal>>

LoadFails(s) == loading' = Set(loading, s, [NoLoad EXCEPT !.st = "cleaning"])

\* The first read: bind the Project unless it is being evicted, ...
LoadMayBind(s) == db[s].life # "none" /\ evicting[ProjectOf[s]] = 0

\* ... then the lifecycle, the Project and the durable binding.
LoadMayRestore(s) ==
    /\ db[s].life = "active" /\ ProjectOf[s] \in projects
    /\ binding[s].owner \in {0, entry[s].owner}

LoadRead(s) ==
    /\ loading[s].st = "reading" /\ LoadMayBind(s) /\ LoadMayRestore(s)
    /\ entry' = [entry EXCEPT ![s].bound = TRUE]
    /\ binding' = Set(binding, s, [owner |-> entry[s].owner, isNew |-> FALSE,
                                  invalid |-> FALSE, rev |-> db[s].rev])
    /\ loading' = Set(loading, s, [st |-> "restoring", rev |-> db[s].rev])
    /\ UNCHANGED <<db, projects, evicting, ctx, run, planning, starts, evop, checked, removal>>

LoadRefused(s) ==
    /\ loading[s].st = "reading" /\ ~(LoadMayBind(s) /\ LoadMayRestore(s))
    /\ LoadFails(s)
    /\ entry' = IF LoadMayBind(s) THEN [entry EXCEPT ![s].bound = TRUE] ELSE entry
    /\ UNCHANGED <<db, projects, evicting, ctx, run, planning, binding, starts, evop,
                   checked, removal>>

\* restoreSession succeeds or throws.
LoadRestore(s) ==
    /\ loading[s].st = "restoring"
    /\ \/ ctx[s] = "none" /\ ctx' = Set(ctx, s, "open")
          /\ loading' = [loading EXCEPT ![s].st = "checking"]
       \/ LoadFails(s) /\ UNCHANGED ctx
    /\ UNCHANGED <<db, projects, entry, evicting, run, planning, binding, starts, evop,
                   checked, removal>>

\* The record read again must be the one restored.
LoadUnchanged(s) ==
    /\ entry[s].phase = "loading"
    /\ db[s].life = "active" /\ db[s].rev = loading[s].rev

LoadAccepted(s) ==
    /\ loading[s].st = "checking" /\ LoadUnchanged(s)
    /\ entry' = [entry EXCEPT ![s].phase = "live"]
    /\ loading' = Set(loading, s, NoLoad)
    /\ UNCHANGED <<db, projects, evicting, ctx, run, planning, binding, starts, evop,
                   checked, removal>>

LoadStale(s) ==
    /\ loading[s].st = "checking" /\ ~LoadUnchanged(s)
    /\ LoadFails(s)
    /\ UNCHANGED <<db, projects, entry, evicting, ctx, run, planning, binding, starts,
                   evop, checked, removal>>

\* The second read.  The idle checks of every writer keep a Session unchanged
\* while it loads, so it never finds a difference: the check is a second line.
LoadChecked(s) == IF LoadUnchanged(s) THEN LoadAccepted(s) ELSE LoadStale(s)

\* A context that was restored is closed before the entry goes.
CleanupFailedLoad(s) ==
    /\ loading[s].st = "cleaning"
    /\ IF ctx[s] = "open"
       THEN ctx' = Set(ctx, s, "closing") /\ UNCHANGED <<binding, entry, loading>>
       ELSE /\ ctx' = Set(ctx, s, "none")
            /\ binding' = Forget(s, entry[s].owner)
            /\ entry' = Set(entry, s, NoEntry)
            /\ loading' = Set(loading, s, NoLoad)
    /\ UNCHANGED <<db, projects, evicting, run, planning, starts, evop, checked, removal>>

-----------------------------------------------------------------------------
(* Runs and their commits *)

\* #startExisting on a loaded Session, or a background wakeup.  A Run that has
\* ended and only settles its side effects is replaced.
StartRun(s) ==
    /\ entry[s].phase = "live" /\ ctx[s] = "open" /\ run[s] # "running" /\ ~planning[s]
    /\ db[s].life = "active" /\ ~binding[s].invalid
    /\ run' = Set(run, s, "running")
    /\ UNCHANGED <<db, projects, entry, evicting, ctx, planning, binding, starts, loading,
                   evop, checked, removal>>

\* commitMutation from the Run: expected revision, then the binding follows.
Commits(s) == run[s] = "running" /\ ~binding[s].isNew /\ ~binding[s].invalid

CommitRun(s) ==
    /\ Commits(s)
    /\ db[s].life = "active" /\ db[s].rev = binding[s].rev /\ db[s].rev < MaxRev
    /\ db' = [db EXCEPT ![s].rev = @ + 1]
    /\ binding' = [binding EXCEPT ![s].rev = @ + 1]
    /\ UNCHANGED <<projects, entry, evicting, ctx, run, planning, starts, loading, evop,
                   checked, removal>>

\* A commit that failed reloads the record.
CommitFails(s) ==
    /\ Commits(s) /\ db[s].life # "none"
    /\ binding' = [binding EXCEPT ![s].rev = db[s].rev]
    /\ UNCHANGED <<db, projects, entry, evicting, ctx, run, planning, starts, loading,
                   evop, checked, removal>>

\* The reload fails, or a batch of tool results: the binding becomes invalid and
\* the registry gives the context up.
InvalidateContext(s) ==
    /\ Commits(s)
    /\ binding' = [binding EXCEPT ![s].invalid = TRUE]
    /\ entry' = Set(entry, s, Invalidated(entry[s], "settling"))
    /\ UNCHANGED <<db, projects, evicting, ctx, run, planning, starts, loading, evop,
                   checked, removal>>

\* The Run ends; it is settled once its side effects are.  A Run that fails at
\* its first commit has none.
EndRun(s) ==
    /\ \/ run[s] = "running" /\ run' = Set(run, s, "settling")
       \/ run[s] \in {"settling", "failing"} /\ run' = Set(run, s, "idle")
    /\ UNCHANGED <<db, projects, entry, evicting, ctx, planning, binding, starts, loading,
                   evop, checked, removal>>

\* updatePlanStatus of the idle context, loaded before if need be: it reserves
\* nothing in the registry.  (For a Session that is not durable yet it stores
\* nothing: its commit has no first message to store.)
BeginPlan(s) ==
    /\ entry[s].phase = "live" /\ ctx[s] = "open" /\ ManagerIdle(s) /\ ~binding[s].isNew
    /\ planning' = Set(planning, s, TRUE)
    /\ UNCHANGED <<db, projects, entry, evicting, ctx, run, binding, starts, loading, evop,
                   checked, removal>>

CommitPlan(s) ==
    /\ planning[s] /\ ~binding[s].invalid
    /\ db[s].life = "active" /\ db[s].rev = binding[s].rev /\ db[s].rev < MaxRev
    /\ db' = [db EXCEPT ![s].rev = @ + 1]
    /\ binding' = [binding EXCEPT ![s].rev = @ + 1]
    /\ planning' = Set(planning, s, FALSE)
    /\ UNCHANGED <<projects, entry, evicting, ctx, run, starts, loading, evop, checked,
                   removal>>

\* Nothing to commit, or the commit fails: the record is read again, or with no
\* Run to wait for the context is given up at once.
PlanFails(s) ==
    /\ planning[s]
    /\ planning' = Set(planning, s, FALSE)
    /\ \/ UNCHANGED <<binding, entry>>
       \/ /\ db[s].life # "none" /\ ~binding[s].invalid
          /\ binding' = [binding EXCEPT ![s].rev = db[s].rev]
          /\ UNCHANGED entry
       \/ /\ ~binding[s].invalid
          /\ binding' = [binding EXCEPT ![s].invalid = TRUE]
          /\ entry' = Set(entry, s, Invalidated(entry[s], "closing"))
    /\ UNCHANGED <<db, projects, evicting, ctx, run, starts, loading, evop, checked, removal>>

\* Mutant: the live context is not told of the committed record.
MutUpdateUnseen(s) ==
    /\ db[s].life = "active" /\ db[s].rev < MaxRev /\ SessionIdle(s)
    /\ db' = [db EXCEPT ![s].rev = @ + 1]
    /\ UNCHANGED <<projects, entry, evicting, ctx, run, planning, binding, starts, loading,
                   evop, checked, removal>>

\* update: a metadata commit while idle, then applySessionRecord.
UpdateSession(s) ==
    /\ db[s].life = "active" /\ db[s].rev < MaxRev /\ SessionIdle(s)
    /\ db' = [db EXCEPT ![s].rev = @ + 1]
    /\ binding' = IF entry[s].phase = "live" /\ ctx[s] = "open" /\ ~binding[s].invalid
                  THEN [binding EXCEPT ![s].rev = db[s].rev + 1, ![s].isNew = FALSE]
                  ELSE binding
    /\ UNCHANGED <<projects, entry, evicting, ctx, run, planning, starts, loading, evop,
                   checked, removal>>

-----------------------------------------------------------------------------
(* Teardown: #closeOwnedContext *)

\* The Run an invalid context waits for has settled.
TeardownSettled(s) ==
    /\ entry[s].teardown = "settling" /\ run[s] = "idle"
    /\ entry' = [entry EXCEPT ![s].teardown = "closing"]
    /\ UNCHANGED <<db, projects, evicting, ctx, run, planning, binding, starts, loading,
                   evop, checked, removal>>

\* closeSession closes the context and aborts a Run that is still there, ...
CloseContext(s) ==
    /\ entry[s].teardown = "closing" /\ ctx[s] = "open"
    /\ ctx' = Set(ctx, s, "closing")
    /\ UNCHANGED <<db, projects, entry, evicting, run, planning, binding, starts, loading,
                   evop, checked, removal>>

\* ... waits for that Run, but no longer than RUN_CANCEL_GRACE_MS, and disposes
\* the context, with which a Run that is still at work is out of sight.
FinishTeardown(s) ==
    /\ entry[s].teardown = "closing" /\ ctx[s] # "open"
    /\ ctx' = Set(ctx, s, "none")
    /\ run' = Set(run, s, "idle")
    /\ binding' = Forget(s, entry[s].owner)
    /\ entry' = Set(entry, s, NoEntry)
    /\ UNCHANGED <<db, projects, planning, evicting, starts, loading, evop, checked, removal>>

-----------------------------------------------------------------------------
(* Mutation reservations (public registry operations) *)

ReserveMutation(s) ==
    /\ SessionIdle(s)
    /\ \E t \in Fresh :
          entry' = Set(entry, s, IF entry[s].phase = "live"
                                 THEN [entry[s] EXCEPT !.phase = "mutating", !.op = t]
                                 ELSE [NoEntry EXCEPT !.phase = "mutating", !.owner = t,
                                                      !.op = t])
    /\ UNCHANGED <<db, projects, evicting, ctx, run, planning, binding, starts, loading,
                   evop, checked, removal>>

BindMutation(s) ==
    /\ entry[s].phase = "mutating" /\ evicting[ProjectOf[s]] = 0
    /\ entry' = [entry EXCEPT ![s].bound = TRUE]
    /\ UNCHANGED <<db, projects, evicting, ctx, run, planning, binding, starts, loading,
                   evop, checked, removal>>

\* Mutant: the entry becomes live without a context.
MutUnreservedLive(s) == [entry[s] EXCEPT !.phase = "live", !.op = 0]

\* What a cancelled or released reservation leaves.
Unreserved(s) == IF ctx[s] = "open" THEN [entry[s] EXCEPT !.phase = "live", !.op = 0]
                 ELSE NoEntry

ReleaseMutation(s) ==
    /\ entry[s].phase = "mutating"
    /\ entry' = Set(entry, s, Unreserved(s))
    /\ UNCHANGED <<db, projects, evicting, ctx, run, planning, binding, starts, loading,
                   evop, checked, removal>>

-----------------------------------------------------------------------------
(* archive and rewind *)

\* reserveSessionEviction, for a Session the caller has a durable record of.
ReserveEviction(s, kind) ==
    /\ evop[s] = NoEvop /\ db[s].life # "none" /\ SessionIdle(s)
    /\ \E t \in Fresh :
          /\ entry' = Set(entry, s, IF entry[s].phase = "live"
                                    THEN [entry[s] EXCEPT !.phase = "evicting", !.op = t]
                                    ELSE [NoEntry EXCEPT !.phase = "evicting", !.owner = t,
                                                         !.op = t])
          /\ evop' = Set(evop, s, [kind |-> kind, st |-> "commit", tok |-> t])
    /\ UNCHANGED <<db, projects, evicting, ctx, run, planning, binding, starts, loading,
                   checked, removal>>

\* Whether the reservation still is the operation's.
Holds(s) == entry[s].phase = "evicting" /\ entry[s].op = evop[s].tok

\* The transaction succeeds and the context is torn down, ...
FinishEviction(s) ==
    /\ evop[s].st = "commit" /\ db[s].life = "active" /\ db[s].rev < MaxRev
    /\ db' = Set(db, s, [life |-> IF evop[s].kind = "archive" THEN "archived" ELSE "active",
                        rev |-> db[s].rev + 1])
    /\ entry' = IF Holds(s) THEN Set(entry, s, TornDown(entry[s], "closing")) ELSE entry
    /\ evop' = Set(evop, s, NoEvop)
    /\ UNCHANGED <<projects, evicting, ctx, run, planning, binding, starts, loading,
                   checked, removal>>

\* ... or it fails and the reservation is cancelled.
CancelEviction(s) ==
    /\ evop[s].st = "commit"
    /\ entry' = IF Holds(s) THEN Set(entry, s, Unreserved(s)) ELSE entry
    /\ evop' = Set(evop, s, NoEvop)
    /\ UNCHANGED <<db, projects, evicting, ctx, run, planning, binding, starts, loading,
                   checked, removal>>

\* restore and deleteArchived: an idle check, then the transaction, with no
\* reservation in between (deleteArchived quiesces the Session first).
Check(s, kind) ==
    /\ SessionIdle(s) /\ Cardinality(checked) < MaxChecks
    /\ checked' = checked \cup {[s |-> s, kind |-> kind]}
    /\ UNCHANGED <<db, projects, entry, evicting, ctx, run, planning, binding, starts,
                   loading, evop, removal>>

\* The transaction looks at the record again; it may fail.
FinishChecked(c) ==
    /\ checked' = checked \ {c}
    /\ \/ /\ c.kind = "restore" /\ db[c.s].life = "archived" /\ db[c.s].rev < MaxRev
          /\ db' = Set(db, c.s, [life |-> "active", rev |-> db[c.s].rev + 1])
       \/ c.kind = "delete" /\ db[c.s].life = "archived" /\ db' = Set(db, c.s, Gone)
       \/ UNCHANGED db
    /\ UNCHANGED <<projects, entry, evicting, ctx, run, planning, binding, starts, loading,
                   evop, removal>>

-----------------------------------------------------------------------------
(* Projects: remove, and update of the path *)

\* Every live entry of the Project is taken by the operation.
TakenBy(s, p, t) == IF entry[s].bound /\ ProjectOf[s] = p /\ entry[s].phase = "live"
                    THEN [entry[s] EXCEPT !.phase = "evicting", !.op = t] ELSE entry[s]

ReserveProjectEviction(p) ==
    /\ removal[p] = NoRemoval /\ p \in projects /\ ProjectIdle(p)
    /\ \E t \in Fresh :
          /\ evicting' = Set(evicting, p, t)
          /\ entry' = [s \in Sessions |-> TakenBy(s, p, t)]
          /\ removal' = Set(removal, p, [st |-> "commit", tok |-> t, list |-> {}])
    /\ UNCHANGED <<db, projects, ctx, run, planning, binding, starts, loading, evop, checked>>

\* Mutant: the operation's token is compared with the owner's.
MutTaken(p, t) == {s \in SessionsOf(p) : entry[s].phase = "evicting" /\ entry[s].owner = t}

\* The entries an eviction took, which its token identifies.
Taken(p, t) == {s \in SessionsOf(p) : /\ entry[s].bound /\ entry[s].phase = "evicting"
                                      /\ entry[s].op = t}

\* The transaction deletes the Project with its Sessions, or only relocates it;
\* evictIdleProject then lists the contexts it will tear down.
CommitProject(p) ==
    /\ removal[p].st = "commit"
    /\ \/ projects' = projects \ {p}
          /\ db' = [s \in Sessions |-> IF ProjectOf[s] = p THEN Gone ELSE db[s]]
       \/ UNCHANGED <<projects, db>>
    /\ removal' = [removal EXCEPT ![p].st = "evict", ![p].list = Taken(p, removal[p].tok)]
    /\ UNCHANGED <<entry, evicting, ctx, run, planning, binding, starts, loading, evop,
                   checked>>

\* cancelProjectEviction: a failed transaction gives every entry back.
GivenBack(s, p) == IF s \in Taken(p, removal[p].tok)
                   THEN [entry[s] EXCEPT !.phase = "live", !.op = 0] ELSE entry[s]

CancelProject(p) ==
    /\ removal[p].st = "commit"
    /\ evicting' = Set(evicting, p, 0)
    /\ entry' = [s \in Sessions |-> GivenBack(s, p)]
    /\ removal' = Set(removal, p, NoRemoval)
    /\ UNCHANGED <<db, projects, ctx, run, planning, binding, starts, loading, evop, checked>>

\* evictIdleProject: one teardown after the other, each awaited.
EvictOne(p) ==
    /\ removal[p].st = "evict"
    /\ \E s \in removal[p].list :
          /\ \A other \in SessionsOf(p) : entry[other].teardown = "none" \/ other \notin removal[p].list
          /\ entry[s].phase = "evicting" /\ entry[s].op = removal[p].tok
          /\ entry' = Set(entry, s, TornDown(entry[s], "closing"))
    /\ UNCHANGED <<db, projects, evicting, ctx, run, planning, binding, starts, loading,
                   evop, checked, removal>>

FinishProject(p) ==
    /\ removal[p].st = "evict"
    /\ \A s \in removal[p].list : ~(entry[s].op = removal[p].tok)
    /\ evicting' = Set(evicting, p, 0)
    /\ removal' = Set(removal, p, NoRemoval)
    /\ UNCHANGED <<db, projects, entry, ctx, run, planning, binding, starts, loading, evop,
                   checked>>

\* project:add
AddProject(p) ==
    /\ p \notin projects
    /\ projects' = projects \cup {p}
    /\ UNCHANGED <<db, entry, evicting, ctx, run, planning, binding, starts, loading, evop,
                   checked, removal>>

-----------------------------------------------------------------------------
Init ==
    /\ db \in [Sessions -> {Gone, [life |-> "active", rev |-> 1], [life |-> "archived", rev |-> 1]}]
    /\ projects = Projects
    /\ entry = [s \in Sessions |-> NoEntry]
    /\ evicting = [p \in Projects |-> 0]
    /\ ctx = [s \in Sessions |-> "none"]
    /\ run = [s \in Sessions |-> "idle"]
    /\ binding = [s \in Sessions |-> NoBinding]
    /\ starts = {}
    /\ loading = [s \in Sessions |-> NoLoad]
    /\ evop = [s \in Sessions |-> NoEvop]
    /\ planning = [s \in Sessions |-> FALSE]
    /\ checked = {}
    /\ removal = [p \in Projects |-> NoRemoval]

StartStep == \E o \in starts : \/ Ask(o) \/ CreateFails(o) \/ Created(o)
                                \/ StartFails(o) \/ ReleaseOwned(o)
LoadStep(s) == \/ LoadRead(s) \/ LoadRefused(s) \/ LoadRestore(s)
               \/ LoadChecked(s) \/ CleanupFailedLoad(s)
TeardownStep(s) == TeardownSettled(s) \/ CloseContext(s) \/ FinishTeardown(s)
RunStep(s) == \/ StartRun(s) \/ CommitFirstTurn(s) \/ FirstTurnFails(s) \/ CommitRun(s)
              \/ CommitFails(s) \/ InvalidateContext(s) \/ EndRun(s)
PlanStep(s) == BeginPlan(s) \/ CommitPlan(s) \/ PlanFails(s)
ProjectStep(p) == CommitProject(p) \/ CancelProject(p) \/ EvictOne(p) \/ FinishProject(p)

SessionStep(s) ==
    \/ ReserveNew(s) \/ EnsureLoaded(s) \/ LoadStep(s) \/ RunStep(s) \/ PlanStep(s)
    \/ UpdateSession(s)
    \/ TeardownStep(s) \/ ReserveMutation(s) \/ BindMutation(s) \/ ReleaseMutation(s)
    \/ \E k \in {"archive", "rewind"} : ReserveEviction(s, k)
    \/ FinishEviction(s) \/ CancelEviction(s)
    \/ \E k \in {"restore", "delete"} : Check(s, k)

Next ==
    \/ StartStep
    \/ \E c \in checked : FinishChecked(c)
    \/ \E s \in Sessions : SessionStep(s)
    \/ \E p \in Projects : ReserveProjectEviction(p) \/ ProjectStep(p) \/ AddProject(p)

Spec == Init /\ [][Next]_vars

\* Handlers run to their end: awaited calls settle, every Run settles (a Run
\* whose binding is invalid fails at its next commit), teardowns are not awaited
\* by anything that waits for them.
FairSpec ==
    /\ Spec
    /\ WF_vars(StartStep)
    /\ \A s \in Sessions :
          /\ WF_vars(LoadStep(s)) /\ WF_vars(EndRun(s)) /\ WF_vars(TeardownStep(s))
          /\ WF_vars(FinishEviction(s) \/ CancelEviction(s)) /\ WF_vars(ReleaseMutation(s))
    /\ \A p \in Projects : WF_vars(ProjectStep(p))

-----------------------------------------------------------------------------
(* Properties *)

Token0 == Tokens \cup {0}

Durable  == [life : {"none", "active", "archived"}, rev : 0..MaxRev]
Entries  == [phase : Phases, owner : Token0, op : Token0, bound : BOOLEAN,
             teardown : {"none", "settling", "closing"}]
Bindings == [owner : Token0, isNew : BOOLEAN, invalid : BOOLEAN, rev : 0..MaxRev]
Starts   == [s : Sessions, st : {"asked", "creating", "started", "failing"}, tok : Tokens]
Loads    == [st : {"no", "reading", "restoring", "checking", "cleaning"}, rev : 0..MaxRev]
Checks   == [s : Sessions, kind : {"restore", "delete"}]
Evops    == [kind : {"no", "archive", "rewind"}, st : {"no", "commit"}, tok : Token0]
Removals == [st : {"no", "commit", "evict"}, tok : Token0, list : SUBSET Sessions]

\* The type invariant.
TypeOK ==
    /\ db \in [Sessions -> Durable] /\ projects \subseteq Projects
    /\ entry \in [Sessions -> Entries] /\ evicting \in [Projects -> Token0]
    /\ ctx \in [Sessions -> {"none", "open", "closing"}]
    /\ run \in [Sessions -> {"idle", "running", "failing", "settling"}]
    /\ planning \in [Sessions -> BOOLEAN] /\ binding \in [Sessions -> Bindings]
    /\ starts \subseteq Starts /\ loading \in [Sessions -> Loads]
    /\ evop \in [Sessions -> Evops] /\ checked \subseteq Checks
    /\ removal \in [Projects -> Removals]

\* No context or durable binding outlives its registry entry, and a binding
\* belongs to the entry's owner: otherwise nobody would ever tear it down, and a
\* later load of the Session would be refused.
ContextsAreOwned ==
    \A s \in Sessions :
       /\ ctx[s] # "none" => entry[s].phase # "none"
       /\ binding[s].owner # 0 => binding[s].owner = entry[s].owner

\* A live entry has an open context and a binding of its own.
LiveIsReady ==
    \A s \in Sessions : entry[s].phase = "live" =>
       /\ ctx[s] = "open" /\ binding[s].owner = entry[s].owner /\ entry[s].bound

\* The registry and the backend agree: nothing that lives in the backend is without its entry,
\* and nothing the registry hands out is without what lives in the backend.
OwnershipHolds == ContextsAreOwned /\ LiveIsReady

\* A Run only exists in an open context whose entry is live, or invalid and
\* waiting for that Run; and a plan status is committed in a live one that has no
\* Run: nothing archives, rewinds, mutates, removes or closes a Session under its
\* Run or its commit.  One Run does lose its Session: that of a new Session whose
\* first turn could not be stored.  Its start is told at once and closes the
\* context while the Run still ends, and nothing of the Session is durable.
RunIsProtected ==
    \A s \in Sessions :
       /\ run[s] \in {"running", "settling"} =>
            /\ ctx[s] = "open"
            /\ \/ entry[s].phase = "live"
               \/ entry[s].phase = "releasing" /\ entry[s].teardown = "settling"
       /\ run[s] = "failing" =>
            /\ db[s].life = "none"
            /\ entry[s].phase = "live" \/ entry[s].teardown = "closing"
       /\ planning[s] => run[s] = "idle" /\ ctx[s] = "open" /\ entry[s].phase = "live"

\* The record a live context works from is the durable one: active, in a Project
\* that exists, at the revision of the database.
LiveMatchesDurable ==
    \A s \in Sessions :
       entry[s].phase = "live" /\ ~binding[s].isNew /\ ~binding[s].invalid =>
         /\ db[s].life = "active" /\ ProjectOf[s] \in projects
         /\ binding[s].rev = db[s].rev

\* While a Project is reserved for removal no Run and no plan status is at work
\* in its Sessions.
NoRunDuringEviction ==
    \A s \in Sessions : evicting[ProjectOf[s]] # 0 => ManagerIdle(s)

\* When a Project's eviction ends after its transaction, every context of the
\* Project is closed, or is being torn down by a failed start.
EvictionIsComplete ==
    \A p \in Projects :
       removal[p].st = "evict" /\ removal'[p].st = "no" =>
          \A s \in SessionsOf(p) : ctx[s] = "open" => entry[s].teardown # "none"

\* A Project is removed or relocated under no Run and with no context left behind.
EvictionIsSafe == [][NoRunDuringEviction' /\ EvictionIsComplete]_vars

\* Every reservation, load and teardown comes to an end: a Session is not left
\* in a phase that refuses all its callers, but again and again has no entry or a
\* live one.
ReservationsEnd ==
    \A s \in Sessions : []<>(entry[s].phase \in {"none", "live"})
=============================================================================
