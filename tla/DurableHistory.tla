--------------------------- MODULE DurableHistory ---------------------------
(***************************************************************************)
(* One public Session's conversation in its two forms: the records a live  *)
(* context keeps in memory, from which every Provider request is compiled, *)
(* and the records of the database, from which the next context is         *)
(* restored.  DurableExecutionStatePort carries one into the other; a Run  *)
(* appends in memory first, commits, and undoes what did not commit;       *)
(* SessionCompactCoordinator rewrites the whole active history in place.   *)
(*                                                                         *)
(* A record is its position, its kind and whether it is in the active      *)
(* history; texts, tool calls and usage are left out.  A Run's commit is   *)
(* one step: the Run waits for it, and no other writer gets past the idle  *)
(* check of SessionService while the Run is active.                        *)
(***************************************************************************)
EXTENDS Naturals, FiniteSets, FiniteSetsExt, Sequences

CONSTANTS ClientRequests, \* client request ids
          Routes,         \* model routes; two routes are never compatible
          Outgrown,       \* whether a conversation carried to another route can hold more
                          \* images than a request takes
          MaxHistoryRuns, MaxHistorySteps, MaxNotes, MaxFaults, MaxCrashes, \* bounds
          MaxEdits,
          None

ASSUME HistoryAssumption == None \notin ClientRequests /\ MaxNotes \in Nat

VARIABLES db,      \* the Session row and its messages
          mem,     \* SessionState: history, nextMessageSeq, model selection
          bind,    \* DurableSessionBinding
          task,    \* the active Run
          answer,  \* what run:start has told the client about each request
          spent    \* the bounds: Runs, faults, crashes and edits so far

historyVars == <<db, mem, bind, task, answer, spent>>

Anchors == {"summary", "checkpoint", "transcript"}

Active(h) == {r \in h : r.active}

LastOf(h) == IF h = {} THEN 0 ELSE Max({r.seq : r \in h})

Newest(h) == CHOOSE r \in h : r.seq = LastOf(h)

\* The boundary of the newest epoch anchor that is still visible.
Boundary(h) ==
    LET anchors == {r \in h : r.kind \in Anchors /\ ~r.gone}
    IN  IF anchors = {} THEN 0 ELSE Newest(anchors).thru

\* What MessageHistoryCompiler accepts: one epoch, in order.
Compiles(h) ==
    LET act == Active(h)
        anchors == {r \in act : r.kind \in Anchors}
    IN  /\ act # {}
        /\ Cardinality(anchors) <= 1
        /\ Cardinality({r.seq : r \in act}) = Cardinality(act)
        /\ \A a \in anchors, r \in act : r.seq > a.thru

Item(kind) == [kind |-> kind, req |-> None, route |-> None, thru |-> 0]

\* The records of items appended at m's next position.
Appended(m, items) ==
    [m EXCEPT !.hist = @ \cup
                 {[kind |-> items[i].kind, req |-> items[i].req,
                   route |-> items[i].route, thru |-> items[i].thru,
                   seq |-> m.next + i - 1,
                   active |-> items[i].kind # "control", gone |-> FALSE] :
                      i \in 1..Len(items)},
              !.next = @ + Len(items)]

\* The history replaced in place: everything active is deactivated, a fresh
\* harness and the anchor follow, and the derived user message if there is one.
Rewritten(m, anchor, thru, route, derived) ==
    Appended([m EXCEPT !.hist = {[r EXCEPT !.active = FALSE] : r \in @}],
             <<Item("harness"),
               [Item(anchor) EXCEPT !.thru = thru, !.route = route]>>
             \o (IF derived THEN <<Item("user")>> ELSE <<>>))

NoContext == [open |-> FALSE, hist |-> {}, next |-> 1, meta |-> None]

NoBinding == [st |-> "none", rev |-> 0, last |-> 0, meta |-> None]

\* SessionManager.restoreSession, and restoreDurableSessionState.
RestoredFrom(d) == [open |-> TRUE, hist |-> Active(d.msgs), next |-> d.last + 1,
                    meta |-> d.meta]

BindingOf(d) == [st |-> "ok", rev |-> d.rev, last |-> d.last, meta |-> d.meta]

Undo(m) == [hist |-> m.hist, next |-> m.next]

NoUndo == [hist |-> {}, next |-> 0]

Idle == [pc |-> "idle", req |-> None, what |-> "none", committed |-> FALSE,
         saved |-> NoUndo, prev |-> NoUndo, thru |-> 0, step |-> 0, full |-> FALSE,
         broken |-> FALSE, drained |-> 0, why |-> "none"]

HistoryInit ==
    /\ db = [exists |-> FALSE, msgs |-> {}, rev |-> 0, last |-> 0, meta |-> None]
    /\ mem = NoContext
    /\ bind = NoBinding
    /\ task = Idle
    /\ answer = [q \in ClientRequests |-> "none"]
    /\ spent = [runs |-> 0, faults |-> 0, crashes |-> 0, edits |-> 0]

Committed(q) == \E r \in db.msgs : r.req = q

Waiting(q) == answer[q] = "waiting"
-----------------------------------------------------------------------------
(* The commit: DurableExecutionStatePort and SessionService. *)

\* The records memory has past the binding's last position.
Prepared(m) == {r \in m.hist : r.seq > bind.last}

Contiguous(recs, last) ==
    {r.seq : r \in recs} = (last + 1)..(last + Cardinality(recs))

\* commitFirstTurn for a new Session, commitMutation for the others.
Accepts(m, deactivate) ==
    LET recs == Prepared(m)
    IN  /\ Contiguous(recs, bind.last)
        /\ IF bind.st = "new"
           THEN /\ ~db.exists
                /\ Cardinality({r \in recs : r.req # None}) = 1
           ELSE /\ db.rev = bind.rev /\ db.last = bind.last
                /\ deactivate <= db.last
                /\ \A r \in recs : r.active \/ r.kind = "control"
                /\ \A r \in recs : r.req # None => ~Committed(r.req)

\* Mutant: nothing is deactivated.
MutWritten(m, deactivate) ==
    LET recs == Prepared(m)
    IN  [exists |-> TRUE, msgs |-> db.msgs \cup recs, rev |-> db.rev + 1,
         last |-> IF recs = {} THEN db.last ELSE LastOf(recs), meta |-> m.meta]

\* The transaction: old records deactivated through the boundary, new inserted.
Written(m, deactivate) ==
    LET recs == Prepared(m)
    IN  [exists |-> TRUE,
         msgs |-> {IF r.seq <= deactivate THEN [r EXCEPT !.active = FALSE] ELSE r :
                      r \in db.msgs} \cup recs,
         rev |-> db.rev + 1,
         last |-> IF recs = {} THEN db.last ELSE LastOf(recs),
         meta |-> m.meta]

Changed(m, deactivate) ==
    bind.st = "new" \/ Prepared(m) # {} \/ m.meta # bind.meta \/ deactivate # 0

\* The waiters of the requests among recs are answered with outcome.
Replies(recs, outcome) ==
    [q \in ClientRequests |-> IF Waiting(q) /\ (\E r \in recs : r.req = q)
                              THEN outcome ELSE answer[q]]

Persist(deactivate) ==
    /\ IF Changed(mem, deactivate)
       THEN /\ Accepts(mem, deactivate)
            /\ db' = Written(mem, deactivate)
            /\ bind' = BindingOf(db')
            /\ answer' = Replies(Prepared(mem), "started")
       ELSE UNCHANGED <<db, bind, answer>>
    /\ UNCHANGED <<mem, spent>>

\* A commit fails because the database does, or because it refuses the batch.
CommitFails(deactivate) ==
    /\ Changed(mem, deactivate)
    /\ IF Accepts(mem, deactivate)
       THEN /\ spent.faults < MaxFaults
            /\ spent' = [spent EXCEPT !.faults = @ + 1]
       ELSE UNCHANGED spent
    /\ UNCHANGED db

\* A Run whose input is not committed gives the history back as it found it.
GivenBack(m) ==
    IF task.committed THEN m
    ELSE [m EXCEPT !.hist = task.saved.hist, !.next = task.saved.next]

\* What the caller of the commit then undoes: drained messages leave the history
\* again, and a rewrite or a command gives way to the history before it.
Undone(m) ==
    IF task.drained > 0
    THEN LET first == mem.next - task.drained
         IN  [m EXCEPT !.hist = {r \in @ : r.seq < first}, !.next = first]
    ELSE IF task.prev = NoUndo THEN m
    ELSE [m EXCEPT !.hist = task.prev.hist, !.next = task.prev.next]

\* #recoverAfterFailure: the durable state is loaded once; when it cannot be
\* loaded a Session that is still new is emptied, any other binding is invalid.
\* Only then does the caller undo its own change.
Recover(reason) ==
    \/ /\ db.exists
       /\ mem' = GivenBack(Undone(RestoredFrom(db)))
       /\ bind' = [BindingOf(db) EXCEPT !.st = IF reason = "tool_batch" THEN "invalid"
                                               ELSE "ok"]
       /\ answer' = Replies({r \in Prepared(mem) : ~Committed(r.req)}, "failed")
    \/ /\ bind.st = "new"
       /\ mem' = GivenBack(Undone([mem EXCEPT !.hist = {}, !.next = 1]))
       /\ answer' = Replies(Prepared(mem), "failed")
       /\ UNCHANGED bind
    \/ /\ bind.st # "new"
       /\ mem' = GivenBack(Undone(mem))
       /\ bind' = [bind EXCEPT !.st = "invalid"]
       /\ answer' = [q \in ClientRequests |-> IF Waiting(q) THEN "failed" ELSE answer[q]]

\* The Run's catch block: it ends, and SupersedePending drops its messages.
Ending == [Idle EXCEPT !.pc = "ending", !.req = task.req, !.committed = task.committed]

\* A commit for reason at this point of the Run; next is where the Run goes.
Commit(reason, deactivate, next) ==
    \/ Persist(deactivate) /\ task' = next
    \/ /\ CommitFails(deactivate)
       /\ Recover(reason)
       /\ task' = Ending

\* The Run fails or is stopped where it waits for something else.
Abandon ==
    /\ mem' = GivenBack(mem)
    /\ task' = Ending
    /\ UNCHANGED <<db, bind, answer, spent>>
-----------------------------------------------------------------------------
(* Starting: DurableRunApplicationService, SessionManager. *)

\* The Run takes its first checkpoint when it starts.
Started(q, what, m) == [Idle EXCEPT !.pc = "routes", !.req = q, !.what = what,
                                    !.saved = Undo(m)]

\* Mutant: only what the live context holds counts as committed.
MutJournaled(q) == mem.open /\ Committed(q)

\* lookupRequest
Journaled(q) == Committed(q)

\* run:start, also with a request that was answered before: a journaled request
\* is only reported, a busy Session refuses, a draft may not begin with /compact,
\* and the rest start a Run on the context there is, on one restored from the
\* database or on a new one.
StartRun(q, what, route) ==
    /\ ~Waiting(q) /\ (db.exists => route = db.meta)
    /\ IF Journaled(q) \/ task.pc # "idle" \/ (~db.exists /\ what # "text")
       THEN /\ answer' = [answer EXCEPT ![q] = IF Journaled(q) THEN "started" ELSE "failed"]
            /\ UNCHANGED <<mem, bind, task, spent>>
       ELSE /\ spent.runs < MaxHistoryRuns
            /\ spent' = [spent EXCEPT !.runs = @ + 1]
            /\ answer' = [answer EXCEPT ![q] = "waiting"]
            /\ mem' = CASE mem.open -> mem
                        [] ~mem.open /\ db.exists -> RestoredFrom(db)
                        [] OTHER -> Appended([NoContext EXCEPT !.open = TRUE, !.meta = route],
                                             <<Item("harness")>>)
            /\ bind' = CASE mem.open -> bind
                         [] ~mem.open /\ db.exists -> BindingOf(db)
                         [] OTHER -> [NoBinding EXCEPT !.st = "new", !.meta = route]
            /\ task' = Started(q, what, mem')
    /\ UNCHANGED db

\* The newest record that is not passive prompt text decides whether a turn can
\* be continued.
Continuable(h) ==
    LET turns == {r \in Active(h) : r.kind # "harness"}
    IN  turns # {} /\ Newest(turns).kind \in {"user", "batch", "note", "summary"}

\* run:continue, and the Run that run:retry starts after its rewind: no input.
ContinueRun ==
    /\ spent.runs < MaxHistoryRuns /\ task.pc = "idle" /\ db.exists
    /\ Continuable(db.msgs)
    /\ mem' = IF mem.open THEN mem ELSE RestoredFrom(db)
    /\ bind' = IF mem.open THEN bind ELSE BindingOf(db)
    /\ task' = Started(None, "resume", mem')
    /\ spent' = [spent EXCEPT !.runs = @ + 1]
    /\ UNCHANGED <<db, answer>>
-----------------------------------------------------------------------------
(* Before the input: SessionCompactCoordinator.prepareBeforeRunInput. *)

At(pc) == task.pc = pc

\* Routes are resolved and the input is checked, or the Run fails.
ResolveRoutes ==
    /\ At("routes")
    /\ \/ /\ task' = [task EXCEPT !.pc = "prepare"]
          /\ UNCHANGED <<db, mem, bind, answer, spent>>
       \/ Abandon

Mismatch(h, route) ==
    \E r \in Active(h) : r.route # None /\ r.route # route

\* #transitionHistoryIfNeeded: an active history of another route becomes a
\* transcript of everything visible, durable or not.
PrepareHistory ==
    /\ At("prepare")
    /\ \/ /\ ~Mismatch(mem.hist, mem.meta)
          /\ task' = [task EXCEPT !.pc = "measure"]
          /\ UNCHANGED <<db, mem, bind, answer, spent>>
       \/ /\ Mismatch(mem.hist, mem.meta)
          /\ LET thru == LastOf({r \in db.msgs \cup mem.hist : ~r.gone})
                 m == Rewritten(mem, "transcript", thru, mem.meta, FALSE)
             IN  /\ Compiles(m.hist)
                 /\ mem' = m
                 /\ task' = [task EXCEPT !.pc = "transition", !.prev = Undo(mem),
                                       !.thru = thru]
          /\ UNCHANGED <<db, bind, answer, spent>>
       \/ Abandon

\* The transition is committed; its result is checked for images only.
CommitTransition ==
    /\ At("transition")
    /\ Commit("history_transition", task.thru,
              [task EXCEPT !.pc = "measureImages", !.prev = NoUndo, !.thru = 0])

\* Images are bytes of user messages; a transition keeps those of the old ones.
MayOutgrow(h) ==
    /\ task.what = "text"
    /\ \E r \in Active(h) : r.kind \in {"user", "transcript"}
    /\ At("measureImages") => Outgrown

HasUsage(h) == \E r \in Active(h) : r.kind \in {"answer", "batch"}

\* Mutant: the checkpoint is not taken again.
MutAtInput(r) == [r EXCEPT !.pc = "input"]

\* Nothing needs compacting any more: the Run takes its checkpoint again.
AtInput(r) == [r EXCEPT !.pc = "input", !.saved = Undo(mem)]

Compacting(why) ==
    [task EXCEPT !.pc = "compacting", !.prev = NoUndo, !.why = why]

\* A history whose images do not fit with the new ones, or whose last answer
\* reached the threshold, is compacted before the input; a message that is too
\* large by itself is refused.
Measure ==
    /\ At("measure") \/ At("measureImages")
    /\ \/ task' = AtInput(task) /\ UNCHANGED mem
       \/ /\ \/ MayOutgrow(mem.hist)
             \/ At("measure") /\ HasUsage(mem.hist) /\ task.what \in {"text", "resume"}
          /\ task' = Compacting("input") /\ UNCHANGED mem
       \/ /\ task.what = "text" /\ (At("measureImages") => Outgrown)
          /\ mem' = GivenBack(mem)
          /\ task' = Ending
    /\ UNCHANGED <<db, bind, answer, spent>>
-----------------------------------------------------------------------------
(* The input and the loop: SessionRunController.#run. *)

\* The context is refreshed and the input appended: an ordinary message, a /compact
\* command, or nothing for a continued turn.
AppendInput(refresh) ==
    /\ At("input")
    /\ LET start == IF refresh THEN Appended(mem, <<Item("harness")>>) ELSE mem
           item(kind) == <<[Item(kind) EXCEPT !.req = task.req]>>
       IN  IF task.what \in {"compact", "follow"}
           THEN /\ mem' = Appended(start, item("control"))
                /\ task' = [task EXCEPT !.pc = "command", !.prev = Undo(start),
                                      !.thru = LastOf(Active(start.hist))]
           ELSE /\ mem' = IF task.what = "resume" THEN start
                          ELSE Appended(start, item("user"))
                /\ task' = [task EXCEPT !.pc = "commitInput"]
    /\ UNCHANGED <<db, bind, answer, spent>>

RefuseInput == At("input") /\ Abandon

CommitRunInput ==
    /\ At("commitInput")
    /\ Commit("run_input", 0,
              [task EXCEPT !.pc = "step", !.committed = TRUE, !.saved = NoUndo])

\* The command is journaled before the compression Provider is called.
CommitCommand ==
    /\ At("command")
    /\ Commit("command_input", 0,
              [Compacting("command") EXCEPT !.committed = TRUE, !.saved = NoUndo])

\* The messages accepted since the last model call are injected before the next.
DrainInbox(notes) ==
    /\ At("step")
    /\ IF task.step = MaxHistorySteps THEN mem' = mem /\ task' = Ending
       ELSE IF notes = 0
            THEN mem' = mem /\ task' = [task EXCEPT !.pc = "model", !.step = @ + 1]
       ELSE /\ mem' = Appended(mem, [i \in 1..notes |-> Item("note")])
            /\ task' = [task EXCEPT !.pc = "drained", !.drained = notes]
    /\ UNCHANGED <<db, bind, answer, spent>>

CommitDrained ==
    /\ At("drained")
    /\ Commit("interjection", 0, [task EXCEPT !.pc = "model", !.step = @ + 1, !.drained = 0])

\* The model answers, calls tools whose whole batch then ends, or fails.
Model ==
    /\ At("model")
    /\ \/ \E kind \in {"answer", "batch"}, full \in BOOLEAN, broken \in BOOLEAN :
             /\ mem' = Appended(mem, <<[Item(kind) EXCEPT !.route = mem.meta]>>)
             /\ task' = [task EXCEPT !.pc = kind, !.full = full, !.broken = broken]
             /\ UNCHANGED <<db, bind, answer, spent>>
       \/ Abandon

NextStep(why) ==
    IF task.full THEN [Compacting(why) EXCEPT !.full = FALSE]
    ELSE [task EXCEPT !.pc = "step"]

\* A final answer is committed even when choosing what follows failed; the Run
\* ends with it or is continued by the orchestration.
CommitAnswer ==
    /\ At("answer")
    /\ \E goOn \in BOOLEAN :
          Commit("assistant_turn", 0,
                 IF task.broken \/ ~goOn THEN Ending ELSE NextStep("continuation"))

\* A tool batch is committed whether it succeeded or not.
CommitBatch ==
    /\ At("batch")
    /\ Commit("tool_batch", 0, IF task.broken THEN Ending ELSE NextStep("batch"))

-----------------------------------------------------------------------------
(* Compaction: #performCompact, #rewriteCompact. *)

\* The Provider's last attempt failed, or the Run was stopped.
CompactFails == At("compacting") /\ Abandon

\* The summary arrives: the history is rewritten in memory around it, or the
\* rewrite does not compile and is undone.
CompactArrives ==
    /\ At("compacting")
    /\ LET thru == LastOf(Active(mem.hist))
           m == Rewritten(mem,
                          IF task.why \in {"batch", "continuation"} THEN "summary"
                          ELSE "checkpoint",
                          thru, mem.meta, task.what = "follow")
       IN  /\ Compiles(m.hist)
           /\ mem' = m
           /\ task' = [task EXCEPT !.pc = "rewritten", !.prev = Undo(mem), !.thru = thru]
    /\ UNCHANGED <<db, bind, answer, spent>>

CommitCompact ==
    /\ At("rewritten")
    /\ LET next == [task EXCEPT !.prev = NoUndo, !.thru = 0, !.why = "none"]
       IN  Commit("compact", task.thru,
                  CASE task.why = "input" -> AtInput(next)
                    [] task.why = "command" /\ task.what = "compact" -> Ending
                    [] OTHER -> [next EXCEPT !.pc = "step", !.what = "text"])
-----------------------------------------------------------------------------
(* The end of a Run, and what happens between Runs. *)

\* The Run has settled: a start still waiting for its commit fails, a Session
\* that never became durable is released and an invalid context torn down.
SettleRun ==
    /\ At("ending")
    /\ task' = Idle
    /\ answer' = [q \in ClientRequests |-> IF Waiting(q) THEN "failed" ELSE answer[q]]
    /\ IF bind.st \in {"new", "invalid"}
       THEN mem' = NoContext /\ bind' = NoBinding
       ELSE UNCHANGED <<mem, bind>>
    /\ UNCHANGED <<db, spent>>

Editable ==
    /\ task.pc = "idle" /\ db.exists /\ spent.edits < MaxEdits
    /\ spent' = [spent EXCEPT !.edits = @ + 1]
    /\ UNCHANGED <<task, answer>>

\* SessionService.update and the record it hands to the live context.
UpdateSession(route) ==
    /\ Editable
    /\ db' = [db EXCEPT !.rev = @ + 1, !.meta = route]
    /\ mem' = IF mem.open THEN [mem EXCEPT !.meta = route] ELSE mem
    /\ bind' = IF mem.open THEN BindingOf(db') ELSE bind

\* SessionService.rewind to just after or just before a visible message; the
\* live context is released.
Rewind(r, through) ==
    /\ Editable
    /\ ~r.gone /\ r.kind \in {"user", "answer", "batch"} /\ through \in {r.seq, r.seq - 1}
    /\ LET marked == {[x EXCEPT !.gone = @ \/ x.seq > through] : x \in db.msgs}
           kept == {[x EXCEPT !.active = /\ ~x.gone /\ x.kind # "control"
                                         /\ x.seq > Boundary(marked)] : x \in marked}
       IN  /\ Active(kept) = {} \/ Compiles(kept)
           /\ db' = [db EXCEPT !.msgs = kept, !.rev = @ + 1]
    /\ mem' = NoContext /\ bind' = NoBinding

\* The context is evicted while it is idle.
Evict ==
    /\ task.pc = "idle" /\ mem.open
    /\ mem' = NoContext /\ bind' = NoBinding
    /\ UNCHANGED <<db, task, answer, spent>>

\* The application dies and is started again; only the database is left.
Crash ==
    /\ spent.crashes < MaxCrashes
    /\ spent' = [spent EXCEPT !.crashes = @ + 1]
    /\ mem' = NoContext /\ bind' = NoBinding /\ task' = Idle
    /\ answer' = [q \in ClientRequests |-> IF Waiting(q) THEN "lost" ELSE answer[q]]
    /\ UNCHANGED db

RunActs ==
    \/ ResolveRoutes \/ PrepareHistory \/ CommitTransition \/ Measure
    \/ \E refresh \in BOOLEAN : AppendInput(refresh)
    \/ RefuseInput
    \/ CommitRunInput \/ CommitCommand \/ (\E n \in 0..MaxNotes : DrainInbox(n)) \/ CommitDrained
    \/ Model
    \/ CommitAnswer \/ CommitBatch
    \/ CompactFails \/ CompactArrives \/ CommitCompact \/ SettleRun

HistoryNext ==
    \/ RunActs
    \/ \E q \in ClientRequests, what \in {"text", "compact", "follow"}, route \in Routes :
          StartRun(q, what, route)
    \/ ContinueRun \/ Evict \/ Crash
    \/ \E route \in Routes : UpdateSession(route)
    \/ \E r \in db.msgs : \E through \in {r.seq, r.seq - 1} : Rewind(r, through)

HistorySpec == HistoryInit /\ [][HistoryNext]_historyVars
-----------------------------------------------------------------------------
\* What the database holds is always one whole epoch: a record is active exactly
\* if it is visible, is no command and lies past the newest visible anchor's
\* boundary; positions have no gap.  So whenever the process dies, the context
\* restored from it has lost nothing and revives nothing.
EpochIsWhole ==
    /\ {r.seq : r \in db.msgs} = 1..db.last /\ Cardinality(db.msgs) = db.last
    /\ \A r \in db.msgs :
          r.active <=> ~r.gone /\ r.kind # "control" /\ r.seq > Boundary(db.msgs)

\* Whenever the Session rests or waits for a Provider, the history and the
\* metadata the next request is compiled from are the durable ones, and the next
\* record goes where the database expects it: whatever failed was undone in
\* both places or in neither.
MemoryIsDurable ==
    bind.st = "ok" /\ task.pc \in {"idle", "model", "compacting"} =>
       /\ Active(mem.hist) = Active(db.msgs)
       /\ mem.next = db.last + 1
       /\ mem.meta = db.meta
       /\ bind = BindingOf(db)

\* What the client was told of a request is so: its message is journaled if its
\* start was reported, and is not if the start was refused.
AnswerIsTrue ==
    \A q \in ClientRequests :
       /\ answer[q] = "started" => Committed(q)
       /\ answer[q] = "failed" => ~Committed(q)

\* A compaction or a transition that fails leaves the epoch before it as it was:
\* a Session at rest compiles its next request from the durable history.
EpochSurvivesFailure ==
    bind.st = "ok" /\ task.pc = "idle" =>
       Active(mem.hist) = Active(db.msgs) /\ mem.next = db.last + 1
=============================================================================
