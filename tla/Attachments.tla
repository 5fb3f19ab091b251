------------------------------ MODULE Attachments ------------------------------
(***************************************************************************)
(* Files attached to messages: AttachmentService and its repository in the *)
(* main process, and the composer drafts of the renderer that hold them.   *)
(* An import fills a staging directory, renames it into the Project and    *)
(* inserts its row with the reference of the draft; collect() removes what *)
(* no message and no draft refers to, a day after it was imported; the     *)
(* renderer sends the references of its drafts over a queue of its own.    *)
(* The renderer may reload and the host may die at any step.               *)
(*                                                                         *)
(* One Project with one Session beside the composer of a new one.  Bytes,  *)
(* hashes, previews, limits and working copies are left out, one file is   *)
(* imported at a time into a draft, and a write of the database or of      *)
(* localStorage does not fail.                                             *)
(***************************************************************************)
EXTENDS Naturals, Sequences, FiniteSets

CONSTANTS
  Assets,    \* attachments, by their id
  MaxInputs  \* bound: what the user does, reloads and crashes

VARIABLES
  project, \* whether the Project has its row
  removal, \* removeProject: none, cancel, clear or done
  xfer,    \* #transfers: where each import is
  dir,     \* where the files of each attachment are
  row,     \* the row of each attachment
  old,     \* attachments imported more than ORPHAN_GRACE_MS ago
  refs,    \* attachment_drafts
  sent,    \* attachments in message_attachments
  gc,      \* #collecting: where collect() is, and what it has to visit
  draft,   \* the attachments of each composer draft, in memory and localStorage
  jobs,     \* import jobs of the renderer
  line,    \* referenceSync and the calls that are on their way to main
  run,     \* the message being sent
  session, \* the Session: none, live, removing (the renderer has yet to hear) or gone
  asked,   \* attachments being put back from a message into a draft
  left,    \* history: files a crash left without a row
  late,    \* history: a Session was deleted while references were on their way
  inputs   \* inputs so far

fileVars == <<project, removal, xfer, dir, row, old, refs, sent, gc, draft, jobs, line, run,
          session, asked, left, late, inputs>>

Drafts == {"new", "session"}
NoTransfer == [at |-> "none", cancelled |-> FALSE, key |-> "new"]
NoImport == [at |-> "none", key |-> "new", answer |-> "none"]
NoRun == [at |-> "none", key |-> "new", ids |-> {}, edited |-> FALSE, heard |-> FALSE]
EmptyLine == [wire |-> <<>>, backlog |-> <<>>, collecting |-> FALSE]
IdleGc == [at |-> "idle", todo |-> {}, cur |-> {}]

FilesInit ==
  /\ project = TRUE /\ removal = "none" /\ session = "none"
  /\ xfer = [a \in Assets |-> NoTransfer] /\ jobs = [a \in Assets |-> NoImport]
  /\ dir = [a \in Assets |-> "none"] /\ row = [a \in Assets |-> "none"]
  /\ old = {} /\ refs = {} /\ sent = {} /\ asked = {} /\ left = {} /\ late = FALSE
  /\ gc = IdleGc /\ run = NoRun /\ line = EmptyLine
  /\ draft = [d \in Drafts |-> {}]
  /\ inputs = 0

main == <<project, removal, xfer, dir, row, old, refs, sent, gc, left, late>>
renderer == <<draft, jobs, line, run, session, asked>>

Ready == {a \in Assets : row[a] = "ready"}
Used(a) == a \in sent \/ \E d \in Drafts : <<d, a>> \in refs

\* A transfer enters #transfers when its staging directory is there.
Transferring(a) == xfer[a].at \notin {"none", "begin"}
Removed(d) == d = "session" /\ session = "gone"
Open(d) == project /\ (d = "session" => session = "live")
Input == inputs < MaxInputs /\ inputs' = inputs + 1

---------------------------------------------------------------------------
\* The references of a draft go to main one call at a time (referenceSync); the sync
\* that ends an import is sent at once.
SyncOf(d, ids) == [kind |-> "sync", queued |-> TRUE, refs |-> {d} \X ids, key |-> d]
Waiting(l) == l.collecting \/ \E i \in DOMAIN l.wire : l.wire[i].queued
Queue(l, op) == IF Waiting(l) THEN [l EXCEPT !.backlog = Append(@, op)]
                              ELSE [l EXCEPT !.wire = Append(@, op)]
Direct(l, op) == [l EXCEPT !.wire = Append(@, [op EXCEPT !.queued = FALSE])]

\* The answer of a queued call sends the next one.
Replied(l) == IF l.backlog = <<>> THEN l
               ELSE [l EXCEPT !.wire = Append(@, Head(l.backlog)), !.backlog = Tail(@)]

\* retainProjects: a renderer that starts sends the drafts it restored.
Reconcile == [kind |-> "reconcile", queued |-> TRUE, key |-> "new",
              refs |-> {p \in Drafts \X Assets : p[2] \in draft[p[1]]}]

\* syncDraft: all of the attachments must be ready, or nothing is changed.
SetDraft(op) ==
  LET l == [line EXCEPT !.wire = Tail(@)]
      other == {p \in refs : p[1] # op.key}
  IN  /\ op.kind = "sync"
      /\ refs' = IF {p[2] : p \in op.refs} \subseteq Ready /\ (project \/ op.refs = {})
                 THEN other \cup op.refs ELSE refs
      /\ line' = IF op.queued THEN Replied(l) ELSE l
      /\ UNCHANGED gc

\* reconcileDrafts: what is not ready is dropped, and the call waits for a collection.
ReconcileDrafts(op) ==
  /\ op.kind = "reconcile"
  /\ refs' = {p \in op.refs : p[2] \in Ready}
  /\ line' = [line EXCEPT !.wire = Tail(@), !.collecting = TRUE]
  /\ gc' = IF gc.at = "idle" THEN [gc EXCEPT !.at = "cancel"] ELSE gc

Commit ==
  /\ line.wire # <<>>
  /\ SetDraft(Head(line.wire)) \/ ReconcileDrafts(Head(line.wire))
  /\ UNCHANGED <<project, removal, xfer, dir, row, old, sent, left, late, draft, jobs, run, session,
                 asked, inputs>>

Reconciled ==
  /\ line.collecting /\ gc.at = "idle"
  /\ line' = Replied([line EXCEPT !.collecting = FALSE])
  /\ UNCHANGED <<main, draft, jobs, run, session, asked, inputs>>

---------------------------------------------------------------------------
\* An id is random: nothing knows of it yet.
Fresh(a) ==
  /\ row[a] = "none" /\ dir[a] = "none" /\ xfer[a] = NoTransfer /\ jobs[a] = NoImport
  /\ a \notin sent \cup run.ids \cup gc.todo \cup gc.cur
  /\ \A d \in Drafts : a \notin draft[d] /\ <<d, a>> \notin refs \cup asked
  /\ \A calls \in {line.wire, line.backlog} : \A i \in DOMAIN calls : \A d \in Drafts :
       <<d, a>> \notin calls[i].refs

Importing(d) == \E b \in Assets : jobs[b].at # "none" /\ jobs[b].key = d

\* importFiles and #begin: the Project is checked before the staging directory is made.
BeginImport(a, d) ==
  /\ Input /\ Open(d) /\ Fresh(a) /\ ~Importing(d)
  /\ xfer' = [xfer EXCEPT ![a] = [at |-> "begin", cancelled |-> FALSE, key |-> d]]
  /\ jobs' = [jobs EXCEPT ![a] = [at |-> "importing", key |-> d, answer |-> "none"]]
  /\ old' = old \ {a}
  /\ UNCHANGED <<project, removal, dir, row, refs, sent, gc, left, late, draft, line, run, session,
                 asked>>

Staged(a) ==
  /\ xfer[a].at = "begin"
  /\ xfer' = [xfer EXCEPT ![a].at = "open"]
  /\ dir' = [dir EXCEPT ![a] = "staging"]
  /\ UNCHANGED <<project, removal, row, old, refs, sent, gc, left, late, renderer, inputs>>

\* finish: the chunks are in, and the renderer has not cancelled.
Finish(a) ==
  /\ xfer[a].at = "open" /\ jobs[a].at = "importing" /\ jobs[a].answer = "none"
  /\ xfer' = [xfer EXCEPT ![a].at = "finish"]
  /\ UNCHANGED <<project, removal, dir, row, old, refs, sent, gc, left, late, renderer, inputs>>

\* The staged file is renamed into the Project, made anew if need be; a file that was
\* cancelled or that is not what it says it is fails.
Install(a) ==
  /\ xfer[a].at = "finish"
  /\ \/ /\ ~xfer[a].cancelled
        /\ xfer' = [xfer EXCEPT ![a].at = "installed"]
        /\ dir' = [dir EXCEPT ![a] = "project"]
     \/ xfer' = [xfer EXCEPT ![a].at = "failed"] /\ UNCHANGED dir
  /\ UNCHANGED <<project, removal, row, old, refs, sent, gc, left, late, renderer, inputs>>

Answer(a, answer) ==
  jobs' = IF jobs[a].at = "none" THEN jobs ELSE [jobs EXCEPT ![a].answer = answer]

\* The row and the reference of the draft are one transaction; the row needs its Project.
Insert(a) ==
  /\ xfer[a].at = "installed"
  /\ IF ~xfer[a].cancelled /\ project
     THEN /\ row' = [row EXCEPT ![a] = "ready"]
          /\ refs' = refs \cup {<<xfer[a].key, a>>}
          /\ xfer' = [xfer EXCEPT ![a] = NoTransfer]
          /\ Answer(a, "ok")
     ELSE xfer' = [xfer EXCEPT ![a].at = "failed"] /\ UNCHANGED <<row, refs, jobs>>
  /\ UNCHANGED <<project, removal, dir, old, sent, gc, left, late, draft, line, run, session, asked,
                 inputs>>

\* Mutant: what failed loses the staging directory, wherever its files are by then.
MutDiscard(a) ==
  /\ xfer[a].at = "failed" \/ (xfer[a].at = "open" /\ xfer[a].cancelled)
  /\ dir' = IF dir[a] = "staging" THEN [dir EXCEPT ![a] = "none"] ELSE dir
  /\ xfer' = [xfer EXCEPT ![a] = NoTransfer]
  /\ Answer(a, "error")
  /\ UNCHANGED <<project, removal, row, old, refs, sent, gc, left, late, draft, line, run, session,
                 asked, inputs>>

\* What failed, or was cancelled with no work under way, loses its files.
Discard(a) ==
  /\ xfer[a].at = "failed" \/ (xfer[a].at = "open" /\ xfer[a].cancelled)
  /\ dir' = [dir EXCEPT ![a] = "none"]
  /\ xfer' = [xfer EXCEPT ![a] = NoTransfer]
  /\ Answer(a, "error")
  /\ UNCHANGED <<project, removal, row, old, refs, sent, gc, left, late, draft, line, run, session,
                 asked, inputs>>

\* The user cancels; main hears of it when the transfer has begun.
CancelJob(a) ==
  /\ Input /\ jobs[a].at = "importing"
  /\ jobs' = [jobs EXCEPT ![a].at = "cancelled"]
  /\ UNCHANGED <<main, draft, line, run, session, asked>>

Cancel(a) ==
  /\ jobs[a].at = "cancelled" /\ Transferring(a) /\ ~xfer[a].cancelled
  /\ xfer' = [xfer EXCEPT ![a].cancelled = TRUE]
  /\ UNCHANGED <<project, removal, dir, row, old, refs, sent, gc, left, late, renderer, inputs>>

\* Drafts the renderer changes: a Run being sent from one sees that it was edited.
Put(d, ids) == draft' = [draft EXCEPT ![d] = ids]
Edited(d) == run' = IF run.at # "none" /\ run.key = d THEN [run EXCEPT !.edited = TRUE] ELSE run

\* The end of an import: a file that came in joins its draft, and the references of the
\* draft are sent at the end whatever became of it.
EndJob(a) ==
  LET d == jobs[a].key
      joins == jobs[a].answer = "ok" /\ jobs[a].at = "importing" /\ ~Removed(d)
      ids == IF joins THEN draft[d] \cup {a} ELSE draft[d]
  IN  /\ jobs[a].answer # "none"
      /\ jobs' = [jobs EXCEPT ![a] = NoImport]
      /\ Put(d, ids)
      /\ IF joins THEN Edited(d) ELSE UNCHANGED run
      /\ line' = Direct(IF joins THEN Queue(line, SyncOf(d, ids)) ELSE line, SyncOf(d, ids))
      /\ UNCHANGED <<main, session, asked, inputs>>

---------------------------------------------------------------------------
\* The user takes an attachment out of a draft, or puts one of a message back.
Detach(d, a) ==
  /\ Input /\ project /\ a \in draft[d]
  /\ Put(d, draft[d] \ {a}) /\ Edited(d)
  /\ line' = Queue(line, SyncOf(d, draft[d] \ {a}))
  /\ UNCHANGED <<main, jobs, session, asked>>

Reattach(d, a) ==
  /\ Input /\ Open(d) /\ session = "live" /\ a \in sent \ draft[d]
  /\ asked' = asked \cup {<<d, a>>}
  /\ UNCHANGED <<main, draft, jobs, line, run, session>>

Reattached(d, a) ==
  /\ <<d, a>> \in asked
  /\ asked' = asked \ {<<d, a>>}
  /\ IF Removed(d) THEN UNCHANGED <<draft, line, run>>
     ELSE /\ Put(d, draft[d] \cup {a}) /\ Edited(d)
          /\ line' = Queue(line, SyncOf(d, draft[d] \cup {a}))
  /\ UNCHANGED <<main, jobs, session, inputs>>

\* A message is sent with the attachments of its draft, which main checks (preflight) and
\* checks again in the transaction that stores the message (linkMessage).
Send(d) ==
  /\ Input /\ Open(d) /\ run = NoRun /\ draft[d] # {}
  /\ d = "new" => session = "none"
  /\ ~Importing(d)
  /\ run' = [at |-> "started", key |-> d, ids |-> draft[d], edited |-> FALSE, heard |-> TRUE]
  /\ UNCHANGED <<main, draft, jobs, line, session, asked>>

Preflight ==
  /\ run.at = "started"
  /\ run' = [run EXCEPT !.at = IF run.ids \subseteq Ready /\ \A a \in run.ids : dir[a] = "project"
                               THEN "checked" ELSE "failed"]
  /\ UNCHANGED <<main, draft, jobs, line, session, asked, inputs>>

\* Mutant: the transaction trusts what the preflight saw.
MutLinkMessage ==
  /\ run.at = "checked"
  /\ sent' = sent \cup run.ids /\ run' = [run EXCEPT !.at = "committed"]
  /\ session' = "live"
  /\ UNCHANGED <<project, removal, xfer, dir, row, old, refs, gc, left, late, draft, jobs,
                 line, asked, inputs>>

LinkMessage ==
  /\ run.at = "checked"
  /\ IF run.ids \subseteq Ready
     THEN /\ sent' = sent \cup run.ids /\ run' = [run EXCEPT !.at = "committed"]
          /\ session' = "live"
     ELSE run' = [run EXCEPT !.at = "failed"] /\ UNCHANGED <<sent, session>>
  /\ UNCHANGED <<project, removal, xfer, dir, row, old, refs, gc, left, late, draft, jobs,
                 line, asked, inputs>>

\* replaceUnchanged clears a draft that nobody edited meanwhile; a new Session that is
\* still shown takes over what the composer of the new one holds (move).  A renderer that
\* reloaded meanwhile does not hear the answer.
Moves(d, from) == d = "new" /\ draft["session"] = {} /\ from # {}
RunAnswered(typed, shown) ==
  LET d == run.key
      clears == ~run.edited /\ ~typed
      rest == IF clears THEN {} ELSE draft[d]
      cleared == IF clears THEN Queue(line, SyncOf(d, {})) ELSE line
  IN  /\ run.at \in {"committed", "failed"}
      /\ run' = NoRun
      /\ IF run.at = "failed" \/ ~run.heard THEN UNCHANGED <<draft, line>>
         ELSE IF shown /\ Moves(d, rest)
         THEN /\ draft' = [draft EXCEPT !["session"] = rest, !["new"] = {}]
              /\ line' = Queue(Queue(cleared, SyncOf("session", rest)), SyncOf("new", {}))
         ELSE Put(d, rest) /\ line' = cleared
      /\ UNCHANGED <<main, jobs, session, asked, inputs>>

---------------------------------------------------------------------------
\* collect: idle transfers are cancelled, unused rows marked, their files removed and
\* then their rows, and last the directories that have no row.
Collect ==
  /\ gc.at = "idle"
  /\ gc' = [gc EXCEPT !.at = "cancel"]
  /\ UNCHANGED <<project, removal, xfer, dir, row, old, refs, sent, left, late, renderer, inputs>>

CancelIdle(a) ==
  /\ gc.at = "cancel" /\ gc.todo = {} /\ xfer[a].at = "open" /\ ~xfer[a].cancelled
  /\ xfer' = [xfer EXCEPT ![a].cancelled = TRUE]
  /\ gc' = [gc EXCEPT !.todo = {a}]
  /\ UNCHANGED <<project, removal, dir, row, old, refs, sent, left, late, renderer, inputs>>

CancelledIdle ==
  /\ gc.at = "cancel" /\ gc.todo # {} /\ \A a \in gc.todo : xfer[a] = NoTransfer
  /\ gc' = [gc EXCEPT !.todo = {}]
  /\ UNCHANGED <<project, removal, xfer, dir, row, old, refs, sent, left, late, renderer, inputs>>

\* Mutant: without the grace of a day.
MutMarkUnused ==
  /\ gc.at = "cancel" /\ gc.todo = {}
  /\ row' = [a \in Assets |-> IF row[a] = "ready" /\ ~Used(a) THEN "deleting" ELSE row[a]]
  /\ gc' = [gc EXCEPT !.at = "remove", !.todo = {a \in Assets : row'[a] = "deleting"}]
  /\ UNCHANGED <<project, removal, xfer, dir, old, refs, sent, left, late, renderer, inputs>>

MarkUnused ==
  /\ gc.at = "cancel" /\ gc.todo = {}
  /\ row' = [a \in Assets |-> IF row[a] = "ready" /\ a \in old /\ ~Used(a) THEN "deleting"
                              ELSE row[a]]
  /\ gc' = [gc EXCEPT !.at = "remove", !.todo = {a \in Assets : row'[a] = "deleting"}]
  /\ UNCHANGED <<project, removal, xfer, dir, old, refs, sent, left, late, renderer, inputs>>

RemoveFiles(a) ==
  /\ gc.at = "remove" /\ a \in gc.todo /\ dir[a] # "none"
  /\ dir' = [dir EXCEPT ![a] = "none"]
  /\ UNCHANGED <<project, removal, xfer, row, old, refs, sent, gc, left, late, renderer, inputs>>

DeleteCollected(a) ==
  /\ gc.at = "remove" /\ a \in gc.todo /\ dir[a] = "none"
  /\ row' = IF row[a] = "deleting" /\ ~Used(a) THEN [row EXCEPT ![a] = "none"] ELSE row
  /\ gc' = [gc EXCEPT !.todo = @ \ {a}]
  /\ UNCHANGED <<project, removal, xfer, dir, old, refs, sent, left, late, renderer, inputs>>

ReadDirectories ==
  /\ gc.at = "remove" /\ gc.todo = {}
  /\ gc' = [gc EXCEPT !.at = "sweep", !.todo = {a \in Assets : dir[a] = "project"}]
  /\ UNCHANGED <<project, removal, xfer, dir, row, old, refs, sent, left, late, renderer, inputs>>

\* The rows and #transfers are looked at before an await, the files removed after it.
Sweep(a) ==
  /\ gc.at = "sweep" /\ gc.cur = {} /\ a \in gc.todo
  /\ gc' = [gc EXCEPT !.todo = @ \ {a},
                      !.cur = IF Transferring(a) \/ row[a] # "none" \/ a \notin old THEN {}
                              ELSE {a}]
  /\ UNCHANGED <<project, removal, xfer, dir, row, old, refs, sent, left, late, renderer, inputs>>

Swept(a) ==
  /\ gc.cur = {a}
  /\ dir' = [dir EXCEPT ![a] = "none"]
  /\ gc' = [gc EXCEPT !.cur = {}]
  /\ UNCHANGED <<project, removal, xfer, row, old, refs, sent, left, late, renderer, inputs>>

Collected ==
  /\ gc = [IdleGc EXCEPT !.at = "sweep"]
  /\ gc' = IdleGc
  /\ UNCHANGED <<project, removal, xfer, dir, row, old, refs, sent, left, late, renderer, inputs>>

---------------------------------------------------------------------------
\* The Session is deleted with its messages, and the renderer drops its draft when it hears.
RemoveSession ==
  /\ Input /\ session = "live" /\ run = NoRun
  /\ session' = "removing" /\ sent' = {}
  /\ late' = (late \/ line # EmptyLine \/ asked # {})
  /\ UNCHANGED <<project, removal, xfer, dir, row, old, refs, gc, left, draft, jobs, line,
                 run, asked>>

SessionRemoved ==
  /\ session = "removing"
  /\ session' = "gone"
  /\ Put("session", {})
  /\ line' = Queue(line, SyncOf("session", {}))
  /\ UNCHANGED <<main, jobs, run, asked, inputs>>

\* The Project is deleted with its rows; removeProject then cancels its transfers and
\* removes its directory.
RemoveProject ==
  /\ Input /\ project /\ run = NoRun
  /\ project' = FALSE /\ removal' = "cancel"
  /\ row' = [a \in Assets |-> "none"] /\ refs' = {} /\ sent' = {}
  /\ UNCHANGED <<xfer, dir, old, gc, left, late, renderer>>

CancelRemoved(a) ==
  /\ removal = "cancel" /\ Transferring(a) /\ ~xfer[a].cancelled
  /\ xfer' = [xfer EXCEPT ![a].cancelled = TRUE]
  /\ UNCHANGED <<project, removal, dir, row, old, refs, sent, gc, left, late, renderer, inputs>>

ClearProject ==
  /\ removal = "cancel" /\ \A a \in Assets : ~Transferring(a)
  /\ removal' = "done"
  /\ dir' = [a \in Assets |-> IF dir[a] = "project" THEN "none" ELSE dir[a]]
  /\ UNCHANGED <<project, xfer, row, old, refs, sent, gc, left, late, renderer, inputs>>

---------------------------------------------------------------------------
\* What a day passes on: nothing is on its way.
Rest ==
  /\ \A a \in Assets : xfer[a] = NoTransfer /\ jobs[a] = NoImport
  /\ line = EmptyLine /\ run = NoRun /\ asked = {} /\ session # "removing"

DayPasses ==
  /\ Rest /\ gc = IdleGc
  /\ old' = {a \in Assets : row[a] # "none" \/ dir[a] # "none"}
  /\ UNCHANGED <<project, removal, xfer, dir, row, refs, sent, gc, left, late, renderer, inputs>>

\* The renderer keeps its drafts, which it sends, and forgets what it waits for; calls that
\* are on their way still arrive, and main goes on with a message being sent.
Restored(wire) ==
  /\ line' = [EmptyLine EXCEPT !.wire = Append(wire, Reconcile)]
  /\ jobs' = [a \in Assets |-> NoImport]
  /\ asked' = {}
  /\ session' = IF session = "removing" THEN "gone" ELSE session
  /\ draft' = [draft EXCEPT !["session"] = IF session \in {"live", "none"} THEN @ ELSE {}]

Reload ==
  /\ Input /\ project
  /\ Restored([i \in DOMAIN line.wire |-> [line.wire[i] EXCEPT !.queued = FALSE]])
  /\ run' = [run EXCEPT !.heard = FALSE]
  /\ UNCHANGED main

\* The host dies with its imports and its collection, and initialize() removes _imports.
HostDies ==
  /\ Input
  /\ Restored(<<>>)
  /\ run' = NoRun
  /\ xfer' = [a \in Assets |-> NoTransfer]
  /\ dir' = [a \in Assets |-> IF dir[a] = "staging" THEN "none" ELSE dir[a]]
  /\ left' = {a \in Assets : dir[a] = "project" /\ row[a] = "none"}
  /\ gc' = IdleGc
  /\ removal' = IF removal = "cancel" THEN "done" ELSE removal
  /\ UNCHANGED <<project, row, old, refs, sent, late>>

Attaching == \E a \in Assets :
  \/ \E d \in Drafts : BeginImport(a, d)
  \/ Staged(a) \/ Finish(a) \/ Install(a) \/ Insert(a) \/ Discard(a)
  \/ CancelJob(a) \/ Cancel(a) \/ EndJob(a)

Composing ==
  \/ \E d \in Drafts :
       Send(d) \/ \E a \in Assets : Detach(d, a) \/ Reattach(d, a) \/ Reattached(d, a)
  \/ Preflight \/ LinkMessage
  \/ \E typed, shown \in BOOLEAN : RunAnswered(typed, shown)
  \/ Commit \/ Reconciled

Collecting ==
  \/ Collect \/ CancelledIdle \/ MarkUnused \/ ReadDirectories \/ Collected
  \/ \E a \in Assets : CancelIdle(a) \/ RemoveFiles(a) \/ DeleteCollected(a) \/ Sweep(a) \/ Swept(a)

Removing ==
  \/ RemoveSession \/ SessionRemoved \/ RemoveProject \/ ClearProject
  \/ \E a \in Assets : CancelRemoved(a)

FilesNext == Attaching \/ Composing \/ Collecting \/ Removing \/ DayPasses \/ Reload \/ HostDies

FilesSpec == FilesInit /\ [][FilesNext]_fileVars

Kept(a) == row[a] = "ready" /\ dir[a] = "project"

\* The attachments of a message that is stored are there, whatever is collected, removed
\* or cut short beside it: linkMessage and markUnused both look at the row in a transaction,
\* the files go before the row.
SentAttachmentsExist == \A a \in sent : Kept(a)

\* When nothing is on its way, every attachment a composer shows is there and protected by
\* a reference of its draft, however imports, moves, reloads and reconciliations crossed.
\* The one way to lose it is to delete the Session of a message it was being put back from.
ShownAttachmentsAreKept ==
  Rest /\ project /\ ~late => \A d \in Drafts : \A a \in draft[d] : Kept(a) /\ <<d, a>> \in refs

\* Files in a Project have a row or an import that owns them, but for what a crash left;
\* a Project that was removed while an import began keeps none.
NoStrayFiles ==
  \A a \in Assets : dir[a] = "project" =>
    \/ row[a] # "none" \/ Transferring(a)
    \/ a \in left \/ removal = "cancel"
=============================================================================
