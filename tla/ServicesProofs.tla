----------------------------- MODULE ServicesProofs -----------------------------
(***************************************************************************)
(* Proofs about three of the services MCServices puts side by side.        *)
(*                                                                         *)
(* Attachments, for every set of attachments and every bound: the          *)
(* attachments of a stored message are there, files in a Project have an   *)
(* owner, and what a composer shows is there once nothing is on its way.   *)
(* What is inductive says besides which files an import and a collection   *)
(* may have in hand at the same time, and what main will have heard of     *)
(* every draft when the calls about it have come in.                       *)
(*                                                                         *)
(* Swarm, for any number of calls, replicas, stop requests and failures of *)
(* the store: what the root of a job says became of its replicas is so, it *)
(* says it after the last of them, and the calls of one tool call share    *)
(* that job.                                                               *)
(*                                                                         *)
(* McpManager, for any launches, calls, records, processes and bounds: a   *)
(* connection that lost its trust only drains the calls in flight on it,   *)
(* and no step but the shutdown closes one under a call.                   *)
(***************************************************************************)
EXTENDS Attachments, Swarm, McpManager, FiniteSetTheorems, TLAPS

(* Attachments. *)

TransferAt == {"none", "begin", "open", "finish", "installed", "failed"}
Transfers == [at : TransferAt, cancelled : BOOLEAN, key : Drafts]
Collections == [at : {"idle", "cancel", "remove", "sweep"}, todo : SUBSET Assets,
                cur : SUBSET Assets]

\* The part of the state the two properties are about.
core == <<project, removal, xfer, dir, row, sent, gc, left>>

CoreTypes ==
  /\ xfer \in [Assets -> Transfers]
  /\ dir \in [Assets -> {"none", "staging", "project"}]
  /\ row \in [Assets -> {"none", "ready", "deleting"}]
  /\ gc \in Collections
  /\ sent \subseteq Assets

\* What an attachment has in its row, on disk and in hand goes together.
Owned(a) ==
  /\ a \in sent => row[a] = "ready"
  /\ row[a] = "ready" => dir[a] = "project" /\ xfer[a].at = "none" /\ a \notin gc.cur /\ project
  /\ gc.at = "remove" /\ a \in gc.todo => row[a] # "ready"
  /\ xfer[a].at # "none" => row[a] = "none" /\ a \notin gc.cur
  /\ gc.at = "remove" /\ a \in gc.todo => xfer[a].at = "none"
  /\ xfer[a].at = "begin" => dir[a] = "none" /\ a \notin gc.todo
  /\ xfer[a].at = "installed" => dir[a] = "project"

Cleared == removal = "cancel" => ~project

Inv == CoreTypes /\ Cleared /\ \A a \in Assets : Owned(a)

\* Initially there is nothing.
LEMMA InitInv == FilesInit => Inv
BY DEF FilesInit, Inv, CoreTypes, Cleared, Owned, NoTransfer, Transfers, TransferAt, Collections,
       IdleGc, Drafts

\* What leaves the core alone keeps the invariant.
LEMMA CoreKept == Inv /\ UNCHANGED core => Inv'
BY DEF Inv, core, CoreTypes, Cleared, Owned

\* Steps of the renderer, of the clock and of the references of drafts.
Beside ==
  \/ \E a \in Assets : CancelJob(a) \/ EndJob(a)
  \/ \E d \in Drafts : Send(d)
  \/ \E d \in Drafts : \E a \in Assets : Detach(d, a) \/ Reattach(d, a) \/ Reattached(d, a)
  \/ Preflight \/ Reconciled \/ SessionRemoved \/ DayPasses \/ Reload
  \/ \E typed, listed \in BOOLEAN : RunAnswered(typed, listed)

\* They leave it alone.
LEMMA BesideKept == Beside => UNCHANGED core
<1> SUFFICES ASSUME Beside PROVE UNCHANGED core
  OBVIOUS
<1>1. ASSUME NEW a \in Assets, CancelJob(a) \/ EndJob(a) PROVE UNCHANGED core
  BY <1>1, Zenon DEF CancelJob, EndJob, main, core
<1>2. ASSUME NEW d \in Drafts, Send(d) PROVE UNCHANGED core
  BY <1>2, Zenon DEF Send, main, core
<1>3. ASSUME NEW d \in Drafts, NEW a \in Assets, Detach(d, a) \/ Reattach(d, a) \/ Reattached(d, a)
      PROVE  UNCHANGED core
  BY <1>3, Zenon DEF Detach, Reattach, Reattached, main, core
<1>4. ASSUME Preflight \/ Reconciled \/ SessionRemoved PROVE UNCHANGED core
  BY <1>4, Zenon DEF Preflight, Reconciled, SessionRemoved, main, core
<1>5. ASSUME DayPasses \/ Reload PROVE UNCHANGED core
  BY <1>5, Zenon DEF DayPasses, Reload, main, core
<1>6. ASSUME NEW typed \in BOOLEAN, NEW listed \in BOOLEAN, RunAnswered(typed, listed)
      PROVE  UNCHANGED core
  BY <1>6, Zenon DEF RunAnswered, main, core
<1> QED
  BY <1>1, <1>2, <1>3, <1>4, <1>5, <1>6 DEF Beside

\* What changes when a transfer is cancelled, moves on or ends.
LEMMA CancelledOne ==
  ASSUME CoreTypes, NEW a \in Assets, xfer' = [xfer EXCEPT ![a].cancelled = TRUE]
  PROVE  xfer' \in [Assets -> Transfers] /\ \A b \in Assets : xfer'[b].at = xfer[b].at
BY DEF CoreTypes, Transfers, TransferAt

MovesTo(a, at) ==
  /\ xfer' \in [Assets -> Transfers] /\ xfer'[a].at = at
  /\ \A b \in Assets \ {a} : xfer'[b] = xfer[b]

\* A transfer that moves on stays a transfer, and the others stay where they are.
LEMMA MovedOne ==
  ASSUME CoreTypes, NEW a \in Assets, NEW at \in TransferAt, xfer' = [xfer EXCEPT ![a].at = at]
  PROVE  MovesTo(a, at)
BY DEF CoreTypes, Transfers, TransferAt, MovesTo

\* So does one that ends.
LEMMA EndedOne ==
  ASSUME CoreTypes, NEW a \in Assets, xfer' = [xfer EXCEPT ![a] = NoTransfer]
  PROVE  MovesTo(a, "none")
BY DEF CoreTypes, Transfers, TransferAt, NoTransfer, Drafts, MovesTo

\* A step of one import keeps the invariant: it moves its own files and nobody else's.
LEMMA ImportKept ==
  ASSUME Inv, NEW a \in Assets
  PROVE  Staged(a) \/ Finish(a) \/ Install(a) \/ Insert(a) \/ Discard(a) \/ Cancel(a) => Inv'
<1> USE DEF Inv, Cleared
<1>1. ASSUME Staged(a) PROVE Inv'
  <2>1. MovesTo(a, "open")
    BY <1>1, MovedOne DEF Staged, TransferAt
  <2> QED
    BY <1>1, <2>1 DEF Staged, Owned, CoreTypes, MovesTo
<1>2. ASSUME Finish(a) PROVE Inv'
  <2>1. MovesTo(a, "finish")
    BY <1>2, MovedOne DEF Finish, TransferAt
  <2> QED
    BY <1>2, <2>1 DEF Finish, Owned, CoreTypes, MovesTo
<1>3. ASSUME Install(a) PROVE Inv'
  <2>1. CASE xfer' = [xfer EXCEPT ![a].at = "installed"] /\ dir' = [dir EXCEPT ![a] = "project"]
    <3>1. MovesTo(a, "installed")
      BY <2>1, MovedOne DEF TransferAt
    <3> QED
      BY <1>3, <2>1, <3>1 DEF Install, Owned, CoreTypes, MovesTo
  <2>2. CASE xfer' = [xfer EXCEPT ![a].at = "failed"] /\ UNCHANGED dir
    <3>1. MovesTo(a, "failed")
      BY <2>2, MovedOne DEF TransferAt
    <3> QED
      BY <1>3, <2>2, <3>1 DEF Install, Owned, CoreTypes, MovesTo
  <2> QED
    BY <1>3, <2>1, <2>2 DEF Install
<1>4. ASSUME Insert(a) PROVE Inv'
  <2>1. CASE ~xfer[a].cancelled /\ project
    <3>1. MovesTo(a, "none") /\ row' = [row EXCEPT ![a] = "ready"]
      BY <1>4, <2>1, EndedOne DEF Insert
    <3> QED
      BY <1>4, <2>1, <3>1 DEF Insert, Owned, CoreTypes, MovesTo
  <2>2. CASE ~(~xfer[a].cancelled /\ project)
    <3>1. MovesTo(a, "failed") /\ UNCHANGED row
      BY <1>4, <2>2, MovedOne DEF Insert, TransferAt
    <3> QED
      BY <1>4, <3>1 DEF Insert, Owned, CoreTypes, MovesTo
  <2> QED
    BY <2>1, <2>2
<1>5. ASSUME Discard(a) PROVE Inv'
  <2>1. MovesTo(a, "none")
    BY <1>5, EndedOne DEF Discard
  <2> QED
    BY <1>5, <2>1 DEF Discard, Owned, CoreTypes, MovesTo
<1>6. ASSUME Cancel(a) PROVE Inv'
  <2>1. xfer' = [xfer EXCEPT ![a].cancelled = TRUE]
    BY <1>6 DEF Cancel
  <2> QED
    BY <1>6, <2>1, CancelledOne DEF Cancel, Owned, CoreTypes
<1> QED
  BY <1>1, <1>2, <1>3, <1>4, <1>5, <1>6

\* An id that nobody knows is in nobody's hands.
LEMMA BeginKept ==
  ASSUME Inv, NEW a \in Assets, NEW d \in Drafts, BeginImport(a, d)
  PROVE  Inv'
BY DEF Inv, CoreTypes, Transfers, TransferAt, Cleared, BeginImport, Fresh, Owned

\* A collection takes in hand what is unused, and gives nothing back but what is gone.
LEMMA CollectKept ==
  ASSUME Inv, Collect \/ CancelledIdle \/ MarkUnused \/ ReadDirectories \/ Collected
  PROVE  Inv'
<1> USE DEF Inv, CoreTypes, Collections, Cleared
<1>1. CASE Collect
  BY <1>1 DEF Collect, Owned
<1>2. CASE CancelledIdle
  BY <1>2 DEF CancelledIdle, Owned
<1>3. CASE MarkUnused
  BY <1>3 DEF MarkUnused, Owned, Used
<1>4. CASE ReadDirectories
  BY <1>4 DEF ReadDirectories, Owned
<1>5. CASE Collected
  BY <1>5 DEF Collected, IdleGc, Owned
<1> QED
  BY <1>1, <1>2, <1>3, <1>4, <1>5

\* The same for its steps with one attachment.
LEMMA CollectOneKept ==
  ASSUME Inv, NEW a \in Assets,
         CancelIdle(a) \/ RemoveFiles(a) \/ DeleteCollected(a) \/ Sweep(a) \/ Swept(a)
  PROVE  Inv'
<1> USE DEF Inv, CoreTypes, Collections, Cleared
<1>1. CASE CancelIdle(a)
  <2>1. xfer' = [xfer EXCEPT ![a].cancelled = TRUE]
    BY <1>1 DEF CancelIdle
  <2> QED
    BY <1>1, <2>1, CancelledOne DEF CancelIdle, Owned
<1>2. CASE RemoveFiles(a)
  BY <1>2 DEF RemoveFiles, Owned
<1>3. CASE DeleteCollected(a)
  BY <1>3 DEF DeleteCollected, Owned
<1>4. CASE Sweep(a)
  BY <1>4 DEF Sweep, Owned, Transferring, Transfers, TransferAt
<1>5. CASE Swept(a)
  BY <1>5 DEF Swept, Owned
<1> QED
  BY <1>1, <1>2, <1>3, <1>4, <1>5

\* Deletions take the rows before the files.
LEMMA RemoveKept ==
  ASSUME Inv
  PROVE  RemoveSession \/ RemoveProject \/ ClearProject \/ (\E a \in Assets : CancelRemoved(a))
           => Inv'
<1> USE DEF Inv, CoreTypes, Cleared
<1>1. ASSUME RemoveSession PROVE Inv'
  BY <1>1 DEF RemoveSession, Owned
<1>2. ASSUME RemoveProject PROVE Inv'
  BY <1>2 DEF RemoveProject, Owned, renderer
<1>3. ASSUME ClearProject PROVE Inv'
  BY <1>3 DEF ClearProject, Owned, Transferring, Transfers, TransferAt
<1>4. ASSUME NEW a \in Assets, CancelRemoved(a) PROVE Inv'
  <2>1. xfer' = [xfer EXCEPT ![a].cancelled = TRUE]
    BY <1>4 DEF CancelRemoved
  <2> QED
    BY <1>4, <2>1, CancelledOne DEF CancelRemoved, Owned
<1> QED
  BY <1>1, <1>2, <1>3, <1>4

\* A message is stored with rows that are ready, and a draft takes no row away.
LEMMA CommitKept == Inv /\ (Commit \/ LinkMessage) => Inv'
<1> SUFFICES ASSUME Inv, Commit \/ LinkMessage PROVE Inv'
  OBVIOUS
<1> USE DEF Inv, CoreTypes, Cleared
<1>1. CASE LinkMessage
  BY <1>1 DEF LinkMessage, Ready, Owned
<1>2. CASE Commit
  <2>1. /\ UNCHANGED <<project, removal, xfer, dir, row, sent, left>>
        /\ \/ UNCHANGED gc
           \/ gc' = IF gc.at = "idle" THEN [gc EXCEPT !.at = "cancel"] ELSE gc
    BY <1>2, Zenon DEF Commit, SetDraft, ReconcileDrafts
  <2> QED
    BY <2>1 DEF Owned, Collections
<1> QED
  BY <1>1, <1>2

\* A crash drops the imports with their staging directories and keeps what is in a Project.
LEMMA CrashKept == Inv /\ HostDies => Inv'
BY DEF Inv, CoreTypes, Cleared, HostDies, Owned, NoTransfer, IdleGc, Transfers, TransferAt,
       Collections, Drafts

\* Every step keeps the invariant.
LEMMA NextInv == Inv /\ [FilesNext]_fileVars => Inv'
<1> SUFFICES ASSUME Inv, [FilesNext]_fileVars PROVE Inv'
  OBVIOUS
<1>1. CASE UNCHANGED fileVars
  BY <1>1, CoreKept DEF fileVars, core
<1>2. CASE Beside
  BY <1>2, BesideKept, CoreKept
<1>3. ASSUME NEW a \in Assets, NEW d \in Drafts, BeginImport(a, d) PROVE Inv'
  BY <1>3, BeginKept
<1>4. ASSUME NEW a \in Assets,
             Staged(a) \/ Finish(a) \/ Install(a) \/ Insert(a) \/ Discard(a) \/ Cancel(a)
      PROVE  Inv'
  BY <1>4, ImportKept
<1>5. CASE Collecting
  BY <1>5, CollectKept, CollectOneKept, Zenon DEF Collecting
<1>6. CASE HostDies
  BY <1>6, CrashKept
<1>7. CASE Commit \/ LinkMessage
  BY <1>7, CommitKept
<1>8. CASE RemoveSession \/ RemoveProject \/ ClearProject \/ \E a \in Assets : CancelRemoved(a)
  BY <1>8, RemoveKept
<1> QED
  BY <1>1, <1>2, <1>3, <1>4, <1>5, <1>6, <1>7, <1>8, Zenon
  DEF FilesNext, Attaching, Composing, Removing, Beside

\* It holds always.
LEMMA SpecInv == FilesSpec => []Inv
BY InitInv, NextInv, PTL DEF FilesSpec

\* The attachments of a message that is stored are there (linkMessage in its transaction,
\* markUnused in its own, collect and removeProject with files after rows).
THEOREM SentAttachmentsAreThere == FilesSpec => []SentAttachmentsExist
<1>1. Inv => SentAttachmentsExist
  BY DEF Inv, CoreTypes, Owned, SentAttachmentsExist, Kept
<1> QED
  BY <1>1, SpecInv, PTL

\* Files in a Project have a row or an import, but for what a crash left (finish with its
\* catch, deleteCollected after the files, removeProject after the rows).
THEOREM FilesHaveOwners == FilesSpec => []NoStrayFiles
<1>1. FilesInit => NoStrayFiles
  BY DEF FilesInit, NoStrayFiles
<1>2. Inv /\ NoStrayFiles /\ [FilesNext]_fileVars => NoStrayFiles'
  <2> SUFFICES ASSUME Inv, NoStrayFiles, [FilesNext]_fileVars PROVE NoStrayFiles'
    OBVIOUS
  <2> USE DEF Inv, CoreTypes, NoStrayFiles, Transferring, Transfers, TransferAt
  <2>0. ASSUME UNCHANGED core PROVE NoStrayFiles'
    BY <2>0 DEF core
  <2>1. CASE UNCHANGED fileVars
    BY <2>1, <2>0 DEF fileVars, core
  <2>2. CASE Beside
    BY <2>2, <2>0, BesideKept
  <2>3. ASSUME NEW a \in Assets, NEW d \in Drafts, BeginImport(a, d) PROVE NoStrayFiles'
    BY <2>3 DEF BeginImport, Fresh
  <2>4. ASSUME NEW a \in Assets, Staged(a) \/ Finish(a) \/ Install(a) \/ Cancel(a)
        PROVE  NoStrayFiles'
    BY <2>4 DEF Staged, Finish, Install, Cancel
  <2>5. ASSUME NEW a \in Assets, Insert(a) \/ Discard(a) PROVE NoStrayFiles'
    BY <2>5 DEF Insert, Discard, NoTransfer
  <2>6. CASE Collect \/ CancelledIdle \/ MarkUnused \/ ReadDirectories \/ Collected
    BY <2>6 DEF Collect, CancelledIdle, MarkUnused, ReadDirectories, Collected
  <2>7. ASSUME NEW a \in Assets,
               CancelIdle(a) \/ RemoveFiles(a) \/ DeleteCollected(a) \/ Sweep(a) \/ Swept(a)
        PROVE  NoStrayFiles'
    BY <2>7 DEF CancelIdle, RemoveFiles, DeleteCollected, Sweep, Swept
  <2>8. CASE HostDies
    BY <2>8 DEF HostDies, Cleared, Owned
  <2>9. CASE Commit \/ LinkMessage
    BY <2>9, Zenon DEF Commit, SetDraft, ReconcileDrafts, LinkMessage
  <2>10. CASE RemoveSession \/ RemoveProject \/ ClearProject \/ \E a \in Assets : CancelRemoved(a)
    BY <2>10 DEF RemoveSession, RemoveProject, ClearProject, CancelRemoved
  <2> QED
    BY <2>1, <2>2, <2>3, <2>4, <2>5, <2>6, <2>7, <2>8, <2>9, <2>10, Zenon
    DEF FilesNext, Attaching, Composing, Collecting, Removing, Beside
<1> QED
  BY <1>1, <1>2, SpecInv, PTL DEF FilesSpec

\* What main will believe of the drafts once it has heard all the calls on their way: the
\* calls that speak of a draft, and the ones that tell it what the draft holds.
Syncs == [kind : {"sync", "reconcile"}, queued : BOOLEAN, refs : SUBSET (Drafts \X Assets),
          key : Drafts]
Lines == [wire : Seq(Syncs), backlog : Seq(Syncs), collecting : BOOLEAN]

About(op, d) == op.kind = "reconcile" \/ op.key = d
Tells(op, d, ids) ==
  /\ {d} \X ids \subseteq op.refs
  /\ op.kind = "sync" => op.refs = {d} \X ids

\* The last call about a draft tells it, or there is none and it was so before.
Ends(s, d, ids, before) ==
  \/ \E i \in DOMAIN s : /\ About(s[i], d) /\ Tells(s[i], d, ids)
                         /\ \A j \in DOMAIN s : j > i => ~About(s[j], d)
  \/ before /\ \A i \in DOMAIN s : ~About(s[i], d)

Heard(l, d, ids, r) == Ends(l.backlog, d, ids, Ends(l.wire, d, ids, {d} \X ids \subseteq r))

\* A reference that every call about its draft keeps.
Held(l, p, r) ==
  /\ p \in r
  /\ \A i \in DOMAIN l.wire : About(l.wire[i], p[1]) => p \in l.wire[i].refs
  /\ \A i \in DOMAIN l.backlog : About(l.backlog[i], p[1]) => p \in l.backlog[i].refs

\* Every draft is heard in the end; what it holds is spared or held on to until then.
DraftsHold(l, drafts, r, spared) ==
  \A d \in Drafts : /\ Heard(l, d, drafts[d], r)
                    /\ \A a \in drafts[d] : a \in spared \/ Held(l, <<d, a>>, r)

InOrder(l) ==
  /\ \A i \in DOMAIN l.backlog : l.backlog[i].queued
  /\ l.backlog # <<>> => Waiting(l)

\* A call at the end is the last one about its draft.
LEMMA AppendEnds ==
  ASSUME NEW s \in Seq(Syncs), NEW op \in Syncs, NEW d, NEW ids, NEW before \in BOOLEAN
  PROVE  /\ About(op, d) /\ Tells(op, d, ids) => Ends(Append(s, op), d, ids, before)
         /\ ~About(op, d) /\ Ends(s, d, ids, before) => Ends(Append(s, op), d, ids, before)
<1> DEFINE t == Append(s, op)
<1>1. /\ t \in Seq(Syncs) /\ Len(t) = Len(s) + 1 /\ t[Len(s) + 1] = op
      /\ \A i \in 1..Len(s) : t[i] = s[i]
      /\ DOMAIN t = 1..(Len(s) + 1) /\ DOMAIN s = 1..Len(s) /\ Len(s) \in Nat
  OBVIOUS
<1> HIDE DEF t
<1>2. About(op, d) /\ Tells(op, d, ids) => Ends(t, d, ids, before)
  BY <1>1 DEF Ends
<1>3. ~About(op, d) /\ Ends(s, d, ids, before) => Ends(t, d, ids, before)
  <2> SUFFICES ASSUME ~About(op, d), Ends(s, d, ids, before) PROVE Ends(t, d, ids, before)
    OBVIOUS
  <2>1. ASSUME NEW i \in DOMAIN s, About(s[i], d), Tells(s[i], d, ids),
               \A j \in DOMAIN s : j > i => ~About(s[j], d)
        PROVE  Ends(t, d, ids, before)
    <3>1. \A j \in DOMAIN t : j > i => ~About(t[j], d)
      BY <1>1, <2>1
    <3> QED
      BY <1>1, <2>1, <3>1 DEF Ends
  <2>2. ASSUME before, \A i \in DOMAIN s : ~About(s[i], d) PROVE Ends(t, d, ids, before)
    BY <1>1, <2>2 DEF Ends
  <2> QED
    BY <2>1, <2>2 DEF Ends
<1> QED
  BY <1>2, <1>3 DEF t

\* Without its first call, a sequence ends as it did from what that call left.
LEMMA TailEnds ==
  ASSUME NEW s \in Seq(Syncs), s # <<>>, NEW d, NEW ids, NEW before \in BOOLEAN,
         Ends(s, d, ids, before)
  PROVE  Ends(Tail(s), d, ids, (About(Head(s), d) /\ Tells(Head(s), d, ids))
                               \/ (~About(Head(s), d) /\ before))
<1> DEFINE t == Tail(s)
           b == (About(s[1], d) /\ Tells(s[1], d, ids)) \/ (~About(s[1], d) /\ before)
<1>1. /\ t \in Seq(Syncs) /\ Len(t) = Len(s) - 1 /\ Head(s) = s[1]
      /\ \A i \in 1..(Len(s) - 1) : t[i] = s[i + 1]
      /\ DOMAIN t = 1..(Len(s) - 1) /\ DOMAIN s = 1..Len(s) /\ Len(s) \in Nat \ {0}
  OBVIOUS
<1> HIDE DEF t
<1>2. ASSUME NEW i \in DOMAIN s, About(s[i], d), Tells(s[i], d, ids),
             \A j \in DOMAIN s : j > i => ~About(s[j], d)
      PROVE  Ends(t, d, ids, b)
  <2>1. CASE i = 1
    BY <1>1, <1>2, <2>1 DEF Ends
  <2>2. CASE i > 1
    <3>1. i - 1 \in DOMAIN t /\ t[i - 1] = s[i]
      BY <1>1, <2>2
    <3>2. ASSUME NEW j \in DOMAIN t, j > i - 1 PROVE ~About(t[j], d)
      <4>1. j + 1 \in DOMAIN s /\ j + 1 > i /\ t[j] = s[j + 1]
        BY <1>1, <2>2, <3>2
      <4> QED
        BY <1>2, <4>1
    <3> QED
      BY <1>2, <3>1, <3>2 DEF Ends
  <2> QED
    BY <1>1, <2>1, <2>2
<1>3. ASSUME before, \A i \in DOMAIN s : ~About(s[i], d) PROVE Ends(t, d, ids, b)
  BY <1>1, <1>3 DEF Ends
<1> QED
  BY <1>1, <1>2, <1>3 DEF Ends, t

\* What was so before may be replaced by what follows from it.
LEMMA EndsAfter ==
  ASSUME NEW s, NEW d, NEW ids, NEW before, NEW after, Ends(s, d, ids, before), before => after
  PROVE  Ends(s, d, ids, after)
BY DEF Ends

\* What is left of a sequence without its first call.
LEMMA TailIs ==
  ASSUME NEW s \in Seq(Syncs), s # <<>>
  PROVE  /\ Tail(s) \in Seq(Syncs) /\ Head(s) \in Syncs /\ Head(s) = s[1] /\ 1 \in DOMAIN s
         /\ \A i \in DOMAIN Tail(s) : i + 1 \in DOMAIN s /\ Tail(s)[i] = s[i + 1]
OBVIOUS

\* What a sequence is with one call more.
LEMMA AppendIs ==
  ASSUME NEW s \in Seq(Syncs), NEW op \in Syncs
  PROVE  /\ Append(s, op) \in Seq(Syncs) /\ Append(s, op) # <<>>
         /\ \E n \in DOMAIN Append(s, op) : Append(s, op)[n] = op
         /\ \A i \in DOMAIN s : i \in DOMAIN Append(s, op) /\ Append(s, op)[i] = s[i]
         /\ \A i \in DOMAIN Append(s, op) :
              Append(s, op)[i] = op \/ (i \in DOMAIN s /\ Append(s, op)[i] = s[i])
<1> DEFINE t == Append(s, op)
<1>1. /\ t \in Seq(Syncs) /\ Len(t) = Len(s) + 1 /\ t[Len(s) + 1] = op
      /\ \A i \in 1..Len(s) : t[i] = s[i]
      /\ DOMAIN t = 1..(Len(s) + 1) /\ DOMAIN s = 1..Len(s) /\ Len(s) \in Nat
  OBVIOUS
<1> HIDE DEF t
<1>2. t # <<>> /\ Len(s) + 1 \in DOMAIN t
  BY <1>1
<1>3. \A i \in DOMAIN t : t[i] = op \/ (i \in DOMAIN s /\ t[i] = s[i])
  BY <1>1
<1> QED
  BY <1>1, <1>2, <1>3 DEF t

\* A call that joins the line at either of its ends.
LEMMA WireJoined ==
  ASSUME NEW l \in Lines, NEW op \in Syncs, NEW m, m = [l EXCEPT !.wire = Append(@, op)]
  PROVE  /\ m \in Lines /\ m.wire = Append(l.wire, op) /\ m.backlog = l.backlog
         /\ InOrder(l) => InOrder(m)
         /\ \A p, r : Held(l, p, r) /\ (About(op, p[1]) => p \in op.refs) => Held(m, p, r)
<1>1. /\ m \in Lines /\ m.wire = Append(l.wire, op) /\ m.backlog = l.backlog
      /\ m.collecting = l.collecting
  BY AppendIs DEF Lines
<1>2. l.wire \in Seq(Syncs)
  BY DEF Lines
<1>3. InOrder(l) => InOrder(m)
  BY <1>1, <1>2, AppendIs DEF InOrder, Waiting
<1>4. \A p, r : Held(l, p, r) /\ (About(op, p[1]) => p \in op.refs) => Held(m, p, r)
  BY <1>1, <1>2, AppendIs DEF Held
<1> QED
  BY <1>1, <1>3, <1>4

\* The same at the end of the backlog.
LEMMA BacklogJoined ==
  ASSUME NEW l \in Lines, NEW op \in Syncs, NEW m, m = [l EXCEPT !.backlog = Append(@, op)]
  PROVE  /\ m \in Lines /\ m.backlog = Append(l.backlog, op) /\ m.wire = l.wire
         /\ InOrder(l) /\ op.queued /\ Waiting(l) => InOrder(m)
         /\ \A p, r : Held(l, p, r) /\ (About(op, p[1]) => p \in op.refs) => Held(m, p, r)
<1>1. /\ m \in Lines /\ m.backlog = Append(l.backlog, op) /\ m.wire = l.wire
      /\ m.collecting = l.collecting
  BY AppendIs DEF Lines
<1>2. l.backlog \in Seq(Syncs)
  BY DEF Lines
<1>3. InOrder(l) /\ op.queued /\ Waiting(l) => InOrder(m)
  BY <1>1, <1>2, AppendIs DEF InOrder, Waiting
<1>4. \A p, r : Held(l, p, r) /\ (About(op, p[1]) => p \in op.refs) => Held(m, p, r)
  BY <1>1, <1>2, AppendIs DEF Held
<1> QED
  BY <1>1, <1>3, <1>4

\* A queued call comes after all the others (referenceSync).
LEMMA QueueIs ==
  ASSUME NEW l \in Lines, NEW op \in Syncs, InOrder(l), op.queued
  PROVE  /\ Queue(l, op) \in Lines /\ InOrder(Queue(l, op))
         /\ \A p, r : Held(l, p, r) /\ (About(op, p[1]) => p \in op.refs)
              => Held(Queue(l, op), p, r)
         /\ \A d, ids, r :
              \/ About(op, d) /\ Tells(op, d, ids)
              \/ ~About(op, d) /\ Heard(l, d, ids, r)
              => Heard(Queue(l, op), d, ids, r)
<1>1. CASE Waiting(l)
  <2>1. Queue(l, op) = [l EXCEPT !.backlog = Append(@, op)]
    BY <1>1 DEF Queue
  <2> DEFINE m == Queue(l, op)
  <2>2. /\ m \in Lines /\ m.backlog = Append(l.backlog, op) /\ m.wire = l.wire /\ InOrder(m)
        /\ \A p, r : Held(l, p, r) /\ (About(op, p[1]) => p \in op.refs) => Held(m, p, r)
    BY <1>1, <2>1, BacklogJoined
  <2>3. l.backlog \in Seq(Syncs)
    BY DEF Lines
  <2> HIDE DEF m
  <2>4. ASSUME NEW d, NEW ids, NEW r,
               (About(op, d) /\ Tells(op, d, ids)) \/ (~About(op, d) /\ Heard(l, d, ids, r))
        PROVE  Heard(m, d, ids, r)
    <3> DEFINE b == Ends(l.wire, d, ids, {d} \X ids \subseteq r)
    <3>1. b \in BOOLEAN
      BY DEF Ends
    <3>2. Ends(Append(l.backlog, op), d, ids, b)
      <4> HIDE DEF b
      <4>1. (About(op, d) /\ Tells(op, d, ids)) \/ (~About(op, d) /\ Ends(l.backlog, d, ids, b))
        BY <2>4 DEF Heard, b
      <4> QED
        BY <2>3, <3>1, <4>1, AppendEnds
    <3> QED
      BY <2>2, <3>2 DEF Heard
  <2> QED
    BY <2>2, <2>4 DEF m
<1>2. CASE ~Waiting(l)
  <2>1. Queue(l, op) = [l EXCEPT !.wire = Append(@, op)] /\ l.backlog = <<>>
    BY <1>2 DEF Queue, InOrder
  <2> DEFINE m == Queue(l, op)
  <2>2. /\ m \in Lines /\ m.wire = Append(l.wire, op) /\ m.backlog = <<>> /\ InOrder(m)
        /\ \A p, r : Held(l, p, r) /\ (About(op, p[1]) => p \in op.refs) => Held(m, p, r)
    BY <2>1, WireJoined
  <2>3. l.wire \in Seq(Syncs) /\ l.backlog = <<>>
    BY <2>1 DEF Lines
  <2> HIDE DEF m
  <2>4. ASSUME NEW d, NEW ids, NEW r,
               (About(op, d) /\ Tells(op, d, ids)) \/ (~About(op, d) /\ Heard(l, d, ids, r))
        PROVE  Heard(m, d, ids, r)
    <3> DEFINE b == {d} \X ids \subseteq r
    <3>1. (About(op, d) /\ Tells(op, d, ids)) \/ (~About(op, d) /\ Ends(l.wire, d, ids, b))
      BY <2>3, <2>4 DEF Heard, Ends
    <3>2. Ends(Append(l.wire, op), d, ids, b)
      BY <2>3, <3>1, AppendEnds
    <3> QED
      BY <2>2, <3>2 DEF Heard, Ends
  <2> QED
    BY <2>2, <2>4 DEF m
<1> QED
  BY <1>1, <1>2

\* The call at the end of an import goes ahead of the backlog.
LEMMA DirectIs ==
  ASSUME NEW l \in Lines, NEW op \in Syncs, InOrder(l)
  PROVE  /\ Direct(l, op) \in Lines /\ InOrder(Direct(l, op))
         /\ \A p, r : Held(l, p, r) /\ (About(op, p[1]) => p \in op.refs)
              => Held(Direct(l, op), p, r)
         /\ \A d, ids, r : Heard(l, d, ids, r) /\ (About(op, d) => Tells(op, d, ids))
              => Heard(Direct(l, op), d, ids, r)
<1> DEFINE now == [op EXCEPT !.queued = FALSE]
           m == Direct(l, op)
<1>1. now \in Syncs /\ now.refs = op.refs /\ now.kind = op.kind /\ now.key = op.key
  BY DEF Syncs
<1>2. m = [l EXCEPT !.wire = Append(@, now)]
  BY DEF Direct
<1> HIDE DEF now
<1>3. /\ m \in Lines /\ m.wire = Append(l.wire, now) /\ m.backlog = l.backlog /\ InOrder(m)
      /\ \A p, r : Held(l, p, r) /\ (About(now, p[1]) => p \in now.refs) => Held(m, p, r)
  BY <1>1, <1>2, WireJoined
<1>4. l.wire \in Seq(Syncs)
  BY DEF Lines
<1> HIDE DEF m
<1>5. ASSUME NEW d, NEW ids, NEW r, Heard(l, d, ids, r), About(op, d) => Tells(op, d, ids)
      PROVE  Heard(m, d, ids, r)
  <2> DEFINE b == {d} \X ids \subseteq r
  <2>1. Ends(l.wire, d, ids, b) => Ends(Append(l.wire, now), d, ids, b)
    BY <1>1, <1>4, <1>5, AppendEnds DEF About, Tells
  <2> HIDE DEF b
  <2>2. Ends(l.backlog, d, ids, Ends(l.wire, d, ids, b))
    BY <1>5 DEF Heard, b
  <2>3. Ends(l.backlog, d, ids, Ends(Append(l.wire, now), d, ids, b))
    BY <2>1, <2>2, EndsAfter
  <2> QED
    BY <1>3, <2>3 DEF Heard, b
<1>6. \A p, r : Held(l, p, r) /\ (About(op, p[1]) => p \in op.refs) => Held(m, p, r)
  BY <1>1, <1>3 DEF About
<1> QED
  BY <1>3, <1>5, <1>6 DEF m

\* The answer of a queued call changes nothing of what main will have heard.
LEMMA RepliedIs ==
  ASSUME NEW l \in Lines, \A i \in DOMAIN l.backlog : l.backlog[i].queued
  PROVE  /\ Replied(l) \in Lines /\ InOrder(Replied(l))
         /\ \A p, r : Held(l, p, r) => Held(Replied(l), p, r)
         /\ \A d, ids, r : Heard(l, d, ids, r) => Heard(Replied(l), d, ids, r)
<1>1. CASE l.backlog = <<>>
  BY <1>1 DEF Replied, InOrder
<1>2. CASE l.backlog # <<>>
  <2> DEFINE op == Head(l.backlog)
             m == Replied(l)
  <2>1. l.backlog \in Seq(Syncs) /\ l.wire \in Seq(Syncs) /\ l.collecting \in BOOLEAN
    BY DEF Lines
  <2>2. op \in Syncs /\ op.queued /\ Tail(l.backlog) \in Seq(Syncs)
    BY <1>2, <2>1, TailIs
  <2>3. m = [l EXCEPT !.wire = Append(@, op), !.backlog = Tail(@)]
    BY <1>2 DEF Replied
  <2>4. op = l.backlog[1] /\ 1 \in DOMAIN l.backlog
    BY <1>2, <2>1, TailIs
  <2> HIDE DEF op, m
  <2>5. m \in Lines /\ m.wire = Append(l.wire, op) /\ m.backlog = Tail(l.backlog)
    BY <2>1, <2>2, <2>3, AppendIs DEF Lines
  <2>6. Waiting(m) /\ InOrder(m)
    <3>0. \E n \in DOMAIN Append(l.wire, op) : Append(l.wire, op)[n] = op
      BY <2>1, <2>2, AppendIs
    <3>1. PICK n \in DOMAIN m.wire : m.wire[n] = op
      BY <2>5, <3>0
    <3>2. Waiting(m)
      BY <2>2, <3>1 DEF Waiting
    <3>3. \A i \in DOMAIN m.backlog : m.backlog[i].queued
      BY <1>2, <2>1, <2>5, TailIs
    <3> QED
      BY <3>2, <3>3 DEF InOrder
  <2>7. ASSUME NEW p, NEW r, Held(l, p, r) PROVE Held(m, p, r)
    <3>1. About(op, p[1]) => p \in op.refs
      BY <2>4, <2>7 DEF Held
    <3>2. \A i \in DOMAIN m.wire : About(m.wire[i], p[1]) => p \in m.wire[i].refs
      <4>1. \A i \in DOMAIN m.wire :
              m.wire[i] = op \/ (i \in DOMAIN l.wire /\ m.wire[i] = l.wire[i])
        BY <2>1, <2>2, <2>5, AppendIs
      <4> QED
        BY <2>7, <3>1, <4>1 DEF Held
    <3>3. \A i \in DOMAIN m.backlog : About(m.backlog[i], p[1]) => p \in m.backlog[i].refs
      BY <1>2, <2>1, <2>5, <2>7, TailIs DEF Held
    <3> QED
      BY <2>7, <3>2, <3>3 DEF Held
  <2>8. ASSUME NEW d, NEW ids, NEW r, Heard(l, d, ids, r) PROVE Heard(m, d, ids, r)
    <3> DEFINE b == {d} \X ids \subseteq r
               w == Ends(l.wire, d, ids, b)
               c == (About(op, d) /\ Tells(op, d, ids)) \/ (~About(op, d) /\ w)
    <3>1. Ends(l.backlog, d, ids, w) /\ w \in BOOLEAN /\ b \in BOOLEAN
      BY <2>8 DEF Heard, Ends
    <3>2. c => Ends(Append(l.wire, op), d, ids, b)
      BY <2>1, <2>2, <3>1, AppendEnds
    <3> HIDE DEF w, b
    <3>3. Ends(Tail(l.backlog), d, ids, c)
      BY <1>2, <2>1, <3>1, TailEnds DEF op
    <3> HIDE DEF c
    <3>4. Ends(Tail(l.backlog), d, ids, Ends(Append(l.wire, op), d, ids, b))
      BY <3>2, <3>3, EndsAfter
    <3> QED
      BY <2>5, <3>4 DEF Heard, b
  <2> QED
    BY <2>5, <2>6, <2>7, <2>8 DEF m
<1> QED
  BY <1>1, <1>2

\* A call that is heard: what it says of its draft is so from then on.
LEMMA TakenIs ==
  ASSUME NEW l \in Lines, l.wire # <<>>, NEW m, m = [l EXCEPT !.wire = Tail(@)]
  PROVE  /\ m \in Lines /\ m.backlog = l.backlog
         /\ \A p, r, q : Held(l, p, r) /\ p \in q => Held(m, p, q)
         /\ \A d, ids, r, q :
              /\ Heard(l, d, ids, r)
              /\ About(Head(l.wire), d) /\ Tells(Head(l.wire), d, ids) => {d} \X ids \subseteq q
              /\ ~About(Head(l.wire), d) /\ {d} \X ids \subseteq r => {d} \X ids \subseteq q
              => Heard(m, d, ids, q)
<1>1. l.wire \in Seq(Syncs)
  BY DEF Lines
<1>2. m \in Lines /\ m.backlog = l.backlog /\ m.wire = Tail(l.wire)
  BY <1>1, TailIs DEF Lines
<1>3. \A p, r, q : Held(l, p, r) /\ p \in q => Held(m, p, q)
  BY <1>1, <1>2, TailIs DEF Held
<1>4. ASSUME NEW d, NEW ids, NEW r, NEW q, Heard(l, d, ids, r),
             About(Head(l.wire), d) /\ Tells(Head(l.wire), d, ids) => {d} \X ids \subseteq q,
             ~About(Head(l.wire), d) /\ {d} \X ids \subseteq r => {d} \X ids \subseteq q
      PROVE  Heard(m, d, ids, q)
  <2> DEFINE b == {d} \X ids \subseteq r
             e == {d} \X ids \subseteq q
             w == Ends(l.wire, d, ids, b)
             op == Head(l.wire)
             c == (About(op, d) /\ Tells(op, d, ids)) \/ (~About(op, d) /\ b)
  <2>1. c => e
    BY <1>4
  <2>2. Ends(l.backlog, d, ids, w) /\ b \in BOOLEAN
    BY <1>4 DEF Heard
  <2> HIDE DEF b, e
  <2>3. w => Ends(Tail(l.wire), d, ids, c)
    BY <1>1, <2>2, TailEnds
  <2> HIDE DEF c
  <2>4. w => Ends(Tail(l.wire), d, ids, e)
    BY <2>1, <2>3, EndsAfter
  <2> HIDE DEF w
  <2>5. Ends(l.backlog, d, ids, Ends(Tail(l.wire), d, ids, e))
    BY <2>2, <2>4, EndsAfter
  <2> QED
    BY <1>2, <2>5 DEF Heard, e
<1> QED
  BY <1>2, <1>3, <1>4

\* What a sync speaks of.
LEMMA SyncIs ==
  ASSUME NEW d \in Drafts, NEW ids \in SUBSET Assets
  PROVE  /\ SyncOf(d, ids) \in Syncs /\ SyncOf(d, ids).queued
         /\ Tells(SyncOf(d, ids), d, ids) /\ About(SyncOf(d, ids), d)
         /\ SyncOf(d, ids).refs = {d} \X ids
         /\ \A e \in Drafts \ {d} : ~About(SyncOf(d, ids), e)
BY DEF SyncOf, Syncs, Tells, About

\* A draft that changes and says so is heard, if what comes into it is spared.
LEMMA SyncTold ==
  ASSUME NEW l \in Lines, InOrder(l), NEW drafts \in [Drafts -> SUBSET Assets], NEW r, NEW spared,
         DraftsHold(l, drafts, r, spared), NEW d \in Drafts, NEW ids \in SUBSET Assets,
         ids \subseteq drafts[d] \cup spared, NEW now, now = [drafts EXCEPT ![d] = ids]
  PROVE  /\ Queue(l, SyncOf(d, ids)) \in Lines /\ InOrder(Queue(l, SyncOf(d, ids)))
         /\ DraftsHold(Queue(l, SyncOf(d, ids)), now, r, spared)
<1> DEFINE op == SyncOf(d, ids)
           m == Queue(l, op)
<1>1. /\ op \in Syncs /\ op.queued /\ Tells(op, d, ids) /\ About(op, d) /\ op.refs = {d} \X ids
      /\ \A e \in Drafts \ {d} : ~About(op, e)
  BY SyncIs
<1> HIDE DEF op
<1>2. /\ m \in Lines /\ InOrder(m)
      /\ \A p, q : Held(l, p, q) /\ (About(op, p[1]) => p \in op.refs) => Held(m, p, q)
      /\ \A e, i, q : (About(op, e) /\ Tells(op, e, i)) \/ (~About(op, e) /\ Heard(l, e, i, q))
            => Heard(m, e, i, q)
  BY <1>1, QueueIs
<1> HIDE DEF m
<1>3. now[d] = ids /\ \A e \in Drafts \ {d} : now[e] = drafts[e]
  OBVIOUS
<1>4. ASSUME NEW e \in Drafts PROVE Heard(m, e, now[e], r)
  BY <1>1, <1>2, <1>3 DEF DraftsHold
<1>5. ASSUME NEW e \in Drafts, NEW a \in now[e], a \notin spared PROVE Held(m, <<e, a>>, r)
  <2>1. a \in drafts[e]
    BY <1>3, <1>5
  <2>2. Held(l, <<e, a>>, r)
    BY <1>5, <2>1 DEF DraftsHold
  <2>3. About(op, e) => <<e, a>> \in op.refs
    BY <1>1, <1>3
  <2> QED
    BY <1>2, <2>2, <2>3
<1> QED
  BY <1>2, <1>4, <1>5 DEF DraftsHold, m, op

\* A draft that only says again what it holds.
LEMMA DirectTold ==
  ASSUME NEW l \in Lines, InOrder(l), NEW drafts \in [Drafts -> SUBSET Assets], NEW r, NEW spared,
         DraftsHold(l, drafts, r, spared), NEW d \in Drafts, NEW ids, ids = drafts[d]
  PROVE  /\ Direct(l, SyncOf(d, ids)) \in Lines /\ InOrder(Direct(l, SyncOf(d, ids)))
         /\ DraftsHold(Direct(l, SyncOf(d, ids)), drafts, r, spared)
<1> DEFINE op == SyncOf(d, ids)
           m == Direct(l, op)
<1>1. /\ op \in Syncs /\ op.queued /\ Tells(op, d, ids) /\ About(op, d) /\ op.refs = {d} \X ids
      /\ \A e \in Drafts \ {d} : ~About(op, e)
  BY SyncIs
<1> HIDE DEF op
<1>2. /\ m \in Lines /\ InOrder(m)
      /\ \A p, q : Held(l, p, q) /\ (About(op, p[1]) => p \in op.refs) => Held(m, p, q)
      /\ \A e, i, q : Heard(l, e, i, q) /\ (About(op, e) => Tells(op, e, i)) => Heard(m, e, i, q)
  BY <1>1, DirectIs
<1> HIDE DEF m
<1>3. ASSUME NEW e \in Drafts PROVE Heard(m, e, drafts[e], r)
  BY <1>1, <1>2 DEF DraftsHold
<1>4. ASSUME NEW e \in Drafts, NEW a \in drafts[e], a \notin spared PROVE Held(m, <<e, a>>, r)
  <2>1. Held(l, <<e, a>>, r)
    BY <1>4 DEF DraftsHold
  <2>2. About(op, e) => <<e, a>> \in op.refs
    BY <1>1, <1>4
  <2> QED
    BY <1>2, <2>1, <2>2
<1> QED
  BY <1>2, <1>3, <1>4 DEF DraftsHold, m, op

\* The next queued call goes out.
LEMMA RepliedTold ==
  ASSUME NEW l \in Lines, \A i \in DOMAIN l.backlog : l.backlog[i].queued,
         NEW drafts, NEW r, NEW spared, DraftsHold(l, drafts, r, spared)
  PROVE  DraftsHold(Replied(l), drafts, r, spared)
BY RepliedIs DEF DraftsHold

\* Main hears a call: nothing a draft holds loses its reference by it.
LEMMA TakenTold ==
  ASSUME NEW l \in Lines, l.wire # <<>>, NEW m, m = [l EXCEPT !.wire = Tail(@)],
         NEW drafts, NEW r, NEW q, NEW spared, DraftsHold(l, drafts, r, spared),
         \A d \in Drafts : \A a \in drafts[d] :
           /\ About(Head(l.wire), d) /\ Tells(Head(l.wire), d, drafts[d]) => <<d, a>> \in q
           /\ ~About(Head(l.wire), d) /\ <<d, a>> \in r => <<d, a>> \in q
           /\ About(Head(l.wire), d) /\ <<d, a>> \in r /\ <<d, a>> \in Head(l.wire).refs
                => <<d, a>> \in q
  PROVE  m \in Lines /\ m.backlog = l.backlog /\ DraftsHold(m, drafts, q, spared)
<1> DEFINE op == Head(l.wire)
<1>0. op = l.wire[1] /\ 1 \in DOMAIN l.wire
  BY TailIs DEF Lines
<1>1. /\ m \in Lines /\ m.backlog = l.backlog
      /\ \A p, s, t : Held(l, p, s) /\ p \in t => Held(m, p, t)
      /\ \A d, ids, s, t :
           /\ Heard(l, d, ids, s)
           /\ About(op, d) /\ Tells(op, d, ids) => {d} \X ids \subseteq t
           /\ ~About(op, d) /\ {d} \X ids \subseteq s => {d} \X ids \subseteq t
           => Heard(m, d, ids, t)
  BY TakenIs
<1> HIDE DEF op
<1>2. ASSUME NEW d \in Drafts PROVE Heard(m, d, drafts[d], q)
  <2>1. About(op, d) /\ Tells(op, d, drafts[d]) => {d} \X drafts[d] \subseteq q
    BY DEF op
  <2>2. ~About(op, d) /\ {d} \X drafts[d] \subseteq r => {d} \X drafts[d] \subseteq q
    BY DEF op
  <2> QED
    BY <1>1, <2>1, <2>2 DEF DraftsHold
<1>3. ASSUME NEW d \in Drafts, NEW a \in drafts[d], a \notin spared PROVE Held(m, <<d, a>>, q)
  <2>1. Held(l, <<d, a>>, r)
    BY <1>3 DEF DraftsHold
  <2>2. <<d, a>> \in r /\ (About(op, d) => <<d, a>> \in op.refs)
    BY <1>0, <2>1 DEF Held
  <2>3. <<d, a>> \in q
    BY <2>2 DEF op
  <2> QED
    BY <1>1, <2>1, <2>3
<1> QED
  BY <1>1, <1>2, <1>3 DEF DraftsHold

\* References that come and attachments that are spared besides disturb nothing.
LEMMA MoreTold ==
  ASSUME NEW l, NEW drafts, NEW r, NEW q, NEW spared, NEW more, DraftsHold(l, drafts, r, spared),
         r \subseteq q, \A d \in Drafts : \A a \in drafts[d] : a \in spared => a \in more
  PROVE  DraftsHold(l, drafts, q, more)
<1>1. ASSUME NEW d \in Drafts PROVE Heard(l, d, drafts[d], q)
  <2> DEFINE b == {d} \X drafts[d] \subseteq r
             e == {d} \X drafts[d] \subseteq q
             w == Ends(l.wire, d, drafts[d], b)
  <2>1. b => e
    OBVIOUS
  <2>2. Ends(l.backlog, d, drafts[d], w)
    BY DEF DraftsHold, Heard
  <2> HIDE DEF b, e
  <2>3. w => Ends(l.wire, d, drafts[d], e)
    BY <2>1, EndsAfter
  <2> HIDE DEF w
  <2> QED
    BY <2>2, <2>3, EndsAfter DEF Heard, e
<1>2. ASSUME NEW d \in Drafts, NEW a \in drafts[d], a \notin more PROVE Held(l, <<d, a>>, q)
  BY <1>2 DEF DraftsHold, Held
<1> QED
  BY <1>1, <1>2 DEF DraftsHold

\* With nothing on its way what the drafts hold is in the references.
LEMMA StillTold ==
  ASSUME NEW drafts, NEW r, NEW spared, NEW other
  PROVE  /\ DraftsHold(EmptyLine, drafts, r, spared)
              => \A d \in Drafts : \A a \in drafts[d] : <<d, a>> \in r
         /\ DraftsHold(EmptyLine, drafts, r, spared) => DraftsHold(EmptyLine, drafts, r, other)
BY DEF DraftsHold, Heard, Held, Ends, EmptyLine

\* A line with nothing in its backlog.
LEMMA FreshLine ==
  ASSUME NEW w \in Seq(Syncs)
  PROVE  [wire |-> w, backlog |-> <<>>, collecting |-> FALSE] \in Lines
<1>1. <<>> \in Seq(Syncs)
  OBVIOUS
<1> QED
  BY <1>1 DEF Lines

\* A renderer that starts anew sends what its drafts held, after what is still on the wire.
LEMMA RestoredTold ==
  ASSUME NEW l \in Lines, NEW drafts, NEW now, NEW r, NEW spared, DraftsHold(l, drafts, r, spared),
         \A d \in Drafts : now[d] \subseteq drafts[d], NEW w \in Seq(Syncs), NEW op \in Syncs,
         op.kind = "reconcile", \A d \in Drafts : {d} \X drafts[d] \subseteq op.refs,
         \A i \in DOMAIN w : /\ i \in DOMAIN l.wire /\ w[i].refs = l.wire[i].refs
                             /\ w[i].kind = l.wire[i].kind /\ w[i].key = l.wire[i].key,
         NEW m, m = [EmptyLine EXCEPT !.wire = Append(w, op)]
  PROVE  m \in Lines /\ InOrder(m) /\ DraftsHold(m, now, r, spared)
<1>1. m \in Lines /\ InOrder(m) /\ m.wire = Append(w, op) /\ m.backlog = <<>>
  <2>1. m = [wire |-> Append(w, op), backlog |-> <<>>, collecting |-> FALSE]
    BY DEF EmptyLine
  <2>2. Append(w, op) \in Seq(Syncs)
    BY AppendIs
  <2>3. m.wire = Append(w, op) /\ m.backlog = <<>>
    BY <2>1
  <2>4. m \in Lines
    BY <2>1, <2>2, FreshLine
  <2> QED
    BY <2>3, <2>4 DEF InOrder
<1>2. ASSUME NEW d \in Drafts PROVE Heard(m, d, now[d], r)
  <2>1. About(op, d) /\ Tells(op, d, now[d])
    BY DEF About, Tells
  <2> DEFINE b == {d} \X now[d] \subseteq r
  <2>2. Ends(Append(w, op), d, now[d], b)
    BY <2>1, AppendEnds
  <2> HIDE DEF b
  <2> DEFINE e == Ends(Append(w, op), d, now[d], b)
  <2>3. ASSUME NEW before, before PROVE Ends(<<>>, d, now[d], before)
    BY <2>3 DEF Ends
  <2> HIDE DEF e
  <2>4. Ends(<<>>, d, now[d], e)
    BY <2>2, <2>3 DEF e
  <2> QED
    BY <1>1, <2>4 DEF Heard, e, b
<1>3. ASSUME NEW d \in Drafts, NEW a \in now[d], a \notin spared PROVE Held(m, <<d, a>>, r)
  <2>1. Held(l, <<d, a>>, r) /\ <<d, a>> \in op.refs
    BY <1>3 DEF DraftsHold
  <2>2. \A i \in DOMAIN m.wire : m.wire[i] = op \/ (i \in DOMAIN w /\ m.wire[i] = w[i])
    BY <1>1, AppendIs
  <2> QED
    BY <1>1, <2>1, <2>2 DEF Held, About
<1> QED
  BY <1>1, <1>2, <1>3 DEF DraftsHold

Jobs == [at : {"none", "importing", "cancelled"}, key : Drafts, answer : {"none", "ok", "error"}]
Sendings == [at : {"none", "started", "checked", "committed", "failed"}, key : Drafts,
             ids : SUBSET Assets, edited : BOOLEAN, heard : BOOLEAN]

ComposerTypes ==
  /\ line \in Lines /\ draft \in [Drafts -> SUBSET Assets] /\ refs \subseteq Drafts \X Assets
  /\ asked \subseteq Drafts \X Assets /\ run \in Sendings /\ jobs \in [Assets -> Jobs]

\* What a collection would not take even if nothing refers to it any more but its message.
Spared == sent \cup (Assets \ old)

\* An import under way is not a day old.
Young(a) ==
  /\ jobs[a].at # "none" \/ xfer[a].at # "none" => a \notin old
  /\ jobs[a].answer # "none" => jobs[a].at # "none"

AllReady ==
  /\ \A d \in Drafts : \A a \in draft[d] : row[a] = "ready"
  /\ \A a \in Assets : jobs[a].answer = "ok" => row[a] = "ready"

Sending ==
  /\ run.at = "committed" => run.ids \subseteq sent
  /\ run.at # "none" => draft[run.key] \subseteq run.ids \cup Spared

Shown ==
  /\ DraftsHold(line, draft, refs, Spared)
  /\ AllReady /\ Sending
  /\ \A p \in asked : p[2] \in sent

ComposerInv ==
  /\ ComposerTypes /\ InOrder(line) /\ \A a \in Assets : Young(a)
  /\ project /\ ~late => Shown

\* Initially no draft holds anything.
LEMMA ComposerInit == FilesInit => ComposerInv
<1> SUFFICES ASSUME FilesInit PROVE ComposerInv
  OBVIOUS
<1>1. line = [wire |-> <<>>, backlog |-> <<>>, collecting |-> FALSE]
  BY DEF FilesInit, EmptyLine
<1>2. line \in Lines /\ InOrder(line)
  <2>1. <<>> \in Seq(Syncs)
    OBVIOUS
  <2> QED
    BY <1>1, <2>1 DEF Lines, InOrder
<1>3. DraftsHold(line, draft, refs, Spared)
  BY <1>1 DEF FilesInit, DraftsHold, Heard, Ends
<1> QED
  BY <1>2, <1>3 DEF FilesInit, ComposerInv, ComposerTypes, Young, Shown, AllReady, Sending,
     NoTransfer, NoImport, NoRun, Jobs, Sendings, Drafts

\* Steps that leave the drafts, their references and the rows alone.
LEMMA CalmKept ==
  ASSUME ComposerInv, UNCHANGED <<project, row, old, refs, sent, late, draft, line, run, asked>>,
         jobs' \in [Assets -> Jobs],
         \A a \in Assets : /\ jobs'[a].at # "none" => jobs[a].at # "none"
                           /\ jobs'[a].answer # "none" => jobs'[a].at # "none"
                           /\ jobs'[a].answer = "ok" => jobs[a].answer = "ok"
                           /\ xfer'[a].at # "none" => xfer[a].at # "none"
  PROVE  ComposerInv'
<1>1. ComposerTypes' /\ InOrder(line') /\ \A a \in Assets : Young(a)'
  BY DEF ComposerInv, ComposerTypes, Young
<1>2. ASSUME Shown PROVE Shown'
  <2>1. DraftsHold(line', draft', refs', Spared')
    BY <1>2 DEF Shown, Spared
  <2> QED
    BY <1>2, <2>1 DEF Shown, AllReady, Sending, Spared
<1> QED
  BY <1>1, <1>2 DEF ComposerInv

\* Steps of an import before its row is inserted, and when it fails.
LEMMA JobCalm ==
  ASSUME ComposerInv, CoreTypes, NEW a \in Assets
  PROVE  Staged(a) \/ Finish(a) \/ Install(a) \/ Discard(a) \/ Cancel(a) \/ CancelJob(a)
           => ComposerInv'
<1> USE DEF ComposerInv, ComposerTypes
<1>1. ASSUME Staged(a) PROVE ComposerInv'
  <2>1. xfer' = [xfer EXCEPT ![a].at = "open"] /\ xfer[a].at = "begin"
        /\ UNCHANGED <<project, row, old, refs, sent, late, draft, line, run, asked, jobs>>
    BY <1>1 DEF Staged, renderer
  <2>2. MovesTo(a, "open")
    BY <2>1, MovedOne DEF TransferAt
  <2> QED
    BY <2>1, <2>2, CalmKept DEF MovesTo, Young
<1>2. ASSUME Finish(a) PROVE ComposerInv'
  <2>1. xfer' = [xfer EXCEPT ![a].at = "finish"] /\ xfer[a].at = "open"
        /\ UNCHANGED <<project, row, old, refs, sent, late, draft, line, run, asked, jobs>>
    BY <1>2 DEF Finish, renderer
  <2>2. MovesTo(a, "finish")
    BY <2>1, MovedOne DEF TransferAt
  <2> QED
    BY <2>1, <2>2, CalmKept DEF MovesTo, Young
<1>3. ASSUME Install(a) PROVE ComposerInv'
  <2>1. /\ \/ xfer' = [xfer EXCEPT ![a].at = "installed"]
           \/ xfer' = [xfer EXCEPT ![a].at = "failed"]
        /\ xfer[a].at = "finish"
        /\ UNCHANGED <<project, row, old, refs, sent, late, draft, line, run, asked, jobs>>
    BY <1>3 DEF Install, renderer
  <2>2. MovesTo(a, "installed") \/ MovesTo(a, "failed")
    BY <2>1, MovedOne DEF TransferAt
  <2> QED
    BY <2>1, <2>2, CalmKept DEF MovesTo, Young
<1>4. ASSUME Discard(a) PROVE ComposerInv'
  <2>1. /\ xfer' = [xfer EXCEPT ![a] = NoTransfer]
        /\ jobs' = IF jobs[a].at = "none" THEN jobs ELSE [jobs EXCEPT ![a].answer = "error"]
        /\ UNCHANGED <<project, row, old, refs, sent, late, draft, line, run, asked>>
    BY <1>4 DEF Discard, Answer
  <2>2. MovesTo(a, "none")
    BY <2>1, EndedOne
  <2>3. jobs' \in [Assets -> Jobs]
    BY <2>1 DEF Jobs
  <2> QED
    BY <2>1, <2>2, <2>3, CalmKept DEF MovesTo, Young, Jobs
<1>5. ASSUME Cancel(a) PROVE ComposerInv'
  <2>1. xfer' = [xfer EXCEPT ![a].cancelled = TRUE]
        /\ UNCHANGED <<project, row, old, refs, sent, late, draft, line, run, asked, jobs>>
    BY <1>5 DEF Cancel, renderer
  <2> QED
    BY <2>1, CancelledOne, CalmKept DEF Young
<1>6. ASSUME CancelJob(a) PROVE ComposerInv'
  <2>1. /\ jobs' = [jobs EXCEPT ![a].at = "cancelled"] /\ jobs[a].at = "importing"
        /\ UNCHANGED <<project, row, old, refs, sent, late, draft, line, run, asked, xfer>>
    BY <1>6 DEF CancelJob, main
  <2>2. jobs' \in [Assets -> Jobs]
    BY <2>1 DEF Jobs
  <2> QED
    BY <2>1, <2>2, CalmKept DEF Young, Jobs
<1> QED
  BY <1>1, <1>2, <1>3, <1>4, <1>5, <1>6

\* A collection touches neither, but for what it marks and what it deletes.
LEMMA CollectCalm ==
  ASSUME ComposerInv, CoreTypes,
         \/ Collect \/ CancelledIdle \/ ReadDirectories \/ Collected \/ ClearProject
         \/ \E a \in Assets :
              CancelIdle(a) \/ RemoveFiles(a) \/ Sweep(a) \/ Swept(a) \/ CancelRemoved(a)
  PROVE  ComposerInv'
<1>1. /\ UNCHANGED <<project, row, old, refs, sent, late, draft, line, run, asked, jobs>>
      /\ xfer' = xfer \/ \E a \in Assets : xfer' = [xfer EXCEPT ![a].cancelled = TRUE]
  BY Zenon
  DEF Collect, CancelledIdle, ReadDirectories, Collected, ClearProject, CancelIdle, RemoveFiles,
      Sweep, Swept, CancelRemoved, renderer
<1>2. \A a \in Assets : xfer'[a].at = xfer[a].at
  BY <1>1, CancelledOne
<1> QED
  BY <1>1, <1>2, CalmKept DEF ComposerInv, ComposerTypes, Young

\* The row of an import that comes in is ready, and its draft is given a reference.
LEMMA InsertKept == ASSUME ComposerInv, CoreTypes, NEW a \in Assets, Insert(a) PROVE ComposerInv'
<1> USE DEF ComposerInv, ComposerTypes
<1>1. CASE ~(~xfer[a].cancelled /\ project)
  <2>1. /\ xfer' = [xfer EXCEPT ![a].at = "failed"] /\ xfer[a].at = "installed"
        /\ UNCHANGED <<project, row, old, refs, sent, late, draft, line, run, asked, jobs>>
    BY <1>1 DEF Insert
  <2>2. MovesTo(a, "failed")
    BY <2>1, MovedOne DEF TransferAt
  <2> QED
    BY <2>1, <2>2, CalmKept DEF MovesTo, Young
<1>2. CASE ~xfer[a].cancelled /\ project
  <2>1. /\ row' = [row EXCEPT ![a] = "ready"] /\ refs' = refs \cup {<<xfer[a].key, a>>}
        /\ xfer' = [xfer EXCEPT ![a] = NoTransfer] /\ xfer[a].at = "installed"
        /\ jobs' = IF jobs[a].at = "none" THEN jobs ELSE [jobs EXCEPT ![a].answer = "ok"]
        /\ UNCHANGED <<project, old, sent, late, draft, line, run, asked>>
    BY <1>2 DEF Insert, Answer
  <2>2. MovesTo(a, "none")
    BY <2>1, EndedOne
  <2>3. jobs' \in [Assets -> Jobs] /\ refs' \subseteq Drafts \X Assets
    <3>1. jobs' \in [Assets -> Jobs]
      BY <2>1 DEF Jobs
    <3>2. xfer[a].key \in Drafts
      BY DEF CoreTypes, Transfers
    <3> QED
      BY <2>1, <3>1, <3>2
  <2>4. ComposerTypes' /\ InOrder(line')
    BY <2>1, <2>3
  <2>5. \A b \in Assets : Young(b)'
    BY <2>1, <2>2 DEF Young, MovesTo, Jobs
  <2>6. ASSUME Shown PROVE Shown'
    <3>1. DraftsHold(line', draft', refs', Spared')
      BY <2>1, <2>6, MoreTold DEF Shown, Spared
    <3>2. AllReady'
      BY <2>1, <2>6 DEF Shown, AllReady, CoreTypes
    <3> QED
      BY <2>1, <2>6, <3>1, <3>2 DEF Shown, Sending, Spared
  <2> QED
    BY <2>1, <2>4, <2>5, <2>6
<1> QED
  BY <1>1, <1>2

\* An import begins with an id that no draft holds.
LEMMA BeginComposed ==
  ASSUME ComposerInv, CoreTypes, NEW a \in Assets, NEW d \in Drafts, BeginImport(a, d)
  PROVE  ComposerInv'
<1> USE DEF ComposerInv, ComposerTypes
<1>1. /\ xfer' = [xfer EXCEPT ![a] = [at |-> "begin", cancelled |-> FALSE, key |-> d]]
      /\ jobs' = [jobs EXCEPT ![a] = [at |-> "importing", key |-> d, answer |-> "none"]]
      /\ old' = old \ {a}
      /\ UNCHANGED <<project, row, refs, sent, late, draft, line, run, asked>>
  BY DEF BeginImport
<1>2. ComposerTypes' /\ InOrder(line')
  BY <1>1 DEF Jobs
<1>3. \A b \in Assets : Young(b)'
  BY <1>1 DEF Young, CoreTypes
<1>4. ASSUME Shown PROVE Shown'
  <2>1. DraftsHold(line', draft', refs', Spared')
    BY <1>1, <1>4, MoreTold DEF Shown, Spared
  <2>2. AllReady'
    BY <1>1, <1>4 DEF Shown, AllReady
  <2> QED
    BY <1>1, <1>4, <2>1, <2>2 DEF Shown, Sending, Spared
<1> QED
  BY <1>1, <1>2, <1>3, <1>4

\* The end of an import: what joins the draft is not a day old.
LEMMA EndJobKept == ASSUME ComposerInv, CoreTypes, NEW a \in Assets, EndJob(a) PROVE ComposerInv'
<1> DEFINE d == jobs[a].key
           joins == jobs[a].answer = "ok" /\ jobs[a].at = "importing" /\ ~Removed(d)
           ids == IF joins THEN draft[d] \cup {a} ELSE draft[d]
           between == IF joins THEN Queue(line, SyncOf(d, ids)) ELSE line
<1> USE DEF ComposerInv, ComposerTypes
<1>0. d \in Drafts /\ ids \in SUBSET Assets
  BY DEF Jobs
<1>1. /\ jobs[a].answer # "none" /\ jobs' = [jobs EXCEPT ![a] = NoImport]
      /\ draft' = [draft EXCEPT ![d] = ids]
      /\ IF joins THEN Edited(d) ELSE UNCHANGED run
      /\ line' = Direct(between, SyncOf(d, ids))
      /\ UNCHANGED <<project, row, old, refs, sent, late, asked, xfer>>
  BY DEF EndJob, Put, main
<1>2. draft' \in [Drafts -> SUBSET Assets] /\ draft'[d] = ids
      /\ \A e \in Drafts \ {d} : draft'[e] = draft[e]
  BY <1>0, <1>1
<1>3. run' \in Sendings /\ run'.at = run.at /\ run'.ids = run.ids /\ run'.key = run.key
  BY <1>1 DEF Edited, Sendings
<1>4. jobs' \in [Assets -> Jobs] /\ \A b \in Assets : Young(b)'
  BY <1>1 DEF Jobs, NoImport, Drafts, Young
<1>5. a \notin old
  BY <1>1 DEF Young
<1>6. between \in Lines /\ InOrder(between)
  <2>1. CASE joins
    BY <1>0, <2>1, SyncIs, QueueIs
  <2> QED
    BY <2>1
<1> HIDE DEF ComposerInv, ComposerTypes
<1>7. line' \in Lines /\ InOrder(line')
  BY <1>0, <1>1, <1>6, SyncIs, DirectIs
<1>8. ASSUME Shown PROVE Shown'
  <2>1. DraftsHold(between, draft', refs, Spared)
    <3>1. CASE joins
      <4>1. ids \subseteq draft[d] \cup Spared
        BY <1>5 DEF Spared
      <4>2. DraftsHold(Queue(line, SyncOf(d, ids)), draft', refs, Spared)
        BY <1>0, <1>1, <1>8, <4>1, SyncTold DEF Shown, ComposerInv, ComposerTypes
      <4> QED
        BY <3>1, <4>2
    <3>2. CASE ~joins
      <4>1. draft' = draft /\ between = line
        BY <1>1, <3>2 DEF ComposerInv, ComposerTypes
      <4> QED
        BY <1>8, <4>1 DEF Shown
    <3> QED
      BY <3>1, <3>2
  <2>2. DraftsHold(line', draft', refs', Spared')
    <3>1. DraftsHold(line', draft', refs, Spared)
      BY <1>0, <1>1, <1>2, <1>6, <2>1, DirectTold
    <3> QED
      BY <1>1, <3>1 DEF Spared
  <2>3. AllReady'
    <3>1. joins => row[a] = "ready"
      BY <1>8 DEF Shown, AllReady
    <3>2. \A e \in Drafts : \A b \in draft'[e] : row[b] = "ready"
      BY <1>2, <1>8, <3>1 DEF Shown, AllReady
    <3>3. \A b \in Assets : jobs'[b].answer = "ok" => row[b] = "ready"
      BY <1>1, <1>8 DEF Shown, AllReady, NoImport, ComposerInv, ComposerTypes
    <3> QED
      BY <1>1, <3>2, <3>3 DEF AllReady
  <2>4. Sending'
    <3>1. run.at # "none" => draft'[run.key] \subseteq run.ids \cup Spared
      BY <1>2, <1>5, <1>8 DEF Shown, Sending, Spared, ComposerInv, ComposerTypes, Sendings
    <3> QED
      BY <1>1, <1>3, <1>8, <3>1 DEF Shown, Sending, Spared
  <2> QED
    BY <1>1, <1>8, <2>2, <2>3, <2>4 DEF Shown
<1> QED
  BY <1>1, <1>2, <1>3, <1>4, <1>7, <1>8 DEF ComposerInv, ComposerTypes

\* The user edits a draft: it only loses an attachment, or gains one of a message.
LEMMA DraftKept ==
  ASSUME ComposerInv, NEW d \in Drafts, NEW ids \in SUBSET Assets,
         draft' = [draft EXCEPT ![d] = ids], line' = Queue(line, SyncOf(d, ids)),
         run' \in Sendings, run'.at # "none" => run'.at = run.at,
         run'.ids = run.ids, run'.key = run.key, asked' \subseteq asked,
         UNCHANGED <<project, row, old, refs, sent, late, xfer, jobs>>,
         Shown => \A a \in ids \ draft[d] : a \in sent /\ row[a] = "ready"
  PROVE  ComposerInv'
<1> USE DEF ComposerInv, ComposerTypes
<1>1. draft' \in [Drafts -> SUBSET Assets] /\ draft'[d] = ids
      /\ \A e \in Drafts \ {d} : draft'[e] = draft[e]
  OBVIOUS
<1>2. line' \in Lines /\ InOrder(line')
  BY SyncIs, QueueIs
<1>3. ComposerTypes' /\ \A a \in Assets : Young(a)'
  BY <1>1, <1>2 DEF Young
<1> HIDE DEF ComposerInv, ComposerTypes
<1>4. ASSUME Shown PROVE Shown'
  <2>1. DraftsHold(line', draft', refs', Spared')
    <3>1. ids \subseteq draft[d] \cup Spared
      BY <1>4 DEF Spared
    <3>2. DraftsHold(line', draft', refs, Spared)
      BY <1>4, <3>1, SyncTold DEF Shown, ComposerInv, ComposerTypes
    <3> QED
      BY <3>2 DEF Spared
  <2>2. AllReady'
    BY <1>1, <1>4 DEF Shown, AllReady
  <2>3. Sending'
    <3>1. run.at # "none" => draft'[run.key] \subseteq run.ids \cup Spared
      BY <1>1, <1>4 DEF Shown, Sending, Spared, ComposerInv, ComposerTypes, Sendings
    <3> QED
      BY <1>4, <3>1 DEF Shown, Sending, Spared
  <2> QED
    BY <1>4, <2>1, <2>2, <2>3 DEF Shown
<1> QED
  BY <1>2, <1>3, <1>4 DEF ComposerInv

\* The user takes an attachment out, or puts back one of a message.
LEMMA EditKept ==
  ASSUME ComposerInv, Inv, NEW d \in Drafts, NEW a \in Assets,
         Detach(d, a) \/ Reattach(d, a) \/ Reattached(d, a)
  PROVE  ComposerInv'
<1>1. Edited(d) => /\ run' \in Sendings /\ run'.at = run.at
                   /\ run'.ids = run.ids /\ run'.key = run.key
  BY DEF Edited, Sendings, ComposerInv, ComposerTypes
<1>2. CASE Detach(d, a)
  <2> DEFINE ids == draft[d] \ {a}
  <2>1. /\ draft' = [draft EXCEPT ![d] = ids] /\ Edited(d) /\ line' = Queue(line, SyncOf(d, ids))
        /\ UNCHANGED <<project, row, old, refs, sent, late, xfer, jobs, asked>>
    BY <1>2 DEF Detach, Put, main
  <2>2. /\ ids \in SUBSET Assets /\ ids \ draft[d] = {} /\ asked' \subseteq asked
        /\ run' \in Sendings /\ run'.ids = run.ids /\ run'.key = run.key
        /\ run'.at # "none" => run'.at = run.at
    BY <1>1, <2>1 DEF ComposerInv, ComposerTypes
  <2> HIDE DEF ids
  <2> QED
    BY <2>1, <2>2, DraftKept
<1>3. CASE Reattach(d, a)
  <2>1. /\ asked' = asked \cup {<<d, a>>} /\ a \in sent
        /\ UNCHANGED <<project, row, old, refs, sent, late, xfer, jobs, draft, line, run>>
    BY <1>3 DEF Reattach, main
  <2>2. ASSUME Shown PROVE Shown'
    <3>1. DraftsHold(line', draft', refs', Spared')
      BY <2>1, <2>2 DEF Shown, Spared
    <3> QED
      BY <2>1, <2>2, <3>1 DEF Shown, AllReady, Sending, Spared
  <2> QED
    BY <2>1, <2>2 DEF ComposerInv, ComposerTypes, Young
<1>4. CASE Reattached(d, a) /\ ~Removed(d)
  <2> DEFINE ids == draft[d] \cup {a}
  <2>1. /\ draft' = [draft EXCEPT ![d] = ids] /\ Edited(d) /\ line' = Queue(line, SyncOf(d, ids))
        /\ asked' = asked \ {<<d, a>>} /\ <<d, a>> \in asked
        /\ UNCHANGED <<project, row, old, refs, sent, late, xfer, jobs>>
    BY <1>4 DEF Reattached, Put, main
  <2>2. Shown => a \in sent /\ row[a] = "ready"
    <3>1. \A p \in asked : Shown => p[2] \in sent
      BY DEF Shown
    <3> QED
      BY <2>1, <3>1 DEF Inv, Owned
  <2>3. ids \in SUBSET Assets /\ asked' \subseteq asked
    BY <2>1 DEF ComposerInv, ComposerTypes
  <2>4. Shown => \A b \in ids \ draft[d] : b \in sent /\ row[b] = "ready"
    BY <2>2
  <2>5. /\ run' \in Sendings /\ run'.ids = run.ids /\ run'.key = run.key
        /\ run'.at # "none" => run'.at = run.at
    BY <1>1, <2>1
  <2> HIDE DEF ids
  <2> QED
    BY <2>1, <2>3, <2>4, <2>5, DraftKept, Zenon
<1>5. CASE Reattached(d, a) /\ Removed(d)
  <2>1. /\ asked' = asked \ {<<d, a>>}
        /\ UNCHANGED <<project, row, old, refs, sent, late, xfer, jobs, draft, line, run>>
    BY <1>5 DEF Reattached, main
  <2>2. ASSUME Shown PROVE Shown'
    <3>1. DraftsHold(line', draft', refs', Spared')
      BY <2>1, <2>2 DEF Shown, Spared
    <3> QED
      BY <2>1, <2>2, <3>1 DEF Shown, AllReady, Sending, Spared
  <2> QED
    BY <2>1, <2>2 DEF ComposerInv, ComposerTypes, Young
<1> QED
  BY <1>2, <1>3, <1>4, <1>5

\* A message takes what its draft holds, and is committed with it or not at all.
LEMMA SendKept ==
  ASSUME ComposerInv, CoreTypes, Preflight \/ LinkMessage \/ \E d \in Drafts : Send(d)
  PROVE  ComposerInv'
<1>1. /\ UNCHANGED <<project, row, old, refs, late, xfer, jobs, draft, line, asked>>
      /\ sent \subseteq sent'
  BY Zenon DEF Preflight, LinkMessage, Send, main
<1>2. run' \in Sendings
  <2> USE DEF Sendings, ComposerInv, ComposerTypes
  <2>1. CASE Preflight
    BY <2>1 DEF Preflight
  <2>2. CASE LinkMessage
    BY <2>2 DEF LinkMessage
  <2>3. ASSUME NEW d \in Drafts, Send(d) PROVE run' \in Sendings
    BY <2>3 DEF Send
  <2> QED
    BY <2>1, <2>2, <2>3
<1>3. ASSUME Shown PROVE Shown'
  <2>1. DraftsHold(line', draft', refs', Spared')
    BY <1>1, <1>3, MoreTold DEF Shown, Spared
  <2>2. Sending'
    <3>1. CASE Preflight
      BY <1>1, <1>3, <3>1
      DEF Preflight, main, Shown, Sending, Spared, ComposerInv, ComposerTypes, Sendings
    <3>2. CASE LinkMessage
      BY <1>1, <1>3, <3>2
      DEF LinkMessage, Shown, Sending, Spared, ComposerInv, ComposerTypes, Sendings
    <3>3. ASSUME NEW d \in Drafts, Send(d) PROVE Sending'
      BY <1>1, <3>3 DEF Send, main, Sending, Spared
    <3> QED
      BY <3>1, <3>2, <3>3
  <2> QED
    BY <1>1, <1>3, <2>1, <2>2 DEF Shown, AllReady
<1> QED
  BY <1>1, <1>2, <1>3 DEF ComposerInv, ComposerTypes, Young

\* The answer of a Run clears its draft, or moves what was added meanwhile to the Session:
\* by then its message holds what it was sent with.
LEMMA RunAnsweredKept ==
  ASSUME ComposerInv, NEW typed, NEW listed, RunAnswered(typed, listed)
  PROVE  ComposerInv'
<1> DEFINE d == run.key
           clears == ~run.edited /\ ~typed
           keeps == IF clears THEN {} ELSE draft[d]
           cleared == IF clears THEN Queue(line, SyncOf(d, {})) ELSE line
           moved == Queue(cleared, SyncOf("session", keeps))
           between == [draft EXCEPT !["session"] = keeps]
<1>1. /\ run' = NoRun /\ run.at \in {"committed", "failed"}
      /\ UNCHANGED <<project, row, old, refs, sent, late, xfer, jobs, asked>>
  BY DEF RunAnswered, main
<1>2. /\ line \in Lines /\ InOrder(line) /\ draft \in [Drafts -> SUBSET Assets] /\ d \in Drafts
      /\ keeps \in SUBSET Assets /\ keeps \subseteq draft[d] /\ run' \in Sendings
      /\ {} \in SUBSET Assets /\ "session" \in Drafts /\ "new" \in Drafts
  BY <1>1 DEF ComposerInv, ComposerTypes, Sendings, NoRun, Drafts
<1>3. \/ UNCHANGED <<draft, line>>
      \/ run.at = "committed" /\ draft' = [draft EXCEPT ![d] = keeps] /\ line' = cleared
      \/ /\ run.at = "committed" /\ d = "new"
         /\ draft' = [between EXCEPT !["new"] = {}]
         /\ line' = Queue(moved, SyncOf("new", {})) /\ ~clears
  BY <1>1, <1>2 DEF RunAnswered, Put, Moves
<1>4. cleared \in Lines /\ InOrder(cleared)
  BY <1>2, SyncIs, QueueIs
<1>5. ASSUME Shown PROVE DraftsHold(cleared, [draft EXCEPT ![d] = keeps], refs, Spared)
  <2>1. CASE clears
    BY <1>2, <1>5, <2>1, SyncTold DEF Shown
  <2>2. CASE ~clears
    <3>1. [draft EXCEPT ![d] = keeps] = draft
      BY <1>2, <2>2
    <3> QED
      BY <1>5, <2>2, <3>1 DEF Shown
  <2> QED
    BY <2>1, <2>2
<1>6. CASE UNCHANGED <<draft, line>>
  <2>1. Shown => Shown'
    BY <1>1, <1>6 DEF Shown, Sending, AllReady, Spared, NoRun
  <2> QED
    BY <1>1, <1>2, <1>6, <2>1 DEF ComposerInv, ComposerTypes, Young
<1>7. CASE draft' = [draft EXCEPT ![d] = keeps] /\ line' = cleared
  <2>1. draft' \in [Drafts -> SUBSET Assets] /\ \A e \in Drafts : draft'[e] \subseteq draft[e]
    BY <1>2, <1>7
  <2>2. ASSUME Shown PROVE Shown'
    <3>1. DraftsHold(line', draft', refs', Spared')
      BY <1>1, <1>5, <1>7, <2>2 DEF Spared
    <3>2. AllReady'
      BY <1>1, <2>1, <2>2 DEF Shown, AllReady
    <3> QED
      BY <1>1, <2>2, <3>1, <3>2 DEF Shown, Sending, NoRun
  <2> QED
    BY <1>1, <1>2, <1>4, <1>7, <2>1, <2>2 DEF ComposerInv, ComposerTypes, Young
<1>8. CASE /\ run.at = "committed" /\ d = "new" /\ ~clears
           /\ draft' = [between EXCEPT !["new"] = {}]
           /\ line' = Queue(moved, SyncOf("new", {}))
  <2>1. between \in [Drafts -> SUBSET Assets] /\ draft' \in [Drafts -> SUBSET Assets]
        /\ draft'["session"] = keeps /\ draft'["new"] = {}
    BY <1>2, <1>8
  <2>2. moved \in Lines /\ InOrder(moved)
    BY <1>2, <1>4, SyncIs, QueueIs
  <2>3. line' \in Lines /\ InOrder(line')
    BY <1>2, <1>8, <2>2, SyncIs, QueueIs
  <2>4. ASSUME Shown PROVE Shown'
    <3>1. keeps \subseteq Spared
      BY <1>2, <1>8, <2>4 DEF Shown, Sending, Spared
    <3>2. cleared = line
      BY <1>8
    <3>3. keeps \subseteq draft["session"] \cup Spared
      BY <3>1
    <3>4. DraftsHold(moved, between, refs, Spared)
      BY <1>2, <2>4, <3>2, <3>3, SyncTold DEF Shown
    <3>5. DraftsHold(line', draft', refs, Spared)
      BY <1>2, <1>8, <2>1, <2>2, <3>4, SyncTold
    <3>6. DraftsHold(line', draft', refs', Spared')
      BY <1>1, <3>5 DEF Spared
    <3>7. AllReady'
      BY <1>1, <1>2, <1>8, <2>1, <2>4 DEF Shown, AllReady, Drafts
    <3> QED
      BY <1>1, <2>4, <3>6, <3>7 DEF Shown, Sending, NoRun
  <2> QED
    BY <1>1, <1>2, <2>1, <2>3, <2>4 DEF ComposerInv, ComposerTypes, Young
<1> QED
  BY <1>3, <1>6, <1>7, <1>8

\* Main hears a call: the last one about a draft finds all of it ready.
LEMMA CommitComposed == ASSUME ComposerInv, CoreTypes, Commit PROVE ComposerInv'
<1> DEFINE op == Head(line.wire)
           l == [line EXCEPT !.wire = Tail(@)]
<1>1. /\ line.wire # <<>>
      /\ UNCHANGED <<project, row, old, sent, late, draft, jobs, run, asked, xfer>>
      /\ SetDraft(op) \/ ReconcileDrafts(op)
  BY DEF Commit
<1>2. /\ line \in Lines /\ InOrder(line) /\ draft \in [Drafts -> SUBSET Assets]
      /\ refs \subseteq Drafts \X Assets /\ op \in Syncs /\ line.wire \in Seq(Syncs)
  BY <1>1, TailIs DEF ComposerInv, ComposerTypes, Lines
<1>3. /\ l \in Lines /\ l.backlog = line.backlog /\ l.collecting = line.collecting
      /\ l.wire = Tail(line.wire)
  BY <1>1, <1>2, TailIs DEF Lines
<1>4. CASE SetDraft(op)
  <2>1. /\ op.kind = "sync"
        /\ refs' = IF {p[2] : p \in op.refs} \subseteq Ready /\ (project \/ op.refs = {})
                   THEN {p \in refs : p[1] # op.key} \cup op.refs ELSE refs
        /\ line' = IF op.queued THEN Replied(l) ELSE l
    BY <1>4 DEF SetDraft
  <2>2. refs' \subseteq Drafts \X Assets
    BY <1>2, <2>1 DEF Syncs
  <2>3. line' \in Lines /\ InOrder(line')
    <3>1. CASE op.queued
      BY <1>2, <1>3, <2>1, <3>1, RepliedIs DEF InOrder
    <3>2. CASE ~op.queued
      <4>1. Waiting(line) => Waiting(l)
        <5>1. ASSUME NEW i \in DOMAIN line.wire, line.wire[i].queued
              PROVE  \E j \in DOMAIN l.wire : l.wire[j].queued
          <6>1. i # 1
            BY <1>1, <1>2, <3>2, <5>1, TailIs
          <6>2. i - 1 \in DOMAIN Tail(line.wire) /\ Tail(line.wire)[i - 1] = line.wire[i]
            BY <1>1, <1>2, <6>1
          <6> QED
            BY <1>3, <5>1, <6>2
        <5> QED
          BY <1>3, <5>1 DEF Waiting
      <4> QED
        BY <1>2, <1>3, <2>1, <3>2, <4>1 DEF InOrder
    <3> QED
      BY <3>1, <3>2
  <2>4. ASSUME Shown, project PROVE Shown'
    <3>1. ASSUME NEW d \in Drafts, NEW a \in draft[d]
          PROVE  /\ About(op, d) /\ Tells(op, d, draft[d]) => <<d, a>> \in refs'
                 /\ ~About(op, d) /\ <<d, a>> \in refs => <<d, a>> \in refs'
                 /\ About(op, d) /\ <<d, a>> \in refs /\ <<d, a>> \in op.refs => <<d, a>> \in refs'
      <4>1. ASSUME About(op, d), Tells(op, d, draft[d]) PROVE <<d, a>> \in refs'
        <5>1. op.refs = {d} \X draft[d]
          BY <2>1, <4>1 DEF Tells
        <5>2. {p[2] : p \in op.refs} \subseteq Ready
          BY <1>2, <2>4, <5>1 DEF Shown, AllReady, Ready
        <5> QED
          BY <2>1, <2>4, <3>1, <5>1, <5>2
      <4>2. ~About(op, d) /\ <<d, a>> \in refs => <<d, a>> \in refs'
        BY <2>1 DEF About
      <4>3. <<d, a>> \in refs /\ <<d, a>> \in op.refs => <<d, a>> \in refs'
        BY <2>1
      <4> QED
        BY <4>1, <4>2, <4>3
    <3>2. DraftsHold(l, draft, refs', Spared)
      BY <1>1, <1>2, <2>4, <3>1, TakenTold DEF Shown
    <3>3. DraftsHold(line', draft, refs', Spared)
      BY <1>2, <1>3, <2>1, <3>2, RepliedTold DEF InOrder
    <3>4. DraftsHold(line', draft', refs', Spared')
      BY <1>1, <3>3 DEF Spared
    <3> QED
      BY <1>1, <2>4, <3>4 DEF Shown, AllReady, Sending, Spared
  <2> QED
    BY <1>1, <2>2, <2>3, <2>4 DEF ComposerInv, ComposerTypes, Young
<1>5. CASE ReconcileDrafts(op)
  <2>1. /\ op.kind = "reconcile" /\ refs' = {p \in op.refs : p[2] \in Ready}
        /\ line' = [l EXCEPT !.collecting = TRUE]
    BY <1>5 DEF ReconcileDrafts
  <2>2. /\ line' \in Lines /\ line'.wire = l.wire /\ line'.backlog = l.backlog
        /\ line'.collecting
    BY <1>3, <2>1 DEF Lines
  <2>3. InOrder(line') /\ refs' \subseteq Drafts \X Assets
    BY <1>2, <1>3, <2>1, <2>2 DEF InOrder, Waiting, Syncs
  <2>4. ASSUME Shown PROVE Shown'
    <3>1. ASSUME NEW d \in Drafts, NEW a \in draft[d]
          PROVE  /\ About(op, d)
                 /\ Tells(op, d, draft[d]) => <<d, a>> \in refs'
                 /\ <<d, a>> \in op.refs => <<d, a>> \in refs'
      <4>1. a \in Ready
        BY <1>2, <2>4, <3>1 DEF Shown, AllReady, Ready
      <4> QED
        BY <2>1, <3>1, <4>1 DEF About, Tells
    <3>2. DraftsHold(l, draft, refs', Spared)
      BY <1>1, <1>2, <2>4, <3>1, TakenTold DEF Shown
    <3>3. DraftsHold(line', draft, refs', Spared)
      BY <2>2, <3>2 DEF DraftsHold, Heard, Held
    <3>4. DraftsHold(line', draft', refs', Spared')
      BY <1>1, <3>3 DEF Spared
    <3> QED
      BY <1>1, <2>4, <3>4 DEF Shown, AllReady, Sending, Spared
  <2> QED
    BY <1>1, <2>2, <2>3, <2>4 DEF ComposerInv, ComposerTypes, Young
<1> QED
  BY <1>1, <1>4, <1>5

\* The answer of a reconciliation sends the next call.
LEMMA ReconciledKept == ASSUME ComposerInv, Reconciled PROVE ComposerInv'
<1> DEFINE l == [line EXCEPT !.collecting = FALSE]
<1>1. /\ line' = Replied(l)
      /\ UNCHANGED <<project, row, old, refs, sent, late, xfer, draft, jobs, run, asked>>
  BY DEF Reconciled, main
<1>2. line \in Lines /\ InOrder(line)
  BY DEF ComposerInv, ComposerTypes
<1>3. l \in Lines /\ l.wire = line.wire /\ l.backlog = line.backlog
  BY <1>2 DEF Lines
<1> HIDE DEF l
<1>4. \A i \in DOMAIN l.backlog : l.backlog[i].queued
  BY <1>2, <1>3 DEF InOrder
<1>5. line' \in Lines /\ InOrder(line')
  BY <1>1, <1>3, <1>4, RepliedIs
<1>6. ASSUME Shown PROVE Shown'
  <2>1. DraftsHold(l, draft, refs, Spared)
    BY <1>3, <1>6 DEF Shown, DraftsHold, Heard, Held
  <2>2. DraftsHold(line', draft, refs, Spared)
    BY <1>1, <1>3, <1>4, <2>1, RepliedTold
  <2>3. DraftsHold(line', draft', refs', Spared')
    BY <1>1, <2>2 DEF Spared
  <2> QED
    BY <1>1, <1>6, <2>3 DEF Shown, AllReady, Sending, Spared
<1> QED
  BY <1>1, <1>5, <1>6 DEF ComposerInv, ComposerTypes, Young

\* A collection marks what nothing refers to, and deletes what is marked.
LEMMA MarkedKept ==
  ASSUME ComposerInv, CoreTypes, MarkUnused \/ \E a \in Assets : DeleteCollected(a)
  PROVE  ComposerInv'
<1>1. UNCHANGED <<project, old, refs, sent, late, xfer, draft, line, jobs, run, asked>>
  BY Zenon DEF MarkUnused, DeleteCollected, renderer
<1>2. ASSUME Shown PROVE Shown'
  <2>1. DraftsHold(line', draft', refs', Spared')
    BY <1>1, <1>2 DEF Shown, Spared
  <2>2. ASSUME NEW a \in Assets, row[a] = "ready", a \notin old \/ Used(a) PROVE row'[a] = "ready"
    <3>1. CASE MarkUnused
      BY <2>2, <3>1 DEF MarkUnused
    <3>2. ASSUME NEW b \in Assets, DeleteCollected(b) PROVE row'[a] = "ready"
      BY <2>2, <3>2 DEF DeleteCollected, CoreTypes
    <3> QED
      BY <3>1, <3>2
  <2>3. ASSUME NEW d \in Drafts, NEW a \in draft[d] PROVE row'[a] = "ready"
    <3>1. a \in Spared \/ Held(line, <<d, a>>, refs)
      BY <1>2, <2>3 DEF Shown, DraftsHold
    <3>2. a \notin old \/ Used(a)
      BY <2>3, <3>1 DEF Spared, Held, Used
    <3>3. a \in Assets /\ row[a] = "ready"
      BY <1>2, <2>3 DEF Shown, AllReady, ComposerInv, ComposerTypes
    <3> QED
      BY <2>2, <3>2, <3>3
  <2>4. ASSUME NEW a \in Assets, jobs[a].answer = "ok" PROVE row'[a] = "ready"
    BY <1>2, <2>2, <2>4 DEF Shown, AllReady, ComposerInv, Young
  <2>5. AllReady'
    BY <1>1, <2>3, <2>4 DEF AllReady
  <2> QED
    BY <1>1, <1>2, <2>1, <2>5 DEF Shown, Sending, Spared
<1> QED
  BY <1>1, <1>2 DEF ComposerInv, ComposerTypes, Young

\* Once a Project is gone, or a Session with references on their way, no more is said.
LEMMA RemovalKept ==
  ASSUME ComposerInv, RemoveSession \/ SessionRemoved \/ RemoveProject
  PROVE  ComposerInv'
<1>1. CASE RemoveProject
  <2>1. /\ UNCHANGED <<old, late, xfer, draft, line, jobs, run, asked>>
        /\ ~project' /\ refs' = {}
    BY <1>1 DEF RemoveProject, renderer
  <2> QED
    BY <2>1 DEF ComposerInv, ComposerTypes, Young
<1>2. CASE RemoveSession
  <2>1. /\ UNCHANGED <<project, row, old, refs, xfer, draft, line, jobs, run, asked>>
        /\ run = NoRun /\ sent' = {} /\ late' = (late \/ line # EmptyLine \/ asked # {})
    BY <1>2 DEF RemoveSession
  <2>2. ASSUME Shown, ~late' PROVE Shown'
    <3>1. line = EmptyLine /\ asked = {}
      BY <2>1, <2>2
    <3>2. DraftsHold(line', draft', refs', Spared')
      BY <2>1, <2>2, <3>1, StillTold DEF Shown
    <3> QED
      BY <2>1, <2>2, <3>1, <3>2 DEF Shown, AllReady, Sending, NoRun
  <2> QED
    BY <2>1, <2>2 DEF ComposerInv, ComposerTypes, Young
<1>3. CASE SessionRemoved
  <2>1. /\ UNCHANGED <<project, row, old, refs, sent, late, xfer, jobs, run, asked>>
        /\ draft' = [draft EXCEPT !["session"] = {}]
        /\ line' = Queue(line, SyncOf("session", {}))
    BY <1>3 DEF SessionRemoved, Put, main
  <2>2. "session" \in Drafts /\ {} \in SUBSET Assets
    BY DEF Drafts
  <2>3. run \in Sendings
    BY DEF ComposerInv, ComposerTypes
  <2> QED
    BY <2>1, <2>2, <2>3, DraftKept
<1> QED
  BY <1>1, <1>2, <1>3

\* A day passes when all is heard, so what grows old in a draft has its reference.
LEMMA DayKept == ASSUME ComposerInv, CoreTypes, DayPasses PROVE ComposerInv'
<1>1. /\ UNCHANGED <<project, row, refs, sent, late, xfer, draft, line, jobs, run, asked>>
      /\ Rest
  BY DEF DayPasses, renderer
<1>2. /\ line = EmptyLine /\ run = NoRun
      /\ \A a \in Assets : xfer[a].at = "none" /\ jobs[a].at = "none" /\ jobs[a].answer = "none"
  BY <1>1 DEF Rest, NoTransfer, NoImport
<1>3. ASSUME Shown PROVE Shown'
  <2>1. DraftsHold(line', draft', refs', Spared')
    BY <1>1, <1>2, <1>3, StillTold DEF Shown
  <2> QED
    BY <1>1, <1>2, <1>3, <2>1 DEF Shown, AllReady, Sending, NoRun
<1> QED
  BY <1>1, <1>2, <1>3 DEF ComposerInv, ComposerTypes, Young

\* A renderer that reloads, or a host that dies, forgets what it waits for and sends its drafts.
LEMMA RestoredKept ==
  ASSUME ComposerInv, NEW w \in Seq(Syncs), Restored(w),
         run' = NoRun \/ run' = [run EXCEPT !.heard = FALSE],
         \A i \in DOMAIN w : /\ i \in DOMAIN line.wire /\ w[i].refs = line.wire[i].refs
                             /\ w[i].kind = line.wire[i].kind /\ w[i].key = line.wire[i].key,
         UNCHANGED <<project, row, old, refs, sent, late>>,
         \A a \in Assets : xfer'[a].at # "none" => xfer[a].at # "none"
  PROVE  ComposerInv'
<1>1. /\ line' = [EmptyLine EXCEPT !.wire = Append(w, Reconcile)]
      /\ jobs' = [a \in Assets |-> NoImport] /\ asked' = {}
      /\ draft' \in [Drafts -> SUBSET Assets] /\ \A d \in Drafts : draft'[d] \subseteq draft[d]
  BY DEF Restored, ComposerInv, ComposerTypes
<1>2. /\ Reconcile \in Syncs /\ Reconcile.kind = "reconcile"
      /\ \A d \in Drafts : {d} \X draft[d] \subseteq Reconcile.refs
  BY DEF Reconcile, Syncs, Drafts, ComposerInv, ComposerTypes
<1>3. line \in Lines
  BY DEF ComposerInv, ComposerTypes
<1>4. line' \in Lines /\ InOrder(line')
  <2>1. line' = [wire |-> Append(w, Reconcile), backlog |-> <<>>, collecting |-> FALSE]
    BY <1>1 DEF EmptyLine
  <2>2. Append(w, Reconcile) \in Seq(Syncs)
    BY <1>2, AppendIs
  <2>3. line' \in Lines
    BY <2>1, <2>2, FreshLine
  <2> QED
    BY <2>1, <2>3 DEF InOrder
<1>5. /\ jobs' \in [Assets -> Jobs] /\ \A a \in Assets : Young(a)'
      /\ run' \in Sendings /\ run'.at \in {"none", run.at}
      /\ run'.at # "none" => run'.ids = run.ids /\ run'.key = run.key
  <2>1. jobs' \in [Assets -> Jobs] /\ \A a \in Assets : Young(a)'
    BY <1>1 DEF Jobs, NoImport, Drafts, Young, ComposerInv
  <2>2. run \in Sendings
    BY DEF ComposerInv, ComposerTypes
  <2>3. CASE run' = NoRun
    BY <2>1, <2>3 DEF NoRun, Sendings, Drafts
  <2>4. CASE run' = [run EXCEPT !.heard = FALSE]
    <3>1. /\ run'.at = run.at /\ run'.ids = run.ids /\ run'.key = run.key /\ run' \in Sendings
      BY <2>2, <2>4 DEF Sendings
    <3> QED
      BY <2>1, <3>1
  <2> QED
    BY <2>3, <2>4
<1>6. ASSUME Shown PROVE Shown'
  <2>1. DraftsHold(line, draft, refs, Spared)
    BY <1>6 DEF Shown
  <2>2. DraftsHold(line', draft', refs, Spared)
    BY <1>1, <1>2, <1>3, <2>1, RestoredTold
  <2>3. DraftsHold(line', draft', refs', Spared')
    BY <2>2 DEF Spared
  <2>4. AllReady'
    BY <1>1, <1>6 DEF Shown, AllReady, NoImport
  <2>5. Sending'
    <3>1. run'.at # "none" => draft'[run'.key] \subseteq draft[run'.key]
      BY <1>1, <1>5 DEF Sendings
    <3> QED
      BY <1>5, <1>6, <3>1 DEF Shown, Sending, Spared
  <2> QED
    BY <1>1, <2>3, <2>4, <2>5 DEF Shown
<1> QED
  BY <1>1, <1>4, <1>5, <1>6 DEF ComposerInv, ComposerTypes

\* Calls on their way still arrive after a reload, and none after a crash.
LEMMA RestartComposed == ASSUME ComposerInv, Reload \/ HostDies PROVE ComposerInv'
<1>0. line \in Lines /\ line.wire \in Seq(Syncs)
  BY DEF ComposerInv, ComposerTypes, Lines
<1>1. CASE Reload
  <2> DEFINE w == [i \in DOMAIN line.wire |-> [line.wire[i] EXCEPT !.queued = FALSE]]
  <2>1. /\ Restored(w) /\ run' = [run EXCEPT !.heard = FALSE]
        /\ UNCHANGED <<project, row, old, refs, sent, late, xfer>>
    BY <1>1 DEF Reload, main
  <2>2. DOMAIN line.wire = 1..Len(line.wire) /\ Len(line.wire) \in Nat
    BY <1>0
  <2>3. ASSUME NEW i \in DOMAIN line.wire
        PROVE  /\ w[i] \in Syncs /\ w[i].refs = line.wire[i].refs
               /\ w[i].kind = line.wire[i].kind /\ w[i].key = line.wire[i].key
    <3>1. line.wire[i] \in Syncs
      BY <1>0, <2>3
    <3>2. w[i] = [line.wire[i] EXCEPT !.queued = FALSE]
      BY <2>3
    <3> QED
      BY <3>1, <3>2 DEF Syncs
  <2>4. DOMAIN w = DOMAIN line.wire /\ w \in [1..Len(line.wire) -> Syncs]
    BY <2>2, <2>3
  <2>5. w \in Seq(Syncs)
    BY <2>2, <2>4
  <2> HIDE DEF w
  <2> QED
    BY <2>1, <2>3, <2>4, <2>5, RestoredKept
<1>2. CASE HostDies
  <2>1. /\ Restored(<<>>) /\ run' = NoRun /\ UNCHANGED <<project, row, old, refs, sent, late>>
        /\ xfer' = [a \in Assets |-> NoTransfer]
    BY <1>2 DEF HostDies
  <2>2. <<>> \in Seq(Syncs) /\ \A i \in DOMAIN <<>> : FALSE
    OBVIOUS
  <2>3. \A a \in Assets : xfer'[a].at = "none"
    BY <2>1 DEF NoTransfer
  <2> QED
    BY <2>1, <2>2, <2>3, RestoredKept
<1> QED
  BY <1>1, <1>2

\* Every step keeps the invariant of the composer.
LEMMA ComposerNext == ASSUME Inv, ComposerInv, [FilesNext]_fileVars PROVE ComposerInv'
<1>0. CoreTypes
  BY DEF Inv
<1>1. CASE UNCHANGED fileVars
  <2>1. UNCHANGED <<project, row, old, refs, sent, late, draft, line, run, asked, jobs, xfer>>
    BY <1>1 DEF fileVars
  <2> QED
    BY <2>1, CalmKept DEF ComposerInv, ComposerTypes, Young
<1>2. CASE Attaching
  BY <1>0, <1>2, JobCalm, InsertKept, BeginComposed, EndJobKept DEF Attaching
<1>3. CASE Composing
  BY <1>0, <1>3, SendKept, EditKept, RunAnsweredKept, CommitComposed, ReconciledKept DEF Composing
<1>4. CASE Collecting
  BY <1>0, <1>4, CollectCalm, MarkedKept DEF Collecting
<1>5. CASE Removing
  BY <1>0, <1>5, CollectCalm, RemovalKept DEF Removing
<1> QED
  BY <1>0, <1>1, <1>2, <1>3, <1>4, <1>5, DayKept, RestartComposed DEF FilesNext

\* Whatever crossed on the way, when nothing is any more the attachments a composer shows
\* are there and have their reference (referenceSync, syncDraft, reconcileDrafts, markUnused).
THEOREM ShownAttachmentsStay == FilesSpec => []ShownAttachmentsAreKept
<1>1. Inv /\ ComposerInv => ShownAttachmentsAreKept
  <2> SUFFICES ASSUME Inv, ComposerInv, Rest, project, ~late, NEW d \in Drafts, NEW a \in draft[d]
               PROVE  Kept(a) /\ <<d, a>> \in refs
    BY DEF ShownAttachmentsAreKept
  <2>1. Shown /\ line = EmptyLine /\ a \in Assets
    BY DEF ComposerInv, ComposerTypes, Rest
  <2>2. <<d, a>> \in refs
    BY <2>1, StillTold DEF Shown
  <2>3. row[a] = "ready"
    BY <2>1 DEF Shown, AllReady
  <2> QED
    BY <2>1, <2>2, <2>3 DEF Kept, Inv, Owned
<1> QED
  BY <1>1, SpecInv, ComposerInit, ComposerNext, PTL DEF FilesSpec

-----------------------------------------------------------------------------
(* Swarm. *)

CallAt == {"idle", "found", "finished", "planning", "reserved", "owner", "joined", "result",
           "error"}
PromiseAt == {"none", "reserved", "manifest", "begin", "begun", "members", "saving", "saved",
              "settling", "gone", "failing", "stopping", "waiting", "marking", "rewriting"}
Recovering == {"stopping", "waiting", "marking", "rewriting"}
Saving == {"saving", "rewriting"}
RootStatus == {"none", "preparing", "running"} \cup Verdicts
LeafStatus == {"none", "queued", "running", "completed", "failed", "cancelled"}
WorkerAt == {"none", "asked", "prepared", "working", "returned", "threw", "success", "failure"}
StopRequests == [at : {"idle", "first", "refused", "again", "done"}, todo : SUBSET Children,
                 seen : RootStatus]

SwarmTypes ==
  /\ call \in [Callers -> CallAt] /\ promise \in PromiseAt
  /\ root \in RootStatus /\ mem \in RootStatus
  /\ leaf \in [Children -> LeafStatus] /\ worker \in [Children -> WorkerAt]
  /\ doomed \subseteq Children /\ marked \subseteq Children
  /\ rest \subseteq Children /\ lapsed \subseteq Children
  /\ aborted \in BOOLEAN /\ wanted \in BOOLEAN /\ stop \in [Stops -> StopRequests]
  /\ faults \in Nat

\* The calls: one of them owns the job, the others wait for it while it is there.
Owners == {c \in Callers : call[c] \in {"reserved", "owner"}}
CallsInv ==
  /\ root = "none" => \A c \in Callers : call[c] \in {"idle", "planning", "error"}
  /\ \A c \in Callers : call[c] = "reserved" => promise = "reserved"
  /\ \A c \in Callers : call[c] \in {"owner", "joined"} => IsActive
  /\ \A c \in Callers : call[c] = "result" => root \in {"completed", "partial"}
  /\ \A c \in Callers : call[c] = "finished" => root \in {"completed", "partial"}
  /\ \A c, d \in Owners : c = d

\* The job: what its place tells of its root, its stops and its failures.
PhaseInv ==
  /\ root = "none" <=> promise = "none"
  /\ promise \in {"none", "reserved", "manifest", "begin", "begun"} =>
       \A c \in Children : worker[c] = "none"
  /\ promise = "begin" => mem = "running"
  /\ promise \in Saving => mem \in Verdicts
  /\ root \in Verdicts => promise \in {"saved", "settling", "gone"}
  /\ promise = "failing" => faults > 0
  /\ promise \in Recovering => faults > 0 /\ aborted
  /\ IsActive /\ wanted => aborted

\* A replica: what its worker and the recovery tell of its record in the store.
Refused(c) == leaf[c] = "queued" /\ down # "no"
Left(c) == Refused(c) \/ c \in lapsed
Member(c) ==
  /\ worker[c] = "none" =>
       leaf[c] \in {"queued", "cancelled", "failed"} \/ (root = "none" /\ leaf[c] = "none")
  /\ worker[c] = "asked" => leaf[c] \in {"queued", "cancelled", "failed"}
  /\ worker[c] = "prepared" =>
       leaf[c] = "queued" \/ (leaf[c] \in {"cancelled", "failed"} /\ Told(c))
  /\ worker[c] = "working" => leaf[c] \in {"queued", "running", "cancelled", "failed"}
  /\ worker[c] \in {"returned", "success"} => leaf[c] = "completed"
  /\ c \in lapsed => worker[c] \in {"threw", "failure"}
  /\ worker[c] = "threw" => leaf[c] # "completed"
  /\ worker[c] = "failure" /\ leaf[c] = "completed" => promise # "members"
  /\ worker[c] \in {"threw", "failure"} /\ leaf[c] \in Unfinished => Left(c)
  /\ promise \in Recovering /\ worker[c] = "working" => c \in doomed
  /\ promise = "marking" => c \in rest \/ leaf[c] \notin Unfinished
MembersInv == \A c \in Children : Member(c)

\* A replica that is over for the job: unfinished only when the shutdown refused it or its own
\* worker could not read or write its record, at work or about to be only to hear that it was
\* stopped.
Over(c) ==
  /\ leaf[c] \in Unfinished => Left(c)
  /\ worker[c] = "working" => c \in doomed
  /\ worker[c] = "prepared" => Told(c)

\* What the status v of a root says of its replicas and of its job.
Counted(v) ==
  /\ v = "completed" => \A c \in Children : leaf[c] = "completed"
  /\ v = "partial" => \E c, d \in Children : /\ leaf[c] = "completed"
                                             /\ leaf[d] # "completed" /\ worker[d] = "failure"
  /\ v = "cancelled" => aborted
  /\ v = "failed" => \/ faults > 0
                     \/ \A c \in Children : leaf[c] # "completed" /\ worker[c] = "failure"

VerdictInv ==
  /\ promise \in Saving => Counted(mem) /\ \A c \in Children : Over(c)
  /\ root \in Verdicts => Counted(root) /\ \A c \in Children : Over(c)

IInv == SwarmTypes /\ CallsInv /\ PhaseInv /\ MembersInv /\ VerdictInv

LEMMA SwarmInitInv == SwarmInit => IInv
<1> SUFFICES ASSUME SwarmInit PROVE IInv
  OBVIOUS
<1>1. SwarmTypes
  BY DEF SwarmInit, SwarmTypes, CallAt, PromiseAt, RootStatus, LeafStatus, WorkerAt, StopRequests,
         Idle
<1>2. CallsInv /\ PhaseInv /\ MembersInv /\ VerdictInv
  BY DEF SwarmInit, CallsInv, Owners, PhaseInv, MembersInv, Member, VerdictInv, IsActive, Verdicts,
         Recovering, Saving
<1> QED
  BY <1>1, <1>2 DEF IInv

------------------------------------------------------------------------------
(* What a step may not do to a replica, and to the calls. *)

\* A replica that completed or failed stays so, one that is over stays over.
Lasting(c) ==
  /\ leaf[c] = "completed" => leaf'[c] = "completed"
  /\ worker[c] = "failure" =>
       worker'[c] = "failure" /\ (leaf[c] # "completed" => leaf'[c] # "completed")
  /\ Over(c) => Over(c)'

\* Then a verdict stays true, in memory until it is saved and in the store for good.
LEMMA VerdictLasts ==
  ASSUME IInv, \A c \in Children : Lasting(c), aborted => aborted', faults' >= faults,
         faults' \in Nat, promise' \in Saving => promise \in Saving /\ mem' = mem,
         lapsed \subseteq lapsed',
         root' \in Verdicts => root' = root
  PROVE  VerdictInv'
<1>1. ASSUME NEW v, Counted(v) PROVE Counted(v)'
  BY <1>1 DEF Counted, Lasting, IInv, SwarmTypes
<1>2. (\A c \in Children : Over(c)) => \A c \in Children : Over(c)'
  BY DEF Lasting
<1>3. ASSUME promise' \in Saving PROVE Counted(mem)' /\ \A c \in Children : Over(c)'
  <2>1. Counted(mem) /\ \A c \in Children : Over(c)
    BY <1>3 DEF IInv, VerdictInv
  <2>2. PICK v : v = mem
    OBVIOUS
  <2>3. Counted(v)' /\ v = mem'
    BY <1>1, <1>3, <2>1, <2>2
  <2> QED
    BY <1>2, <2>1, <2>3 DEF Counted
<1>4. ASSUME root' \in Verdicts PROVE Counted(root)' /\ \A c \in Children : Over(c)'
  <2>1. Counted(root) /\ \A c \in Children : Over(c)
    BY <1>4 DEF IInv, VerdictInv
  <2>2. PICK v : v = root
    OBVIOUS
  <2>3. Counted(v)' /\ v = root'
    BY <1>1, <1>4, <2>1, <2>2
  <2> QED
    BY <1>2, <2>1, <2>3 DEF Counted
<1> QED
  BY <1>3, <1>4 DEF VerdictInv

\* The calls notice a job that begins, one that ends, and the end of its root.
LEMMA CallsKept ==
  ASSUME CallsInv, UNCHANGED call, promise = "reserved" => promise' = "reserved",
         IsActive => IsActive', root' = "none" => root = "none",
         root \in {"completed", "partial"} => root' = root
  PROVE  CallsInv'
<1>1. Owners' = Owners
  BY DEF Owners
<1> QED
  BY <1>1 DEF CallsInv

\* A step that leaves the replicas alone.
LEMMA MembersLast ==
  ASSUME UNCHANGED <<leaf, worker, marked, lapsed>>, doomed \subseteq doomed', aborted => aborted',
         down # "no" => down' # "no"
  PROVE  \A c \in Children : Lasting(c)
BY DEF Lasting, Over, Left, Refused, Told

------------------------------------------------------------------------------
(* The calls. *)

LEMMA BeginJobKept ==
  ASSUME IInv, NEW c \in Callers, BeginCall(c) \/ Reuse(c) \/ PlanFails(c) PROVE IInv'
<1>1. /\ UNCHANGED <<promise, root, mem, leaf, worker, doomed, marked, aborted, wanted, stop, down,
                     rest, lapsed, faults>>
      /\ call[c] \in {"idle", "planning", "found", "finished"}
  BY DEF BeginCall, Reuse, PlanFails, members, request, shutdown
<1>2. PICK what \in {"planning", "found", "finished", "joined", "result", "error"} :
        /\ call' = [call EXCEPT ![c] = what]
        /\ what = "planning" => root = "none"
        /\ what \in {"found", "finished"} => root # "none"
        /\ what = "joined" => IsActive
        /\ what \in {"finished", "result"} => root \in {"completed", "partial"}
  <2>1. CASE BeginCall(c)
    BY <2>1 DEF BeginCall, Reply, Succeeded
  <2>2. CASE Reuse(c)
    BY <2>2 DEF Reuse, Reused, Reply, IInv, CallsInv
  <2>3. CASE PlanFails(c)
    BY <2>3 DEF PlanFails, Reply
  <2> QED
    BY <2>1, <2>2, <2>3
<1>3. SwarmTypes'
  BY <1>1, <1>2 DEF IInv, SwarmTypes, CallAt
<1>4. Owners' = Owners
  BY <1>1, <1>2 DEF Owners, IInv, SwarmTypes
<1>5. CallsInv'
  BY <1>1, <1>2, <1>4 DEF IInv, CallsInv, SwarmTypes, IsActive, PhaseInv
<1>6. PhaseInv'
  BY <1>1 DEF IInv, PhaseInv, IsActive
<1>7. MembersInv'
  BY <1>1 DEF IInv, MembersInv, Member, Left, Refused, Told
<1>8. VerdictInv'
  <2>1. \A d \in Children : Lasting(d)
    BY <1>1, MembersLast
  <2> QED
    BY <1>1, <2>1, VerdictLasts DEF IInv, SwarmTypes
<1> QED
  BY <1>3, <1>5, <1>6, <1>7, <1>8 DEF IInv

LEMMA ReserveKept == ASSUME IInv, NEW c \in Callers, Reserve(c) PROVE IInv'
<1>1. UNCHANGED <<worker, doomed, marked, aborted, wanted, stop, down, rest, lapsed, faults>>
      /\ call[c] = "planning"
  BY DEF Reserve, request, shutdown
<1>2. CASE root = "none"
  <2>1. /\ call' = [call EXCEPT ![c] = "reserved"] /\ root' = "preparing" /\ mem' = "preparing"
        /\ promise' = "reserved" /\ leaf' = [l \in Children |-> "queued"] /\ promise = "none"
    BY <1>2 DEF Reserve, Reserved, Reply, IInv, PhaseInv
  <2>2. SwarmTypes'
    BY <1>1, <2>1 DEF IInv, SwarmTypes, CallAt, PromiseAt, RootStatus, LeafStatus
  <2>3. CallsInv'
    <3>1. Owners' = {c}
      BY <1>2, <2>1 DEF Owners, IInv, CallsInv, SwarmTypes
    <3> QED
      BY <1>2, <2>1, <3>1 DEF IInv, CallsInv, SwarmTypes
  <2>4. PhaseInv'
    BY <1>1, <1>2, <2>1 DEF IInv, PhaseInv, IsActive, Verdicts, Recovering, Saving
  <2>5. MembersInv'
    BY <1>1, <2>1 DEF IInv, MembersInv, Member, PhaseInv, Recovering
  <2>6. VerdictInv'
    BY <2>1 DEF VerdictInv, Verdicts, Saving
  <2> QED
    BY <2>2, <2>3, <2>4, <2>5, <2>6 DEF IInv
<1>3. CASE root # "none"
  <2>1. Reused(c, root \in {"completed", "partial"}) /\ UNCHANGED <<root, mem, promise, leaf>>
    BY <1>3 DEF Reserve, Reserved, Succeeded
  <2>2. PICK what \in {"joined", "result", "error"} :
          /\ call' = [call EXCEPT ![c] = what]
          /\ what = "joined" => IsActive
          /\ what = "result" => root \in {"completed", "partial"}
    BY <2>1 DEF Reused, Reply
  <2>3. SwarmTypes'
    BY <1>1, <2>1, <2>2 DEF IInv, SwarmTypes, CallAt
  <2>4. Owners' = Owners
    BY <1>1, <2>2 DEF Owners, IInv, SwarmTypes
  <2>5. CallsInv'
    BY <1>1, <1>3, <2>1, <2>2, <2>4 DEF IInv, CallsInv, SwarmTypes, IsActive
  <2>6. PhaseInv'
    BY <1>1, <2>1 DEF IInv, PhaseInv, IsActive
  <2>7. MembersInv'
    BY <1>1, <2>1 DEF IInv, MembersInv, Member, Left, Refused, Told
  <2>8. VerdictInv'
    <3>1. \A d \in Children : Lasting(d)
      BY <1>1, <2>1, MembersLast
    <3> QED
      BY <1>1, <2>1, <3>1, VerdictLasts DEF IInv, SwarmTypes
  <2> QED
    BY <2>3, <2>5, <2>6, <2>7, <2>8 DEF IInv
<1> QED
  BY <1>2, <1>3

LEMMA ActivateKept == ASSUME IInv, NEW c \in Callers, Activate(c) PROVE IInv'
<1>1. /\ UNCHANGED <<root, mem, leaf, worker, doomed, marked, wanted, stop, down, rest, lapsed,
                     faults>>
      /\ call[c] = "reserved" /\ call' = [call EXCEPT ![c] = "owner"]
      /\ promise' = "manifest" /\ aborted' = wanted
  BY DEF Activate, members, shutdown, Reply
<1>2. promise = "reserved" /\ root \notin Verdicts /\ root # "none"
  BY <1>1 DEF IInv, CallsInv, PhaseInv
<1>3. SwarmTypes'
  BY <1>1 DEF IInv, SwarmTypes, CallAt, PromiseAt
<1>4. CallsInv'
  <2>1. Owners' = Owners /\ c \in Owners
    BY <1>1 DEF Owners, IInv, SwarmTypes
  <2>2. \A d \in Callers : call'[d] # "reserved"
    BY <1>1, <2>1 DEF IInv, CallsInv, Owners, SwarmTypes
  <2> QED
    BY <1>1, <1>2, <2>1, <2>2 DEF IInv, CallsInv, SwarmTypes, IsActive
<1>5. PhaseInv'
  BY <1>1, <1>2 DEF IInv, PhaseInv, Recovering, Saving
<1>6. MembersInv'
  BY <1>1, <1>2 DEF IInv, MembersInv, Member, Left, Refused, PhaseInv, Recovering
<1>7. VerdictInv'
  BY <1>1, <1>2 DEF VerdictInv, Saving
<1> QED
  BY <1>3, <1>4, <1>5, <1>6, <1>7 DEF IInv

------------------------------------------------------------------------------
(* The job. *)

\* A step of the job from one place to the next that leaves the replicas and the store alone.
LEMMA JobMoves ==
  ASSUME IInv, UNCHANGED <<call, root, leaf, worker, doomed, marked, aborted, wanted, stop, down,
                           lapsed>>,
         promise' \in PromiseAt, mem' \in RootStatus, faults' \in Nat, faults' >= faults,
         rest' \subseteq Children,
         IsActive, IsActive', promise' \notin {"begin", "begun", "manifest", "members"},
         promise' \notin Saving, promise' \in Recovering => promise \in Recovering,
         promise' = "marking" => rest' = Children,
         promise' = "failing" => faults' > 0,
         root \in Verdicts => promise' \in {"saved", "settling"}
  PROVE  IInv'
<1>1. SwarmTypes'
  BY DEF IInv, SwarmTypes
<1>2. CallsInv'
  BY CallsKept DEF IInv, IsActive
<1>3. PhaseInv'
  BY DEF IInv, PhaseInv, IsActive, SwarmTypes
<1>4. MembersInv'
  BY DEF IInv, MembersInv, Member, Left, Refused, Told
<1>5. VerdictInv'
  <2>1. \A d \in Children : Lasting(d)
    BY MembersLast
  <2> QED
    BY <2>1, VerdictLasts
<1> QED
  BY <1>1, <1>2, <1>3, <1>4, <1>5 DEF IInv

LEMMA BeforeKept == ASSUME IInv, Manifest \/ StartRoot \/ Fork PROVE IInv'
<1>1. CASE Manifest
  <2>1. /\ UNCHANGED <<call, root, leaf, worker, doomed, marked, aborted, wanted, stop, down,
                       rest, lapsed, faults>>
        /\ promise = "manifest" /\ promise' = "begin" /\ mem' = "running"
    BY <1>1 DEF Manifest, members, request, shutdown
  <2>2. SwarmTypes'
    BY <2>1 DEF IInv, SwarmTypes, PromiseAt, RootStatus
  <2>3. CallsInv'
    BY <2>1, CallsKept DEF IInv, IsActive
  <2>4. PhaseInv'
    BY <2>1 DEF IInv, PhaseInv, IsActive, Recovering, Saving
  <2>5. MembersInv'
    BY <2>1 DEF IInv, MembersInv, Member, Left, Refused, Told, Recovering
  <2>6. VerdictInv'
    BY <2>1 DEF IInv, VerdictInv, PhaseInv, Saving
  <2> QED
    BY <2>2, <2>3, <2>4, <2>5, <2>6 DEF IInv
<1>2. CASE StartRoot
  <2>1. /\ UNCHANGED <<call, mem, leaf, worker, doomed, marked, aborted, wanted, stop, down,
                       rest, lapsed>>
        /\ promise = "begin" /\ mem = "running" /\ root # "none" /\ root \notin Verdicts
        /\ \/ faults' = faults /\ root' = "running" /\ promise' = "begun"
           \/ faults' = faults + 1 /\ root' = root /\ promise' = "failing"
    BY <1>2 DEF StartRoot, members, request, shutdown, Works, Fails, IInv, PhaseInv
  <2>2. SwarmTypes'
    BY <2>1 DEF IInv, SwarmTypes, PromiseAt, RootStatus
  <2>3. CallsInv'
    BY <2>1, CallsKept DEF IInv, IsActive, Verdicts
  <2>4. PhaseInv'
    BY <2>1 DEF IInv, PhaseInv, IsActive, SwarmTypes, Verdicts, Recovering, Saving
  <2>5. MembersInv'
    BY <2>1 DEF IInv, MembersInv, Member, Left, Refused, Told, Recovering
  <2>6. VerdictInv'
    BY <2>1 DEF VerdictInv, Verdicts, Saving
  <2> QED
    BY <2>2, <2>3, <2>4, <2>5, <2>6 DEF IInv
<1>3. CASE Fork
  <2>1. /\ UNCHANGED <<call, root, mem, leaf, doomed, marked, aborted, wanted, stop, down,
                       rest, lapsed, faults>>
        /\ promise = "begun" /\ promise' = "members" /\ root # "none" /\ root \notin Verdicts
        /\ worker' = [c \in Children |-> "asked"]
    BY <1>3 DEF Fork, request, shutdown, IInv, PhaseInv
  <2>2. SwarmTypes'
    BY <2>1 DEF IInv, SwarmTypes, PromiseAt, WorkerAt
  <2>3. CallsInv'
    BY <2>1, CallsKept DEF IInv, IsActive
  <2>4. PhaseInv'
    BY <2>1 DEF IInv, PhaseInv, IsActive, Recovering, Saving
  <2>5. MembersInv'
    BY <2>1 DEF IInv, MembersInv, Member, PhaseInv, Recovering
  <2>6. VerdictInv'
    BY <2>1 DEF VerdictInv, Saving
  <2> QED
    BY <2>2, <2>3, <2>4, <2>5, <2>6 DEF IInv
<1> QED
  BY <1>1, <1>2, <1>3

\* The verdict is written, when nothing of it can change any more, or the write fails.
LEMMA SaveMoves ==
  ASSUME IInv, UNCHANGED <<call, mem, leaf, worker, doomed, marked, aborted, wanted, stop, down,
                           rest, lapsed, faults>>,
         promise \in Saving, root' = mem, promise' = "saved"
  PROVE  IInv'
<1>1. /\ mem \in Verdicts /\ root \notin Verdicts /\ root # "none"
      /\ promise \notin {"none", "gone", "reserved"}
  BY DEF IInv, PhaseInv, Saving
<1>2. SwarmTypes'
  BY DEF IInv, SwarmTypes, PromiseAt
<1>3. CallsInv'
  BY <1>1, CallsKept DEF IInv, IsActive, Verdicts
<1>4. PhaseInv'
  BY <1>1 DEF IInv, PhaseInv, IsActive, Verdicts, Recovering, Saving
<1>5. MembersInv'
  BY <1>1 DEF IInv, MembersInv, Member, Left, Refused, Told, Verdicts, Recovering
<1>6. VerdictInv'
  BY <1>1 DEF IInv, VerdictInv, Counted, Over, Left, Refused, Told, Saving
<1> QED
  BY <1>2, <1>3, <1>4, <1>5, <1>6 DEF IInv

LEMMA DecideKept == ASSUME IInv, Decide PROVE IInv'
<1>1. /\ UNCHANGED <<call, root, leaf, worker, doomed, marked, aborted, wanted, stop, down,
                     rest, lapsed>>
      /\ promise = "members" /\ AllCollected
      /\ \/ /\ faults' = faults /\ promise' = "saving"
            /\ mem' = IF wanted \/ aborted THEN "cancelled" ELSE Verdict
         \/ faults' = faults + 1 /\ promise' = "failing" /\ mem' = mem
  BY DEF Decide, members, request, shutdown, Works, Fails
<1>2. root \notin Verdicts
  BY <1>1 DEF IInv, PhaseInv
<1>3. CASE faults' = faults + 1 /\ promise' = "failing" /\ mem' = mem
  BY <1>1, <1>2, <1>3, JobMoves DEF IInv, SwarmTypes, PromiseAt, IsActive, Recovering, Saving
<1>4. CASE /\ faults' = faults /\ promise' = "saving"
           /\ mem' = IF wanted \/ aborted THEN "cancelled" ELSE Verdict
  <2>2. mem' \in Verdicts
    BY <1>4 DEF Verdict, Verdicts
  <2>3. SwarmTypes'
    BY <1>1, <1>4, <2>2 DEF IInv, SwarmTypes, PromiseAt, RootStatus
  <2>4. CallsInv'
    BY <1>1, <1>4, CallsKept DEF IInv, IsActive
  <2>5. PhaseInv'
    BY <1>1, <1>2, <1>4, <2>2 DEF IInv, PhaseInv, IsActive, Recovering, Saving
  <2>6. MembersInv'
    BY <1>1, <1>4 DEF IInv, MembersInv, Member, Left, Refused, Told, Recovering
  <2>7. ASSUME NEW c \in Children
        PROVE  /\ Over(c)'
               /\ \/ worker[c] = "failure" /\ leaf[c] # "completed"
                  \/ worker[c] = "success" /\ leaf[c] = "completed"
    <3>1. worker[c] \in {"success", "failure"} /\ Member(c)
      BY <1>1 DEF AllCollected, IInv, MembersInv
    <3>2. worker'[c] \in {"success", "failure"} /\ (leaf[c] \in Unfinished => Left(c))
      BY <1>1, <3>1 DEF Member, Unfinished
    <3>3. Over(c)'
      BY <1>1, <3>2 DEF Over, Left, Refused
    <3>4. \/ worker[c] = "failure" /\ leaf[c] # "completed"
          \/ worker[c] = "success" /\ leaf[c] = "completed"
      BY <1>1, <3>1 DEF Member
    <3> QED
      BY <3>3, <3>4
  <2>8. Counted(mem)'
    <3>1. CASE wanted \/ aborted
      BY <1>1, <1>4, <3>1 DEF Counted, IInv, PhaseInv, IsActive
    <3>2. CASE ~(wanted \/ aborted)
      BY <1>1, <1>4, <2>7, <3>2 DEF Counted, Verdict, Successes
    <3> QED
      BY <3>1, <3>2
  <2>9. VerdictInv'
    BY <1>1, <1>2, <1>4, <2>7, <2>8 DEF VerdictInv, Saving
  <2> QED
    BY <2>3, <2>4, <2>5, <2>6, <2>9 DEF IInv
<1> QED
  BY <1>1, <1>3, <1>4

LEMMA AfterKept == ASSUME IInv, Save \/ SaveRecovered \/ Publish \/ Settle PROVE IInv'
<1>2. CASE Save \/ SaveRecovered
  <2>1. /\ UNCHANGED <<call, mem, leaf, worker, doomed, marked, aborted, wanted, stop, down,
                       rest, lapsed>>
        /\ promise \in Saving /\ root \notin Verdicts
        /\ \/ faults' = faults /\ root' = mem /\ promise' = "saved"
           \/ faults' = faults + 1 /\ root' = root /\ promise' \in {"failing", "settling"}
    BY <1>2
    DEF Save, SaveRecovered, members, request, shutdown, Works, Fails, IInv, PhaseInv, Saving
  <2>2. CASE faults' = faults + 1 /\ root' = root /\ promise' \in {"failing", "settling"}
    BY <2>1, <2>2, JobMoves DEF IInv, SwarmTypes, PromiseAt, IsActive, Saving, Recovering
  <2>3. CASE faults' = faults /\ root' = mem /\ promise' = "saved"
    BY <2>1, <2>3, SaveMoves
  <2> QED
    BY <2>1, <2>2, <2>3
<1>3. CASE Publish
  BY <1>3, JobMoves
  DEF Publish, members, request, shutdown, IInv, SwarmTypes, PhaseInv, PromiseAt, IsActive,
      Recovering, Saving
<1>4. CASE Settle
  <2>1. /\ UNCHANGED <<root, mem, leaf, worker, doomed, marked, aborted, stop, down, rest, lapsed,
                       faults>>
        /\ promise = "settling" /\ promise' = "gone" /\ wanted' = FALSE /\ root # "none"
        /\ call' = [c \in Callers |-> IF call[c] \notin {"owner", "joined"} THEN call[c]
                                      ELSE IF root \in {"completed", "partial"} THEN "result"
                                      ELSE "error"]
    BY <1>4 DEF Settle, Succeeded, members, shutdown, IInv, PhaseInv
  <2>2. SwarmTypes'
    BY <2>1 DEF IInv, SwarmTypes, PromiseAt, CallAt
  <2>3. CallsInv'
    BY <2>1 DEF IInv, CallsInv, Owners, SwarmTypes
  <2>4. PhaseInv'
    BY <2>1 DEF IInv, PhaseInv, IsActive, Recovering, Saving
  <2>5. MembersInv'
    BY <2>1 DEF IInv, MembersInv, Member, Left, Refused, Told, Recovering
  <2>6. VerdictInv'
    BY <2>1 DEF IInv, VerdictInv, Counted, Over, Left, Refused, Told, Saving
  <2> QED
    BY <2>2, <2>3, <2>4, <2>5, <2>6 DEF IInv
<1> QED
  BY <1>2, <1>3, <1>4

------------------------------------------------------------------------------
(* The replicas. *)

\* A step about replica c alone: of its worker, of a stop or of the recovery.
LEMMA MemberMoves ==
  ASSUME IInv, NEW c \in Children, UNCHANGED <<call, root, mem, wanted, down, aborted>>,
         stop' \in [Stops -> StopRequests],
         leaf' \in [Children -> LeafStatus], worker' \in [Children -> WorkerAt],
         doomed' \subseteq Children, marked' \subseteq Children, rest' \subseteq Children,
         lapsed \subseteq lapsed', lapsed' \subseteq Children,
         \A d \in Children \ {c} : /\ leaf'[d] = leaf[d] /\ worker'[d] = worker[d]
                                   /\ d \in doomed => d \in doomed'
                                   /\ d \in marked => d \in marked'
                                   /\ d \in rest => d \in rest'
                                   /\ d \in lapsed' => d \in lapsed,
         faults' \in Nat, faults' >= faults,
         \/ promise' = promise
         \/ promise = "members" /\ promise' = "failing" /\ faults' > 0
         \/ promise = "marking" /\ promise' = "settling",
         worker[c] = "none" => worker'[c] = "none",
         Lasting(c), Member(c)'
  PROVE  IInv'
<1>1. SwarmTypes'
  BY DEF IInv, SwarmTypes, PromiseAt
<1>2. CallsInv'
  BY CallsKept DEF IInv, IsActive
<1>3. PhaseInv'
  BY DEF IInv, PhaseInv, IsActive, SwarmTypes, Recovering, Saving
<1>4. MembersInv'
  <2>1. ASSUME NEW d \in Children \ {c} PROVE Member(d)'
    BY <2>1 DEF IInv, MembersInv, Member, Left, Refused, Told, Recovering
  <2> QED
    BY <2>1 DEF MembersInv
<1>5. \A d \in Children : Lasting(d)
  BY DEF Lasting, Over, Left, Refused, Told
<1>6. VerdictInv'
  BY <1>5, VerdictLasts DEF Saving
<1> QED
  BY <1>1, <1>2, <1>3, <1>4, <1>6 DEF IInv

LEMMA RunPreparedKept == ASSUME IInv, NEW c \in Children, RunPrepared(c) PROVE IInv'
<1>1. /\ leaf \in [Children -> LeafStatus] /\ worker \in [Children -> WorkerAt] /\ faults \in Nat
      /\ doomed \subseteq Children /\ marked \subseteq Children /\ Member(c)
      /\ rest \subseteq Children /\ lapsed \subseteq Children /\ stop \in [Stops -> StopRequests]
  BY DEF IInv, SwarmTypes, MembersInv
<1>2. /\ UNCHANGED <<call, promise, root, mem, leaf, doomed, marked, aborted, wanted, stop, down,
                     rest>>
      /\ worker[c] = "asked"
      /\ \/ /\ faults' = faults /\ lapsed' = lapsed
            /\ worker' = [worker EXCEPT ![c] = IF down = "no" /\ leaf[c] = "queued" THEN "prepared"
                                               ELSE "threw"]
         \/ /\ faults' = faults + 1 /\ lapsed' = lapsed \cup {c}
            /\ worker' = [worker EXCEPT ![c] = "threw"]
  BY DEF RunPrepared, request, shutdown, Works, Fails
<1>3. Member(c)'
  BY <1>1, <1>2 DEF Member, Left, Refused, Told, Unfinished
<1>4. Lasting(c)
  BY <1>1, <1>2 DEF Member, Lasting, Over, Left, Refused, Told, Unfinished
<1> QED
  BY <1>1, <1>2, <1>3, <1>4, MemberMoves DEF WorkerAt

LEMMA LaunchKept == ASSUME IInv, NEW c \in Children, Launch(c) PROVE IInv'
<1>1. /\ leaf \in [Children -> LeafStatus] /\ worker \in [Children -> WorkerAt] /\ faults \in Nat
      /\ doomed \subseteq Children /\ marked \subseteq Children /\ Member(c)
      /\ rest \subseteq Children /\ lapsed \subseteq Children /\ stop \in [Stops -> StopRequests]
      /\ promise \in Recovering => aborted
  BY DEF IInv, SwarmTypes, MembersInv, PhaseInv
<1>2. /\ UNCHANGED <<call, promise, root, mem, aborted, wanted, stop, down, rest, lapsed>>
      /\ worker[c] = "prepared" /\ worker' = [worker EXCEPT ![c] = "working"]
      /\ marked' = marked \ {c}
      /\ \/ Told(c) /\ doomed' = doomed \cup {c} /\ leaf' = leaf /\ faults' = faults
         \/ /\ ~Told(c) /\ doomed' = doomed /\ faults' = faults
            /\ leaf' = [leaf EXCEPT ![c] = "running"]
         \/ ~Told(c) /\ leaf' = leaf /\ doomed' = doomed /\ faults' = faults + 1
  BY DEF Launch, request, shutdown, Works, Fails
<1>3. Member(c)'
  <2>1. leaf'[c] \in {"queued", "running", "cancelled", "failed"}
    BY <1>1, <1>2 DEF Member
  <2>2. promise' \in Recovering => c \in doomed'
    BY <1>1, <1>2 DEF Told
  <2>3. promise' = "marking" => c \in rest' \/ leaf'[c] \notin Unfinished
    BY <1>1, <1>2 DEF Told, Member, Recovering
  <2>4. worker'[c] = "working" /\ c \notin lapsed'
    BY <1>1, <1>2 DEF Member
  <2> QED
    BY <2>1, <2>2, <2>3, <2>4 DEF Member
<1>4. Lasting(c)
  BY <1>1, <1>2 DEF Member, Lasting, Over, Left, Refused, Told, Unfinished
<1>5. leaf' \in [Children -> LeafStatus] /\ worker' \in [Children -> WorkerAt]
  BY <1>1, <1>2 DEF WorkerAt, LeafStatus
<1> QED
  BY <1>1, <1>2, <1>3, <1>4, <1>5, MemberMoves

LEMMA WorkerEndsKept == ASSUME IInv, NEW c \in Children, WorkerEnds(c) PROVE IInv'
<1>1. /\ leaf \in [Children -> LeafStatus] /\ worker \in [Children -> WorkerAt] /\ faults \in Nat
      /\ doomed \subseteq Children /\ marked \subseteq Children /\ Member(c)
      /\ rest \subseteq Children /\ lapsed \subseteq Children /\ stop \in [Stops -> StopRequests]
  BY DEF IInv, SwarmTypes, MembersInv
<1>2. /\ UNCHANGED <<call, promise, root, mem, marked, aborted, wanted, stop, down, rest>>
      /\ worker[c] = "working" /\ doomed' = doomed \ {c}
  BY DEF WorkerEnds, request, shutdown
<1>3. \/ /\ leaf[c] = "running" /\ leaf' = [leaf EXCEPT ![c] = "completed"]
         /\ worker' = [worker EXCEPT ![c] = "returned"] /\ lapsed' = lapsed /\ faults' = faults
      \/ /\ leaf' = [leaf EXCEPT ![c] = IF c \in doomed THEN "cancelled" ELSE "failed"]
         /\ worker' = [worker EXCEPT ![c] = "threw"] /\ lapsed' = lapsed /\ faults' = faults
      \/ /\ leaf' = leaf /\ lapsed' = lapsed \cup {c} /\ faults' = faults + 1
         /\ worker' = [worker EXCEPT ![c] = "threw"]
  BY DEF WorkerEnds, Works, Fails
<1>4. leaf' \in [Children -> LeafStatus] /\ worker' \in [Children -> WorkerAt]
  BY <1>1, <1>3 DEF WorkerAt, LeafStatus
<1>5. /\ worker'[c] \in {"returned", "threw"}
      /\ worker'[c] = "returned" <=> leaf'[c] = "completed"
      /\ leaf'[c] \in Unfinished => leaf'[c] = leaf[c] /\ c \in lapsed'
      /\ c \in lapsed' => worker'[c] = "threw"
  BY <1>1, <1>2, <1>3 DEF Member, Unfinished
<1>6. Member(c)'
  BY <1>1, <1>2, <1>5 DEF Member, Left
<1>7. Lasting(c)
  BY <1>1, <1>2, <1>5 DEF Member, Lasting, Over, Left
<1>8. \A d \in Children \ {c} : leaf'[d] = leaf[d] /\ worker'[d] = worker[d]
  BY <1>1, <1>3
<1>9. /\ faults' \in Nat /\ faults' >= faults
      /\ lapsed \subseteq lapsed' /\ lapsed' \subseteq Children
      /\ \A d \in Children \ {c} : d \in lapsed' => d \in lapsed
  BY <1>1, <1>3
<1> QED
  BY <1>1, <1>2, <1>4, <1>5, <1>6, <1>7, <1>8, <1>9, MemberMoves

LEMMA CollectChildKept == ASSUME IInv, NEW c \in Children, CollectChild(c) PROVE IInv'
<1>1. /\ leaf \in [Children -> LeafStatus] /\ worker \in [Children -> WorkerAt] /\ faults \in Nat
      /\ doomed \subseteq Children /\ marked \subseteq Children /\ Member(c)
      /\ rest \subseteq Children /\ lapsed \subseteq Children /\ stop \in [Stops -> StopRequests]
  BY DEF IInv, SwarmTypes, MembersInv
<1>2. /\ UNCHANGED <<call, root, mem, leaf, doomed, marked, aborted, wanted, stop, down, rest,
                     lapsed>>
      /\ worker[c] \in {"returned", "threw"}
      /\ \/ /\ faults' = faults /\ promise' = promise
            /\ worker' = [worker EXCEPT ![c] = IF worker[c] = "returned" THEN "success"
                                               ELSE "failure"]
         \/ /\ faults' = faults + 1
            /\ worker' = [worker EXCEPT ![c] = "failure"]
            /\ promise' = IF promise = "members" THEN "failing" ELSE promise
  BY DEF CollectChild, request, shutdown, Works, Fails
<1>3. Member(c)'
  BY <1>1, <1>2 DEF Member, Left, Refused, Told, Unfinished, Recovering
<1>4. Lasting(c)
  BY <1>1, <1>2 DEF Member, Lasting, Over, Left, Refused, Told, Unfinished
<1> QED
  BY <1>1, <1>2, <1>3, <1>4, MemberMoves DEF WorkerAt

\* subagents.cancel of one child: it is told, or finished in the store with its launch told, or
\* it stays as it is because the store failed.
LEMMA CancelKept ==
  ASSUME IInv, NEW c \in Children, CancelChild(c) \/ CancelFails,
         stop' \in [Stops -> StopRequests],
         UNCHANGED <<call, promise, root, mem, aborted, wanted, down>>,
         rest' = rest \/ (promise = "stopping" /\ rest' = rest \ {c})
  PROVE  IInv'
<1>1. /\ leaf \in [Children -> LeafStatus] /\ worker \in [Children -> WorkerAt] /\ faults \in Nat
      /\ doomed \subseteq Children /\ marked \subseteq Children /\ Member(c)
      /\ rest \subseteq Children /\ lapsed \subseteq Children
  BY DEF IInv, SwarmTypes, MembersInv
<1>2. /\ worker' = worker /\ lapsed' = lapsed /\ faults' \in Nat /\ faults' >= faults
      /\ \/ /\ leaf' = leaf /\ marked \subseteq marked' /\ marked' \subseteq Children
            /\ doomed \subseteq doomed' /\ doomed' \subseteq Children
         \/ /\ worker[c] # "working" /\ leaf[c] \in Unfinished /\ doomed' = doomed
            /\ leaf' = [leaf EXCEPT ![c] = "cancelled"] /\ marked' = marked \cup {c}
  <2>1. CASE CancelFails
    BY <1>1, <2>1 DEF CancelFails, Fails, members
  <2>2. CASE CancelChild(c)
    BY <1>1, <2>2 DEF CancelChild, Doom, Works, Fails
  <2> QED
    BY <2>1, <2>2
<1>3. Member(c)'
  <2>1. CASE leaf' = leaf
    BY <1>1, <1>2, <2>1 DEF Member, Left, Refused, Told, Unfinished
  <2>2. CASE leaf' # leaf
    BY <1>1, <1>2, <2>2 DEF Member, Left, Refused, Told, Unfinished
  <2> QED
    BY <2>1, <2>2
<1>4. Lasting(c)
  BY <1>1, <1>2 DEF Member, Lasting, Over, Left, Refused, Told, Unfinished
<1>5. /\ leaf' \in [Children -> LeafStatus] /\ marked' \subseteq Children
      /\ \A d \in Children \ {c} : leaf'[d] = leaf[d]
  BY <1>1, <1>2 DEF LeafStatus
<1> QED
  BY <1>1, <1>2, <1>3, <1>4, <1>5, MemberMoves

------------------------------------------------------------------------------
(* Recovery, stop requests and the shutdown. *)

LEMMA RecoverBegins == ASSUME IInv, Recover PROVE IInv'
<1>1. /\ UNCHANGED <<call, root, mem, leaf, worker, marked, wanted, stop, down, lapsed>>
      /\ promise = "failing" /\ root \notin Verdicts
      /\ \/ /\ faults' = faults /\ promise' = "stopping" /\ aborted' = TRUE /\ rest' = Children
            /\ doomed' = doomed \cup {c \in Children : worker[c] = "working"}
         \/ faults' = faults + 1 /\ promise' = "settling" /\ UNCHANGED <<aborted, doomed, rest>>
  BY DEF Recover, shutdown, Works, Fails, Doom, IInv, PhaseInv
<1>2. CASE promise' = "settling"
  BY <1>1, <1>2, JobMoves DEF IInv, SwarmTypes, PromiseAt, IsActive, Recovering, Saving
<1>3. CASE /\ faults' = faults /\ promise' = "stopping" /\ aborted' = TRUE /\ rest' = Children
           /\ doomed' = doomed \cup {c \in Children : worker[c] = "working"}
  <2>1. SwarmTypes'
    BY <1>1, <1>3 DEF IInv, SwarmTypes, PromiseAt
  <2>2. CallsInv'
    BY <1>1, <1>3, CallsKept DEF IInv, IsActive
  <2>3. PhaseInv'
    BY <1>1, <1>3 DEF IInv, PhaseInv, IsActive, SwarmTypes, Recovering, Saving
  <2>4. MembersInv'
    BY <1>1, <1>3 DEF IInv, MembersInv, Member, Left, Refused, Told, Recovering
  <2>5. VerdictInv'
    BY <1>1, <1>3 DEF VerdictInv, Saving
  <2> QED
    BY <2>1, <2>2, <2>3, <2>4, <2>5 DEF IInv
<1> QED
  BY <1>1, <1>2, <1>3

LEMMA RecoverWaits == ASSUME IInv, AwaitMembers \/ MembersSettled PROVE IInv'
<1>1. /\ UNCHANGED <<call, root, mem, leaf, worker, doomed, marked, aborted, wanted, stop, down,
                     lapsed>>
      /\ promise \in {"stopping", "waiting"} /\ promise' \in {"waiting", "marking", "settling"}
      /\ promise' = "marking" => rest' = Children
      /\ rest' \subseteq Children /\ faults' \in Nat /\ faults' >= faults
  BY DEF AwaitMembers, MembersSettled, members, request, shutdown, Works, Fails, Running, IInv,
         SwarmTypes
<1>2. root \notin Verdicts
  BY <1>1 DEF IInv, PhaseInv
<1> QED
  BY <1>1, <1>2, JobMoves DEF IInv, SwarmTypes, PromiseAt, IsActive, Recovering, Saving

LEMMA MarkKept == ASSUME IInv, NEW c \in Children, MarkChild(c) PROVE IInv'
<1>1. /\ leaf \in [Children -> LeafStatus] /\ worker \in [Children -> WorkerAt] /\ faults \in Nat
      /\ doomed \subseteq Children /\ marked \subseteq Children /\ Member(c)
      /\ rest \subseteq Children /\ lapsed \subseteq Children /\ stop \in [Stops -> StopRequests]
      /\ promise = "marking" => aborted
  BY DEF IInv, SwarmTypes, MembersInv, PhaseInv, Recovering
<1>2. /\ UNCHANGED <<call, root, mem, worker, doomed, marked, aborted, wanted, stop, down, lapsed>>
      /\ promise = "marking" /\ rest' = rest \ {c}
      /\ \/ /\ faults' = faults /\ promise' = promise
            /\ leaf' = [leaf EXCEPT ![c] = IF leaf[c] \notin Unfinished THEN leaf[c]
                                           ELSE IF wanted THEN "cancelled" ELSE "failed"]
         \/ faults' = faults + 1 /\ promise' = "settling" /\ leaf' = leaf
  BY DEF MarkChild, request, shutdown, Works, Fails
<1>3. /\ leaf' \in [Children -> LeafStatus] /\ faults' \in Nat /\ faults' >= faults
      /\ leaf'[c] = leaf[c] \/ (leaf[c] \in Unfinished /\ leaf'[c] \in {"cancelled", "failed"})
      /\ promise' = "marking" => leaf'[c] \notin Unfinished
      /\ \A d \in Children \ {c} : leaf'[d] = leaf[d]
  BY <1>1, <1>2 DEF LeafStatus, Unfinished
<1>4. Member(c)'
  <2>1. CASE leaf'[c] = leaf[c]
    BY <1>1, <1>2, <1>3, <2>1 DEF Member, Left, Refused, Told, Recovering
  <2>2. CASE leaf[c] \in Unfinished /\ leaf'[c] \in {"cancelled", "failed"}
    BY <1>1, <1>2, <1>3, <2>2 DEF Member, Left, Refused, Told, Recovering, Unfinished
  <2> QED
    BY <1>3, <2>1, <2>2
<1>5. Lasting(c)
  BY <1>1, <1>2, <1>3 DEF Lasting, Over, Left, Refused, Told, Unfinished
<1> QED
  BY <1>1, <1>2, <1>3, <1>4, <1>5, MemberMoves

LEMMA RecoverRootKept == ASSUME IInv, RecoverRoot PROVE IInv'
<1>1. /\ UNCHANGED <<call, root, leaf, worker, doomed, marked, aborted, wanted, stop, down, rest,
                     lapsed, faults>>
      /\ promise = "marking" /\ promise' = "rewriting" /\ rest = {}
      /\ mem' = IF wanted THEN "cancelled" ELSE "failed"
      /\ root \notin Verdicts /\ aborted /\ faults > 0
  BY DEF RecoverRoot, members, request, shutdown, IInv, PhaseInv, Recovering
<1>2. SwarmTypes'
  BY <1>1 DEF IInv, SwarmTypes, PromiseAt, RootStatus, Verdicts
<1>3. CallsInv'
  BY <1>1, CallsKept DEF IInv, IsActive
<1>4. PhaseInv'
  BY <1>1 DEF IInv, PhaseInv, IsActive, Verdicts, Recovering, Saving
<1>5. MembersInv'
  BY <1>1 DEF IInv, MembersInv, Member, Left, Refused, Told, Recovering
<1>6. ASSUME NEW c \in Children PROVE Over(c)'
  BY <1>1 DEF Over, Told, IInv, MembersInv, Member, Recovering
<1>7. VerdictInv'
  BY <1>1, <1>6 DEF VerdictInv, Counted
<1> QED
  BY <1>2, <1>3, <1>4, <1>5, <1>7 DEF IInv

LEMMA RecoverKept ==
  ASSUME IInv, NEW c \in Children, RecoverChild(c) PROVE IInv'
BY CancelKept DEF RecoverChild, request, shutdown, IInv, SwarmTypes

\* What tells workers and aborts the job leaves it otherwise where it is.
LEMMA ToldKept ==
  ASSUME IInv, UNCHANGED <<call, promise, root, mem, leaf, worker, marked, rest, lapsed>>,
         faults' \in Nat, faults' >= faults,
         stop' \in [Stops -> StopRequests], doomed \subseteq doomed', doomed' \subseteq Children,
         aborted' \in BOOLEAN, wanted' \in BOOLEAN, aborted => aborted',
         down # "no" => down' # "no", IsActive /\ wanted' => aborted'
  PROVE  IInv'
<1>1. SwarmTypes'
  BY DEF IInv, SwarmTypes
<1>2. CallsInv'
  BY CallsKept DEF IInv, IsActive
<1>3. PhaseInv'
  BY DEF IInv, PhaseInv, IsActive, SwarmTypes
<1>4. MembersInv'
  BY DEF IInv, MembersInv, Member, Left, Refused, Told
<1>5. VerdictInv'
  <2>1. \A d \in Children : Lasting(d)
    BY MembersLast
  <2> QED
    BY <2>1, VerdictLasts DEF IInv, SwarmTypes
<1> QED
  BY <1>1, <1>2, <1>3, <1>4, <1>5 DEF IInv

LEMMA StopKept == ASSUME IInv, NEW s \in Stops, AskStop(s) \/ StopStep(s) PROVE IInv'
<1>1. /\ stop \in [Stops -> StopRequests] /\ root \in RootStatus /\ stop[s] \in StopRequests
      /\ doomed \subseteq Children /\ aborted \in BOOLEAN /\ wanted \in BOOLEAN /\ faults \in Nat
      /\ IsActive /\ wanted => aborted
  BY DEF IInv, SwarmTypes, PhaseInv
<1>2. \A at \in {"idle", "first", "refused", "again", "done"}, todo \in SUBSET Children,
         seen \in RootStatus :
        [stop EXCEPT ![s] = [at |-> at, todo |-> todo, seen |-> seen]] \in [Stops -> StopRequests]
  BY <1>1 DEF StopRequests
<1>3. [stop EXCEPT ![s].at = "done"] \in [Stops -> StopRequests]
  BY <1>1 DEF StopRequests
<1>4. CASE AskStop(s)
  <2>1. stop' \in [Stops -> StopRequests]
    BY <1>2, <1>4 DEF AskStop, RootStatus
  <2> QED
    BY <1>1, <1>4, <2>1, ToldKept DEF AskStop, members, shutdown
<1>5. CASE StopChild(s)
  <2>1. PICK c \in stop[s].todo : CancelChild(c) \/ CancelFails
    BY <1>5 DEF StopChild
  <2>2. c \in Children
    BY <1>1 DEF StopRequests
  <2>3. stop' \in [Stops -> StopRequests]
    BY <1>1, <1>5 DEF StopChild, StopRequests
  <2>4. UNCHANGED <<call, promise, root, mem, aborted, wanted, down, rest>>
    BY <1>5 DEF StopChild, shutdown
  <2> QED
    BY <2>1, <2>2, <2>3, <2>4, CancelKept
<1>6. CASE StopRoot(s)
  <2>1. /\ stop' \in [Stops -> StopRequests]
        /\ UNCHANGED <<call, promise, root, mem, leaf, worker, marked, rest, lapsed, down>>
    BY <1>1, <1>2, <1>3, <1>6 DEF StopRoot, StopOver, shutdown
  <2>2. /\ doomed \subseteq doomed' /\ doomed' \subseteq Children
        /\ aborted' \in BOOLEAN /\ wanted' \in BOOLEAN /\ (aborted => aborted')
        /\ IsActive /\ wanted' => aborted'
        /\ faults' \in Nat /\ faults' >= faults
    <3>1. /\ doomed \subseteq doomed' /\ doomed' \subseteq Children
          /\ faults' \in Nat /\ faults' >= faults
      BY <1>1, <1>6 DEF StopRoot, Doom, Works, Fails
    <3>2. CASE IsActive
      BY <1>1, <1>6, <3>1, <3>2 DEF StopRoot
    <3>3. CASE ~IsActive /\ root \in Unfinished
      BY <1>1, <1>6, <3>1, <3>3 DEF StopRoot
    <3>4. CASE ~IsActive /\ root \notin Unfinished
      BY <1>1, <1>6, <3>1, <3>4 DEF StopRoot
    <3> QED
      BY <3>2, <3>3, <3>4
  <2> QED
    BY <2>1, <2>2, ToldKept
<1>7. CASE StopFails(s)
  BY <1>1, <1>3, <1>7, ToldKept DEF StopFails, StopOver, Fails, members, shutdown
<1>8. CASE StopPublish(s)
  BY <1>1, <1>3, <1>8, ToldKept DEF StopPublish, StopOver, members, shutdown
<1> QED
  BY <1>4, <1>5, <1>6, <1>7, <1>8 DEF StopStep

LEMMA ShutdownKept == ASSUME IInv, DisposeChildren \/ DownStep PROVE IInv'
<1>1. /\ UNCHANGED <<call, promise, root, mem, leaf, worker, marked, faults, stop, rest, lapsed>>
      /\ down' # "no" /\ doomed \subseteq doomed' /\ doomed' \subseteq Children
      /\ aborted' \in BOOLEAN /\ wanted' \in BOOLEAN /\ (aborted => aborted')
      /\ IsActive /\ wanted' => aborted'
  <2>1. /\ doomed \subseteq Children /\ aborted \in BOOLEAN /\ wanted \in BOOLEAN
        /\ IsActive /\ wanted => aborted
    BY DEF IInv, SwarmTypes, PhaseInv
  <2>2. CASE DisposeChildren
    BY <2>1, <2>2 DEF DisposeChildren, Doom, request
  <2>3. CASE DisposeJobs
    BY <2>1, <2>3 DEF DisposeJobs, members, request
  <2>4. CASE DisposeActive
    BY <2>1, <2>4 DEF DisposeActive, Doom
  <2>5. CASE Disposed
    BY <2>1, <2>5 DEF Disposed, members, request
  <2> QED
    BY <2>2, <2>3, <2>4, <2>5 DEF DownStep
<1> QED
  BY <1>1, ToldKept DEF IInv, SwarmTypes

LEMMA SwarmNextInv == IInv /\ [SwarmNext]_swarmVars => IInv'
<1> SUFFICES ASSUME IInv, [SwarmNext]_swarmVars PROVE IInv'
  OBVIOUS
<1>1. CASE UNCHANGED swarmVars
  BY <1>1, ToldKept DEF swarmVars, IInv, SwarmTypes, PhaseInv
<1>2. ASSUME NEW c \in Callers, BeginCall(c) \/ CallStep(c) PROVE IInv'
  BY <1>2, BeginJobKept, ReserveKept, ActivateKept DEF CallStep
<1>3. ASSUME NEW c \in Children, ChildStep(c) \/ WorkerEnds(c) PROVE IInv'
  BY <1>3, RunPreparedKept, LaunchKept, WorkerEndsKept, CollectChildKept, RecoverKept, MarkKept
  DEF ChildStep
<1>4. CASE JobStep
  BY <1>4, BeforeKept, DecideKept, AfterKept, RecoverBegins, RecoverWaits, RecoverRootKept
  DEF JobStep
<1>5. ASSUME NEW s \in Stops, AskStop(s) \/ StopStep(s) PROVE IInv'
  BY <1>5, StopKept
<1>6. CASE DisposeChildren \/ DownStep
  BY <1>6, ShutdownKept
<1> QED
  BY <1>1, <1>2, <1>3, <1>4, <1>5, <1>6 DEF SwarmNext

------------------------------------------------------------------------------
(* The theorems. *)

\* SwarmCoordinator saves a status that is true of the replicas and of the stops there were, and
\* saves it when the last of them is over (see RootIsTrue).
THEOREM RootsAreTrue == SwarmSpec => []RootIsTrue
<1>1. IInv => RootIsTrue
  <2> SUFFICES ASSUME IInv PROVE RootIsTrue
    OBVIOUS
  <2>1. RootEndsLast
    BY DEF IInv, VerdictInv, Over, Left, Refused, RootEndsLast
  <2>2. VerdictIsTrue
    BY DEF IInv, VerdictInv, Counted, Verdicts, VerdictIsTrue
  <2> QED
    BY <2>1, <2>2 DEF RootIsTrue
<1> QED
  BY <1>1, SwarmInitInv, SwarmNextInv, PTL DEF SwarmSpec

\* Calls that name one tool call share its job: only one reserves it, all are answered from its
\* root, and none is left when it is gone (#reuseExisting, createSwarmJob).
THEOREM CallsShare == SwarmSpec => []CallsShareTheJob
<1>1. IInv => CallsShareTheJob
  <2> SUFFICES ASSUME IInv PROVE CallsShareTheJob
    OBVIOUS
  <2>1. Cardinality(Owners) <= 1
    <3>1. CASE Owners = {}
      BY <3>1, FS_EmptySet
    <3>2. CASE Owners # {}
      <4>1. PICK c : c \in Owners
        BY <3>2
      <4>2. Owners = {c}
        BY <4>1 DEF IInv, CallsInv
      <4>3. Cardinality({c}) = 1
        BY FS_Singleton, Zenon
      <4> QED
        BY <4>2, <4>3
    <3> QED
      BY <3>1, <3>2
  <2>2. promise = "gone" => \A c \in Callers : call[c] \notin {"owner", "joined"}
    BY DEF IInv, CallsInv, IsActive
  <2> QED
    BY <2>1, <2>2 DEF IInv, CallsInv, Owners, CallsShareTheJob
<1> QED
  BY <1>1, SwarmInitInv, SwarmNextInv, PTL DEF SwarmSpec

------------------------------------------------------------------------------
(* McpManager. *)

ServerRecords ==
  [print : Prints \cup {"none"},
   state : {"stopped", "starting", "ready", "draining", "error", "restarting"},
   conn : 0..MaxProcs, catalog : BOOLEAN, at : {"idle", "connecting", "failing"},
   opening : 0..MaxProcs, stopReq : BOOLEAN, intentional : BOOLEAN, attempts : Nat,
   timer : BOOLEAN, stops : SUBSET (Procs \X {"nothing", "restart"})]
Stages == {"free", "hello", "up", "closing", "gone"}
ServerWorlds == [rec : [Records -> ServerRecords], proc : [Procs -> Stages]]
ServerConfigs == [on : BOOLEAN, print : Prints \cup {"none"}]
ToolCalls == [at : {"idle", "waiting", "calling", "done"}, rec : 0..MaxRecords,
              proc : 0..MaxProcs]

\* The invariant is stated for any records and processes w, of which the first n are made,
\* any configuration c and any calls, so that it can be followed inside of a step.
Served(w, r) == w.rec[r].conn # NoProc /\ w.proc[w.rec[r].conn] \in {"hello", "up"}

\* A connection belongs to one record, and to a record that was made.
OneOwner(w) ==
  \A r \in Records :
    /\ w.rec[r].conn # NoProc => w.proc[w.rec[r].conn] # "free"
    /\ w.rec[r].at # "idle" => w.rec[r].opening \in Procs
    /\ \A s \in Records : w.rec[r].conn # NoProc /\ w.rec[r].conn = w.rec[s].conn => r = s

NotMade(w, n) ==
  \A r \in Records : r > n =>
    w.rec[r].conn = NoProc /\ ~w.rec[r].timer /\ w.rec[r].stops = {} /\ w.rec[r].at = "idle"

\* What is closed on purpose serves nobody any more.
Wanted(w) == \A r \in Records : Served(w, r) => ~w.rec[r].intentional

\* The last record is the one of the configuration; one that is off only serves its calls.
InForce(w, n, c) ==
  /\ c.on => n # 0 /\ w.rec[n].print = c.print
  /\ ~c.on /\ n # 0 /\ Served(w, n) => w.rec[n].stopReq

\* A record that was replaced stays retired, unless its launch comes back.
ComesBack(w, n) == \E r, s \in 1..n : r < s /\ w.rec[r].print = w.rec[s].print
Retired(w, n) ==
  ~ComesBack(w, n) => \A r \in 1..n : r < n => w.rec[r].intentional \/ w.rec[r].stopReq

\* Calls are on connections of their own record.
OwnCalls(w, n, calls) ==
  \A c \in Calls :
    /\ calls[c].at \in {"waiting", "calling"} => calls[c].rec \in 1..n
    /\ calls[c].at = "calling" =>
         /\ calls[c].proc \in Procs /\ w.proc[calls[c].proc] # "free"
         /\ \A s \in Records : w.rec[s].conn = calls[c].proc => s = calls[c].rec

SoundWorld(w, n, c, calls) ==
  /\ w \in ServerWorlds /\ n \in 0..MaxRecords /\ c \in ServerConfigs
  /\ calls \in [Calls -> ToolCalls]
  /\ OneOwner(w) /\ NotMade(w, n) /\ Wanted(w) /\ InForce(w, n, c) /\ Retired(w, n)
  /\ OwnCalls(w, n, calls)

\* A record drains for the sake of calls.
Drains(w, calls) ==
  \A r \in Records :
    w.rec[r].stopReq => \E c \in Calls : calls[c].at = "calling" /\ calls[c].rec = r

McpInv == SoundWorld(World, current, configs, toolCall) /\ Drains(World, toolCall)

\* Initially there is no record.
LEMMA McpInitInv == McpInit => McpInv
<1> SUFFICES ASSUME McpInit PROVE McpInv
  OBVIOUS
<1> DEFINE y == NewRecord("none")
<1>1. y \in ServerRecords
  BY McpAssumption DEF NewRecord, ServerRecords, NoProc
<1>2. y.conn = NoProc /\ ~y.timer /\ y.stops = {} /\ y.at = "idle" /\ ~y.stopReq
  BY DEF NewRecord
<1> HIDE DEF y
<1>3. rec = [r \in Records |-> y] /\ World = [rec |-> rec, proc |-> proc]
  BY DEF McpInit, World, y
<1>4. World \in ServerWorlds
  BY <1>1, <1>3 DEF McpInit, ServerWorlds, Stages
<1>5. configs \in ServerConfigs /\ current \in 0..MaxRecords /\ toolCall \in [Calls -> ToolCalls]
  BY McpAssumption DEF McpInit, ServerConfigs, ToolCalls, NoCall, NoProc
<1>6. \A r \in Records : World.rec[r] = y
  BY <1>3
<1>7. OneOwner(World) /\ NotMade(World, current) /\ Wanted(World)
  BY <1>2, <1>6 DEF OneOwner, NotMade, Wanted, Served
<1>8. InForce(World, current, configs) /\ Retired(World, current)
  BY DEF McpInit, InForce, Retired
<1>9. OwnCalls(World, current, toolCall)
  BY DEF McpInit, OwnCalls, NoCall
<1>10. Drains(World, toolCall)
  BY <1>2, <1>6 DEF Drains
<1> QED
  BY <1>4, <1>5, <1>7, <1>8, <1>9, <1>10 DEF McpInv, SoundWorld

\* A step on one record.
With(w, r, y) == [w EXCEPT !.rec[r] = y]

LEMMA WithIs ==
  ASSUME NEW w \in ServerWorlds, NEW r \in Records, NEW y \in ServerRecords
  PROVE  /\ With(w, r, y) \in ServerWorlds /\ With(w, r, y).proc = w.proc
         /\ With(w, r, y).rec[r] = y
         /\ \A s \in Records : s # r => With(w, r, y).rec[s] = w.rec[s]
<1>1. w.rec \in [Records -> ServerRecords] /\ w.proc \in [Procs -> Stages]
  BY DEF ServerWorlds
<1>2. /\ With(w, r, y).rec = [w.rec EXCEPT ![r] = y]
      /\ With(w, r, y).proc = w.proc
      /\ With(w, r, y) = [rec |-> With(w, r, y).rec, proc |-> With(w, r, y).proc]
  BY DEF With, ServerWorlds
<1>3. /\ With(w, r, y).rec \in [Records -> ServerRecords] /\ With(w, r, y).rec[r] = y
      /\ \A s \in Records : s # r => With(w, r, y).rec[s] = w.rec[s]
  BY <1>1, <1>2
<1> QED
  BY <1>1, <1>2, <1>3 DEF ServerWorlds

\* What #connect makes of a record: it takes a process nobody has.
Opened(y, k) == [y EXCEPT !.state = "starting", !.intentional = FALSE, !.stopReq = FALSE,
                          !.conn = k, !.at = "connecting", !.opening = k]
FreeProc(w) == CHOOSE k \in Procs : w.proc[k] = "free"

LEMMA OpenedIs ==
  ASSUME NEW y \in ServerRecords, NEW k \in 0..MaxProcs
  PROVE  /\ Opened(y, k) \in ServerRecords
         /\ Opened(y, k).print = y.print /\ Opened(y, k).conn = k
         /\ Opened(y, k).at = "connecting" /\ Opened(y, k).opening = k
         /\ ~Opened(y, k).stopReq /\ ~Opened(y, k).intentional
<1>1. Opened(y, k) \in ServerRecords
  BY Zenon DEF ServerRecords, Opened
<1> QED
  BY <1>1 DEF ServerRecords, Opened

LEMMA ConnectIs ==
  ASSUME NEW w, NEW r, \E k \in Procs : w.proc[k] = "free"
  PROVE  \E k \in Procs :
           /\ w.proc[k] = "free"
           /\ Connect(w, r) = [rec |-> [w.rec EXCEPT ![r] = Opened(w.rec[r], k)],
                               proc |-> [w.proc EXCEPT ![k] = "hello"]]
<1>1. FreeProc(w) \in Procs /\ w.proc[FreeProc(w)] = "free"
  BY Zenon DEF FreeProc
<1>2. Connect(w, r) = [rec |-> [w.rec EXCEPT ![r] = Opened(w.rec[r], FreeProc(w))],
                       proc |-> [w.proc EXCEPT ![FreeProc(w)] = "hello"]]
  BY Zenon DEF Connect, FreeProc, Opened
<1> QED
  BY <1>1, <1>2, Zenon

LEMMA ConnectSound ==
  ASSUME NEW w, NEW n, NEW c, NEW calls, SoundWorld(w, n, c, calls), NEW r \in 1..n,
         \E k \in Procs : w.proc[k] = "free", c.on, w.rec[r].print = c.print
  PROVE  LET x == Connect(w, r)
         IN  /\ SoundWorld(x, n, c, calls)
             /\ \A s \in Records : x.rec[s].stopReq => w.rec[s].stopReq
             /\ \A k \in Procs : x.proc[k] = "closing" => w.proc[k] = "closing"
<1>y. \E k \in Procs : w.proc[k] = "free"
  OBVIOUS
<1>u. PICK k \in Procs :
        /\ w.proc[k] = "free"
        /\ Connect(w, r) = [rec |-> [w.rec EXCEPT ![r] = Opened(w.rec[r], k)],
                            proc |-> [w.proc EXCEPT ![k] = "hello"]]
  BY ONLY <1>y, ConnectIs
<1> DEFINE x == Connect(w, r)
<1>z. /\ w.proc[k] = "free"
      /\ x = [rec |-> [w.rec EXCEPT ![r] = Opened(w.rec[r], k)],
              proc |-> [w.proc EXCEPT ![k] = "hello"]]
  BY <1>u
<1> HIDE DEF x
<1> DEFINE y == Opened(w.rec[r], k)
<1>0. w \in ServerWorlds /\ n \in 0..MaxRecords /\ r \in Records /\ n # 0
  BY McpAssumption DEF SoundWorld, Records
<1>a. w.rec[r] \in ServerRecords /\ w.rec \in [Records -> ServerRecords]
  BY <1>0 DEF ServerWorlds
<1>b. y \in ServerRecords
  BY <1>a, OpenedIs, McpAssumption DEF Procs
<1>c. x.rec = [w.rec EXCEPT ![r] = y] /\ x.proc = [w.proc EXCEPT ![k] = "hello"]
  BY <1>z
<1>e. x = [rec |-> x.rec, proc |-> x.proc]
  BY <1>z
<1>1. w.proc[k] = "free"
  BY <1>z
<1>d. y.print = w.rec[r].print /\ y.conn = k /\ y.at = "connecting"
      /\ y.opening = k /\ ~y.stopReq /\ ~y.intentional
  BY <1>a, OpenedIs, McpAssumption DEF Procs
<1> HIDE DEF y
<1>2. /\ x \in ServerWorlds
      /\ \A s \in Records : s # r => x.rec[s] = w.rec[s]
      /\ x.rec[r] = y
      /\ \A j \in Procs : x.proc[j] = IF j = k THEN "hello" ELSE w.proc[j]
  <2>1. x.rec \in [Records -> ServerRecords] /\ x.rec[r] = y
        /\ \A s \in Records : s # r => x.rec[s] = w.rec[s]
    BY <1>0, <1>a, <1>b, <1>c
  <2>2. x.proc \in [Procs -> Stages] /\ \A j \in Procs : x.proc[j] = IF j = k THEN "hello" ELSE w.proc[j]
    <3>1. "hello" \in Stages /\ w.proc \in [Procs -> Stages]
      BY <1>0 DEF ServerWorlds, Stages
    <3> QED
      BY <3>1, <1>c
  <2> QED
    BY <2>1, <2>2, <1>e DEF ServerWorlds
<1> USE DEF Records, Procs, NoProc, Served
<1>3. /\ x.rec[r].print = w.rec[r].print /\ x.rec[r].conn = k /\ x.rec[r].at = "connecting"
      /\ x.rec[r].opening = k /\ ~x.rec[r].stopReq /\ ~x.rec[r].intentional
  BY <1>d, <1>2
<1>4. \A s \in Records : w.rec[s] \in ServerRecords /\ x.rec[s] \in ServerRecords
  BY <1>0, <1>2 DEF ServerWorlds
<1>5. OneOwner(x)
  BY <1>0, <1>1, <1>2, <1>3, <1>4 DEF SoundWorld, OneOwner, ServerRecords
<1>6. NotMade(x, n)
  BY <1>0, <1>2 DEF SoundWorld, NotMade
<1>7. Wanted(x)
  <2> SUFFICES ASSUME NEW s \in Records, Served(x, s) PROVE ~x.rec[s].intentional
    BY DEF Wanted
  <2>1. CASE s = r
    BY <2>1, <1>3
  <2>2. CASE s # r
    BY <2>2, <1>0, <1>1, <1>2, <1>4 DEF SoundWorld, OneOwner, Wanted, ServerRecords
  <2> QED
    BY <2>1, <2>2
<1>8. \A s \in Records : x.rec[s].print = w.rec[s].print
  BY <1>2, <1>3
<1>9. InForce(x, n, c)
  BY <1>0, <1>8 DEF SoundWorld, InForce
<1>10. Retired(x, n)
  <2> SUFFICES ASSUME ~ComesBack(x, n), NEW s \in 1..n, s < n
               PROVE  x.rec[s].intentional \/ x.rec[s].stopReq
    BY DEF Retired
  <2>0. n \in 1..n /\ \A t \in 1..n : t \in Records
    BY <1>0, McpAssumption
  <2>1. s # r
    BY <1>0, <2>0, <1>8 DEF SoundWorld, InForce, ComesBack
  <2>2. ~ComesBack(w, n)
    BY <2>0, <1>8 DEF ComesBack
  <2> QED
    BY <2>0, <2>1, <2>2, <1>2 DEF SoundWorld, Retired
<1>11. OwnCalls(x, n, calls)
  BY <1>0, <1>1, <1>2, <1>3 DEF SoundWorld, OwnCalls
<1>12. \A s \in Records : x.rec[s].stopReq => w.rec[s].stopReq
  BY <1>2, <1>3
<1>13. \A j \in Procs : x.proc[j] = "closing" => w.proc[j] = "closing"
  BY <1>2
<1> QED
  BY <1>0, <1>2, <1>5, <1>6, <1>7, <1>9, <1>10, <1>11, <1>12, <1>13 DEF SoundWorld, x

\* A record whose connection, process and marks are as before, or are given up, is as sound.
\* Between w and x, record r only lets go of its connection, its timer and the stops that
\* wait, and stays retired if it was; processes only go on.
Fades(w, x) ==
  /\ x \in ServerWorlds
  /\ \A s \in Records :
       /\ x.rec[s].print = w.rec[s].print
       /\ x.rec[s].conn \in {w.rec[s].conn, NoProc}
       /\ x.rec[s].at # "idle" => w.rec[s].at # "idle" /\ x.rec[s].opening = w.rec[s].opening
       /\ w.rec[s].intentional \/ w.rec[s].stopReq => x.rec[s].intentional \/ x.rec[s].stopReq
       /\ Served(x, s) => /\ x.rec[s].intentional = w.rec[s].intentional
                          /\ w.rec[s].stopReq => x.rec[s].stopReq
  /\ \A k \in Procs :
       /\ x.proc[k] = "free" <=> w.proc[k] = "free"
       /\ x.proc[k] \in {"hello", "up"} => w.proc[k] \in {"hello", "up"}

LEMMA FadesSound ==
  ASSUME NEW w, NEW x, NEW n, NEW c, NEW calls, SoundWorld(w, n, c, calls), Fades(w, x),
         NotMade(x, n)
  PROVE  SoundWorld(x, n, c, calls)
<1> USE DEF Records, Procs, NoProc, Served, Fades
<1>0. w \in ServerWorlds /\ x \in ServerWorlds /\ n \in 0..MaxRecords
  BY DEF SoundWorld
<1>1. \A s \in Records : w.rec[s].conn \in 0..MaxProcs /\ x.rec[s].conn \in 0..MaxProcs
  BY <1>0 DEF ServerWorlds, ServerRecords
<1>2. OneOwner(x)
  BY <1>0, <1>1, McpAssumption DEF SoundWorld, OneOwner
<1>3. \A s \in Records : Served(x, s) => Served(w, s)
  BY <1>0, <1>1, McpAssumption
<1>4. Wanted(x)
  BY <1>3 DEF SoundWorld, Wanted
<1>5. InForce(x, n, c)
  BY <1>0, <1>3, McpAssumption DEF SoundWorld, InForce
<1>6. Retired(x, n)
  <2>1. ComesBack(w, n) => ComesBack(x, n)
    BY <1>0, McpAssumption DEF ComesBack
  <2> QED
    BY <2>1, <1>0, McpAssumption DEF SoundWorld, Retired
<1>7. OwnCalls(x, n, calls)
  BY <1>0, <1>1, McpAssumption DEF SoundWorld, OwnCalls
<1> QED
  BY <1>0, <1>2, <1>4, <1>5, <1>6, <1>7 DEF SoundWorld

\* #start either does nothing, gives up or connects the record of the configuration.
LEMMA StartedSound ==
  ASSUME NEW w, NEW n, NEW c, NEW calls, SoundWorld(w, n, c, calls), NEW r \in 1..n,
         \E k \in Procs : w.proc[k] = "free"
  PROVE  LET x == Started(w, r, c)
         IN  /\ SoundWorld(x, n, c, calls)
             /\ \A s \in Records : x.rec[s].stopReq => w.rec[s].stopReq
             /\ \A k \in Procs : x.proc[k] = "closing" => w.proc[k] = "closing"
<1> DEFINE x == Started(w, r, c)
           off == [w EXCEPT !.rec[r].state = "stopped"]
<1>0. w \in ServerWorlds /\ n \in 0..MaxRecords /\ r \in Records
  BY McpAssumption DEF SoundWorld, Records
<1>1. CASE x = w
  BY <1>1
<1>2. CASE x = off
  <2>1. off = With(w, r, [w.rec[r] EXCEPT !.state = "stopped"])
    BY DEF With
  <2>2. w.rec[r] \in ServerRecords
    BY <1>0 DEF ServerWorlds
  <2>3. [w.rec[r] EXCEPT !.state = "stopped"] \in ServerRecords
    BY <2>2 DEF ServerRecords
  <2> HIDE DEF off
  <2>4. /\ off \in ServerWorlds /\ off.proc = w.proc
        /\ off.rec[r] = [w.rec[r] EXCEPT !.state = "stopped"]
        /\ \A s \in Records : s # r => off.rec[s] = w.rec[s]
    BY <1>0, <2>1, <2>3, WithIs
  <2>5. \A s \in Records :
          /\ off.rec[s].print = w.rec[s].print /\ off.rec[s].conn = w.rec[s].conn
          /\ off.rec[s].at = w.rec[s].at /\ off.rec[s].opening = w.rec[s].opening
          /\ off.rec[s].intentional = w.rec[s].intentional
          /\ off.rec[s].stopReq = w.rec[s].stopReq
          /\ off.rec[s].timer = w.rec[s].timer /\ off.rec[s].stops = w.rec[s].stops
    BY <2>2, <2>4 DEF ServerRecords
  <2>6. Fades(w, off)
    BY <2>4, <2>5, <1>0 DEF Fades, Served
  <2>7. NotMade(off, n)
    BY <2>5 DEF SoundWorld, NotMade
  <2> QED
    BY <2>4, <2>5, <2>6, <2>7, <1>2, FadesSound
<1>3. CASE x = Connect(w, r) /\ c.on /\ w.rec[r].print = c.print
  BY <1>3, ConnectSound
<1> QED
  BY <1>1, <1>2, <1>3 DEF Started

\* #stop after its close.
LEMMA StoppedSound ==
  ASSUME NEW w, NEW n, NEW c, NEW calls, SoundWorld(w, n, c, calls), NEW r \in 1..n,
         NEW then, NEW e, then = "restart" => e = c,
         then = "restart" => \E k \in Procs : w.proc[k] = "free"
  PROVE  LET x == Stopped(w, r, then, e)
         IN  /\ SoundWorld(x, n, c, calls)
             /\ \A s \in Records : x.rec[s].stopReq => w.rec[s].stopReq
             /\ \A k \in Procs : x.proc[k] = "closing" => w.proc[k] = "closing"
             /\ then # "restart" =>
                  /\ x.proc = w.proc /\ x.rec[r].conn = NoProc
                  /\ x.rec[r].intentional = w.rec[r].intentional
                  /\ \A s \in Records : /\ x.rec[s].print = w.rec[s].print
                                        /\ x.rec[s].conn \in {w.rec[s].conn, NoProc}
<1> DEFINE x == Stopped(w, r, then, e)
           y == [w.rec[r] EXCEPT !.conn = NoProc, !.catalog = FALSE, !.state = "stopped"]
           z == [y EXCEPT !.attempts = 0]
<1>0. w \in ServerWorlds /\ n \in 0..MaxRecords /\ r \in Records
  BY McpAssumption DEF SoundWorld, Records
<1>1. w.rec[r] \in ServerRecords
  BY <1>0 DEF ServerWorlds
<1>a. NoProc \in 0..MaxProcs
  BY McpAssumption DEF NoProc
<1>2. y \in ServerRecords
  BY <1>1, <1>a, Zenon DEF ServerRecords
<1>3. z \in ServerRecords
  BY <1>2, Zenon DEF ServerRecords
<1>b. \A v \in {y, z} :
        /\ v.conn = NoProc
        /\ v.print = w.rec[r].print /\ v.at = w.rec[r].at /\ v.opening = w.rec[r].opening
        /\ v.intentional = w.rec[r].intentional /\ v.stopReq = w.rec[r].stopReq
        /\ v.timer = w.rec[r].timer /\ v.stops = w.rec[r].stops
  BY <1>1 DEF ServerRecords
<1>4. \A v \in {y, z} : LET f == With(w, r, v) IN
        /\ SoundWorld(f, n, c, calls) /\ f.proc = w.proc
        /\ \A s \in Records : f.rec[s].stopReq = w.rec[s].stopReq
        /\ f.rec[r].conn = NoProc /\ f.rec[r].intentional = w.rec[r].intentional
        /\ \A s \in Records : /\ f.rec[s].print = w.rec[s].print
                              /\ f.rec[s].conn \in {w.rec[s].conn, NoProc}
  <2> SUFFICES ASSUME NEW v \in {y, z}
               PROVE  LET f == With(w, r, v) IN
                      /\ SoundWorld(f, n, c, calls) /\ f.proc = w.proc
                      /\ \A s \in Records : f.rec[s].stopReq = w.rec[s].stopReq
                      /\ f.rec[r].conn = NoProc /\ f.rec[r].intentional = w.rec[r].intentional
                      /\ \A s \in Records : /\ f.rec[s].print = w.rec[s].print
                                            /\ f.rec[s].conn \in {w.rec[s].conn, NoProc}
    OBVIOUS
  <2> DEFINE f == With(w, r, v)
  <2>1. /\ v \in ServerRecords /\ v.conn = NoProc
        /\ v.print = w.rec[r].print /\ v.at = w.rec[r].at /\ v.opening = w.rec[r].opening
        /\ v.intentional = w.rec[r].intentional /\ v.stopReq = w.rec[r].stopReq
        /\ v.timer = w.rec[r].timer /\ v.stops = w.rec[r].stops
    BY <1>2, <1>3, <1>b
  <2> HIDE DEF y, z
  <2>2. /\ f \in ServerWorlds /\ f.proc = w.proc /\ f.rec[r] = v
        /\ \A s \in Records : s # r => f.rec[s] = w.rec[s]
    BY <1>0, <2>1, WithIs
  <2> HIDE DEF f
  <2>3. Fades(w, f)
    BY <2>1, <2>2, <1>0 DEF Fades, Served
  <2>4. NotMade(f, n)
    BY <2>1, <2>2 DEF SoundWorld, NotMade
  <2> QED
    BY <2>1, <2>2, <2>3, <2>4, FadesSound DEF f
<1>5. x = IF then = "restart" THEN Started(With(w, r, z), r, e) ELSE With(w, r, y)
  <2> DEFINE off == [w EXCEPT !.rec[r] = [@ EXCEPT !.conn = NoProc, !.catalog = FALSE,
                                                   !.state = "stopped"]]
             again == [off EXCEPT !.rec[r].attempts = 0]
  <2>1. off = With(w, r, y)
    BY Zenon DEF With
  <2>2. x = IF then = "restart" THEN Started(again, r, e) ELSE off
    BY Zenon DEF Stopped
  <2> HIDE DEF y, off, x
  <2>3. again = With(w, r, z)
    <3>1. w.rec \in [Records -> ServerRecords]
      BY <1>0 DEF ServerWorlds
    <3> QED
      BY <1>0, <1>2, <2>1, <3>1 DEF With, ServerWorlds
  <2> HIDE DEF again
  <2> QED
    BY <2>1, <2>2, <2>3
<1> HIDE DEF x, y, z
<1>6. CASE then = "restart"
  <2>1. SoundWorld(With(w, r, z), n, c, calls) /\ With(w, r, z).proc = w.proc
    BY <1>4
  <2>2. \E k \in Procs : With(w, r, z).proc[k] = "free"
    BY <1>6, <2>1
  <2>3. LET f == With(w, r, z)
            g == Started(f, r, c)
        IN  /\ SoundWorld(g, n, c, calls)
            /\ \A s \in Records : g.rec[s].stopReq => f.rec[s].stopReq
            /\ \A k \in Procs : g.proc[k] = "closing" => f.proc[k] = "closing"
    BY <2>1, <2>2, StartedSound
  <2> QED
    BY <1>4, <1>5, <1>6, <2>1, <2>3 DEF x
<1>7. CASE then # "restart"
  BY <1>4, <1>5, <1>7 DEF x
<1> QED
  BY <1>6, <1>7

\* #stop up to its close: the record serves nobody, whatever its calls do.
LEMMA StopSound ==
  ASSUME NEW w, NEW n, NEW c, NEW calls, SoundWorld(w, n, c, calls), NEW r \in 1..n,
         NEW then \in {"nothing", "restart"}, NEW e, then = "restart" => e = c,
         then = "restart" => \E k \in Procs : w.proc[k] = "free"
  PROVE  LET x == Stop(w, r, then, e)
         IN  /\ SoundWorld(x, n, c, calls)
             /\ \A s \in Records : x.rec[s].stopReq => w.rec[s].stopReq /\ s # r
             /\ \A k \in Procs : x.proc[k] = "closing" =>
                                   w.proc[k] = "closing" \/ k = w.rec[r].conn
             /\ then # "restart" =>
                  /\ \A k \in Procs : x.proc[k] = "free" <=> w.proc[k] = "free"
                  /\ ~Served(x, r) /\ x.rec[r].intentional
                  /\ \A s \in Records : /\ x.rec[s].print = w.rec[s].print
                                        /\ x.rec[s].conn \in {w.rec[s].conn, NoProc}
<1> DEFINE x == Stop(w, r, then, e)
           k == w.rec[r].conn
           y == [w.rec[r] EXCEPT !.timer = FALSE, !.stopReq = FALSE, !.intentional = TRUE]
           f == With(w, r, y)
           z == [y EXCEPT !.stops = @ \cup {<<k, then>>}]
           g == [rec |-> With(w, r, z).rec, proc |-> [w.proc EXCEPT ![k] = "closing"]]
<1>0. w \in ServerWorlds /\ n \in 0..MaxRecords /\ r \in Records
  BY McpAssumption DEF SoundWorld, Records
<1>1. w.rec[r] \in ServerRecords /\ w.proc \in [Procs -> Stages]
      /\ w.rec \in [Records -> ServerRecords]
  BY <1>0 DEF ServerWorlds
<1>2. y \in ServerRecords
  BY <1>1, Zenon DEF ServerRecords
<1>3. /\ y.conn = k /\ y.print = w.rec[r].print /\ y.at = w.rec[r].at
      /\ y.opening = w.rec[r].opening /\ y.intentional /\ ~y.stopReq /\ ~y.timer
      /\ y.stops = w.rec[r].stops
  BY <1>1 DEF ServerRecords
<1>4. k \in 0..MaxProcs /\ y.stops \in SUBSET (Procs \X {"nothing", "restart"})
  BY <1>1, <1>3 DEF ServerRecords
<1>5. x = IF k # NoProc /\ w.proc[k] \in {"hello", "up"} THEN g ELSE Stopped(f, r, then, e)
  <2> DEFINE xs == [w EXCEPT !.rec[r] = [@ EXCEPT !.timer = FALSE, !.stopReq = FALSE,
                                                 !.intentional = TRUE]]
             gs == [xs EXCEPT !.proc[k] = "closing", !.rec[r].stops = @ \cup {<<k, then>>}]
  <2>1. xs = f
    BY Zenon DEF With
  <2>2. x = IF k # NoProc /\ w.proc[k] \in {"hello", "up"} THEN gs ELSE Stopped(xs, r, then, e)
    BY Zenon DEF Stop
  <2> HIDE DEF xs, x, y, k
  <2>3. gs = g
    <3>1. f \in ServerWorlds /\ f.rec[r] = y /\ f.proc = w.proc
      BY <1>0, <1>2, WithIs
    <3>2. f.rec = [w.rec EXCEPT ![r] = y]
      BY <1>0 DEF With, ServerWorlds
    <3>3. With(w, r, z).rec = [w.rec EXCEPT ![r] = z]
      BY <1>0 DEF With, ServerWorlds
    <3> HIDE DEF f
    <3>4. gs = [rec |-> [f.rec EXCEPT ![r] = [f.rec[r] EXCEPT !.stops = @ \cup {<<k, then>>}]],
                proc |-> [f.proc EXCEPT ![k] = "closing"]]
      <4> DEFINE P == [f.proc EXCEPT ![k] = "closing"]
                 h == [f EXCEPT !.proc[k] = "closing"]
      <4>1. h = [rec |-> f.rec, proc |-> P]
        BY <3>1 DEF ServerWorlds
      <4>2. gs = [h EXCEPT !.rec[r].stops = @ \cup {<<k, then>>}]
        BY <2>1, Zenon
      <4> HIDE DEF h, P, gs
      <4>3. gs = [rec |-> [f.rec EXCEPT ![r] = [f.rec[r] EXCEPT !.stops = @ \cup {<<k, then>>}]],
                  proc |-> P]
        BY <4>1, <4>2
      <4> QED
        BY <4>3 DEF P
    <3>5. [f.rec[r] EXCEPT !.stops = @ \cup {<<k, then>>}] = z
      BY <3>1
    <3> HIDE DEF z
    <3>6. [f.rec EXCEPT ![r] = z] = [w.rec EXCEPT ![r] = z]
      BY <1>0, <1>1, <3>2
    <3> QED
      BY <3>1, <3>3, <3>4, <3>5, <3>6
  <2> HIDE DEF gs, g, f
  <2> QED
    BY <2>1, <2>2, <2>3
<1> HIDE DEF x, y, k
<1>6. /\ f \in ServerWorlds /\ f.proc = w.proc /\ f.rec[r] = y
      /\ \A s \in Records : s # r => f.rec[s] = w.rec[s]
  BY <1>0, <1>2, WithIs
<1>7. CASE k # NoProc /\ w.proc[k] \in {"hello", "up"}
  <2>0. k \in Procs
    BY <1>4, <1>7, McpAssumption DEF Procs, NoProc
  <2>1. z \in ServerRecords
    <3>1. y.stops \cup {<<k, then>>} \in SUBSET (Procs \X {"nothing", "restart"})
      BY <2>0, <1>4
    <3> QED
      BY <3>1, <1>2, Zenon DEF ServerRecords
  <2>2. /\ z.conn = k /\ z.print = w.rec[r].print /\ z.at = w.rec[r].at
        /\ z.opening = w.rec[r].opening /\ z.intentional /\ ~z.stopReq /\ ~z.timer
    BY <1>2, <1>3 DEF ServerRecords
  <2> HIDE DEF z
  <2>3. /\ g \in ServerWorlds /\ g.rec[r] = z
        /\ \A s \in Records : s # r => g.rec[s] = w.rec[s]
        /\ \A j \in Procs : g.proc[j] = IF j = k THEN "closing" ELSE w.proc[j]
    <3>1. /\ With(w, r, z) \in ServerWorlds /\ With(w, r, z).rec[r] = z
          /\ \A s \in Records : s # r => With(w, r, z).rec[s] = w.rec[s]
      BY <1>0, <2>1, WithIs
    <3>2. g.rec = With(w, r, z).rec /\ g.rec \in [Records -> ServerRecords]
      BY <3>1 DEF ServerWorlds
    <3>3. g.proc \in [Procs -> Stages]
          /\ \A j \in Procs : g.proc[j] = IF j = k THEN "closing" ELSE w.proc[j]
      BY <1>1, <2>0 DEF Stages
    <3> QED
      BY <3>1, <3>2, <3>3 DEF ServerWorlds
  <2> HIDE DEF g
  <2>4. w.rec[r].conn = k
    BY DEF k
  <2>5. \A s \in Records : s > n => s # r
    BY <1>0, McpAssumption DEF Records
  <2>6. Fades(w, g)
    BY <1>0, <1>7, <2>0, <2>2, <2>3, <2>4 DEF Fades, Served
  <2>7. NotMade(g, n)
    BY <1>0, <2>2, <2>3, <2>5 DEF SoundWorld, NotMade
  <2>8. SoundWorld(g, n, c, calls)
    BY <2>6, <2>7, FadesSound
  <2>9. /\ \A s \in Records : g.rec[s].stopReq => w.rec[s].stopReq /\ s # r
        /\ \A j \in Procs : g.proc[j] = "closing" => w.proc[j] = "closing" \/ j = w.rec[r].conn
        /\ \A j \in Procs : g.proc[j] = "free" <=> w.proc[j] = "free"
        /\ ~Served(g, r) /\ g.rec[r].intentional
        /\ \A s \in Records : /\ g.rec[s].print = w.rec[s].print
                              /\ g.rec[s].conn \in {w.rec[s].conn, NoProc}
    BY <1>0, <1>7, <2>0, <2>2, <2>3, <2>4 DEF Served
  <2> QED
    BY <1>5, <1>7, <2>8, <2>9 DEF x
<1>8. CASE ~(k # NoProc /\ w.proc[k] \in {"hello", "up"})
  <2> HIDE DEF f
  <2>1. w.rec[r].conn = k
    BY DEF k
  <2>2. Fades(w, f)
    BY <1>0, <1>3, <1>6, <1>8, <2>1 DEF Fades, Served
  <2>3. NotMade(f, n)
    <3>1. \A s \in Records : s > n => s # r
      BY <1>0, McpAssumption DEF Records
    <3> QED
      BY <3>1, <1>6 DEF SoundWorld, NotMade
  <2>4. SoundWorld(f, n, c, calls)
    BY <2>2, <2>3, FadesSound
  <2>5. /\ \A s \in Records : f.rec[s].stopReq => w.rec[s].stopReq /\ s # r
        /\ f.rec[r].intentional
        /\ \A s \in Records : f.rec[s].print = w.rec[s].print /\ f.rec[s].conn = w.rec[s].conn
    BY <1>3, <1>6, <2>1
  <2>6. then = "restart" => \E j \in Procs : f.proc[j] = "free"
    BY <1>6
  <2>7. LET h == Stopped(f, r, then, e)
        IN  /\ SoundWorld(h, n, c, calls)
            /\ \A s \in Records : h.rec[s].stopReq => f.rec[s].stopReq
            /\ \A j \in Procs : h.proc[j] = "closing" => f.proc[j] = "closing"
            /\ then # "restart" =>
                 /\ h.proc = f.proc /\ h.rec[r].conn = NoProc
                 /\ h.rec[r].intentional = f.rec[r].intentional
                 /\ \A s \in Records : /\ h.rec[s].print = f.rec[s].print
                                       /\ h.rec[s].conn \in {f.rec[s].conn, NoProc}
    BY <2>4, <2>6, StoppedSound
  <2>8. x = Stopped(f, r, then, e)
    BY <1>5, <1>8
  <2> QED
    BY <1>0, <1>6, <2>5, <2>7, <2>8 DEF x, Served
<1> QED
  BY <1>7, <1>8

\* #requestStop: the record goes on only for the calls in flight.
LEMMA RequestStopSound ==
  ASSUME NEW w, NEW n, NEW c, SoundWorld(w, n, c, toolCall), Drains(w, toolCall), NEW r \in 1..n,
         NEW then \in {"nothing", "restart"}, NEW e, then = "restart" => e = c,
         then = "restart" => \E k \in Procs : w.proc[k] = "free"
  PROVE  LET x == RequestStop(w, r, then, e)
         IN  /\ SoundWorld(x, n, c, toolCall) /\ Drains(x, toolCall)
             /\ \A k \in Procs : x.proc[k] = "closing" =>
                  w.proc[k] = "closing" \/ (k = w.rec[r].conn /\ Active(r) = {})
             /\ then # "restart" =>
                  /\ \A k \in Procs : x.proc[k] = "free" <=> w.proc[k] = "free"
                  /\ Served(x, r) => x.rec[r].stopReq
                  /\ x.rec[r].intentional \/ x.rec[r].stopReq
                  /\ \A s \in Records : /\ x.rec[s].print = w.rec[s].print
                                        /\ x.rec[s].conn \in {w.rec[s].conn, NoProc}
<1> DEFINE x == RequestStop(w, r, then, e)
           y == [w.rec[r] EXCEPT !.timer = FALSE, !.stopReq = TRUE, !.state = "draining"]
           f == With(w, r, y)
<1>0. w \in ServerWorlds /\ n \in 0..MaxRecords /\ r \in Records
  BY McpAssumption DEF SoundWorld, Records
<1>1. CASE Active(r) = {}
  <2>1. x = Stop(w, r, then, e)
    BY <1>1 DEF RequestStop
  <2> HIDE DEF x
  <2>2. /\ SoundWorld(x, n, c, toolCall)
        /\ \A s \in Records : x.rec[s].stopReq => w.rec[s].stopReq /\ s # r
        /\ \A k \in Procs : x.proc[k] = "closing" => w.proc[k] = "closing" \/ k = w.rec[r].conn
        /\ then # "restart" =>
             /\ \A k \in Procs : x.proc[k] = "free" <=> w.proc[k] = "free"
             /\ ~Served(x, r) /\ x.rec[r].intentional
             /\ \A s \in Records : /\ x.rec[s].print = w.rec[s].print
                                   /\ x.rec[s].conn \in {w.rec[s].conn, NoProc}
    BY <2>1, StopSound
  <2>3. Drains(x, toolCall)
    BY <2>2 DEF Drains
  <2> QED
    BY <1>1, <2>2, <2>3 DEF x
<1>2. CASE Active(r) # {}
  <2>1. w.rec[r] \in ServerRecords
    BY <1>0 DEF ServerWorlds
  <2>2. y \in ServerRecords
    BY <2>1, Zenon DEF ServerRecords
  <2>3. /\ y.conn = w.rec[r].conn /\ y.print = w.rec[r].print /\ y.at = w.rec[r].at
        /\ y.opening = w.rec[r].opening /\ y.intentional = w.rec[r].intentional
        /\ y.stopReq /\ ~y.timer /\ y.stops = w.rec[r].stops
    BY <2>1 DEF ServerRecords
  <2>4. x = f
    BY <1>2, Zenon DEF RequestStop, With
  <2> HIDE DEF y, x
  <2>5. /\ f \in ServerWorlds /\ f.proc = w.proc /\ f.rec[r] = y
        /\ \A s \in Records : s # r => f.rec[s] = w.rec[s]
    BY <1>0, <2>2, WithIs
  <2> HIDE DEF f
  <2>6. Fades(w, f)
    BY <1>0, <2>3, <2>5 DEF Fades, Served
  <2>7. NotMade(f, n)
    BY <2>3, <2>5 DEF SoundWorld, NotMade
  <2>8. SoundWorld(f, n, c, toolCall)
    BY <2>6, <2>7, FadesSound
  <2>9. Drains(f, toolCall)
    BY <1>2, <2>5 DEF Drains, Active
  <2>10. /\ f.rec[r].stopReq /\ f.proc = w.proc
         /\ \A s \in Records : f.rec[s].print = w.rec[s].print /\ f.rec[s].conn = w.rec[s].conn
    BY <2>3, <2>5
  <2>11. /\ SoundWorld(x, n, c, toolCall) /\ Drains(x, toolCall)
         /\ x.rec[r].stopReq /\ x.proc = w.proc
         /\ \A s \in Records : x.rec[s].print = w.rec[s].print /\ x.rec[s].conn = w.rec[s].conn
    BY <2>4, <2>8, <2>9, <2>10
  <2>12. /\ \A k \in Procs : x.proc[k] = "closing" => w.proc[k] = "closing"
         /\ \A k \in Procs : x.proc[k] = "free" <=> w.proc[k] = "free"
         /\ Served(x, r) => x.rec[r].stopReq
         /\ x.rec[r].intentional \/ x.rec[r].stopReq
         /\ \A s \in Records : /\ x.rec[s].print = w.rec[s].print
                               /\ x.rec[s].conn \in {w.rec[s].conn, NoProc}
    BY <2>11
  <2> QED
    BY <2>11, <2>12 DEF x
<1> QED
  BY <1>1, <1>2

\* #ensureRecord: a new record, of the configuration that is in force.
LEMMA MadeSound ==
  ASSUME NEW w, NEW n, NEW d, NEW c \in ServerConfigs, NEW calls, SoundWorld(w, n, d, calls),
         n < MaxRecords, c.on, n # 0 => w.rec[n].intentional \/ w.rec[n].stopReq
  PROVE  LET x == With(w, n + 1, NewRecord(c.print))
         IN  /\ SoundWorld(x, n + 1, c, calls) /\ x.proc = w.proc
             /\ \A s \in Records : x.rec[s].stopReq => w.rec[s].stopReq
             /\ \A s \in 1..n : x.rec[s] = w.rec[s]
<1> DEFINE y == NewRecord(c.print)
           x == With(w, n + 1, y)
<1>0. w \in ServerWorlds /\ n \in 0..MaxRecords /\ n + 1 \in Records /\ n + 1 \in 0..MaxRecords
  BY McpAssumption DEF SoundWorld, Records
<1>1. y \in ServerRecords
  BY McpAssumption DEF NewRecord, ServerRecords, NoProc, ServerConfigs
<1>2. /\ y.conn = NoProc /\ ~y.timer /\ y.stops = {} /\ y.at = "idle" /\ ~y.stopReq
      /\ y.print = c.print
  BY DEF NewRecord
<1> HIDE DEF y
<1>3. /\ x \in ServerWorlds /\ x.proc = w.proc /\ x.rec[n + 1] = y
      /\ \A s \in Records : s # n + 1 => x.rec[s] = w.rec[s]
  BY <1>0, <1>1, WithIs
<1> HIDE DEF x
<1>5. /\ \A s \in 1..n : s \in Records /\ s # n + 1 /\ s \in 1..(n + 1)
      /\ \A s \in 1..(n + 1) : s # n + 1 => s \in 1..n
      /\ \A s \in Records : s > n + 1 => s > n /\ s # n + 1
  BY <1>0, McpAssumption DEF Records
<1>6. OneOwner(x)
  BY <1>0, <1>2, <1>3 DEF SoundWorld, OneOwner
<1>7. NotMade(x, n + 1)
  BY <1>2, <1>3, <1>5 DEF SoundWorld, NotMade
<1>8. Wanted(x)
  BY <1>2, <1>3 DEF SoundWorld, Wanted, Served
<1>9. InForce(x, n + 1, c)
  BY <1>0, <1>2, <1>3 DEF InForce
<1>10. Retired(x, n + 1)
  <2> SUFFICES ASSUME ~ComesBack(x, n + 1), NEW s \in 1..(n + 1), s < n + 1
               PROVE  x.rec[s].intentional \/ x.rec[s].stopReq
    BY DEF Retired
  <2>1. s \in 1..n /\ x.rec[s] = w.rec[s]
    BY <1>3, <1>5
  <2>2. ~ComesBack(w, n)
    BY <1>3, <1>5 DEF ComesBack
  <2>3. CASE s = n
    BY <2>1, <2>3, <1>0
  <2>4. CASE s # n
    BY <2>1, <2>2, <2>4, <1>0 DEF SoundWorld, Retired
  <2> QED
    BY <2>3, <2>4
<1>11. OwnCalls(x, n + 1, calls)
  <2>1. \A s \in Records : x.rec[s].conn \in {w.rec[s].conn, NoProc}
    BY <1>2, <1>3
  <2>2. NoProc \notin Procs
    BY DEF NoProc, Procs
  <2> QED
    BY <1>3, <1>5, <2>1, <2>2 DEF SoundWorld, OwnCalls
<1>12. \A s \in Records : x.rec[s].stopReq => w.rec[s].stopReq
  BY <1>2, <1>3
<1> QED
  BY <1>0, <1>3, <1>5, <1>6, <1>7, <1>8, <1>9, <1>10, <1>11, <1>12 DEF SoundWorld, x, y

\* No step but one after the shutdown closes a connection under a call.
CallIsSpared(c) ==
  toolCall[c].at = "calling" /\ toolCall'[c].at = "calling" /\ proc[toolCall[c].proc] = "up"
    => proc'[toolCall[c].proc] # "closing" \/ disposed'
Spares == \A c \in Calls : CallIsSpared(c)

LEMMA BecomesIs ==
  ASSUME NEW w, w \in ServerWorlds, Becomes(w)
  PROVE  World' = w /\ proc' = w.proc
BY DEF Becomes, World, ServerWorlds

LEMMA WorldIs == World.rec = rec /\ World.proc = proc
BY DEF World

\* A step spares the calls if it closes nothing but the connection of a record without calls.
LEMMA Sparing ==
  ASSUME McpInv, NEW r \in Records,
         \A k \in Procs : proc'[k] = "closing" => proc[k] = "closing" \/ k = rec[r].conn,
         \A c \in Calls : ~(toolCall[c].at = "calling" /\ toolCall[c].rec = r
                              /\ toolCall'[c].at = "calling")
  PROVE  Spares
<1> SUFFICES ASSUME NEW c \in Calls, toolCall[c].at = "calling", toolCall'[c].at = "calling",
                    proc[toolCall[c].proc] = "up", proc'[toolCall[c].proc] = "closing"
             PROVE  FALSE
  BY DEF Spares, CallIsSpared
<1>1. /\ toolCall[c].proc \in Procs
      /\ \A s \in Records : rec[s].conn = toolCall[c].proc => s = toolCall[c].rec
  BY WorldIs DEF McpInv, SoundWorld, OwnCalls
<1>2. toolCall[c].proc = rec[r].conn
  BY <1>1
<1> QED
  BY <1>1, <1>2

LEMMA ClosingNothing ==
  ASSUME McpInv, \A k \in Procs : proc'[k] = "closing" => proc[k] # "up"
  PROVE  Spares
BY DEF McpInv, SoundWorld, OwnCalls, Spares, CallIsSpared

LEMMA ApplyKept ==
  ASSUME McpInv, NEW c \in ServerConfigs, ApplyConfigs(c)
  PROVE  McpInv' /\ Spares
<1> DEFINE changed == current # 0 /\ (~c.on \/ rec[current].print # c.print)
           w == IF changed THEN RequestStop(World, current, "nothing", c) ELSE World
           fits == current # 0 /\ rec[current].print = c.print
<1>0. /\ SoundWorld(World, current, configs, toolCall) /\ Drains(World, toolCall)
      /\ current \in 0..MaxRecords /\ World \in ServerWorlds
  BY DEF McpInv, SoundWorld
<1>1. current # 0 => current \in 1..current /\ current \in Records
  BY <1>0, McpAssumption DEF Records
<1>2. configs' = c /\ UNCHANGED <<toolCall, disposed>>
  BY DEF ApplyConfigs
<1>3. /\ SoundWorld(w, current, configs, toolCall) /\ Drains(w, toolCall)
      /\ \A k \in Procs : w.proc[k] = "closing" =>
           proc[k] = "closing" \/ (current # 0 /\ k = rec[current].conn /\ Active(current) = {})
      /\ \A k \in Procs : w.proc[k] = "free" <=> proc[k] = "free"
      /\ changed => /\ Served(w, current) => w.rec[current].stopReq
                    /\ w.rec[current].intentional \/ w.rec[current].stopReq
      /\ \A s \in Records : /\ w.rec[s].print = rec[s].print
                            /\ w.rec[s].conn \in {rec[s].conn, NoProc}
  <2>1. CASE ~changed
    <3>1. w = World
      BY <2>1
    <3> HIDE DEF w
    <3> QED
      BY <1>0, <2>1, <3>1, WorldIs
  <2>2. CASE changed
    <3> DEFINE x == RequestStop(World, current, "nothing", c)
    <3>1. /\ SoundWorld(x, current, configs, toolCall) /\ Drains(x, toolCall)
          /\ \A k \in Procs : x.proc[k] = "closing" =>
               World.proc[k] = "closing" \/ (k = World.rec[current].conn /\ Active(current) = {})
          /\ \A k \in Procs : x.proc[k] = "free" <=> World.proc[k] = "free"
          /\ Served(x, current) => x.rec[current].stopReq
          /\ x.rec[current].intentional \/ x.rec[current].stopReq
          /\ \A s \in Records : /\ x.rec[s].print = World.rec[s].print
                                /\ x.rec[s].conn \in {World.rec[s].conn, NoProc}
      BY <1>0, <1>1, <2>2, RequestStopSound
    <3> HIDE DEF x
    <3>2. w = x
      BY <2>2 DEF x
    <3>3. World.rec = rec /\ World.proc = proc
      BY WorldIs
    <3>4. /\ SoundWorld(w, current, configs, toolCall) /\ Drains(w, toolCall)
          /\ Served(w, current) => w.rec[current].stopReq
          /\ w.rec[current].intentional \/ w.rec[current].stopReq
      BY <3>1, <3>2
    <3> HIDE DEF w
    <3> QED
      BY <2>2, <3>1, <3>2, <3>3, <3>4
  <2> QED
    BY <2>1, <2>2
<1>4. ASSUME NEW v, SoundWorld(v, current', c, toolCall), Drains(v, toolCall), Becomes(v)
      PROVE  McpInv'
  <2>1. World' = v
    BY <1>4, BecomesIs DEF SoundWorld
  <2> QED
    BY <1>2, <1>4, <2>1 DEF McpInv
<1>5. ASSUME \A k \in Procs : proc'[k] = "closing" =>
               proc[k] = "closing" \/ (current # 0 /\ k = rec[current].conn /\ Active(current) = {})
      PROVE  Spares
  <2>1. CASE current # 0 /\ Active(current) = {}
    BY <1>1, <1>5, <2>1, Sparing DEF Active
  <2>2. CASE ~(current # 0 /\ Active(current) = {})
    BY <1>5, <2>2, ClosingNothing
  <2> QED
    BY <2>1, <2>2
<1>6. \/ ~c.on /\ Becomes(w) /\ UNCHANGED current
      \/ c.on /\ fits /\ Room /\ Becomes(Started(w, current, c)) /\ UNCHANGED current
      \/ /\ c.on /\ ~fits /\ current < MaxRecords /\ Room /\ current' = current + 1
         /\ LET made == With(w, current + 1, NewRecord(c.print))
                spared == IF current = 0 THEN made
                        ELSE RequestStop(made, current, "nothing", c)
            IN  Becomes(Started(spared, current + 1, c))
  BY Zenon DEF ApplyConfigs, With
<1> HIDE DEF w
<1>7. CASE ~c.on /\ Becomes(w) /\ UNCHANGED current
  <2>1. current # 0 => changed
    BY <1>7
  <2>2. InForce(w, current, c)
    BY <1>3, <1>7, <2>1 DEF InForce
  <2>3. SoundWorld(w, current, c, toolCall)
    BY <1>3, <2>2 DEF SoundWorld
  <2>4. McpInv'
    BY <1>3, <1>4, <1>7, <2>3
  <2>5. proc' = w.proc
    BY <1>7 DEF Becomes
  <2> QED
    BY <1>3, <1>5, <2>4, <2>5
<1>8. CASE c.on /\ fits /\ Room /\ Becomes(Started(w, current, c)) /\ UNCHANGED current
  <2> DEFINE v == Started(w, current, c)
  <2>1. InForce(w, current, c)
    BY <1>1, <1>3, <1>8 DEF InForce
  <2>2. SoundWorld(w, current, c, toolCall)
    BY <1>3, <2>1 DEF SoundWorld
  <2>3. \E k \in Procs : w.proc[k] = "free"
    BY <1>3, <1>8 DEF Room
  <2>4. /\ SoundWorld(v, current, c, toolCall)
        /\ \A s \in Records : v.rec[s].stopReq => w.rec[s].stopReq
        /\ \A k \in Procs : v.proc[k] = "closing" => w.proc[k] = "closing"
    BY <1>1, <1>8, <2>2, <2>3, StartedSound
  <2> HIDE DEF v
  <2>5. Becomes(v)
    BY <1>8 DEF v
  <2>6. Drains(v, toolCall)
    BY <1>3, <2>4 DEF Drains
  <2>7. McpInv'
    BY <1>4, <1>8, <2>4, <2>5, <2>6
  <2>8. proc' = v.proc
    BY <2>5 DEF Becomes
  <2> QED
    BY <1>3, <1>5, <2>4, <2>7, <2>8
<1>9. CASE /\ c.on /\ ~fits /\ current < MaxRecords /\ Room /\ current' = current + 1
           /\ LET made == With(w, current + 1, NewRecord(c.print))
                  spared == IF current = 0 THEN made
                          ELSE RequestStop(made, current, "nothing", c)
              IN  Becomes(Started(spared, current + 1, c))
  <2> DEFINE n == current + 1
             made == With(w, n, NewRecord(c.print))
             spared == IF current = 0 THEN made ELSE RequestStop(made, current, "nothing", c)
             v == Started(spared, n, c)
  <2>0. n \in 1..n /\ (current # 0 => current \in 1..n /\ current \in 1..current) /\ n \in Records
    BY <1>0, <1>9, McpAssumption DEF Records
  <2>1. Becomes(v)
    BY <1>9
  <2>2. current # 0 => w.rec[current].intentional \/ w.rec[current].stopReq
    BY <1>3, <1>9
  <2>3. /\ SoundWorld(made, n, c, toolCall) /\ made.proc = w.proc
        /\ \A s \in Records : made.rec[s].stopReq => w.rec[s].stopReq
        /\ \A s \in 1..current : made.rec[s] = w.rec[s]
    <3>1. SoundWorld(w, current, configs, toolCall) /\ current < MaxRecords /\ c.on
      BY <1>3, <1>9
    <3>2. current # 0 => w.rec[current].intentional \/ w.rec[current].stopReq
      BY <2>2
    <3> QED
      BY ONLY <3>1, <3>2, MadeSound, c \in ServerConfigs
  <2> HIDE DEF n, made
  <2>4. Drains(made, toolCall)
    BY <1>3, <2>3 DEF Drains
  <2>5. /\ SoundWorld(spared, n, c, toolCall) /\ Drains(spared, toolCall)
        /\ \A k \in Procs : spared.proc[k] = "closing" =>
             made.proc[k] = "closing"
               \/ (current # 0 /\ k = made.rec[current].conn /\ Active(current) = {})
        /\ \A k \in Procs : spared.proc[k] = "free" <=> made.proc[k] = "free"
    <3>1. CASE current = 0
      BY <2>3, <2>4, <3>1
    <3>2. CASE current # 0
      <4>1. LET x == RequestStop(made, current, "nothing", c)
            IN  /\ SoundWorld(x, n, c, toolCall) /\ Drains(x, toolCall)
                /\ \A k \in Procs : x.proc[k] = "closing" =>
                     made.proc[k] = "closing" \/ (k = made.rec[current].conn /\ Active(current) = {})
                /\ \A k \in Procs : x.proc[k] = "free" <=> made.proc[k] = "free"
        BY <2>0, <2>3, <2>4, <3>2, RequestStopSound
      <4> QED
        BY <3>2, <4>1
    <3> QED
      BY <3>1, <3>2
  <2> HIDE DEF spared
  <2>6. \E k \in Procs : spared.proc[k] = "free"
    BY <1>3, <1>9, <2>3, <2>5 DEF Room
  <2>7. /\ SoundWorld(v, n, c, toolCall)
        /\ \A s \in Records : v.rec[s].stopReq => spared.rec[s].stopReq
        /\ \A k \in Procs : v.proc[k] = "closing" => spared.proc[k] = "closing"
    BY <2>0, <2>5, <2>6, StartedSound
  <2> HIDE DEF v
  <2>8. Drains(v, toolCall)
    BY <2>5, <2>7 DEF Drains
  <2>9. McpInv'
    BY <1>4, <1>9, <2>1, <2>7, <2>8 DEF n
  <2>10. proc' = v.proc
    BY <2>1 DEF Becomes
  <2>11. ASSUME current # 0, NEW k \in Procs, k = made.rec[current].conn, Active(current) = {},
                proc'[k] = "closing"
         PROVE  k = rec[current].conn
    <3>0. NoProc \notin Procs /\ current \in Records
      BY <1>1, <2>11 DEF NoProc, Procs
    <3>1. made.rec[current] = w.rec[current]
      BY <2>0, <2>3, <2>11
    <3> QED
      BY <1>3, <2>11, <3>0, <3>1
  <2> QED
    BY <1>3, <1>5, <2>3, <2>5, <2>7, <2>9, <2>10, <2>11
<1> QED
  BY <1>6, <1>7, <1>8, <1>9

LEMMA RestartKept == ASSUME McpInv, Restart PROVE McpInv' /\ Spares
<1> DEFINE x == RequestStop(World, current, "restart", configs)
<1>0. /\ SoundWorld(World, current, configs, toolCall) /\ Drains(World, toolCall)
      /\ current \in 1..current /\ current \in Records
  BY McpAssumption DEF McpInv, SoundWorld, Restart, Records
<1>1. \E k \in Procs : World.proc[k] = "free"
  BY WorldIs DEF Restart, Room
<1>2. /\ SoundWorld(x, current, configs, toolCall) /\ Drains(x, toolCall)
      /\ \A k \in Procs : x.proc[k] = "closing" =>
           World.proc[k] = "closing" \/ (k = World.rec[current].conn /\ Active(current) = {})
  BY <1>0, <1>1, RequestStopSound
<1>3. Becomes(x) /\ UNCHANGED <<configs, current, toolCall>>
  BY DEF Restart
<1> HIDE DEF x
<1>4. World' = x /\ proc' = x.proc
  BY <1>2, <1>3, BecomesIs DEF SoundWorld
<1>5. McpInv'
  BY <1>2, <1>3, <1>4 DEF McpInv
<1>6. Spares
  <2>1. CASE Active(current) = {}
    BY <1>0, <1>2, <1>4, <2>1, WorldIs, Sparing DEF Active
  <2>2. CASE Active(current) # {}
    BY <1>2, <1>4, <2>2, WorldIs, ClosingNothing
  <2> QED
    BY <2>1, <2>2
<1> QED
  BY <1>5, <1>6

\* A step that starts a record, or nothing, and leaves the calls alone or adds one.
LEMMA StartKept ==
  ASSUME McpInv, NEW w, NEW r \in 1..current, SoundWorld(w, current, configs, toolCall),
         \A s \in Records : w.rec[s].stopReq => rec[s].stopReq,
         w.proc = proc, Room, Becomes(Started(w, r, configs)), UNCHANGED <<configs, current, toolCall>>
  PROVE  McpInv' /\ Spares
<1> DEFINE x == Started(w, r, configs)
<1>1. \E k \in Procs : w.proc[k] = "free"
  BY DEF Room
<1>2. /\ SoundWorld(x, current, configs, toolCall)
      /\ \A s \in Records : x.rec[s].stopReq => w.rec[s].stopReq
      /\ \A k \in Procs : x.proc[k] = "closing" => w.proc[k] = "closing"
  BY <1>1, StartedSound
<1>3. Becomes(x)
  OBVIOUS
<1> HIDE DEF x
<1>4. World' = x /\ proc' = x.proc
  BY <1>2, <1>3, BecomesIs DEF SoundWorld
<1>5. Drains(x, toolCall)
  BY <1>2, WorldIs DEF McpInv, Drains
<1>6. McpInv'
  BY <1>2, <1>4, <1>5 DEF McpInv
<1> QED
  BY <1>2, <1>4, <1>6, ClosingNothing

\* Calls that change leave the rest as sound, if those on a connection are on that of their
\* own record.
LEMMA CallsChange ==
  ASSUME NEW w, NEW n, NEW c, NEW calls, NEW next, SoundWorld(w, n, c, calls),
         next \in [Calls -> ToolCalls], OwnCalls(w, n, next)
  PROVE  SoundWorld(w, n, c, next)
BY DEF SoundWorld

LEMMA SentIs ==
  ASSUME NEW w, NEW n, NEW c, NEW calls, SoundWorld(w, n, c, calls), NEW r \in 1..n,
         NEW b \in Calls, NEW at \in {"waiting", "calling", "done"},
         at = "calling" => w.rec[r].conn # NoProc
  PROVE  LET next == [calls EXCEPT ![b] = [at |-> at, rec |-> r, proc |-> w.rec[r].conn]]
         IN  next \in [Calls -> ToolCalls] /\ OwnCalls(w, n, next)
<1> DEFINE going == [at |-> at, rec |-> r, proc |-> w.rec[r].conn]
           next == [calls EXCEPT ![b] = going]
<1>0. /\ r \in Records /\ r \in 0..MaxRecords /\ calls \in [Calls -> ToolCalls]
      /\ w \in ServerWorlds
  BY McpAssumption DEF SoundWorld, Records
<1>1. w.rec[r].conn \in 0..MaxProcs /\ (w.rec[r].conn # NoProc => w.rec[r].conn \in Procs)
  BY <1>0, McpAssumption DEF ServerWorlds, ServerRecords, NoProc, Procs
<1>2. going \in ToolCalls /\ going.at = at /\ going.rec = r /\ going.proc = w.rec[r].conn
  BY <1>0, <1>1 DEF ToolCalls
<1> HIDE DEF going
<1>3. /\ next \in [Calls -> ToolCalls] /\ next[b] = going
      /\ \A d \in Calls : d # b => next[d] = calls[d]
  BY <1>0, <1>2
<1> HIDE DEF next
<1>4. OwnCalls(w, n, next)
  <2> SUFFICES ASSUME NEW d \in Calls
               PROVE  /\ next[d].at \in {"waiting", "calling"} => next[d].rec \in 1..n
                      /\ next[d].at = "calling" =>
                           /\ next[d].proc \in Procs /\ w.proc[next[d].proc] # "free"
                           /\ \A s \in Records : w.rec[s].conn = next[d].proc => s = next[d].rec
    BY DEF OwnCalls
  <2>1. CASE d # b
    BY <1>3, <2>1 DEF SoundWorld, OwnCalls
  <2>2. CASE d = b
    BY <1>0, <1>1, <1>2, <1>3, <2>2 DEF SoundWorld, OneOwner
  <2> QED
    BY <2>1, <2>2
<1> QED
  BY <1>3, <1>4 DEF next, going

LEMMA CallToolKept == ASSUME McpInv, NEW c \in Calls, CallTool(c) PROVE McpInv' /\ Spares
<1> DEFINE w == Started(World, current, configs)
           x == w.rec[current]
           at == IF x.at = "connecting" \/ x.at = "failing" THEN "waiting" ELSE Sent(x)
           next == [toolCall EXCEPT ![c] = [at |-> at, rec |-> current, proc |-> x.conn]]
<1>0. /\ SoundWorld(World, current, configs, toolCall) /\ Drains(World, toolCall)
      /\ current \in 1..current /\ current \in Records
  BY McpAssumption DEF McpInv, SoundWorld, CallTool, Records
<1>1. \E k \in Procs : World.proc[k] = "free"
  BY WorldIs DEF CallTool, Room
<1>2. /\ SoundWorld(w, current, configs, toolCall)
      /\ \A s \in Records : w.rec[s].stopReq => World.rec[s].stopReq
      /\ \A k \in Procs : w.proc[k] = "closing" => World.proc[k] = "closing"
  BY <1>0, <1>1, StartedSound
<1>3. Becomes(w) /\ toolCall' = next /\ UNCHANGED <<configs, current>> /\ toolCall[c].at = "idle"
  BY DEF CallTool
<1> HIDE DEF w
<1>4. World' = w /\ proc' = w.proc
  BY <1>2, <1>3, BecomesIs DEF SoundWorld
<1>5. at \in {"waiting", "calling", "done"} /\ (at = "calling" => w.rec[current].conn # NoProc)
  BY DEF Sent
<1> HIDE DEF at
<1>6. next \in [Calls -> ToolCalls] /\ OwnCalls(w, current, next)
  BY <1>0, <1>2, <1>5, SentIs
<1>7. SoundWorld(w, current, configs, next)
  BY <1>2, <1>6, CallsChange
<1>8. Drains(w, next)
  <2>1. \A d \in Calls : toolCall[d].at = "calling" => next[d] = toolCall[d]
    BY <1>0, <1>3 DEF SoundWorld
  <2> HIDE DEF next
  <2> QED
    BY <1>0, <1>2, <2>1 DEF Drains
<1> HIDE DEF next
<1>9. McpInv'
  BY <1>3, <1>4, <1>7, <1>8 DEF McpInv
<1> QED
  BY <1>2, <1>4, <1>9, WorldIs, ClosingNothing

LEMMA CallGoesKept == ASSUME McpInv, NEW c \in Calls, CallGoes(c) PROVE McpInv' /\ Spares
<1> DEFINE r == toolCall[c].rec
           x == World.rec[r]
           next == [toolCall EXCEPT ![c] = [at |-> Sent(x), rec |-> r, proc |-> x.conn]]
<1>0. /\ SoundWorld(World, current, configs, toolCall) /\ Drains(World, toolCall)
      /\ toolCall \in [Calls -> ToolCalls]
  BY DEF McpInv, SoundWorld
<1>1. r \in 1..current /\ toolCall[c].at = "waiting"
  BY <1>0 DEF CallGoes, SoundWorld, OwnCalls
<1>2. toolCall' = next
  BY WorldIs DEF CallGoes
<1>3. UNCHANGED <<configs, current, rec, proc>> /\ World' = World
  BY DEF CallGoes, World
<1>4. Sent(x) \in {"waiting", "calling", "done"} /\ (Sent(x) = "calling" => x.conn # NoProc)
  BY DEF Sent
<1>5. next \in [Calls -> ToolCalls] /\ OwnCalls(World, current, next)
  <2> DEFINE at == Sent(x)
  <2>1. at \in {"waiting", "calling", "done"} /\ (at = "calling" => World.rec[r].conn # NoProc)
    BY <1>4
  <2> HIDE DEF at
  <2>2. LET after == [toolCall EXCEPT ![c] = [at |-> at, rec |-> r, proc |-> World.rec[r].conn]]
        IN  after \in [Calls -> ToolCalls] /\ OwnCalls(World, current, after)
    BY <1>0, <1>1, <2>1, SentIs
  <2> QED
    BY <2>2 DEF at
<1>6. SoundWorld(World, current, configs, next)
  BY <1>0, <1>5, CallsChange
<1>7. Drains(World, next)
  <2>1. \A d \in Calls : toolCall[d].at = "calling" => next[d] = toolCall[d]
    BY <1>0, <1>1
  <2> HIDE DEF next
  <2> QED
    BY <1>0, <2>1 DEF Drains
<1> HIDE DEF next
<1>8. McpInv'
  BY <1>2, <1>3, <1>6, <1>7 DEF McpInv
<1>9. \A k \in Procs : proc'[k] = "closing" => proc[k] # "up"
  BY <1>3
<1> QED
  BY <1>8, <1>9, ClosingNothing

LEMMA CallEndsKept == ASSUME McpInv, NEW c \in Calls, CallEnds(c) PROVE McpInv' /\ Spares
<1> DEFINE r == toolCall[c].rec
           next == [toolCall EXCEPT ![c].at = "done"]
           x == Stop(World, r, "nothing", configs)
           w == IF rec[r].stopReq /\ Active(r) = {c} THEN x ELSE World
<1>0. /\ SoundWorld(World, current, configs, toolCall) /\ Drains(World, toolCall)
      /\ toolCall \in [Calls -> ToolCalls]
  BY DEF McpInv, SoundWorld
<1>1. r \in 1..current /\ r \in Records /\ toolCall[c].at = "calling"
  BY <1>0, McpAssumption DEF CallEnds, SoundWorld, OwnCalls, Records
<1>2. toolCall' = next /\ UNCHANGED <<configs, current>> /\ Becomes(w)
  BY DEF CallEnds
<1>3. /\ SoundWorld(x, current, configs, toolCall)
      /\ \A s \in Records : x.rec[s].stopReq => World.rec[s].stopReq /\ s # r
      /\ \A k \in Procs : x.proc[k] = "closing" => World.proc[k] = "closing" \/ k = World.rec[r].conn
  BY <1>0, <1>1, StopSound
<1> HIDE DEF x
<1>4. /\ SoundWorld(w, current, configs, toolCall)
      /\ \A s \in Records : w.rec[s].stopReq => rec[s].stopReq
      /\ rec[r].stopReq /\ Active(r) = {c} => ~w.rec[r].stopReq
      /\ \A k \in Procs : w.proc[k] = "closing" =>
           proc[k] = "closing" \/ (Active(r) = {c} /\ k = rec[r].conn)
  <2>1. CASE rec[r].stopReq /\ Active(r) = {c}
    BY <1>1, <1>3, <2>1, WorldIs
  <2>2. CASE ~(rec[r].stopReq /\ Active(r) = {c})
    BY <1>0, <2>2, WorldIs
  <2> QED
    BY <2>1, <2>2
<1> HIDE DEF w
<1>5. World' = w /\ proc' = w.proc
  BY <1>2, <1>4, BecomesIs DEF SoundWorld
<1>6. /\ next \in [Calls -> ToolCalls] /\ next[c].at = "done"
      /\ \A d \in Calls : d # c => next[d] = toolCall[d]
  BY <1>0 DEF ToolCalls
<1> HIDE DEF next
<1>7. OwnCalls(w, current, next)
  BY <1>4, <1>6 DEF SoundWorld, OwnCalls
<1>8. SoundWorld(w, current, configs, next)
  BY <1>4, <1>6, <1>7, CallsChange
<1>9. Drains(w, next)
  <2> SUFFICES ASSUME NEW s \in Records, w.rec[s].stopReq
               PROVE  \E d \in Calls : next[d].at = "calling" /\ next[d].rec = s
    BY DEF Drains
  <2>1. PICK d \in Calls : toolCall[d].at = "calling" /\ toolCall[d].rec = s
    BY <1>0, <1>4, WorldIs DEF Drains
  <2>2. CASE d # c
    BY <1>6, <2>1, <2>2
  <2>3. CASE d = c
    <3>1. s = r /\ Active(r) # {c}
      BY <1>4, <2>1, <2>3
    <3>2. PICK b \in Calls : b # c /\ toolCall[b].at = "calling" /\ toolCall[b].rec = r
      BY <1>1, <3>1 DEF Active
    <3> QED
      BY <1>6, <3>1, <3>2
  <2> QED
    BY <2>2, <2>3
<1>10. McpInv'
  BY <1>2, <1>5, <1>8, <1>9 DEF McpInv
<1>11. Spares
  <2>1. CASE Active(r) = {c}
    <3>1. \A d \in Calls : ~(toolCall[d].at = "calling" /\ toolCall[d].rec = r
                              /\ toolCall'[d].at = "calling")
      BY <1>2, <1>6, <2>1 DEF Active
    <3>2. \A k \in Procs : proc'[k] = "closing" => proc[k] = "closing" \/ k = rec[r].conn
      BY <1>4, <1>5
    <3> QED
      BY <1>1, <3>1, <3>2, Sparing
  <2>2. CASE Active(r) # {c}
    BY <1>4, <1>5, <2>2, ClosingNothing
  <2> QED
    BY <2>1, <2>2
<1> QED
  BY <1>10, <1>11

LEMMA DisposeKept == ASSUME McpInv, Dispose PROVE McpInv' /\ Spares
<1> DEFINE w == IF current = 0 THEN World ELSE Stop(World, current, "nothing", configs)
<1>0. /\ SoundWorld(World, current, configs, toolCall) /\ Drains(World, toolCall)
      /\ current # 0 => current \in 1..current
  BY DEF McpInv, SoundWorld
<1>1. Becomes(w) /\ UNCHANGED <<configs, current, toolCall>> /\ disposed'
  BY DEF Dispose
<1>2. /\ SoundWorld(w, current, configs, toolCall)
      /\ \A s \in Records : w.rec[s].stopReq => World.rec[s].stopReq
  <2>1. CASE current = 0
    BY <1>0, <2>1
  <2>2. CASE current # 0
    <3> DEFINE x == Stop(World, current, "nothing", configs)
    <3>1. /\ SoundWorld(x, current, configs, toolCall)
          /\ \A s \in Records : x.rec[s].stopReq => World.rec[s].stopReq /\ s # current
      BY <1>0, <2>2, StopSound
    <3>2. w = x
      BY <2>2
    <3> HIDE DEF x, w
    <3> QED
      BY <3>1, <3>2
  <2> QED
    BY <2>1, <2>2
<1> HIDE DEF w
<1>3. World' = w
  BY <1>1, <1>2, BecomesIs DEF SoundWorld
<1>4. Drains(w, toolCall)
  BY <1>0, <1>2 DEF Drains
<1>5. McpInv'
  BY <1>1, <1>2, <1>3, <1>4 DEF McpInv
<1> QED
  BY <1>1, <1>5 DEF Spares, CallIsSpared

\* A step in which records only let go of their connections and processes only go on.
LEMMA FadesKept ==
  ASSUME McpInv, rec' \in [Records -> ServerRecords], proc' \in [Procs -> Stages],
         UNCHANGED <<configs, current, toolCall>>,
         \A s \in Records :
           /\ rec'[s].print = rec[s].print
           /\ rec'[s].conn \in {rec[s].conn, NoProc}
           /\ rec'[s].at # "idle" => rec[s].at # "idle" /\ rec'[s].opening = rec[s].opening
           /\ rec'[s].intentional = rec[s].intentional /\ rec'[s].stopReq = rec[s].stopReq
           /\ rec'[s].timer => rec[s].timer \/ rec[s].conn # NoProc
           /\ rec'[s].stops = rec[s].stops,
         \A k \in Procs :
           /\ proc'[k] = "free" <=> proc[k] = "free"
           /\ proc'[k] \in {"hello", "up"} => proc[k] \in {"hello", "up"}
  PROVE  McpInv'
<1> DEFINE v == [rec |-> rec', proc |-> proc']
<1>0. World' = v /\ v.rec = rec' /\ v.proc = proc'
  BY DEF World
<1>1. /\ SoundWorld(World, current, configs, toolCall) /\ Drains(World, toolCall)
      /\ World \in ServerWorlds
  BY DEF McpInv, SoundWorld
<1>2. v \in ServerWorlds
  BY DEF ServerWorlds
<1> HIDE DEF v
<1>3. \A s \in Records : rec[s].conn \in 0..MaxProcs
  BY <1>1, WorldIs DEF ServerWorlds, ServerRecords
<1>4. \A s \in Records : Served(v, s) => Served(World, s)
  BY <1>0, <1>3, WorldIs DEF Served, NoProc, Procs
<1>5. Fades(World, v)
  BY <1>0, <1>2, <1>4, WorldIs DEF Fades
<1>6. NotMade(v, current)
  BY <1>0, <1>1, WorldIs DEF SoundWorld, NotMade
<1>7. SoundWorld(v, current, configs, toolCall)
  BY <1>1, <1>5, <1>6, FadesSound
<1>8. Drains(v, toolCall)
  BY <1>0, <1>1, WorldIs DEF Drains
<1> QED
  BY <1>0, <1>7, <1>8 DEF McpInv

\* What a step on one record and one process makes of all of them.
LEMMA OneStep ==
  ASSUME McpInv, NEW r \in Records, NEW y \in ServerRecords, NEW k \in Procs, NEW p \in Stages,
         rec' = [rec EXCEPT ![r] = y], proc' = [proc EXCEPT ![k] = p]
  PROVE  /\ rec' \in [Records -> ServerRecords] /\ proc' \in [Procs -> Stages]
         /\ rec'[r] = y /\ \A s \in Records : s # r => rec'[s] = rec[s]
         /\ \A j \in Procs : proc'[j] = IF j = k THEN p ELSE proc[j]
<1>1. rec \in [Records -> ServerRecords] /\ proc \in [Procs -> Stages]
  BY WorldIs DEF McpInv, SoundWorld, ServerWorlds
<1> QED
  BY <1>1

LEMMA ConnectedKept ==
  ASSUME McpInv, NEW r \in Records, Connected(r) \/ ConnectFails(r)
  PROVE  McpInv' /\ Spares
<1> DEFINE k == rec[r].opening
<1>0. /\ rec \in [Records -> ServerRecords] /\ proc \in [Procs -> Stages]
      /\ rec[r] \in ServerRecords /\ rec[r].at = "connecting" /\ k \in Procs
      /\ proc[k] \in {"hello", "closing", "gone"}
  BY WorldIs DEF McpInv, SoundWorld, OneOwner, ServerWorlds, Connected, ConnectFails
<1>1. UNCHANGED <<configs, current, toolCall, disposed>>
  BY DEF Connected, ConnectFails
<1>2. NoProc \in 0..MaxProcs
  BY McpAssumption DEF NoProc
<1>3. PICK y, p :
        /\ rec' = [rec EXCEPT ![r] = y] /\ proc' = [proc EXCEPT ![k] = p]
        /\ y \in ServerRecords /\ p \in Stages
        /\ y.print = rec[r].print /\ y.conn \in {rec[r].conn, NoProc}
        /\ y.at # "idle" => y.opening = rec[r].opening
        /\ y.intentional = rec[r].intentional /\ y.stopReq = rec[r].stopReq
        /\ y.timer = rec[r].timer /\ y.stops = rec[r].stops
        /\ p # "free" /\ (p \in {"hello", "up"} => proc[k] \in {"hello", "up"})
        /\ p = "closing" => proc[k] # "up"
  <2> DEFINE x == rec[r]
             idle == [x EXCEPT !.at = "idle", !.opening = NoProc]
             ready == [x EXCEPT !.at = "idle", !.opening = NoProc, !.state = "ready",
                                !.catalog = TRUE]
             failing == [x EXCEPT !.state = "error", !.at = "failing"]
             failed == [x EXCEPT !.state = "error", !.at = "idle", !.opening = NoProc,
                                 !.conn = NoProc]
             next == {idle, ready, failing, failed}
  <2>1. \A y \in next :
          /\ y \in ServerRecords
          /\ y.print = rec[r].print /\ y.conn \in {rec[r].conn, NoProc}
          /\ y.at # "idle" => y.opening = rec[r].opening
          /\ y.intentional = rec[r].intentional /\ y.stopReq = rec[r].stopReq
          /\ y.timer = rec[r].timer /\ y.stops = rec[r].stops
    <3>a. idle \in ServerRecords
      BY <1>0, <1>2, Zenon DEF ServerRecords
    <3>b. ready \in ServerRecords
      BY <1>0, <1>2, Zenon DEF ServerRecords
    <3>c. failing \in ServerRecords
      BY <1>0, Zenon DEF ServerRecords
    <3>d. failed \in ServerRecords
      BY <1>0, <1>2, Zenon DEF ServerRecords
    <3>1. \A y \in next : y \in ServerRecords
      BY <3>a, <3>b, <3>c, <3>d
    <3>2. \A y \in next :
            /\ y.print = rec[r].print /\ y.conn \in {rec[r].conn, NoProc}
            /\ y.at # "idle" => y.opening = rec[r].opening
            /\ y.intentional = rec[r].intentional /\ y.stopReq = rec[r].stopReq
            /\ y.timer = rec[r].timer /\ y.stops = rec[r].stops
      <4> TAKE y \in next
      <4>1. CASE y = idle
        BY <1>0, <4>1 DEF ServerRecords
      <4>2. CASE y = ready
        BY <1>0, <4>2 DEF ServerRecords
      <4>3. CASE y = failing
        BY <1>0, <4>3 DEF ServerRecords
      <4>4. CASE y = failed
        BY <1>0, <4>4 DEF ServerRecords
      <4> QED
        BY <4>1, <4>2, <4>3, <4>4
    <3> QED
      BY <3>1, <3>2
  <2>2. \A p \in {proc[k], "up", "closing"} : p \in Stages
    BY <1>0 DEF Stages
  <2>3. CASE Connected(r)
    <3>1. proc[k] \in {"hello", "closing"}
      BY <2>3 DEF Connected
    <3>2. /\ proc' = [proc EXCEPT ![k] = IF proc[k] = "hello" THEN "up" ELSE proc[k]]
          /\ \E y \in {idle, ready} : rec' = [rec EXCEPT ![r] = y]
      BY <2>3 DEF Connected, Becomes
    <3> HIDE DEF idle, ready, failing, failed
    <3> QED
      BY <2>1, <2>2, <3>1, <3>2
  <2>4. CASE ConnectFails(r)
    <3>1. \/ proc' = [proc EXCEPT ![k] = "closing"] /\ proc[k] = "hello"
          \/ proc' = [proc EXCEPT ![k] = proc[k]]
      BY <1>0, <2>4 DEF ConnectFails, Becomes
    <3>2. \E y \in {idle, failing, failed} : rec' = [rec EXCEPT ![r] = y]
      <4>1. idle = [rec[r] EXCEPT !.at = "idle", !.opening = NoProc]
        OBVIOUS
      <4>2. [rec EXCEPT ![r].at = "idle", ![r].opening = NoProc] = [rec EXCEPT ![r] = idle]
        BY <1>0
      <4> QED
        BY <2>4, <4>2 DEF ConnectFails, Becomes
    <3>3. PICK y \in next : rec' = [rec EXCEPT ![r] = y]
      BY <3>2
    <3>4. PICK p \in {proc[k], "closing"} :
            /\ proc' = [proc EXCEPT ![k] = p]
            /\ p \in Stages /\ p # "free"
            /\ p \in {"hello", "up"} => proc[k] \in {"hello", "up"}
            /\ p = "closing" => proc[k] # "up"
      <4>1. CASE proc' = [proc EXCEPT ![k] = "closing"] /\ proc[k] = "hello"
        BY <2>2, <4>1
      <4>2. CASE proc' = [proc EXCEPT ![k] = proc[k]]
        BY <1>0, <2>2, <4>2
      <4> QED
        BY <3>1, <4>1, <4>2
    <3> HIDE DEF next
    <3> QED
      BY <2>1, <3>3, <3>4
  <2> QED
    BY <2>3, <2>4
<1>4. /\ rec' \in [Records -> ServerRecords] /\ proc' \in [Procs -> Stages]
      /\ rec'[r] = y /\ \A s \in Records : s # r => rec'[s] = rec[s]
      /\ \A j \in Procs : proc'[j] = IF j = k THEN p ELSE proc[j]
  BY <1>0, <1>3, OneStep
<1>5. McpInv'
  BY <1>0, <1>1, <1>3, <1>4, FadesKept
<1> QED
  BY <1>3, <1>4, <1>5, ClosingNothing

LEMMA FailureClosedKept ==
  ASSUME McpInv, NEW r \in Records, FailureClosed(r)
  PROVE  McpInv' /\ Spares
<1> DEFINE y == [rec[r] EXCEPT !.at = "idle", !.opening = NoProc, !.conn = NoProc]
<1>0. /\ rec \in [Records -> ServerRecords] /\ proc \in [Procs -> Stages]
      /\ rec[r] \in ServerRecords
  BY WorldIs DEF McpInv, SoundWorld, ServerWorlds
<1>1. UNCHANGED <<configs, current, proc, toolCall, disposed>>
  BY DEF FailureClosed
<1>2. NoProc \in 0..MaxProcs
  BY McpAssumption DEF NoProc
<1>3. y \in ServerRecords
  BY <1>0, <1>2, Zenon DEF ServerRecords
<1>4. /\ y.print = rec[r].print /\ y.conn = NoProc /\ y.at = "idle"
      /\ y.intentional = rec[r].intentional /\ y.stopReq = rec[r].stopReq
      /\ y.timer = rec[r].timer /\ y.stops = rec[r].stops
  BY <1>0 DEF ServerRecords
<1>5. rec' = [rec EXCEPT ![r] = y]
  BY <1>0 DEF FailureClosed
<1> HIDE DEF y
<1>6. rec' \in [Records -> ServerRecords] /\ rec'[r] = y /\ \A s \in Records : s # r => rec'[s] = rec[s]
  BY <1>0, <1>3, <1>5
<1>7. McpInv'
  BY <1>0, <1>1, <1>4, <1>6, FadesKept
<1>8. \A k \in Procs : proc'[k] = "closing" => proc[k] # "up"
  BY <1>1
<1> QED
  BY <1>7, <1>8, ClosingNothing

LEMMA ClosedKept == ASSUME McpInv, NEW k \in Procs, Closed(k) PROVE McpInv' /\ Spares
<1>0. /\ rec \in [Records -> ServerRecords] /\ proc \in [Procs -> Stages]
  BY WorldIs DEF McpInv, SoundWorld, ServerWorlds
<1>1. /\ UNCHANGED <<configs, current, rec, toolCall, disposed>>
      /\ proc' = [proc EXCEPT ![k] = "gone"] /\ proc[k] = "closing"
  BY DEF Closed
<1>2. proc' \in [Procs -> Stages] /\ \A j \in Procs : proc'[j] = IF j = k THEN "gone" ELSE proc[j]
  BY <1>0, <1>1 DEF Stages
<1>3. McpInv'
  BY <1>0, <1>1, <1>2, FadesKept
<1>4. \A j \in Procs : proc'[j] = "closing" => proc[j] # "up"
  BY <1>2
<1> QED
  BY <1>3, <1>4, ClosingNothing

\* What a record that loses its connection keeps.
LEMMA LostIs ==
  ASSUME NEW x \in ServerRecords, NEW stable \in BOOLEAN
  PROVE  LET z == Lost(x, stable)
         IN  /\ z \in ServerRecords
             /\ z.print = x.print /\ z.conn = NoProc /\ z.at = x.at /\ z.opening = x.opening
             /\ z.intentional = x.intentional /\ z.stopReq = x.stopReq /\ z.stops = x.stops
<1> DEFINE tries == IF stable THEN 0 ELSE x.attempts
           y == [x EXCEPT !.conn = NoProc, !.catalog = FALSE, !.attempts = tries]
           off == [y EXCEPT !.state = "stopped"]
           error == [y EXCEPT !.state = "error"]
           again == [y EXCEPT !.attempts = @ + 1, !.state = "restarting", !.timer = TRUE]
           z == Lost(x, stable)
<1>1. tries \in Nat /\ NoProc \in 0..MaxProcs
  BY McpAssumption DEF ServerRecords, NoProc
<1>2. z = y \/ z = off \/ z = error \/ z = again
  BY Zenon DEF Lost
<1> HIDE DEF tries, z
<1>3. y \in ServerRecords
  BY <1>1, Zenon DEF ServerRecords
<1>4. /\ y.print = x.print /\ y.conn = NoProc /\ y.at = x.at /\ y.opening = x.opening
      /\ y.intentional = x.intentional /\ y.stopReq = x.stopReq /\ y.stops = x.stops
  BY DEF ServerRecords
<1> HIDE DEF y
<1>5. y.attempts + 1 \in Nat
  BY <1>3 DEF ServerRecords
<1>6. off \in ServerRecords /\ error \in ServerRecords
  BY <1>3, Zenon DEF ServerRecords
<1>7. again \in ServerRecords
  BY <1>3, <1>5, Zenon DEF ServerRecords
<1>8. CASE z = y
  BY <1>3, <1>4, <1>8 DEF z
<1>9. CASE z = off
  <2>1. /\ off.print = y.print /\ off.conn = y.conn /\ off.at = y.at /\ off.opening = y.opening
        /\ off.intentional = y.intentional /\ off.stopReq = y.stopReq /\ off.stops = y.stops
    BY <1>3 DEF ServerRecords
  <2> HIDE DEF off
  <2> QED
    BY <1>4, <1>6, <1>9, <2>1 DEF z
<1>10. CASE z = error
  <2>1. /\ error.print = y.print /\ error.conn = y.conn /\ error.at = y.at
        /\ error.opening = y.opening /\ error.intentional = y.intentional
        /\ error.stopReq = y.stopReq /\ error.stops = y.stops
    BY <1>3 DEF ServerRecords
  <2> HIDE DEF error
  <2> QED
    BY <1>4, <1>6, <1>10, <2>1 DEF z
<1>11. CASE z = again
  <2>1. /\ again.print = y.print /\ again.conn = y.conn /\ again.at = y.at
        /\ again.opening = y.opening /\ again.intentional = y.intentional
        /\ again.stopReq = y.stopReq /\ again.stops = y.stops
    BY <1>3 DEF ServerRecords
  <2> HIDE DEF again
  <2> QED
    BY <1>4, <1>7, <1>11, <2>1 DEF z
<1> QED
  BY <1>2, <1>8, <1>9, <1>10, <1>11

LEMMA ProcessDiesKept ==
  ASSUME McpInv, NEW k \in Procs, NEW stable \in BOOLEAN, ProcessDies(k, stable)
  PROVE  McpInv' /\ Spares
<1>0. /\ rec \in [Records -> ServerRecords] /\ proc \in [Procs -> Stages]
  BY WorldIs DEF McpInv, SoundWorld, ServerWorlds
<1>1. /\ UNCHANGED <<configs, current, toolCall, disposed>>
      /\ proc' = [proc EXCEPT ![k] = "gone"] /\ proc[k] \in {"hello", "up"}
      /\ rec' = [r \in Records |-> IF rec[r].conn = k THEN Lost(rec[r], stable) ELSE rec[r]]
  BY Zenon DEF ProcessDies, Live
<1>2. proc' \in [Procs -> Stages] /\ \A j \in Procs : proc'[j] = IF j = k THEN "gone" ELSE proc[j]
  BY <1>0, <1>1 DEF Stages
<1>3. k # NoProc
  BY DEF NoProc, Procs
<1>4. \A s \in Records :
        /\ rec'[s] \in ServerRecords
        /\ rec'[s].print = rec[s].print /\ rec'[s].conn \in {rec[s].conn, NoProc}
        /\ rec'[s].at = rec[s].at /\ rec'[s].opening = rec[s].opening
        /\ rec'[s].intentional = rec[s].intentional /\ rec'[s].stopReq = rec[s].stopReq
        /\ rec'[s].timer => rec[s].timer \/ rec[s].conn # NoProc
        /\ rec'[s].stops = rec[s].stops
  <2> TAKE s \in Records
  <2>1. rec[s] \in ServerRecords
    BY <1>0
  <2>2. CASE rec[s].conn = k
    <3> DEFINE x == rec[s]
               z == Lost(x, stable)
    <3>1. rec'[s] = z
      BY <1>1, <2>2
    <3>2. /\ z \in ServerRecords
          /\ z.print = x.print /\ z.conn = NoProc /\ z.at = x.at /\ z.opening = x.opening
          /\ z.intentional = x.intentional /\ z.stopReq = x.stopReq /\ z.stops = x.stops
      BY <2>1, LostIs
    <3> HIDE DEF z
    <3> QED
      BY <1>3, <2>2, <3>1, <3>2
  <2>3. CASE rec[s].conn # k
    <3>1. rec'[s] = rec[s]
      BY <1>1, <2>3
    <3> QED
      BY <2>1, <3>1
  <2> QED
    BY <2>2, <2>3
<1>5. rec' \in [Records -> ServerRecords]
  BY <1>1, <1>4
<1>6. McpInv'
  BY <1>1, <1>2, <1>4, <1>5, FadesKept
<1>7. \A j \in Procs : proc'[j] = "closing" => proc[j] # "up"
  BY <1>2
<1> QED
  BY <1>6, <1>7, ClosingNothing

LEMMA TimerFiresKept ==
  ASSUME McpInv, NEW r \in Records, TimerFires(r)
  PROVE  McpInv' /\ Spares
<1> DEFINE y == [rec[r] EXCEPT !.timer = FALSE]
           w == With(World, r, y)
<1>0. /\ SoundWorld(World, current, configs, toolCall) /\ World \in ServerWorlds
      /\ rec \in [Records -> ServerRecords] /\ rec[r] \in ServerRecords /\ rec[r].timer
  BY WorldIs DEF McpInv, SoundWorld, ServerWorlds, TimerFires
<1>1. r \in 1..current
  BY <1>0, WorldIs, McpAssumption DEF SoundWorld, NotMade, Records
<1>2. y \in ServerRecords
  BY <1>0 DEF ServerRecords
<1>3. /\ y.print = rec[r].print /\ y.conn = rec[r].conn /\ y.at = rec[r].at
      /\ y.opening = rec[r].opening /\ y.intentional = rec[r].intentional
      /\ y.stopReq = rec[r].stopReq
  BY <1>0 DEF ServerRecords
<1>4. Room /\ Becomes(Started(w, r, configs)) /\ UNCHANGED <<configs, current, toolCall>>
  <2>1. [World EXCEPT !.rec[r].timer = FALSE] = w
    BY WorldIs DEF With
  <2> HIDE DEF w
  <2> QED
    BY <2>1, Zenon DEF TimerFires
<1> HIDE DEF y
<1>5. /\ w \in ServerWorlds /\ w.proc = proc /\ w.rec[r] = y
      /\ \A s \in Records : s # r => w.rec[s] = rec[s]
  <2>1. /\ w \in ServerWorlds /\ w.proc = World.proc /\ w.rec[r] = y
        /\ \A s \in Records : s # r => w.rec[s] = World.rec[s]
    BY <1>0, <1>2, WithIs
  <2> QED
    BY <2>1, WorldIs
<1> HIDE DEF w
<1>6. Fades(World, w)
  BY <1>3, <1>5, WorldIs DEF Fades, Served
<1>7. NotMade(w, current)
  BY <1>0, <1>1, <1>5, WorldIs, McpAssumption DEF SoundWorld, NotMade, Records
<1>8. SoundWorld(w, current, configs, toolCall)
  BY <1>0, <1>6, <1>7, FadesSound
<1>9. \A s \in Records : w.rec[s].stopReq => rec[s].stopReq
  BY <1>3, <1>5
<1> QED
  BY <1>1, <1>4, <1>5, <1>8, <1>9, StartKept

LEMMA StopResumesKept ==
  ASSUME McpInv, NEW r \in Records, NEW s \in rec[r].stops, StopResumes(r, s)
  PROVE  McpInv' /\ Spares
<1> DEFINE y == [rec[r] EXCEPT !.stops = @ \ {s}]
           w == With(World, r, y)
           x == Stopped(w, r, s[2], configs)
<1>0. /\ SoundWorld(World, current, configs, toolCall) /\ World \in ServerWorlds
      /\ rec \in [Records -> ServerRecords] /\ rec[r] \in ServerRecords
  BY WorldIs DEF McpInv, SoundWorld, ServerWorlds
<1>1. r \in 1..current
  BY <1>0, WorldIs, McpAssumption DEF SoundWorld, NotMade, Records
<1>2. y \in ServerRecords
  BY <1>0 DEF ServerRecords
<1>3. /\ y.print = rec[r].print /\ y.conn = rec[r].conn /\ y.at = rec[r].at
      /\ y.opening = rec[r].opening /\ y.intentional = rec[r].intentional
      /\ y.stopReq = rec[r].stopReq
  BY <1>0 DEF ServerRecords
<1>4. Room /\ Becomes(x) /\ UNCHANGED <<configs, current, toolCall>>
  <2>1. [rec |-> [rec EXCEPT ![r].stops = @ \ {s}], proc |-> proc] = w
    BY DEF With, World
  <2> HIDE DEF w
  <2> QED
    BY <2>1, Zenon DEF StopResumes
<1> HIDE DEF y
<1>5. /\ w \in ServerWorlds /\ w.proc = proc /\ w.rec[r] = y
      /\ \A t \in Records : t # r => w.rec[t] = rec[t]
  <2>1. /\ w \in ServerWorlds /\ w.proc = World.proc /\ w.rec[r] = y
        /\ \A t \in Records : t # r => w.rec[t] = World.rec[t]
    BY <1>0, <1>2, WithIs
  <2> QED
    BY <2>1, WorldIs
<1> HIDE DEF w
<1>6. Fades(World, w)
  BY <1>3, <1>5, WorldIs DEF Fades, Served
<1>7. NotMade(w, current)
  BY <1>0, <1>1, <1>5, WorldIs, McpAssumption DEF SoundWorld, NotMade, Records
<1>8. SoundWorld(w, current, configs, toolCall)
  BY <1>0, <1>6, <1>7, FadesSound
<1>9. \E k \in Procs : w.proc[k] = "free"
  BY <1>4, <1>5 DEF Room
<1>10. /\ SoundWorld(x, current, configs, toolCall)
       /\ \A t \in Records : x.rec[t].stopReq => w.rec[t].stopReq
       /\ \A k \in Procs : x.proc[k] = "closing" => w.proc[k] = "closing"
  BY <1>1, <1>8, <1>9, StoppedSound
<1> HIDE DEF x
<1>11. World' = x /\ proc' = x.proc
  BY <1>4, <1>10, BecomesIs DEF SoundWorld
<1>12. Drains(x, toolCall)
  BY <1>3, <1>5, <1>10, WorldIs DEF McpInv, Drains
<1>13. McpInv'
  BY <1>4, <1>10, <1>11, <1>12 DEF McpInv
<1> QED
  BY <1>5, <1>10, <1>11, <1>13, ClosingNothing

\* Every step keeps the invariant and spares the calls.
LEMMA McpStepKept == ASSUME McpInv, [McpNext]_mcpVars PROVE McpInv' /\ Spares
<1>1. ASSUME NEW on \in BOOLEAN, NEW print \in Prints, ApplyConfigs([on |-> on, print |-> print])
      PROVE  McpInv' /\ Spares
  <2>1. [on |-> on, print |-> print] \in ServerConfigs
    BY DEF ServerConfigs
  <2> QED
    BY <1>1, <2>1, ApplyKept
<1>2. ASSUME NEW c \in Calls, CallTool(c) \/ CallGoes(c) \/ CallEnds(c)
      PROVE  McpInv' /\ Spares
  BY <1>2, CallToolKept, CallGoesKept, CallEndsKept
<1>3. ASSUME NEW r \in Records,
             \/ Connected(r) \/ ConnectFails(r) \/ FailureClosed(r) \/ TimerFires(r)
             \/ \E s \in rec[r].stops : StopResumes(r, s)
      PROVE  McpInv' /\ Spares
  BY <1>3, ConnectedKept, FailureClosedKept, TimerFiresKept, StopResumesKept
<1>4. ASSUME NEW k \in Procs, Closed(k) \/ \E stable \in BOOLEAN : ProcessDies(k, stable)
      PROVE  McpInv' /\ Spares
  BY <1>4, ClosedKept, ProcessDiesKept
<1>5. CASE UNCHANGED mcpVars
  <2>1. UNCHANGED <<configs, current, toolCall, proc>> /\ World' = World
    BY <1>5 DEF mcpVars, World
  <2>2. McpInv'
    BY <2>1 DEF McpInv
  <2> QED
    BY <2>1, <2>2, ClosingNothing
<1> QED
  BY <1>1, <1>2, <1>3, <1>4, <1>5, RestartKept, DisposeKept DEF McpNext

LEMMA McpHolds == McpSpec => []McpInv
<1>1. McpInv /\ [McpNext]_mcpVars => McpInv'
  BY McpStepKept
<1> QED
  BY <1>1, McpInitInv, PTL DEF McpSpec

\* Whatever the configuration becomes, and whatever connects, closes, exits or fires meanwhile:
\* a server that the user no longer trusts, or trusts with another launch, has a connection only
\* to drain the calls in flight on it, unless its launch came back.
THEOREM TrustHolds == McpSpec => []TrustIsRespected
<1>1. McpInv => TrustIsRespected
  <2> SUFFICES ASSUME McpInv, NEW r \in Records, rec[r].conn # NoProc, Live(rec[r].conn),
                      r = current => ~configs.on, Returned => r = current
               PROVE  rec[r].stopReq /\ Active(r) # {}
    BY DEF TrustIsRespected
  <2>1. SoundWorld(World, current, configs, toolCall) /\ Drains(World, toolCall)
        /\ current \in 0..MaxRecords
    BY DEF McpInv, SoundWorld
  <2>2. Served(World, r)
    BY WorldIs DEF Served, Live
  <2>3. r <= current
    BY <2>1, WorldIs, McpAssumption DEF SoundWorld, NotMade, Records
  <2>4. CASE r = current
    BY <2>1, <2>2, <2>4, WorldIs, McpAssumption DEF SoundWorld, InForce, Drains, Active, Records
  <2>5. CASE r < current
    <3>1. ~ComesBack(World, current)
      BY <2>5, WorldIs, McpAssumption DEF ComesBack, Returned, Records
    <3>2. rec[r].intentional \/ rec[r].stopReq
      BY <2>1, <2>5, <3>1, WorldIs, McpAssumption DEF SoundWorld, Retired, Records
    <3>3. ~rec[r].intentional
      BY <2>1, <2>2, WorldIs DEF SoundWorld, Wanted
    <3> QED
      BY <2>1, <3>2, <3>3, WorldIs DEF Drains, Active
  <2> QED
    BY <2>1, <2>3, <2>4, <2>5, McpAssumption DEF Records
<1> QED
  BY <1>1, McpHolds, PTL

\* A configuration change, a restart, a failed handshake or the end of another call never
\* closes the connection under a call in flight; only the shutdown does.
THEOREM NoCallsAreCut == McpSpec => NoCallIsCut
<1>1. McpInv /\ [McpNext]_mcpVars => Spares
  BY McpStepKept
<1> QED
  BY <1>1, McpHolds, PTL DEF McpSpec, NoCallIsCut, Spares, CallIsSpared
=============================================================================
