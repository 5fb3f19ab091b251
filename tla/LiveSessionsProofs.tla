------------------------- MODULE LiveSessionsProofs -------------------------
(***************************************************************************)
(* Proofs about LiveSessions: for any Sessions, Projects, tokens and       *)
(* bounds, contexts are owned, live entries are ready, Runs are protected  *)
(* and a Project's eviction closes every context of the Project.           *)
(*                                                                         *)
(* The inductive invariant says, entry phase by entry phase, what the      *)
(* context, the binding, the Run and the handlers in progress look like.   *)
(* On it rests Durably: what a context in use says of its Session is what  *)
(* the database says.                                                      *)
(***************************************************************************)
EXTENDS LiveSessions, TLAPS

\* The owner exists exactly when the entry does, an entry under teardown is
\* releasing, and one that waits for its Run has an invalid binding.
EntryShape(s) ==
    /\ entry[s].phase = "none" <=> entry[s].owner = 0
    /\ entry[s].phase # "invalid"
    /\ entry[s].teardown # "none" <=> entry[s].phase = "releasing"
    /\ entry[s].teardown = "settling" => binding[s].invalid

\* Whose the context and the binding are.
Ownership(s) ==
    /\ ctx[s] # "none" => entry[s].phase # "none"
    /\ ctx[s] = "closing" => entry[s].teardown = "closing" \/ loading[s].st = "cleaning"
    /\ binding[s].owner # 0 => binding[s].owner = entry[s].owner
    /\ binding[s].isNew => db[s].life = "none"

\* A usable entry has all it needs, and so has a reservation that may give the
\* context back.
Ready(s) ==
    /\ entry[s].phase = "reserved" => entry[s].bound
    /\ entry[s].phase = "live" =>
         ctx[s] = "open" /\ binding[s].owner = entry[s].owner /\ entry[s].bound
    /\ entry[s].phase \in {"mutating", "evicting"} /\ ctx[s] = "open" =>
         binding[s].owner = entry[s].owner /\ entry[s].bound
    /\ entry[s].phase \in {"mutating", "evicting"} /\ ctx[s] = "none" =>
         binding[s].owner = 0
    /\ entry[s].phase = "evicting" /\ entry[s].bound => ctx[s] = "open"

\* A load only runs in its own entry, and knows the context it restored.
Load(s) ==
    /\ loading[s].st # "no" <=> entry[s].phase = "loading"
    /\ loading[s].st = "restoring" => binding[s].owner = entry[s].owner /\ entry[s].bound
    /\ loading[s].st = "checking" =>
         ctx[s] = "open" /\ binding[s].owner = entry[s].owner /\ entry[s].bound

\* Where a Run may be, and the commit of a plan status.
Running(s) ==
    /\ run[s] \in {"running", "settling"} =>
         /\ ctx[s] = "open" /\ entry[s].bound
         /\ entry[s].phase = "live" \/ entry[s].teardown = "settling"
    /\ run[s] = "failing" =>
         /\ entry[s].bound /\ db[s].life = "none"
         /\ \/ ctx[s] = "open" /\ entry[s].phase = "live"
            \/ entry[s].teardown = "closing"
    /\ planning[s] =>
         /\ run[s] = "idle" /\ ctx[s] = "open" /\ entry[s].phase = "live"
         /\ entry[s].bound /\ ~binding[s].isNew

\* What a Project under eviction holds no more, and cannot get.
Evicted(s) ==
    LET t == evicting[ProjectOf[s]]
    IN  t # 0 =>
          /\ evop[s].tok # t
          /\ entry[s].phase \notin {"live", "reserved"}
          /\ run[s] = "idle" /\ ~planning[s]
          /\ entry[s].phase = "loading" => ctx[s] = "none" /\ loading[s].st \in {"reading",
             "cleaning"}
          /\ entry[s].phase = "mutating" => ctx[s] = "none"
          /\ entry[s].phase = "evicting" /\ ctx[s] = "open" => entry[s].op = t

SessionInv(s) == EntryShape(s) /\ Ownership(s) /\ Ready(s) /\ Load(s) /\ Running(s) /\ Evicted(s)

\* A start that has not returned has an entry of its own, or none at all; once it
\* has a context its Session is not durable yet, so that only the start itself runs
\* it.  The Project it has asked for stays: its reservation blocks a removal.
StartInv(o) ==
    /\ o.st \in {"asked", "creating"} => entry[o.s].owner = o.tok /\ entry[o.s].phase = "reserved"
    /\ o.st = "creating" => db[o.s].life = "none" /\ ProjectOf[o.s] \in projects
    /\ entry[o.s].owner = o.tok =>
         /\ entry[o.s].phase # "loading"
         /\ o.st = "started" => entry[o.s].phase # "reserved"
         /\ o.st = "failing" => run[o.s] \in {"idle", "failing"}
         /\ entry[o.s].phase # "reserved" => binding[o.s].isNew /\ db[o.s].life = "none"

\* The removal holds the Project, and lists what it has taken.
RemovalInv(p) ==
    /\ removal[p].st # "no" => removal[p].tok # 0 /\ evicting[p] = removal[p].tok
    /\ removal[p].st = "evict" =>
         \A s \in SessionsOf(p) :
            entry[s].phase = "evicting" /\ entry[s].op = removal[p].tok /\ entry[s].bound
              => s \in removal[p].list

StartTokens == \A o1, o2 \in starts : o1.tok = o2.tok => o1 = o2

\* The inductive invariant.
Inv == /\ TypeOK
       /\ \A s \in Sessions : SessionInv(s)
       /\ \A o \in starts : StartInv(o)
       /\ \A p \in Projects : RemovalInv(p)
       /\ StartTokens
\* What the registry makes of an entry is an entry.
LEMMA EntryOps ==
    /\ NoEntry \in Entries
    /\ \A e \in Entries :
          /\ TornDown(e, "closing") \in Entries
          /\ \A b \in {"settling", "closing"} : Invalidated(e, b) \in Entries
          /\ [e EXCEPT !.phase = "live", !.op = 0] \in Entries
          /\ \A t \in Tokens, ph \in {"evicting", "mutating"} :
                [e EXCEPT !.phase = ph, !.op = t] \in Entries
    /\ \A t \in Tokens, ph \in {"evicting", "mutating"} :
          [NoEntry EXCEPT !.phase = ph, !.owner = t, !.op = t] \in Entries
    /\ \A t \in Tokens : /\ [NoEntry EXCEPT !.phase = "loading", !.owner = t] \in Entries
                         /\ [NoEntry EXCEPT !.phase = "reserved", !.owner = t,
                                            !.bound = TRUE] \in Entries
<1>1. ASSUME NEW e \in Entries
      PROVE  /\ [e EXCEPT !.phase = "invalid"] \in Entries
             /\ TornDown(e, "closing") \in Entries /\ TornDown(e, "settling") \in Entries
  BY DEF Entries, Phases, TornDown
<1>2. ASSUME NEW e \in Entries, NEW b \in {"settling", "closing"}
      PROVE  Invalidated(e, b) \in Entries
  BY <1>1 DEF Invalidated
<1>3. ASSUME NEW e \in Entries
      PROVE  /\ [e EXCEPT !.phase = "live", !.op = 0] \in Entries
             /\ \A t \in Tokens, ph \in {"evicting", "mutating"} :
                   [e EXCEPT !.phase = ph, !.op = t] \in Entries
  BY DEF Entries, Phases, Token0
<1>4. NoEntry \in Entries
  BY DEF Entries, Phases, Token0, NoEntry
<1>5. \A t \in Tokens, ph \in {"evicting", "mutating"} :
        [NoEntry EXCEPT !.phase = ph, !.owner = t, !.op = t] \in Entries
  BY DEF Entries, Phases, Token0, NoEntry
<1>6. \A t \in Tokens : /\ [NoEntry EXCEPT !.phase = "loading", !.owner = t] \in Entries
                        /\ [NoEntry EXCEPT !.phase = "reserved", !.owner = t,
                                           !.bound = TRUE] \in Entries
  BY DEF Entries, Phases, Token0, NoEntry
<1> QED BY <1>1, <1>2, <1>3, <1>4, <1>5, <1>6

\* The same, one field at a time, in the map of the entries.
LEMMA EntryFields ==
    ASSUME NEW f \in [Sessions -> Entries], NEW s \in Sessions
    PROVE  /\ [f EXCEPT ![s].phase = "live"] \in [Sessions -> Entries]
           /\ [f EXCEPT ![s].bound = TRUE] \in [Sessions -> Entries]
           /\ [f EXCEPT ![s].teardown = "closing"] \in [Sessions -> Entries]
BY DEF Entries, Phases

\* A binding may take any revision within the bound.
LEMMA BindingFields ==
    ASSUME NEW f \in [Sessions -> Bindings], NEW s \in Sessions, NEW r \in 0..MaxRev
    PROVE  /\ [f EXCEPT ![s].rev = r] \in [Sessions -> Bindings]
           /\ [f EXCEPT ![s].rev = r, ![s].isNew = FALSE] \in [Sessions -> Bindings]
BY DEF Bindings

\* ReserveNew keeps the types.
LEMMA ReserveNewType == ASSUME TypeOK, NEW s \in Sessions, ReserveNew(s) PROVE TypeOK'
<1>1. entry' \in [Sessions -> Entries]
  BY EntryOps DEF TypeOK, ReserveNew, Fresh, Set
<1>2. starts' \in SUBSET Starts
  BY DEF TypeOK, ReserveNew, Fresh, Starts, Set
<1> QED BY <1>1, <1>2 DEF TypeOK, ReserveNew

\* Ask keeps the types.
LEMMA AskType == ASSUME TypeOK, NEW o \in Starts, Ask(o) PROVE TypeOK'
<1>1. starts' \in SUBSET Starts
  BY DEF TypeOK, Ask, Step, Starts
<1> QED BY <1>1 DEF TypeOK, Ask

\* CreateFails keeps the types.
LEMMA CreateFailsType == ASSUME TypeOK, NEW o \in Starts, CreateFails(o) PROVE TypeOK'
<1>1. starts' \in SUBSET Starts
  BY DEF TypeOK, CreateFails, Step, Starts
<1> QED BY <1>1 DEF TypeOK, CreateFails

\* Created keeps the types.
LEMMA CreatedType == ASSUME TypeOK, NEW o \in Starts, Created(o) PROVE TypeOK'
<1>1. entry' \in [Sessions -> Entries]
  BY EntryFields DEF TypeOK, Created, Starts
<1>2. ctx' \in [Sessions -> {"none", "open", "closing"}]
  BY DEF TypeOK, Created, Step, Set
<1>3. run' \in [Sessions -> {"idle", "running", "failing", "settling"}]
  BY DEF TypeOK, Created, Step, Set
<1>4. binding' \in [Sessions -> Bindings]
  BY LiveAssumption DEF TypeOK, Created, Bindings, Token0, Starts, Set
<1>5. starts' \in SUBSET Starts
  BY DEF TypeOK, Created, Step, Starts, Set
<1> QED BY <1>1, <1>2, <1>3, <1>4, <1>5 DEF TypeOK, Created

\* StartFails keeps the types.
LEMMA StartFailsType == ASSUME TypeOK, NEW o \in Starts, StartFails(o) PROVE TypeOK'
<1>1. starts' \in SUBSET Starts
  BY DEF TypeOK, StartFails, Step, Starts
<1> QED BY <1>1 DEF TypeOK, StartFails

\* ReleaseOwned keeps the types.
LEMMA ReleaseOwnedType == ASSUME TypeOK, NEW o \in Starts, ReleaseOwned(o) PROVE TypeOK'
<1>1. entry' \in [Sessions -> Entries]
  BY EntryOps DEF TypeOK, ReleaseOwned, Set
<1>2. starts' \in SUBSET Starts
  BY DEF TypeOK, ReleaseOwned, Starts, Set
<1> QED BY <1>1, <1>2 DEF TypeOK, ReleaseOwned

\* EnsureLoaded keeps the types.
LEMMA EnsureLoadedType == ASSUME TypeOK, NEW s \in Sessions, EnsureLoaded(s) PROVE TypeOK'
<1>1. entry' \in [Sessions -> Entries]
  BY EntryOps DEF TypeOK, EnsureLoaded, Fresh, Set
<1>2. loading' \in [Sessions -> Loads]
  BY LiveAssumption DEF TypeOK, EnsureLoaded, Fresh, Loads, Durable, Set
<1> QED BY <1>1, <1>2 DEF TypeOK, EnsureLoaded

\* LoadRead keeps the types.
LEMMA LoadReadType == ASSUME TypeOK, NEW s \in Sessions, LoadRead(s) PROVE TypeOK'
<1>1. entry' \in [Sessions -> Entries]
  BY EntryFields DEF TypeOK, LoadRead
<1>2. binding' \in [Sessions -> Bindings]
  BY LiveAssumption DEF TypeOK, LoadRead, LoadMayRestore, Bindings, Durable, Entries, Token0, Set
<1>3. loading' \in [Sessions -> Loads]
  BY LiveAssumption DEF TypeOK, LoadRead, Loads, Durable, Set
<1> QED BY <1>1, <1>2, <1>3 DEF TypeOK, LoadRead

\* LoadRefused keeps the types.
LEMMA LoadRefusedType == ASSUME TypeOK, NEW s \in Sessions, LoadRefused(s) PROVE TypeOK'
<1>1. entry' \in [Sessions -> Entries]
  BY EntryFields DEF TypeOK, LoadRefused
<1>2. loading' \in [Sessions -> Loads]
  BY LiveAssumption DEF TypeOK, LoadRefused, LoadFails, Loads, Durable, NoLoad, Set
<1> QED BY <1>1, <1>2 DEF TypeOK, LoadRefused

\* LoadRestore keeps the types.
LEMMA LoadRestoreType == ASSUME TypeOK, NEW s \in Sessions, LoadRestore(s) PROVE TypeOK'
<1>1. ctx' \in [Sessions -> {"none", "open", "closing"}]
  BY DEF TypeOK, LoadRestore, LoadFails, Set
<1>2. loading' \in [Sessions -> Loads]
  <2>1. loading \in [Sessions -> Loads] /\ [NoLoad EXCEPT !.st = "cleaning"] \in Loads
    BY LiveAssumption DEF TypeOK, Loads, NoLoad
  <2>2. [loading EXCEPT ![s].st = "checking"] \in [Sessions -> Loads]
    BY <2>1 DEF Loads
  <2> QED BY <2>1, <2>2 DEF LoadRestore, LoadFails, Set
<1> QED BY <1>1, <1>2 DEF TypeOK, LoadRestore

\* LoadAccepted keeps the types.
LEMMA LoadAcceptedType == ASSUME TypeOK, NEW s \in Sessions, LoadAccepted(s) PROVE TypeOK'
<1>1. entry' \in [Sessions -> Entries]
  BY EntryFields DEF TypeOK, LoadAccepted
<1>2. loading' \in [Sessions -> Loads]
  BY LiveAssumption DEF TypeOK, LoadAccepted, Loads, Durable, NoLoad, Set
<1> QED BY <1>1, <1>2 DEF TypeOK, LoadAccepted

\* LoadStale keeps the types.
LEMMA LoadStaleType == ASSUME TypeOK, NEW s \in Sessions, LoadStale(s) PROVE TypeOK'
<1>1. loading' \in [Sessions -> Loads]
  BY LiveAssumption DEF TypeOK, LoadStale, LoadFails, Loads, Durable, NoLoad, Set
<1> QED BY <1>1 DEF TypeOK, LoadStale

\* CleanupFailedLoad keeps the types.
LEMMA CleanupFailedLoadType == ASSUME TypeOK, NEW s \in Sessions, CleanupFailedLoad(s) PROVE TypeOK'
<1>1. entry' \in [Sessions -> Entries]
  BY EntryOps DEF TypeOK, CleanupFailedLoad, Forget, Set
<1>2. ctx' \in [Sessions -> {"none", "open", "closing"}]
  BY DEF TypeOK, CleanupFailedLoad, Forget, Set
<1>3. binding' \in [Sessions -> Bindings]
  <2>1. NoBinding \in Bindings
    BY LiveAssumption DEF NoBinding, Bindings, Token0
  <2> QED BY <2>1 DEF TypeOK, CleanupFailedLoad, Forget, Set
<1>4. loading' \in [Sessions -> Loads]
  <2>1. NoLoad \in Loads
    BY LiveAssumption DEF Loads, NoLoad
  <2> QED BY <2>1 DEF TypeOK, CleanupFailedLoad, Set
<1> QED BY <1>1, <1>2, <1>3, <1>4 DEF TypeOK, CleanupFailedLoad

\* StartRun keeps the types.
LEMMA StartRunType == ASSUME TypeOK, NEW s \in Sessions, StartRun(s) PROVE TypeOK'
<1>1. run' \in [Sessions -> {"idle", "running", "failing", "settling"}]
  BY DEF TypeOK, StartRun, Set
<1> QED BY <1>1 DEF TypeOK, StartRun

\* CommitFirstTurn keeps the types.
LEMMA CommitFirstTurnType == ASSUME TypeOK, NEW s \in Sessions, CommitFirstTurn(s) PROVE TypeOK'
<1>1. db' \in [Sessions -> Durable]
  BY LiveAssumption DEF TypeOK, CommitFirstTurn, Durable, Set
<1>2. binding' \in [Sessions -> Bindings]
  <2>1. binding \in [Sessions -> Bindings] /\ binding' = [binding EXCEPT ![s].isNew = FALSE]
    BY DEF TypeOK, CommitFirstTurn
  <2> QED BY <2>1 DEF Bindings
<1>3. starts' \in SUBSET Starts
  BY DEF TypeOK, CommitFirstTurn, Starts, Set
<1> QED BY <1>1, <1>2, <1>3 DEF TypeOK, CommitFirstTurn

\* FirstTurnFails keeps the types.
LEMMA FirstTurnFailsType == ASSUME TypeOK, NEW s \in Sessions, FirstTurnFails(s) PROVE TypeOK'
<1>1. run' \in [Sessions -> {"idle", "running", "failing", "settling"}]
  BY DEF TypeOK, FirstTurnFails, Set
<1>2. starts' \in SUBSET Starts
  <2>1. ASSUME NEW o \in Starts PROVE [o EXCEPT !.st = "failing"] \in Starts
    BY DEF Starts
  <2> QED BY <2>1 DEF TypeOK, FirstTurnFails
<1> QED BY <1>1, <1>2 DEF TypeOK, FirstTurnFails

\* CommitRun keeps the types.
LEMMA CommitRunType == ASSUME TypeOK, NEW s \in Sessions, CommitRun(s) PROVE TypeOK'
<1>1. db' \in [Sessions -> Durable]
  BY LiveAssumption DEF TypeOK, CommitRun, Commits, Durable
<1>2. binding' \in [Sessions -> Bindings]
  <2>1. binding[s].rev + 1 \in 0..MaxRev
    BY LiveAssumption DEF TypeOK, CommitRun, Bindings, Durable
  <2> QED BY <2>1, BindingFields DEF TypeOK, CommitRun
<1> QED BY <1>1, <1>2 DEF TypeOK, CommitRun

\* CommitFails keeps the types.
LEMMA CommitFailsType == ASSUME TypeOK, NEW s \in Sessions, CommitFails(s) PROVE TypeOK'
<1>1. binding' \in [Sessions -> Bindings]
  BY LiveAssumption DEF TypeOK, CommitFails, Commits, Bindings, Durable
<1> QED BY <1>1 DEF TypeOK, CommitFails

\* InvalidateContext keeps the types.
LEMMA InvalidateContextType == ASSUME TypeOK, NEW s \in Sessions, InvalidateContext(s) PROVE TypeOK'
<1>1. entry' \in [Sessions -> Entries]
  BY EntryOps DEF TypeOK, InvalidateContext, Commits, Set
<1>2. binding' \in [Sessions -> Bindings]
  BY LiveAssumption DEF TypeOK, InvalidateContext, Commits, Bindings, Set
<1> QED BY <1>1, <1>2 DEF TypeOK, InvalidateContext

\* EndRun keeps the types.
LEMMA EndRunType == ASSUME TypeOK, NEW s \in Sessions, EndRun(s) PROVE TypeOK'
<1>1. run' \in [Sessions -> {"idle", "running", "failing", "settling"}]
  BY DEF TypeOK, EndRun, Set
<1> QED BY <1>1 DEF TypeOK, EndRun

\* BeginPlan keeps the types.
LEMMA BeginPlanType == ASSUME TypeOK, NEW s \in Sessions, BeginPlan(s) PROVE TypeOK'
<1>1. planning' \in [Sessions -> BOOLEAN]
  BY DEF TypeOK, BeginPlan, Set
<1> QED BY <1>1 DEF TypeOK, BeginPlan

\* CommitPlan keeps the types.
LEMMA CommitPlanType == ASSUME TypeOK, NEW s \in Sessions, CommitPlan(s) PROVE TypeOK'
<1>1. db' \in [Sessions -> Durable]
  BY LiveAssumption DEF TypeOK, CommitPlan, Durable
<1>2. binding' \in [Sessions -> Bindings]
  <2>1. binding[s].rev + 1 \in 0..MaxRev
    BY LiveAssumption DEF TypeOK, CommitPlan, Bindings, Durable
  <2> QED BY <2>1, BindingFields DEF TypeOK, CommitPlan
<1>3. planning' \in [Sessions -> BOOLEAN]
  BY DEF TypeOK, CommitPlan, Set
<1> QED BY <1>1, <1>2, <1>3 DEF TypeOK, CommitPlan

\* PlanFails keeps the types.
LEMMA PlanFailsType == ASSUME TypeOK, NEW s \in Sessions, PlanFails(s) PROVE TypeOK'
<1>1. binding' \in [Sessions -> Bindings]
  <2>1. db[s].rev \in 0..MaxRev /\ binding \in [Sessions -> Bindings]
    BY DEF TypeOK, Durable
  <2>2. [binding EXCEPT ![s].invalid = TRUE] \in [Sessions -> Bindings]
    BY <2>1 DEF Bindings
  <2>3. binding' \in {binding, [binding EXCEPT ![s].rev = db[s].rev],
                      [binding EXCEPT ![s].invalid = TRUE]}
    BY Zenon DEF PlanFails
  <2>4. [binding EXCEPT ![s].rev = db[s].rev] \in [Sessions -> Bindings]
    BY <2>1, BindingFields
  <2> QED BY <2>1, <2>2, <2>3, <2>4
<1>2. entry' \in [Sessions -> Entries]
  <2>1. entry' = entry \/ entry' = Set(entry, s, Invalidated(entry[s], "closing"))
    BY Zenon DEF PlanFails
  <2>2. entry[s] \in Entries /\ Invalidated(entry[s], "closing") \in Entries
    BY EntryOps DEF TypeOK
  <2> QED BY <2>1, <2>2 DEF TypeOK, Set
<1>3. planning' \in [Sessions -> BOOLEAN]
  BY DEF TypeOK, PlanFails, Set
<1> QED BY <1>1, <1>2, <1>3 DEF TypeOK, PlanFails

\* UpdateSession keeps the types.
LEMMA UpdateSessionType == ASSUME TypeOK, NEW s \in Sessions, UpdateSession(s) PROVE TypeOK'
<1>1. db' \in [Sessions -> Durable]
  BY LiveAssumption DEF TypeOK, UpdateSession, Durable
<1>2. binding' \in [Sessions -> Bindings]
  <2>1. db[s].rev + 1 \in 0..MaxRev
    BY LiveAssumption DEF TypeOK, UpdateSession, Durable
  <2> QED BY <2>1, BindingFields DEF TypeOK, UpdateSession
<1> QED BY <1>1, <1>2 DEF TypeOK, UpdateSession

\* TeardownSettled keeps the types.
LEMMA TeardownSettledType == ASSUME TypeOK, NEW s \in Sessions, TeardownSettled(s) PROVE TypeOK'
<1>1. entry' \in [Sessions -> Entries]
  BY EntryFields DEF TypeOK, TeardownSettled
<1> QED BY <1>1 DEF TypeOK, TeardownSettled

\* CloseContext keeps the types.
LEMMA CloseContextType == ASSUME TypeOK, NEW s \in Sessions, CloseContext(s) PROVE TypeOK'
<1>1. ctx' \in [Sessions -> {"none", "open", "closing"}]
  BY DEF TypeOK, CloseContext, Set
<1> QED BY <1>1 DEF TypeOK, CloseContext

\* FinishTeardown keeps the types.
LEMMA FinishTeardownType == ASSUME TypeOK, NEW s \in Sessions, FinishTeardown(s) PROVE TypeOK'
<1>1. entry' \in [Sessions -> Entries]
  BY EntryOps DEF TypeOK, FinishTeardown, Forget, Set
<1>2. ctx' \in [Sessions -> {"none", "open", "closing"}]
  BY DEF TypeOK, FinishTeardown, Forget, Set
<1>3. binding' \in [Sessions -> Bindings]
  BY LiveAssumption DEF TypeOK, FinishTeardown, Forget, Bindings, Entries, Token0, NoBinding, Set
<1>4. run' \in [Sessions -> {"idle", "running", "failing", "settling"}]
  BY DEF TypeOK, FinishTeardown, Set
<1> QED BY <1>1, <1>2, <1>3, <1>4 DEF TypeOK, FinishTeardown

\* ReserveMutation keeps the types.
LEMMA ReserveMutationType == ASSUME TypeOK, NEW s \in Sessions, ReserveMutation(s) PROVE TypeOK'
<1>1. entry' \in [Sessions -> Entries]
  <2>1. PICK t \in Tokens : entry' = Set(entry, s,
           IF entry[s].phase = "live" THEN [entry[s] EXCEPT !.phase = "mutating", !.op = t]
           ELSE [NoEntry EXCEPT !.phase = "mutating", !.owner = t, !.op = t])
    BY DEF ReserveMutation, Fresh
  <2>2. entry[s] \in Entries BY DEF TypeOK
  <2>3. /\ [entry[s] EXCEPT !.phase = "mutating", !.op = t] \in Entries
        /\ [NoEntry EXCEPT !.phase = "mutating", !.owner = t, !.op = t] \in Entries
    BY <2>2, EntryOps
  <2> QED BY <2>1, <2>3 DEF TypeOK, Set
<1> QED BY <1>1 DEF TypeOK, ReserveMutation

\* BindMutation keeps the types.
LEMMA BindMutationType == ASSUME TypeOK, NEW s \in Sessions, BindMutation(s) PROVE TypeOK'
<1>1. entry' \in [Sessions -> Entries]
  BY EntryFields DEF TypeOK, BindMutation
<1> QED BY <1>1 DEF TypeOK, BindMutation

\* ReleaseMutation keeps the types.
LEMMA ReleaseMutationType == ASSUME TypeOK, NEW s \in Sessions, ReleaseMutation(s) PROVE TypeOK'
<1>1. entry' \in [Sessions -> Entries]
  BY EntryOps DEF TypeOK, ReleaseMutation, Unreserved, Set
<1> QED BY <1>1 DEF TypeOK, ReleaseMutation

\* ReserveEviction keeps the types.
LEMMA ReserveEvictionType == ASSUME TypeOK, NEW s \in Sessions, NEW k \in {"archive", "rewind"},
   ReserveEviction(s, k) PROVE TypeOK'
<1>1. entry' \in [Sessions -> Entries]
  <2>1. PICK t \in Tokens : entry' = Set(entry, s,
           IF entry[s].phase = "live" THEN [entry[s] EXCEPT !.phase = "evicting", !.op = t]
           ELSE [NoEntry EXCEPT !.phase = "evicting", !.owner = t, !.op = t])
    BY DEF ReserveEviction, Fresh
  <2>2. entry[s] \in Entries BY DEF TypeOK
  <2>3. /\ [entry[s] EXCEPT !.phase = "evicting", !.op = t] \in Entries
        /\ [NoEntry EXCEPT !.phase = "evicting", !.owner = t, !.op = t] \in Entries
    BY <2>2, EntryOps
  <2> QED BY <2>1, <2>3 DEF TypeOK, Set
<1>2. evop' \in [Sessions -> Evops]
  BY DEF TypeOK, ReserveEviction, Fresh, Evops, Token0, NoEvop, Set
<1> QED BY <1>1, <1>2 DEF TypeOK, ReserveEviction

\* FinishEviction keeps the types.
LEMMA FinishEvictionType == ASSUME TypeOK, NEW s \in Sessions, FinishEviction(s) PROVE TypeOK'
<1>1. db' \in [Sessions -> Durable]
  BY LiveAssumption DEF TypeOK, FinishEviction, Durable, Set
<1>2. entry' \in [Sessions -> Entries]
  BY EntryOps DEF TypeOK, FinishEviction, Holds, Set
<1>3. evop' \in [Sessions -> Evops]
  BY DEF TypeOK, FinishEviction, Evops, Token0, NoEvop, Set
<1> QED BY <1>1, <1>2, <1>3 DEF TypeOK, FinishEviction

\* CancelEviction keeps the types.
LEMMA CancelEvictionType == ASSUME TypeOK, NEW s \in Sessions, CancelEviction(s) PROVE TypeOK'
<1>1. entry' \in [Sessions -> Entries]
  BY EntryOps DEF TypeOK, CancelEviction, Holds, Unreserved, Set
<1>2. evop' \in [Sessions -> Evops]
  BY DEF TypeOK, CancelEviction, Evops, Token0, NoEvop, Set
<1> QED BY <1>1, <1>2 DEF TypeOK, CancelEviction

\* Check keeps the types.
LEMMA CheckType == ASSUME TypeOK, NEW s \in Sessions, NEW k \in {"restore", "delete"},
   Check(s, k) PROVE TypeOK'
<1>1. checked' \in SUBSET Checks
  BY DEF TypeOK, Check, Checks
<1> QED BY <1>1 DEF TypeOK, Check

\* FinishChecked keeps the types.
LEMMA FinishCheckedType == ASSUME TypeOK, NEW c \in checked, FinishChecked(c) PROVE TypeOK'
<1>1. c.s \in Sessions
  BY DEF TypeOK, Checks
<1>2. db' \in [Sessions -> Durable]
  <2>1. Gone \in Durable
    BY LiveAssumption DEF Gone, Durable
  <2>2. db[c.s].rev < MaxRev => [life |-> "active", rev |-> db[c.s].rev + 1] \in Durable
    BY <1>1, LiveAssumption DEF TypeOK, Durable
  <2> QED BY <1>1, <2>1, <2>2 DEF TypeOK, FinishChecked, Set
<1>3. checked' \in SUBSET Checks
  BY DEF TypeOK, FinishChecked
<1> QED BY <1>2, <1>3 DEF TypeOK, FinishChecked

\* ReserveProjectEviction keeps the types.
LEMMA ReserveProjectEvictionType == ASSUME TypeOK, NEW p \in Projects,
   ReserveProjectEviction(p) PROVE TypeOK'
<1>1. entry' \in [Sessions -> Entries]
  <2>1. ASSUME NEW s \in Sessions, NEW t \in Tokens PROVE TakenBy(s, p, t) \in Entries
    BY EntryOps DEF TypeOK, TakenBy
  <2> QED BY <2>1 DEF TypeOK, ReserveProjectEviction, Fresh
<1>2. evicting' \in [Projects -> Token0]
  BY DEF TypeOK, ReserveProjectEviction, Fresh, Token0, Set
<1>3. removal' \in [Projects -> Removals]
  <2>1. ASSUME NEW t \in Tokens PROVE [st |-> "commit", tok |-> t, list |-> {}] \in Removals
    BY DEF Removals, Token0
  <2> QED BY <2>1 DEF TypeOK, ReserveProjectEviction, Fresh, Set
<1> QED BY <1>1, <1>2, <1>3 DEF TypeOK, ReserveProjectEviction

\* CommitProject keeps the types.
LEMMA CommitProjectType == ASSUME TypeOK, NEW p \in Projects, CommitProject(p) PROVE TypeOK'
<1>1. db' \in [Sessions -> Durable]
  BY LiveAssumption DEF TypeOK, CommitProject, Durable, Gone
<1>2. projects' \in SUBSET Projects
  BY DEF TypeOK, CommitProject, Taken
<1>3. removal' \in [Projects -> Removals]
  <2>1. Taken(p, removal[p].tok) \in SUBSET Sessions
    BY DEF Taken, SessionsOf
  <2>2. removal[p] \in Removals
    BY DEF TypeOK
  <2>3. [removal[p] EXCEPT !.st = "evict", !.list = Taken(p, removal[p].tok)] \in Removals
    BY <2>1, <2>2 DEF Removals
  <2> QED BY <2>3 DEF TypeOK, CommitProject
<1> QED BY <1>1, <1>2, <1>3 DEF TypeOK, CommitProject

\* CancelProject keeps the types.
LEMMA CancelProjectType == ASSUME TypeOK, NEW p \in Projects, CancelProject(p) PROVE TypeOK'
<1>1. entry' \in [Sessions -> Entries]
  <2>1. ASSUME NEW s \in Sessions PROVE GivenBack(s, p) \in Entries
    BY EntryOps DEF TypeOK, GivenBack
  <2> QED BY <2>1 DEF TypeOK, CancelProject
<1>2. evicting' \in [Projects -> Token0]
  BY DEF TypeOK, CancelProject, Taken, Token0, Set
<1>3. removal' \in [Projects -> Removals]
  BY DEF TypeOK, CancelProject, Taken, Removals, Token0, NoRemoval, Set
<1> QED BY <1>1, <1>2, <1>3 DEF TypeOK, CancelProject

\* EvictOne keeps the types.
LEMMA EvictOneType == ASSUME TypeOK, NEW p \in Projects, EvictOne(p) PROVE TypeOK'
<1>1. entry' \in [Sessions -> Entries]
  <2>1. PICK s \in Sessions : entry' = Set(entry, s, TornDown(entry[s], "closing"))
    BY DEF EvictOne, TypeOK, Removals
  <2> QED BY <2>1, EntryOps DEF TypeOK, Set
<1> QED BY <1>1 DEF TypeOK, EvictOne

\* FinishProject keeps the types.
LEMMA FinishProjectType == ASSUME TypeOK, NEW p \in Projects, FinishProject(p) PROVE TypeOK'
<1>1. evicting' \in [Projects -> Token0]
  BY DEF TypeOK, FinishProject, Token0, Set
<1>2. removal' \in [Projects -> Removals]
  BY DEF TypeOK, FinishProject, Removals, Token0, NoRemoval, Set
<1> QED BY <1>1, <1>2 DEF TypeOK, FinishProject

\* AddProject keeps the types.
LEMMA AddProjectType == ASSUME TypeOK, NEW p \in Projects, AddProject(p) PROVE TypeOK'
<1>1. projects' \in SUBSET Projects
  BY DEF TypeOK, AddProject
<1> QED BY <1>1 DEF TypeOK, AddProject

\* The starts in progress are about Sessions.
LEMMA Typed == Inv => \A o \in starts : o \in Starts /\ o.s \in Sessions /\ o.tok \in Tokens
BY DEF Inv, TypeOK, Starts

\* ReserveNew preserves the invariant.
LEMMA ReserveNewInv == ASSUME Inv, NEW s \in Sessions, ReserveNew(s) PROVE Inv'
<1>1. TypeOK'
  BY Typed, ReserveNewType DEF Inv
<1>2. ASSUME NEW q \in Sessions PROVE SessionInv(q)'
  <2> USE LiveAssumption DEF Inv, TypeOK, ReserveNew, Fresh, InUse, NoEntry, NoBinding, NoLoad,
     NoEvop, NoRemoval, Gone, Set,
         StartInv, RemovalInv, SessionsOf, SessionInv, EntryShape, Ownership, Ready, Load,
            Running, Evicted
  <2>1. EntryShape(q)' OBVIOUS
  <2>2. Ownership(q)' OBVIOUS
  <2>3. Ready(q)' OBVIOUS
  <2>4. Load(q)' OBVIOUS
  <2>5. Running(q)' OBVIOUS
  <2>6. Evicted(q)' OBVIOUS
  <2> QED BY <2>1, <2>2, <2>3, <2>4, <2>5, <2>6 DEF SessionInv
<1>3. \A x \in starts' : StartInv(x)'
  BY Typed DEF Inv, TypeOK, ReserveNew, Fresh, InUse, NoEntry, NoBinding, NoLoad, NoEvop,
     NoRemoval, Gone, Set, Starts,
     SessionInv, StartInv, StartTokens, EntryShape, Ready, Load, Running
<1>4. \A x \in Projects : RemovalInv(x)'
  BY LiveAssumption, Typed DEF Inv, TypeOK, ReserveNew, Fresh, InUse, NoEntry, NoBinding, NoLoad,
     NoEvop, NoRemoval, Gone, Set,
     SessionInv, RemovalInv, SessionsOf, EntryShape, Ready, Load, Running, Taken
<1>5. StartTokens'
  BY Typed DEF Inv, TypeOK, StartTokens, ReserveNew, Fresh, InUse, NoEntry, NoBinding, NoLoad,
     NoEvop, NoRemoval, Gone, Set, Starts
<1> QED BY <1>1, <1>2, <1>3, <1>4, <1>5 DEF Inv

\* Ask preserves the invariant.
LEMMA AskInv == ASSUME Inv, NEW o \in starts, Ask(o) PROVE Inv'
<1>1. TypeOK'
  BY Typed, AskType DEF Inv
<1>2. \A q \in Sessions : SessionInv(q)'
  BY DEF Inv, Ask, SessionInv, EntryShape, Ownership, Ready, Load, Running, Evicted
<1>3. \A x \in starts' : StartInv(x)'
  <2> SUFFICES ASSUME NEW x \in starts' PROVE StartInv(x)'
    OBVIOUS
  <2>1. UNCHANGED <<db, projects, entry, run, binding>> /\ o \in Starts
    BY Typed DEF Ask
  <2>2. CASE x \in starts
    BY <2>1, <2>2 DEF Inv, StartInv
  <2>3. CASE x \notin starts
    <3>1. x.s = o.s /\ x.tok = o.tok /\ x.st = "creating" /\ o.st = "asked"
      BY <2>1, <2>3 DEF Ask, Step, Starts
    <3>2. StartInv(o) /\ db[o.s].life = "none" /\ ProjectOf[o.s] \in projects
      BY DEF Inv, Ask
    <3> QED BY <2>1, <3>1, <3>2 DEF StartInv
  <2> QED BY <2>2, <2>3
<1>4. \A x \in Projects : RemovalInv(x)'
  BY LiveAssumption, Typed DEF Inv, TypeOK, Ask, Step, NoEntry, Set, SessionInv,
     RemovalInv, SessionsOf, EntryShape, Ready, Load, Running, Taken
<1>5. StartTokens'
  BY Typed DEF Inv, TypeOK, StartTokens, Ask, Step, Set, Starts
<1> QED BY <1>1, <1>2, <1>3, <1>4, <1>5 DEF Inv

\* CreateFails preserves the invariant.
LEMMA CreateFailsInv == ASSUME Inv, NEW o \in starts, CreateFails(o) PROVE Inv'
<1>1. TypeOK'
  BY Typed, CreateFailsType DEF Inv
<1>2. \A q \in Sessions : SessionInv(q)'
  BY DEF Inv, CreateFails, SessionInv, EntryShape, Ownership, Ready, Load, Running, Evicted
<1>3. \A x \in starts' : StartInv(x)'
  BY Typed DEF Inv, TypeOK, CreateFails, Step, NoEntry, NoBinding, NoLoad, NoEvop, NoRemoval,
     Gone, Set, Starts,
     SessionInv, StartInv, StartTokens, EntryShape, Ready, Load, Running
<1>4. \A x \in Projects : RemovalInv(x)'
  BY LiveAssumption, Typed DEF Inv, TypeOK, CreateFails, Step, NoEntry, NoBinding, NoLoad,
     NoEvop, NoRemoval, Gone, Set,
     SessionInv, RemovalInv, SessionsOf, EntryShape, Ready, Load, Running, Taken
<1>5. StartTokens'
  BY Typed DEF Inv, TypeOK, StartTokens, CreateFails, Step, NoEntry, NoBinding, NoLoad, NoEvop,
     NoRemoval, Gone, Set, Starts
<1> QED BY <1>1, <1>2, <1>3, <1>4, <1>5 DEF Inv

\* Created preserves the invariant.
LEMMA CreatedInv == ASSUME Inv, NEW o \in starts, Created(o) PROVE Inv'
<1>1. TypeOK'
  BY Typed, CreatedType DEF Inv
<1>2. ASSUME NEW q \in Sessions PROVE SessionInv(q)'
  <2> USE LiveAssumption, Typed DEF Inv, TypeOK, Created, Step, Entries, NoEntry, NoBinding,
     NoLoad, NoEvop, NoRemoval, Gone, Set,
         StartInv, RemovalInv, SessionsOf, SessionInv, EntryShape, Ownership, Ready, Load,
            Running, Evicted
  <2>1. EntryShape(q)' OBVIOUS
  <2>2. Ownership(q)' OBVIOUS
  <2>3. Ready(q)' OBVIOUS
  <2>4. Load(q)' OBVIOUS
  <2>5. Running(q)' OBVIOUS
  <2>6. Evicted(q)' OBVIOUS
  <2> QED BY <2>1, <2>2, <2>3, <2>4, <2>5, <2>6 DEF SessionInv
<1>3. \A x \in starts' : StartInv(x)'
  <2> SUFFICES ASSUME NEW x \in starts' PROVE StartInv(x)'
    OBVIOUS
  <2>1. /\ entry[o.s].owner = o.tok /\ entry[o.s].phase = "reserved"
        /\ db[o.s].life = "none" /\ o \in Starts /\ o.s \in Sessions
        /\ binding[o.s].owner \in {0, o.tok}
    BY Typed DEF Created, Inv, StartInv, SessionInv, Ownership
  <2>2. run[o.s] = "idle"
    BY <2>1 DEF Inv, TypeOK, SessionInv, EntryShape, Running
  <2>3. /\ \A s \in Sessions : s # o.s => /\ entry'[s] = entry[s] /\ run'[s] = run[s]
                                        /\ binding'[s] = binding[s]
        /\ entry'[o.s].owner = o.tok /\ entry'[o.s].phase = "live" /\ binding'[o.s].isNew
        /\ UNCHANGED <<db, projects>>
    <3>1. /\ entry' = [entry EXCEPT ![o.s].phase = "live"]
          /\ binding' = Set(binding, o.s, [owner |-> o.tok, isNew |-> TRUE, invalid |-> FALSE, rev |-> 1])
          /\ UNCHANGED <<db, projects>>
          /\ run' = run \/ run' = Set(run, o.s, "running")
      BY <2>1, Zenon DEF Created
    <3> QED BY <2>1, <3>1 DEF Inv, TypeOK, Entries, Set
  <2>4. CASE x \in starts \ {o}
    <3>1. x.tok # o.tok /\ x.s \in Sessions /\ StartInv(x)
      BY <2>4, Typed DEF Inv, StartTokens
    <3>2. CASE x.s = o.s
      BY <2>1, <2>3, <3>1, <3>2 DEF StartInv
    <3>3. CASE x.s # o.s
      BY <2>3, <3>1, <3>3 DEF StartInv
    <3> QED BY <3>2, <3>3
  <2>5. CASE x \notin starts \ {o}
    <3>1. x.s = o.s /\ x.tok = o.tok
      BY <2>5, Typed DEF Created, Step, Starts
    <3>2. x.st = "started" \/ (x.st = "failing" /\ run' = run)
      BY <2>5, Typed DEF Created, Step, Starts
    <3> QED BY <2>1, <2>2, <2>3, <3>1, <3>2 DEF StartInv
  <2> QED BY <2>4, <2>5
<1>4. \A x \in Projects : RemovalInv(x)'
  BY LiveAssumption, Typed DEF Inv, TypeOK, Created, Step, Entries, NoEntry, NoBinding, NoLoad,
     NoEvop, NoRemoval, Gone, Set,
     SessionInv, RemovalInv, SessionsOf, EntryShape, Ready, Load, Running, Taken
<1>5. StartTokens'
  BY Typed DEF Inv, TypeOK, StartTokens, Created, Step, NoEntry, NoBinding, NoLoad, NoEvop,
     NoRemoval, Gone, Set, Starts
<1> QED BY <1>1, <1>2, <1>3, <1>4, <1>5 DEF Inv

\* StartFails preserves the invariant.
LEMMA StartFailsInv == ASSUME Inv, NEW o \in starts, StartFails(o) PROVE Inv'
<1>1. TypeOK'
  BY Typed, StartFailsType DEF Inv
<1>2. \A q \in Sessions : SessionInv(q)'
  BY DEF Inv, StartFails, SessionInv, EntryShape, Ownership, Ready, Load, Running, Evicted
<1>3. \A x \in starts' : StartInv(x)'
  BY Typed DEF Inv, TypeOK, StartFails, Step, NoEntry, NoBinding, NoLoad, NoEvop, NoRemoval,
     Gone, Set, Starts,
     SessionInv, StartInv, StartTokens, EntryShape, Ready, Load, Running
<1>4. \A x \in Projects : RemovalInv(x)'
  BY LiveAssumption, Typed DEF Inv, TypeOK, StartFails, Step, NoEntry, NoBinding, NoLoad, NoEvop,
     NoRemoval, Gone, Set,
     SessionInv, RemovalInv, SessionsOf, EntryShape, Ready, Load, Running, Taken
<1>5. StartTokens'
  BY Typed DEF Inv, TypeOK, StartTokens, StartFails, Step, NoEntry, NoBinding, NoLoad, NoEvop,
     NoRemoval, Gone, Set, Starts
<1> QED BY <1>1, <1>2, <1>3, <1>4, <1>5 DEF Inv

\* ReleaseOwned preserves the invariant.
LEMMA ReleaseOwnedInv == ASSUME Inv, NEW o \in starts, ReleaseOwned(o) PROVE Inv'
<1>1. TypeOK'
  BY Typed, ReleaseOwnedType DEF Inv
<1>2. ASSUME NEW q \in Sessions PROVE SessionInv(q)'
  <2> USE LiveAssumption, Typed DEF Inv, TypeOK, ReleaseOwned, TornDown, Entries, NoEntry,
     NoBinding, NoLoad, NoEvop, NoRemoval, Gone, Set,
         StartInv, RemovalInv, SessionsOf, SessionInv, EntryShape, Ownership, Ready, Load,
            Running, Evicted
  <2>1. EntryShape(q)' OBVIOUS
  <2>2. Ownership(q)' OBVIOUS
  <2>3. Ready(q)' OBVIOUS
  <2>4. Load(q)' OBVIOUS
  <2>5. Running(q)' OBVIOUS
  <2>6. Evicted(q)' OBVIOUS
  <2> QED BY <2>1, <2>2, <2>3, <2>4, <2>5, <2>6 DEF SessionInv
<1>3. \A x \in starts' : StartInv(x)'
  BY Typed DEF Inv, TypeOK, ReleaseOwned, TornDown, Entries, NoEntry, NoBinding, NoLoad, NoEvop,
     NoRemoval, Gone, Set, Starts,
     SessionInv, StartInv, StartTokens, EntryShape, Ready, Load, Running
<1>4. \A x \in Projects : RemovalInv(x)'
  BY LiveAssumption, Typed DEF Inv, TypeOK, ReleaseOwned, TornDown, Entries, NoEntry, NoBinding,
     NoLoad, NoEvop, NoRemoval, Gone, Set,
     SessionInv, RemovalInv, SessionsOf, EntryShape, Ready, Load, Running, Taken
<1>5. StartTokens'
  BY Typed DEF Inv, TypeOK, StartTokens, ReleaseOwned, TornDown, NoEntry, NoBinding, NoLoad,
     NoEvop, NoRemoval, Gone, Set, Starts
<1> QED BY <1>1, <1>2, <1>3, <1>4, <1>5 DEF Inv

\* EnsureLoaded preserves the invariant.
LEMMA EnsureLoadedInv == ASSUME Inv, NEW s \in Sessions, EnsureLoaded(s) PROVE Inv'
<1>1. TypeOK'
  BY Typed, EnsureLoadedType DEF Inv
<1>2. ASSUME NEW q \in Sessions PROVE SessionInv(q)'
  <2> USE LiveAssumption DEF Inv, TypeOK, EnsureLoaded, Fresh, InUse, NoEntry, NoBinding, NoLoad,
     NoEvop, NoRemoval, Gone, Set,
         StartInv, RemovalInv, SessionsOf, SessionInv, EntryShape, Ownership, Ready, Load,
            Running, Evicted
  <2>1. EntryShape(q)' OBVIOUS
  <2>2. Ownership(q)' OBVIOUS
  <2>3. Ready(q)' OBVIOUS
  <2>4. Load(q)' OBVIOUS
  <2>5. Running(q)' OBVIOUS
  <2>6. Evicted(q)' OBVIOUS
  <2> QED BY <2>1, <2>2, <2>3, <2>4, <2>5, <2>6 DEF SessionInv
<1>3. \A x \in starts' : StartInv(x)'
  BY Typed DEF Inv, TypeOK, EnsureLoaded, Fresh, InUse, NoEntry, NoBinding, NoLoad, NoEvop,
     NoRemoval, Gone, Set, Starts,
     SessionInv, StartInv, StartTokens, EntryShape, Ready, Load, Running
<1>4. \A x \in Projects : RemovalInv(x)'
  BY LiveAssumption, Typed DEF Inv, TypeOK, EnsureLoaded, Fresh, InUse, NoEntry, NoBinding,
     NoLoad, NoEvop, NoRemoval, Gone, Set,
     SessionInv, RemovalInv, SessionsOf, EntryShape, Ready, Load, Running, Taken
<1>5. StartTokens'
  BY Typed DEF Inv, TypeOK, StartTokens, EnsureLoaded, Fresh, InUse, NoEntry, NoBinding, NoLoad,
     NoEvop, NoRemoval, Gone, Set, Starts
<1> QED BY <1>1, <1>2, <1>3, <1>4, <1>5 DEF Inv

\* LoadRead preserves the invariant.
LEMMA LoadReadInv == ASSUME Inv, NEW s \in Sessions, LoadRead(s) PROVE Inv'
<1>1. TypeOK'
  BY Typed, LoadReadType DEF Inv
<1>2. ASSUME NEW q \in Sessions PROVE SessionInv(q)'
  <2> USE LiveAssumption DEF Inv, TypeOK, LoadRead, LoadMayBind, LoadMayRestore, Entries,
     NoEntry, NoBinding, NoLoad, NoEvop, NoRemoval, Gone, Set,
         StartInv, RemovalInv, SessionsOf, SessionInv, EntryShape, Ownership, Ready, Load,
            Running, Evicted
  <2>1. EntryShape(q)' OBVIOUS
  <2>2. Ownership(q)' OBVIOUS
  <2>3. Ready(q)' OBVIOUS
  <2>4. Load(q)' OBVIOUS
  <2>5. Running(q)' OBVIOUS
  <2>6. Evicted(q)' OBVIOUS
  <2> QED BY <2>1, <2>2, <2>3, <2>4, <2>5, <2>6 DEF SessionInv
<1>3. \A x \in starts' : StartInv(x)'
  BY Typed DEF Inv, TypeOK, LoadRead, LoadMayBind, LoadMayRestore, Entries, NoEntry, NoBinding,
     NoLoad, NoEvop, NoRemoval, Gone, Set, Starts,
     SessionInv, StartInv, StartTokens, EntryShape, Ready, Load, Running
<1>4. \A x \in Projects : RemovalInv(x)'
  BY LiveAssumption, Typed DEF Inv, TypeOK, LoadRead, LoadMayBind, LoadMayRestore, Entries,
     NoEntry, NoBinding, NoLoad, NoEvop, NoRemoval, Gone, Set,
     SessionInv, RemovalInv, SessionsOf, EntryShape, Ready, Load, Running, Taken
<1>5. StartTokens'
  BY Typed DEF Inv, TypeOK, StartTokens, LoadRead, LoadMayBind, LoadMayRestore, NoEntry,
     NoBinding, NoLoad, NoEvop, NoRemoval, Gone, Set, Starts
<1> QED BY <1>1, <1>2, <1>3, <1>4, <1>5 DEF Inv

\* LoadRefused preserves the invariant.
LEMMA LoadRefusedInv == ASSUME Inv, NEW s \in Sessions, LoadRefused(s) PROVE Inv'
<1>1. TypeOK'
  BY Typed, LoadRefusedType DEF Inv
<1>2. ASSUME NEW q \in Sessions PROVE SessionInv(q)'
  <2> USE LiveAssumption DEF Inv, TypeOK, LoadRefused, LoadFails, LoadMayBind, Entries, NoEntry,
     NoBinding, NoLoad, NoEvop, NoRemoval, Gone, Set,
         StartInv, RemovalInv, SessionsOf, SessionInv, EntryShape, Ownership, Ready, Load,
            Running, Evicted
  <2>1. EntryShape(q)' OBVIOUS
  <2>2. Ownership(q)' OBVIOUS
  <2>3. Ready(q)' OBVIOUS
  <2>4. Load(q)' OBVIOUS
  <2>5. Running(q)' OBVIOUS
  <2>6. Evicted(q)' OBVIOUS
  <2> QED BY <2>1, <2>2, <2>3, <2>4, <2>5, <2>6 DEF SessionInv
<1>3. \A x \in starts' : StartInv(x)'
  BY Typed DEF Inv, TypeOK, LoadRefused, LoadFails, LoadMayBind, Entries, NoEntry, NoBinding,
     NoLoad, NoEvop, NoRemoval, Gone, Set, Starts,
     SessionInv, StartInv, StartTokens, EntryShape, Ready, Load, Running
<1>4. \A x \in Projects : RemovalInv(x)'
  BY LiveAssumption, Typed DEF Inv, TypeOK, LoadRefused, LoadFails, LoadMayBind, Entries,
     NoEntry, NoBinding, NoLoad, NoEvop, NoRemoval, Gone, Set,
     SessionInv, RemovalInv, SessionsOf, EntryShape, Ready, Load, Running, Taken
<1>5. StartTokens'
  BY Typed DEF Inv, TypeOK, StartTokens, LoadRefused, LoadFails, LoadMayBind, NoEntry, NoBinding,
     NoLoad, NoEvop, NoRemoval, Gone, Set, Starts
<1> QED BY <1>1, <1>2, <1>3, <1>4, <1>5 DEF Inv

\* LoadRestore preserves the invariant.
LEMMA LoadRestoreInv == ASSUME Inv, NEW s \in Sessions, LoadRestore(s) PROVE Inv'
<1>1. TypeOK'
  BY Typed, LoadRestoreType DEF Inv
<1>2. ASSUME NEW q \in Sessions PROVE SessionInv(q)'
  <2> USE LiveAssumption DEF Inv, TypeOK, LoadRestore, LoadFails, Loads, NoEntry, NoBinding,
     NoLoad, NoEvop, NoRemoval, Gone, Set,
         StartInv, RemovalInv, SessionsOf, SessionInv, EntryShape, Ownership, Ready, Load,
            Running, Evicted
  <2>1. EntryShape(q)' OBVIOUS
  <2>2. Ownership(q)' BY SMTT(60)
  <2>3. Ready(q)' OBVIOUS
  <2>4. Load(q)' OBVIOUS
  <2>5. Running(q)' OBVIOUS
  <2>6. Evicted(q)' BY SMTT(60)
  <2> QED BY <2>1, <2>2, <2>3, <2>4, <2>5, <2>6 DEF SessionInv
<1>3. \A x \in starts' : StartInv(x)'
  BY Typed DEF Inv, TypeOK, LoadRestore, LoadFails, Loads, NoEntry, NoBinding, NoLoad, NoEvop,
     NoRemoval, Gone, Set, Starts,
     SessionInv, StartInv, StartTokens, EntryShape, Ready, Load, Running
<1>4. \A x \in Projects : RemovalInv(x)'
  BY LiveAssumption, Typed DEF Inv, TypeOK, LoadRestore, LoadFails, Loads, NoEntry, NoBinding,
     NoLoad, NoEvop, NoRemoval, Gone, Set,
     SessionInv, RemovalInv, SessionsOf, EntryShape, Ready, Load, Running, Taken
<1>5. StartTokens'
  BY Typed DEF Inv, TypeOK, StartTokens, LoadRestore, LoadFails, NoEntry, NoBinding, NoLoad,
     NoEvop, NoRemoval, Gone, Set, Starts
<1> QED BY <1>1, <1>2, <1>3, <1>4, <1>5 DEF Inv

\* LoadAccepted preserves the invariant.
LEMMA LoadAcceptedInv == ASSUME Inv, NEW s \in Sessions, LoadAccepted(s) PROVE Inv'
<1>1. TypeOK'
  BY Typed, LoadAcceptedType DEF Inv
<1>2. ASSUME NEW q \in Sessions PROVE SessionInv(q)'
  <2> USE LiveAssumption DEF Inv, TypeOK, LoadAccepted, LoadUnchanged, Entries, NoEntry,
     NoBinding, NoLoad, NoEvop, NoRemoval, Gone, Set,
         StartInv, RemovalInv, SessionsOf, SessionInv, EntryShape, Ownership, Ready, Load,
            Running, Evicted
  <2>1. EntryShape(q)' OBVIOUS
  <2>2. Ownership(q)' OBVIOUS
  <2>3. Ready(q)' OBVIOUS
  <2>4. Load(q)' OBVIOUS
  <2>5. Running(q)' OBVIOUS
  <2>6. Evicted(q)' OBVIOUS
  <2> QED BY <2>1, <2>2, <2>3, <2>4, <2>5, <2>6 DEF SessionInv
<1>3. \A x \in starts' : StartInv(x)'
  BY Typed DEF Inv, TypeOK, LoadAccepted, LoadUnchanged, Entries, NoEntry, NoBinding, NoLoad,
     NoEvop, NoRemoval, Gone, Set, Starts,
     SessionInv, StartInv, StartTokens, EntryShape, Ready, Load, Running
<1>4. \A x \in Projects : RemovalInv(x)'
  BY LiveAssumption, Typed DEF Inv, TypeOK, LoadAccepted, LoadUnchanged, Entries, NoEntry,
     NoBinding, NoLoad, NoEvop, NoRemoval, Gone, Set,
     SessionInv, RemovalInv, SessionsOf, EntryShape, Ready, Load, Running, Taken
<1>5. StartTokens'
  BY Typed DEF Inv, TypeOK, StartTokens, LoadAccepted, LoadUnchanged, NoEntry, NoBinding, NoLoad,
     NoEvop, NoRemoval, Gone, Set, Starts
<1> QED BY <1>1, <1>2, <1>3, <1>4, <1>5 DEF Inv

\* LoadStale preserves the invariant.
LEMMA LoadStaleInv == ASSUME Inv, NEW s \in Sessions, LoadStale(s) PROVE Inv'
<1>1. TypeOK'
  BY Typed, LoadStaleType DEF Inv
<1>2. ASSUME NEW q \in Sessions PROVE SessionInv(q)'
  <2> USE LiveAssumption DEF Inv, TypeOK, LoadStale, LoadFails, NoEntry, NoBinding, NoLoad,
     NoEvop, NoRemoval, Gone, Set,
         StartInv, RemovalInv, SessionsOf, SessionInv, EntryShape, Ownership, Ready, Load,
            Running, Evicted
  <2>1. EntryShape(q)' OBVIOUS
  <2>2. Ownership(q)' OBVIOUS
  <2>3. Ready(q)' OBVIOUS
  <2>4. Load(q)' OBVIOUS
  <2>5. Running(q)' OBVIOUS
  <2>6. Evicted(q)' OBVIOUS
  <2> QED BY <2>1, <2>2, <2>3, <2>4, <2>5, <2>6 DEF SessionInv
<1>3. \A x \in starts' : StartInv(x)'
  BY Typed DEF Inv, TypeOK, LoadStale, LoadFails, NoEntry, NoBinding, NoLoad, NoEvop, NoRemoval,
     Gone, Set, Starts,
     SessionInv, StartInv, StartTokens, EntryShape, Ready, Load, Running
<1>4. \A x \in Projects : RemovalInv(x)'
  BY LiveAssumption, Typed DEF Inv, TypeOK, LoadStale, LoadFails, NoEntry, NoBinding, NoLoad,
     NoEvop, NoRemoval, Gone, Set,
     SessionInv, RemovalInv, SessionsOf, EntryShape, Ready, Load, Running, Taken
<1>5. StartTokens'
  BY Typed DEF Inv, TypeOK, StartTokens, LoadStale, LoadFails, NoEntry, NoBinding, NoLoad,
     NoEvop, NoRemoval, Gone, Set, Starts
<1> QED BY <1>1, <1>2, <1>3, <1>4, <1>5 DEF Inv

\* CleanupFailedLoad preserves the invariant.
LEMMA CleanupFailedLoadInv == ASSUME Inv, NEW s \in Sessions, CleanupFailedLoad(s) PROVE Inv'
<1>1. TypeOK'
  BY Typed, CleanupFailedLoadType DEF Inv
<1>2. ASSUME NEW q \in Sessions PROVE SessionInv(q)'
  <2> USE LiveAssumption DEF Inv, TypeOK, CleanupFailedLoad, Forget, NoEntry, NoBinding, NoLoad,
     NoEvop, NoRemoval, Gone, Set,
         StartInv, RemovalInv, SessionsOf, SessionInv, EntryShape, Ownership, Ready, Load,
            Running, Evicted
  <2>1. EntryShape(q)' BY SMTT(60)
  <2>2. Ownership(q)' OBVIOUS
  <2>3. Ready(q)' OBVIOUS
  <2>4. Load(q)' BY SMTT(30)
  <2>5. Running(q)' BY SMTT(60)
  <2>6. Evicted(q)' OBVIOUS
  <2> QED BY <2>1, <2>2, <2>3, <2>4, <2>5, <2>6 DEF SessionInv
<1>3. \A x \in starts' : StartInv(x)'
  <2> SUFFICES ASSUME NEW x \in starts PROVE StartInv(x)'
    BY DEF CleanupFailedLoad
  <2>1. x.tok # 0 /\ x.s \in Sessions
    BY Typed, LiveAssumption
  <2>2. CASE x.s # s
    <3>1. /\ UNCHANGED <<db, projects, run>> /\ entry'[x.s] = entry[x.s]
          /\ binding'[x.s] = binding[x.s] /\ run'[x.s] = run[x.s] /\ StartInv(x)
      BY <2>1, <2>2 DEF Inv, TypeOK, CleanupFailedLoad, Forget, Set
    <3> QED BY <3>1 DEF StartInv
  <2>3. CASE x.s = s
    <3>1. entry' = entry \/ entry'[s].owner = 0
      BY DEF CleanupFailedLoad, Inv, TypeOK, Set, NoEntry
    <3>2. entry[s].phase = "loading"
      BY DEF CleanupFailedLoad, Inv, SessionInv, Load
    <3>3. x.st \notin {"asked", "creating"} /\ entry[s].owner # x.tok
      BY <2>3, <3>2 DEF Inv, StartInv
    <3> QED BY <2>1, <2>3, <3>1, <3>3 DEF StartInv
  <2> QED BY <2>2, <2>3
<1>4. \A x \in Projects : RemovalInv(x)'
  BY LiveAssumption, Typed DEF Inv, TypeOK, CleanupFailedLoad, Forget, NoEntry, NoBinding,
     NoLoad, NoEvop, NoRemoval, Gone, Set,
     SessionInv, RemovalInv, SessionsOf, EntryShape, Ready, Load, Running, Taken
<1>5. StartTokens'
  BY Typed DEF Inv, TypeOK, StartTokens, CleanupFailedLoad, Forget, NoEntry, NoBinding, NoLoad,
     NoEvop, NoRemoval, Gone, Set, Starts
<1> QED BY <1>1, <1>2, <1>3, <1>4, <1>5 DEF Inv

\* StartRun preserves the invariant.
LEMMA StartRunInv == ASSUME Inv, NEW s \in Sessions, StartRun(s) PROVE Inv'
<1>1. TypeOK'
  BY Typed, StartRunType DEF Inv
<1>2. ASSUME NEW q \in Sessions PROVE SessionInv(q)'
  <2> USE LiveAssumption DEF Inv, TypeOK, StartRun, NoEntry, NoBinding, NoLoad, NoEvop,
     NoRemoval, Gone, Set,
         StartInv, RemovalInv, SessionsOf, SessionInv, EntryShape, Ownership, Ready, Load,
            Running, Evicted
  <2>1. EntryShape(q)' OBVIOUS
  <2>2. Ownership(q)' OBVIOUS
  <2>3. Ready(q)' OBVIOUS
  <2>4. Load(q)' OBVIOUS
  <2>5. Running(q)' OBVIOUS
  <2>6. Evicted(q)' OBVIOUS
  <2> QED BY <2>1, <2>2, <2>3, <2>4, <2>5, <2>6 DEF SessionInv
<1>3. \A x \in starts' : StartInv(x)'
  BY Typed DEF Inv, TypeOK, StartRun, NoEntry, NoBinding, NoLoad, NoEvop, NoRemoval, Gone, Set,
     Starts,
     SessionInv, StartInv, StartTokens, EntryShape, Ready, Load, Running
<1>4. \A x \in Projects : RemovalInv(x)'
  BY LiveAssumption, Typed DEF Inv, TypeOK, StartRun, NoEntry, NoBinding, NoLoad, NoEvop,
     NoRemoval, Gone, Set,
     SessionInv, RemovalInv, SessionsOf, EntryShape, Ready, Load, Running, Taken
<1>5. StartTokens'
  BY Typed DEF Inv, TypeOK, StartTokens, StartRun, NoEntry, NoBinding, NoLoad, NoEvop, NoRemoval,
     Gone, Set, Starts
<1> QED BY <1>1, <1>2, <1>3, <1>4, <1>5 DEF Inv

\* CommitFirstTurn preserves the invariant.
LEMMA CommitFirstTurnInv == ASSUME Inv, NEW s \in Sessions, CommitFirstTurn(s) PROVE Inv'
<1>1. TypeOK'
  BY Typed, CommitFirstTurnType DEF Inv
<1>2. ASSUME NEW q \in Sessions PROVE SessionInv(q)'
  <2> USE LiveAssumption DEF Inv, TypeOK, CommitFirstTurn, Bindings, NoEntry, NoBinding, NoLoad,
     NoEvop, NoRemoval, Gone, Set,
         StartInv, RemovalInv, SessionsOf, SessionInv, EntryShape, Ownership, Ready, Load,
            Running, Evicted
  <2>1. EntryShape(q)' OBVIOUS
  <2>2. Ownership(q)' OBVIOUS
  <2>3. Ready(q)' OBVIOUS
  <2>4. Load(q)' OBVIOUS
  <2>5. Running(q)' OBVIOUS
  <2>6. Evicted(q)' OBVIOUS
  <2> QED BY <2>1, <2>2, <2>3, <2>4, <2>5, <2>6 DEF SessionInv
<1>3. \A x \in starts' : StartInv(x)'
  BY Typed DEF Inv, TypeOK, CommitFirstTurn, Bindings, NoEntry, NoBinding, NoLoad, NoEvop,
     NoRemoval, Gone, Set, Starts,
     SessionInv, StartInv, StartTokens, EntryShape, Ready, Load, Running
<1>4. \A x \in Projects : RemovalInv(x)'
  BY LiveAssumption, Typed DEF Inv, TypeOK, CommitFirstTurn, Bindings, NoEntry, NoBinding,
     NoLoad, NoEvop, NoRemoval, Gone, Set,
     SessionInv, RemovalInv, SessionsOf, EntryShape, Ready, Load, Running, Taken
<1>5. StartTokens'
  BY Typed DEF Inv, TypeOK, StartTokens, CommitFirstTurn, NoEntry, NoBinding, NoLoad, NoEvop,
     NoRemoval, Gone, Set, Starts
<1> QED BY <1>1, <1>2, <1>3, <1>4, <1>5 DEF Inv

\* FirstTurnFails preserves the invariant.
LEMMA FirstTurnFailsInv == ASSUME Inv, NEW s \in Sessions, FirstTurnFails(s) PROVE Inv'
<1>1. TypeOK'
  BY Typed, FirstTurnFailsType DEF Inv
<1>2. ASSUME NEW q \in Sessions PROVE SessionInv(q)'
  <2> USE LiveAssumption DEF Inv, TypeOK, FirstTurnFails, StartInv, Bindings, NoEntry, NoBinding, Set,
         SessionInv, EntryShape, Ownership, Ready, Load, Running, Evicted
  <2>1. EntryShape(q)' OBVIOUS
  <2>2. Ownership(q)' OBVIOUS
  <2>3. Ready(q)' OBVIOUS
  <2>4. Load(q)' OBVIOUS
  <2>5. Running(q)' OBVIOUS
  <2>6. Evicted(q)' OBVIOUS
  <2> QED BY <2>1, <2>2, <2>3, <2>4, <2>5, <2>6 DEF SessionInv
<1>3. \A x \in starts' : StartInv(x)'
  <2> SUFFICES ASSUME NEW x \in starts' PROVE StartInv(x)'
    OBVIOUS
  <2>1. PICK y \in starts :
           x = IF y.s = s /\ y.st = "started" THEN [y EXCEPT !.st = "failing"] ELSE y
    BY DEF FirstTurnFails
  <2>2. /\ UNCHANGED <<db, projects, entry, binding>> /\ run'[s] = "failing"
        /\ \A q \in Sessions \ {s} : run'[q] = run[q]
    BY DEF FirstTurnFails, Set, Inv, TypeOK
  <2>3. y \in Starts /\ y.s \in Sessions /\ StartInv(y)
    BY Typed DEF Inv
  <2>4. CASE y.s = s /\ y.st = "started"
    <3>1. x.s = y.s /\ x.tok = y.tok /\ x.st = "failing"
      BY <2>1, <2>3, <2>4 DEF Starts
    <3> QED BY <2>2, <2>3, <2>4, <3>1 DEF StartInv
  <2>5. CASE ~(y.s = s /\ y.st = "started")
    <3>1. x = y
      BY <2>1, <2>5
    <3> QED BY <2>2, <2>3, <3>1 DEF StartInv
  <2> QED BY <2>4, <2>5
<1>4. \A x \in Projects : RemovalInv(x)'
  BY LiveAssumption, Typed DEF Inv, TypeOK, FirstTurnFails, NoEntry, Set, SessionInv,
     RemovalInv, SessionsOf, EntryShape, Ready, Load, Running, Taken
<1>5. StartTokens'
  BY Typed DEF Inv, TypeOK, StartTokens, FirstTurnFails, Set, Starts
<1> QED BY <1>1, <1>2, <1>3, <1>4, <1>5 DEF Inv

\* CommitRun preserves the invariant.
LEMMA CommitRunInv == ASSUME Inv, NEW s \in Sessions, CommitRun(s) PROVE Inv'
<1>1. TypeOK'
  BY Typed, CommitRunType DEF Inv
<1>2. ASSUME NEW q \in Sessions PROVE SessionInv(q)'
  <2> USE LiveAssumption DEF Inv, TypeOK, CommitRun, Commits, Bindings, NoEntry, NoBinding,
     NoLoad, NoEvop, NoRemoval, Gone, Set,
         StartInv, RemovalInv, SessionsOf, SessionInv, EntryShape, Ownership, Ready, Load,
            Running, Evicted
  <2>1. EntryShape(q)' OBVIOUS
  <2>2. Ownership(q)' OBVIOUS
  <2>3. Ready(q)' OBVIOUS
  <2>4. Load(q)' OBVIOUS
  <2>5. Running(q)' OBVIOUS
  <2>6. Evicted(q)' OBVIOUS
  <2> QED BY <2>1, <2>2, <2>3, <2>4, <2>5, <2>6 DEF SessionInv
<1>3. \A x \in starts' : StartInv(x)'
  BY Typed DEF Inv, TypeOK, CommitRun, Commits, Bindings, NoEntry, NoBinding, NoLoad, NoEvop,
     NoRemoval, Gone, Set, Starts,
     SessionInv, StartInv, StartTokens, EntryShape, Ready, Load, Running
<1>4. \A x \in Projects : RemovalInv(x)'
  BY LiveAssumption, Typed DEF Inv, TypeOK, CommitRun, Commits, Bindings, NoEntry, NoBinding,
     NoLoad, NoEvop, NoRemoval, Gone, Set,
     SessionInv, RemovalInv, SessionsOf, EntryShape, Ready, Load, Running, Taken
<1>5. StartTokens'
  BY Typed DEF Inv, TypeOK, StartTokens, CommitRun, Commits, NoEntry, NoBinding, NoLoad, NoEvop,
     NoRemoval, Gone, Set, Starts
<1> QED BY <1>1, <1>2, <1>3, <1>4, <1>5 DEF Inv

\* CommitFails preserves the invariant.
LEMMA CommitFailsInv == ASSUME Inv, NEW s \in Sessions, CommitFails(s) PROVE Inv'
<1>1. TypeOK'
  BY Typed, CommitFailsType DEF Inv
<1>2. ASSUME NEW q \in Sessions PROVE SessionInv(q)'
  <2> USE LiveAssumption DEF Inv, TypeOK, CommitFails, Commits, Bindings, NoEntry, NoBinding,
     NoLoad, NoEvop, NoRemoval, Gone, Set,
         StartInv, RemovalInv, SessionsOf, SessionInv, EntryShape, Ownership, Ready, Load,
            Running, Evicted
  <2>1. EntryShape(q)' OBVIOUS
  <2>2. Ownership(q)' OBVIOUS
  <2>3. Ready(q)' OBVIOUS
  <2>4. Load(q)' OBVIOUS
  <2>5. Running(q)' OBVIOUS
  <2>6. Evicted(q)' OBVIOUS
  <2> QED BY <2>1, <2>2, <2>3, <2>4, <2>5, <2>6 DEF SessionInv
<1>3. \A x \in starts' : StartInv(x)'
  BY Typed DEF Inv, TypeOK, CommitFails, Commits, Bindings, NoEntry, NoBinding, NoLoad, NoEvop,
     NoRemoval, Gone, Set, Starts,
     SessionInv, StartInv, StartTokens, EntryShape, Ready, Load, Running
<1>4. \A x \in Projects : RemovalInv(x)'
  BY LiveAssumption, Typed DEF Inv, TypeOK, CommitFails, Commits, Bindings, NoEntry, NoBinding,
     NoLoad, NoEvop, NoRemoval, Gone, Set,
     SessionInv, RemovalInv, SessionsOf, EntryShape, Ready, Load, Running, Taken
<1>5. StartTokens'
  BY Typed DEF Inv, TypeOK, StartTokens, CommitFails, Commits, NoEntry, NoBinding, NoLoad,
     NoEvop, NoRemoval, Gone, Set, Starts
<1> QED BY <1>1, <1>2, <1>3, <1>4, <1>5 DEF Inv

\* InvalidateContext preserves the invariant.
LEMMA InvalidateContextInv == ASSUME Inv, NEW s \in Sessions, InvalidateContext(s) PROVE Inv'
<1>1. TypeOK'
  BY Typed, InvalidateContextType DEF Inv
<1>2. ASSUME NEW q \in Sessions PROVE SessionInv(q)'
  <2> USE LiveAssumption DEF Inv, TypeOK, InvalidateContext, Commits, Invalidated, TornDown,
     Entries, Bindings, NoEntry, NoBinding, NoLoad, NoEvop, NoRemoval, Gone, Set,
         StartInv, RemovalInv, SessionsOf, SessionInv, EntryShape, Ownership, Ready, Load,
            Running, Evicted
  <2>1. EntryShape(q)' OBVIOUS
  <2>2. Ownership(q)' OBVIOUS
  <2>3. Ready(q)' OBVIOUS
  <2>4. Load(q)' OBVIOUS
  <2>5. Running(q)' OBVIOUS
  <2>6. Evicted(q)' OBVIOUS
  <2> QED BY <2>1, <2>2, <2>3, <2>4, <2>5, <2>6 DEF SessionInv
<1>3. \A x \in starts' : StartInv(x)'
  BY Typed DEF Inv, TypeOK, InvalidateContext, Commits, Invalidated, TornDown, Entries, Bindings,
     NoEntry, NoBinding, NoLoad, NoEvop, NoRemoval, Gone, Set, Starts,
     SessionInv, StartInv, StartTokens, EntryShape, Ready, Load, Running
<1>4. \A x \in Projects : RemovalInv(x)'
  BY LiveAssumption, Typed DEF Inv, TypeOK, InvalidateContext, Commits, Invalidated, TornDown,
     Entries, Bindings, NoEntry, NoBinding, NoLoad, NoEvop, NoRemoval, Gone, Set,
     SessionInv, RemovalInv, SessionsOf, EntryShape, Ready, Load, Running, Taken
<1>5. StartTokens'
  BY Typed DEF Inv, TypeOK, StartTokens, InvalidateContext, Commits, Invalidated, TornDown,
     NoEntry, NoBinding, NoLoad, NoEvop, NoRemoval, Gone, Set, Starts
<1> QED BY <1>1, <1>2, <1>3, <1>4, <1>5 DEF Inv

\* EndRun preserves the invariant.
LEMMA EndRunInv == ASSUME Inv, NEW s \in Sessions, EndRun(s) PROVE Inv'
<1>1. TypeOK'
  BY Typed, EndRunType DEF Inv
<1>2. ASSUME NEW q \in Sessions PROVE SessionInv(q)'
  <2> USE LiveAssumption DEF Inv, TypeOK, EndRun, NoEntry, NoBinding, NoLoad, NoEvop, NoRemoval,
     Gone, Set,
         StartInv, RemovalInv, SessionsOf, SessionInv, EntryShape, Ownership, Ready, Load,
            Running, Evicted
  <2>1. EntryShape(q)' OBVIOUS
  <2>2. Ownership(q)' OBVIOUS
  <2>3. Ready(q)' OBVIOUS
  <2>4. Load(q)' OBVIOUS
  <2>5. Running(q)' OBVIOUS
  <2>6. Evicted(q)' OBVIOUS
  <2> QED BY <2>1, <2>2, <2>3, <2>4, <2>5, <2>6 DEF SessionInv
<1>3. \A x \in starts' : StartInv(x)'
  BY Typed DEF Inv, TypeOK, EndRun, NoEntry, NoBinding, NoLoad, NoEvop, NoRemoval, Gone, Set,
     Starts,
     SessionInv, StartInv, StartTokens, EntryShape, Ready, Load, Running
<1>4. \A x \in Projects : RemovalInv(x)'
  BY LiveAssumption, Typed DEF Inv, TypeOK, EndRun, NoEntry, NoBinding, NoLoad, NoEvop,
     NoRemoval, Gone, Set,
     SessionInv, RemovalInv, SessionsOf, EntryShape, Ready, Load, Running, Taken
<1>5. StartTokens'
  BY Typed DEF Inv, TypeOK, StartTokens, EndRun, NoEntry, NoBinding, NoLoad, NoEvop, NoRemoval,
     Gone, Set, Starts
<1> QED BY <1>1, <1>2, <1>3, <1>4, <1>5 DEF Inv

\* BeginPlan preserves the invariant.
LEMMA BeginPlanInv == ASSUME Inv, NEW s \in Sessions, BeginPlan(s) PROVE Inv'
<1>1. TypeOK'
  BY Typed, BeginPlanType DEF Inv
<1>2. ASSUME NEW q \in Sessions PROVE SessionInv(q)'
  <2> USE LiveAssumption DEF Inv, TypeOK, BeginPlan, ManagerIdle, Bindings, NoEntry, NoBinding, Set,
         SessionInv, EntryShape, Ownership, Ready, Load, Running, Evicted
  <2>1. EntryShape(q)' OBVIOUS
  <2>2. Ownership(q)' OBVIOUS
  <2>3. Ready(q)' OBVIOUS
  <2>4. Load(q)' OBVIOUS
  <2>5. Running(q)' OBVIOUS
  <2>6. Evicted(q)' OBVIOUS
  <2> QED BY <2>1, <2>2, <2>3, <2>4, <2>5, <2>6 DEF SessionInv
<1>3. \A x \in starts' : StartInv(x)'
  BY Typed DEF Inv, TypeOK, BeginPlan, ManagerIdle, Set, Starts, SessionInv, StartInv, StartTokens,
     EntryShape, Ready, Load, Running
<1>4. \A x \in Projects : RemovalInv(x)'
  BY LiveAssumption, Typed DEF Inv, TypeOK, BeginPlan, ManagerIdle, NoEntry, Set, SessionInv,
     RemovalInv, SessionsOf, EntryShape, Ready, Load, Running, Taken
<1>5. StartTokens'
  BY Typed DEF Inv, TypeOK, StartTokens, BeginPlan, ManagerIdle, Set, Starts
<1> QED BY <1>1, <1>2, <1>3, <1>4, <1>5 DEF Inv

\* CommitPlan preserves the invariant.
LEMMA CommitPlanInv == ASSUME Inv, NEW s \in Sessions, CommitPlan(s) PROVE Inv'
<1>1. TypeOK'
  BY Typed, CommitPlanType DEF Inv
<1>2. ASSUME NEW q \in Sessions PROVE SessionInv(q)'
  <2> USE LiveAssumption DEF Inv, TypeOK, CommitPlan, Bindings, NoEntry, NoBinding, Set,
         SessionInv, EntryShape, Ownership, Ready, Load, Running, Evicted
  <2>1. EntryShape(q)' OBVIOUS
  <2>2. Ownership(q)' OBVIOUS
  <2>3. Ready(q)' OBVIOUS
  <2>4. Load(q)' OBVIOUS
  <2>5. Running(q)' OBVIOUS
  <2>6. Evicted(q)' OBVIOUS
  <2> QED BY <2>1, <2>2, <2>3, <2>4, <2>5, <2>6 DEF SessionInv
<1>3. \A x \in starts' : StartInv(x)'
  BY Typed DEF Inv, TypeOK, CommitPlan, Set, Starts, SessionInv, StartInv, StartTokens,
     EntryShape, Ready, Load, Running
<1>4. \A x \in Projects : RemovalInv(x)'
  BY LiveAssumption, Typed DEF Inv, TypeOK, CommitPlan, NoEntry, Set, SessionInv,
     RemovalInv, SessionsOf, EntryShape, Ready, Load, Running, Taken
<1>5. StartTokens'
  BY Typed DEF Inv, TypeOK, StartTokens, CommitPlan, Set, Starts
<1> QED BY <1>1, <1>2, <1>3, <1>4, <1>5 DEF Inv

\* A plan status that is not stored leaves the entry as it was, or under teardown.
LEMMA PlanFailsEffect ==
    ASSUME Inv, NEW s \in Sessions, PlanFails(s)
    PROVE  /\ UNCHANGED <<db, projects, evicting, ctx, run, starts, loading, evop, removal>>
           /\ planning[s] /\ planning' = Set(planning, s, FALSE)
           /\ \A q \in Sessions \ {s} : entry'[q] = entry[q] /\ binding'[q] = binding[q]
           /\ entry'[s].owner = entry[s].owner /\ entry'[s].op = entry[s].op
           /\ entry'[s].bound = entry[s].bound
           /\ \/ entry'[s] = entry[s]
              \/ entry'[s].phase = "releasing" /\ entry'[s].teardown = "closing"
           /\ binding'[s].owner = binding[s].owner /\ binding'[s].isNew = binding[s].isNew
           /\ binding[s].invalid => binding'[s].invalid
           /\ binding'[s].rev \in {binding[s].rev, db[s].rev}
<1>1. /\ UNCHANGED <<db, projects, evicting, ctx, run, starts, loading, evop, removal>>
      /\ planning[s] /\ planning' = Set(planning, s, FALSE)
  BY DEF PlanFails
<1>2. /\ binding \in [Sessions -> Bindings]
      /\ binding' \in {binding, [binding EXCEPT ![s].rev = db[s].rev],
                      [binding EXCEPT ![s].invalid = TRUE]}
  BY Zenon DEF PlanFails, Inv, TypeOK
<1>3. /\ entry \in [Sessions -> Entries]
      /\ entry' = entry \/ entry' = Set(entry, s, Invalidated(entry[s], "closing"))
  BY Zenon DEF PlanFails, Inv, TypeOK
<1>4. entry[s].phase = "live" /\ entry[s].teardown = "none"
  BY <1>1 DEF Inv, SessionInv, Running, EntryShape
<1>5. Invalidated(entry[s], "closing")
        = [entry[s] EXCEPT !.phase = "releasing", !.teardown = "closing"]
  BY <1>3, <1>4 DEF Invalidated, TornDown, Entries
<1>6. /\ \A q \in Sessions \ {s} : binding'[q] = binding[q]
      /\ binding'[s].owner = binding[s].owner /\ binding'[s].isNew = binding[s].isNew
      /\ binding[s].invalid => binding'[s].invalid
      /\ binding'[s].rev \in {binding[s].rev, db[s].rev}
  BY <1>2 DEF Bindings
<1>7. /\ \A q \in Sessions \ {s} : entry'[q] = entry[q]
      /\ entry'[s].owner = entry[s].owner /\ entry'[s].op = entry[s].op
      /\ entry'[s].bound = entry[s].bound
      /\ \/ entry'[s] = entry[s]
         \/ entry'[s].phase = "releasing" /\ entry'[s].teardown = "closing"
  <2>1. CASE entry' = entry
    BY <2>1
  <2>2. CASE entry' = Set(entry, s, Invalidated(entry[s], "closing"))
    <3>1. /\ \A q \in Sessions \ {s} : entry'[q] = entry[q]
          /\ entry'[s] = [entry[s] EXCEPT !.phase = "releasing", !.teardown = "closing"]
      BY <1>3, <1>5, <2>2 DEF Set
    <3> QED BY <1>3, <3>1 DEF Entries
  <2> QED BY <1>3, <2>1, <2>2
<1> QED BY <1>1, <1>6, <1>7

\* PlanFails preserves the invariant.
LEMMA PlanFailsInv == ASSUME Inv, NEW s \in Sessions, PlanFails(s) PROVE Inv'
<1>1. TypeOK'
  BY PlanFailsType DEF Inv
<1>2. ASSUME NEW q \in Sessions PROVE SessionInv(q)'
  <2>1. SessionInv(q) /\ (planning'[q] = FALSE \/ planning'[q] = planning[q])
    <3>1. planning' = Set(planning, s, FALSE) /\ planning \in [Sessions -> BOOLEAN]
      BY PlanFailsEffect DEF Inv, TypeOK
    <3> QED BY <3>1, Zenon DEF Inv, Set
  <2>2. CASE q # s
    <3>1. /\ entry'[q] = entry[q] /\ binding'[q] = binding[q] /\ planning'[q] = planning[q]
          /\ UNCHANGED <<db, evicting, ctx, run, loading, evop>>
      <4>1. planning'[q] = planning[q]
        BY <2>2, PlanFailsEffect DEF Inv, TypeOK, Set
      <4> QED BY <2>2, <4>1, PlanFailsEffect
    <3> QED BY <2>1, <3>1 DEF SessionInv, EntryShape, Ownership, Ready, Load, Running, Evicted
  <2>3. CASE q = s
    <3>1. /\ entry[s].phase = "live" /\ entry[s].teardown = "none" /\ run[s] = "idle"
          /\ ~planning'[s] /\ planning[s]
      BY <2>1, <2>3, PlanFailsEffect DEF SessionInv, EntryShape, Running, Inv, TypeOK, Set
    <3>2. EntryShape(s)' /\ Load(s)'
      BY <2>1, <2>3, <3>1, PlanFailsEffect DEF SessionInv, EntryShape, Load
    <3>3. Ownership(s)' /\ Ready(s)'
      BY <2>1, <2>3, <3>1, PlanFailsEffect DEF SessionInv, EntryShape, Ownership, Ready
    <3>4. Running(s)' /\ Evicted(s)'
      BY <2>1, <2>3, <3>1, PlanFailsEffect DEF SessionInv, EntryShape, Running, Evicted
    <3> QED BY <2>3, <3>2, <3>3, <3>4 DEF SessionInv
  <2> QED BY <2>2, <2>3
<1>3. \A x \in starts' : StartInv(x)'
  <2> SUFFICES ASSUME NEW x \in starts PROVE StartInv(x)'
    BY PlanFailsEffect
  <2>1. StartInv(x) /\ x.s \in Sessions
    BY Typed DEF Inv
  <2>2. entry[s].phase = "live"
    BY PlanFailsEffect DEF Inv, SessionInv, Running
  <2> QED BY <2>1, <2>2, PlanFailsEffect DEF StartInv
<1>4. \A x \in Projects : RemovalInv(x)'
  <2> SUFFICES ASSUME NEW x \in Projects PROVE RemovalInv(x)'
    OBVIOUS
  <2>1. RemovalInv(x)
    BY DEF Inv
  <2>2. /\ UNCHANGED <<evicting, removal>>
        /\ \A q \in Sessions : /\ entry'[q].op = entry[q].op /\ entry'[q].bound = entry[q].bound
                             /\ entry'[q].phase \in {"releasing", entry[q].phase}
    BY PlanFailsEffect
  <2> QED BY <2>1, <2>2 DEF RemovalInv, SessionsOf
<1>5. StartTokens'
  BY PlanFailsEffect DEF Inv, StartTokens
<1> QED BY <1>1, <1>2, <1>3, <1>4, <1>5 DEF Inv

\* UpdateSession preserves the invariant.
LEMMA UpdateSessionInv == ASSUME Inv, NEW s \in Sessions, UpdateSession(s) PROVE Inv'
<1>1. TypeOK'
  BY Typed, UpdateSessionType DEF Inv
<1>2. ASSUME NEW q \in Sessions PROVE SessionInv(q)'
  <2> USE LiveAssumption DEF Inv, TypeOK, UpdateSession, SessionIdle, ManagerIdle, Bindings,
     NoEntry, NoBinding, NoLoad, NoEvop, NoRemoval, Gone, Set,
         StartInv, RemovalInv, SessionsOf, SessionInv, EntryShape, Ownership, Ready, Load,
            Running, Evicted
  <2>1. EntryShape(q)' OBVIOUS
  <2>2. Ownership(q)' OBVIOUS
  <2>3. Ready(q)' OBVIOUS
  <2>4. Load(q)' OBVIOUS
  <2>5. Running(q)' OBVIOUS
  <2>6. Evicted(q)' OBVIOUS
  <2> QED BY <2>1, <2>2, <2>3, <2>4, <2>5, <2>6 DEF SessionInv
<1>3. \A x \in starts' : StartInv(x)'
  BY Typed DEF Inv, TypeOK, UpdateSession, SessionIdle, ManagerIdle, Bindings, NoEntry,
     NoBinding, NoLoad, NoEvop, NoRemoval, Gone, Set, Starts,
     SessionInv, StartInv, StartTokens, EntryShape, Ready, Load, Running
<1>4. \A x \in Projects : RemovalInv(x)'
  BY LiveAssumption, Typed DEF Inv, TypeOK, UpdateSession, SessionIdle, ManagerIdle, Bindings,
     NoEntry, NoBinding, NoLoad, NoEvop, NoRemoval, Gone, Set,
     SessionInv, RemovalInv, SessionsOf, EntryShape, Ready, Load, Running, Taken
<1>5. StartTokens'
  BY Typed DEF Inv, TypeOK, StartTokens, UpdateSession, SessionIdle, ManagerIdle, NoEntry,
     NoBinding, NoLoad, NoEvop, NoRemoval, Gone, Set, Starts
<1> QED BY <1>1, <1>2, <1>3, <1>4, <1>5 DEF Inv

\* TeardownSettled preserves the invariant.
LEMMA TeardownSettledInv == ASSUME Inv, NEW s \in Sessions, TeardownSettled(s) PROVE Inv'
<1>1. TypeOK'
  BY Typed, TeardownSettledType DEF Inv
<1>2. ASSUME NEW q \in Sessions PROVE SessionInv(q)'
  <2> USE LiveAssumption DEF Inv, TypeOK, TeardownSettled, Entries, NoEntry, NoBinding, NoLoad,
     NoEvop, NoRemoval, Gone, Set,
         StartInv, RemovalInv, SessionsOf, SessionInv, EntryShape, Ownership, Ready, Load,
            Running, Evicted
  <2>1. EntryShape(q)' OBVIOUS
  <2>2. Ownership(q)' OBVIOUS
  <2>3. Ready(q)' OBVIOUS
  <2>4. Load(q)' OBVIOUS
  <2>5. Running(q)' OBVIOUS
  <2>6. Evicted(q)' OBVIOUS
  <2> QED BY <2>1, <2>2, <2>3, <2>4, <2>5, <2>6 DEF SessionInv
<1>3. \A x \in starts' : StartInv(x)'
  BY Typed DEF Inv, TypeOK, TeardownSettled, Entries, NoEntry, NoBinding, NoLoad, NoEvop,
     NoRemoval, Gone, Set, Starts,
     SessionInv, StartInv, StartTokens, EntryShape, Ready, Load, Running
<1>4. \A x \in Projects : RemovalInv(x)'
  BY LiveAssumption, Typed DEF Inv, TypeOK, TeardownSettled, Entries, NoEntry, NoBinding, NoLoad,
     NoEvop, NoRemoval, Gone, Set,
     SessionInv, RemovalInv, SessionsOf, EntryShape, Ready, Load, Running, Taken
<1>5. StartTokens'
  BY Typed DEF Inv, TypeOK, StartTokens, TeardownSettled, NoEntry, NoBinding, NoLoad, NoEvop,
     NoRemoval, Gone, Set, Starts
<1> QED BY <1>1, <1>2, <1>3, <1>4, <1>5 DEF Inv

\* CloseContext preserves the invariant.
LEMMA CloseContextInv == ASSUME Inv, NEW s \in Sessions, CloseContext(s) PROVE Inv'
<1>1. TypeOK'
  BY Typed, CloseContextType DEF Inv
<1>2. ASSUME NEW q \in Sessions PROVE SessionInv(q)'
  <2> USE LiveAssumption DEF Inv, TypeOK, CloseContext, NoEntry, NoBinding, NoLoad, NoEvop,
     NoRemoval, Gone, Set,
         StartInv, RemovalInv, SessionsOf, SessionInv, EntryShape, Ownership, Ready, Load,
            Running, Evicted
  <2>1. EntryShape(q)' OBVIOUS
  <2>2. Ownership(q)' OBVIOUS
  <2>3. Ready(q)' OBVIOUS
  <2>4. Load(q)' OBVIOUS
  <2>5. Running(q)' OBVIOUS
  <2>6. Evicted(q)' OBVIOUS
  <2> QED BY <2>1, <2>2, <2>3, <2>4, <2>5, <2>6 DEF SessionInv
<1>3. \A x \in starts' : StartInv(x)'
  BY Typed DEF Inv, TypeOK, CloseContext, NoEntry, NoBinding, NoLoad, NoEvop, NoRemoval, Gone,
     Set, Starts,
     SessionInv, StartInv, StartTokens, EntryShape, Ready, Load, Running
<1>4. \A x \in Projects : RemovalInv(x)'
  BY LiveAssumption, Typed DEF Inv, TypeOK, CloseContext, NoEntry, NoBinding, NoLoad, NoEvop,
     NoRemoval, Gone, Set,
     SessionInv, RemovalInv, SessionsOf, EntryShape, Ready, Load, Running, Taken
<1>5. StartTokens'
  BY Typed DEF Inv, TypeOK, StartTokens, CloseContext, NoEntry, NoBinding, NoLoad, NoEvop,
     NoRemoval, Gone, Set, Starts
<1> QED BY <1>1, <1>2, <1>3, <1>4, <1>5 DEF Inv

\* FinishTeardown preserves the invariant.
LEMMA FinishTeardownInv == ASSUME Inv, NEW s \in Sessions, FinishTeardown(s) PROVE Inv'
<1>1. TypeOK'
  BY Typed, FinishTeardownType DEF Inv
<1>2. ASSUME NEW q \in Sessions PROVE SessionInv(q)'
  <2> USE LiveAssumption DEF Inv, TypeOK, FinishTeardown, Forget, NoEntry, NoBinding, NoLoad,
     NoEvop, NoRemoval, Gone, Set,
         StartInv, RemovalInv, SessionsOf, SessionInv, EntryShape, Ownership, Ready, Load,
            Running, Evicted
  <2>1. EntryShape(q)' OBVIOUS
  <2>2. Ownership(q)' OBVIOUS
  <2>3. Ready(q)' OBVIOUS
  <2>4. Load(q)' OBVIOUS
  <2>5. Running(q)' OBVIOUS
  <2>6. Evicted(q)' OBVIOUS
  <2> QED BY <2>1, <2>2, <2>3, <2>4, <2>5, <2>6 DEF SessionInv
<1>3. \A x \in starts' : StartInv(x)'
  <2> SUFFICES ASSUME NEW x \in starts PROVE StartInv(x)'
    BY DEF FinishTeardown
  <2>1. x.tok # 0 /\ x.s \in Sessions
    BY Typed, LiveAssumption
  <2>2. CASE x.s # s
    <3>1. /\ UNCHANGED <<db, projects>> /\ entry'[x.s] = entry[x.s]
          /\ binding'[x.s] = binding[x.s] /\ run'[x.s] = run[x.s] /\ StartInv(x)
      BY <2>1, <2>2 DEF Inv, TypeOK, FinishTeardown, Forget, Set
    <3> QED BY <3>1 DEF StartInv
  <2>3. CASE x.s = s
    <3>1. entry'[s].owner = 0
      BY DEF FinishTeardown, Inv, TypeOK, Set, NoEntry
    <3>2. x.st \notin {"asked", "creating"}
      BY <2>3 DEF FinishTeardown, Inv, StartInv, SessionInv, EntryShape
    <3> QED BY <2>1, <2>3, <3>1, <3>2 DEF StartInv
  <2> QED BY <2>2, <2>3
<1>4. \A x \in Projects : RemovalInv(x)'
  BY LiveAssumption, Typed DEF Inv, TypeOK, FinishTeardown, Forget, NoEntry, NoBinding, NoLoad,
     NoEvop, NoRemoval, Gone, Set,
     SessionInv, RemovalInv, SessionsOf, EntryShape, Ready, Load, Running, Taken
<1>5. StartTokens'
  BY Typed DEF Inv, TypeOK, StartTokens, FinishTeardown, Forget, NoEntry, NoBinding, NoLoad,
     NoEvop, NoRemoval, Gone, Set, Starts
<1> QED BY <1>1, <1>2, <1>3, <1>4, <1>5 DEF Inv

\* ReserveMutation preserves the invariant.
LEMMA ReserveMutationInv == ASSUME Inv, NEW s \in Sessions, ReserveMutation(s) PROVE Inv'
<1>1. TypeOK'
  BY Typed, ReserveMutationType DEF Inv
<1>2. ASSUME NEW q \in Sessions PROVE SessionInv(q)'
  <2> USE LiveAssumption DEF Inv, TypeOK, ReserveMutation, Fresh, InUse, SessionIdle,
     ManagerIdle, Entries, NoEntry, NoBinding, NoLoad, NoEvop, NoRemoval, Gone, Set,
         StartInv, RemovalInv, SessionsOf, SessionInv, EntryShape, Ownership, Ready, Load,
            Running, Evicted
  <2>1. EntryShape(q)' OBVIOUS
  <2>2. Ownership(q)' OBVIOUS
  <2>3. Ready(q)' OBVIOUS
  <2>4. Load(q)' OBVIOUS
  <2>5. Running(q)' OBVIOUS
  <2>6. Evicted(q)' OBVIOUS
  <2> QED BY <2>1, <2>2, <2>3, <2>4, <2>5, <2>6 DEF SessionInv
<1>3. \A x \in starts' : StartInv(x)'
  BY Typed DEF Inv, TypeOK, ReserveMutation, Fresh, InUse, SessionIdle, ManagerIdle, Entries,
     NoEntry, NoBinding, NoLoad, NoEvop, NoRemoval, Gone, Set, Starts,
     SessionInv, StartInv, StartTokens, EntryShape, Ready, Load, Running
<1>4. \A x \in Projects : RemovalInv(x)'
  BY LiveAssumption, Typed DEF Inv, TypeOK, ReserveMutation, Fresh, InUse, SessionIdle,
     ManagerIdle, Entries, NoEntry, NoBinding, NoLoad, NoEvop, NoRemoval, Gone, Set,
     SessionInv, RemovalInv, SessionsOf, EntryShape, Ready, Load, Running, Taken
<1>5. StartTokens'
  BY Typed DEF Inv, TypeOK, StartTokens, ReserveMutation, Fresh, InUse, SessionIdle, ManagerIdle,
     NoEntry, NoBinding, NoLoad, NoEvop, NoRemoval, Gone, Set, Starts
<1> QED BY <1>1, <1>2, <1>3, <1>4, <1>5 DEF Inv

\* BindMutation preserves the invariant.
LEMMA BindMutationInv == ASSUME Inv, NEW s \in Sessions, BindMutation(s) PROVE Inv'
<1>1. TypeOK'
  BY Typed, BindMutationType DEF Inv
<1>2. ASSUME NEW q \in Sessions PROVE SessionInv(q)'
  <2> USE LiveAssumption DEF Inv, TypeOK, BindMutation, Entries, NoEntry, NoBinding, NoLoad,
     NoEvop, NoRemoval, Gone, Set,
         StartInv, RemovalInv, SessionsOf, SessionInv, EntryShape, Ownership, Ready, Load,
            Running, Evicted
  <2>1. EntryShape(q)' OBVIOUS
  <2>2. Ownership(q)' OBVIOUS
  <2>3. Ready(q)' OBVIOUS
  <2>4. Load(q)' OBVIOUS
  <2>5. Running(q)' OBVIOUS
  <2>6. Evicted(q)' OBVIOUS
  <2> QED BY <2>1, <2>2, <2>3, <2>4, <2>5, <2>6 DEF SessionInv
<1>3. \A x \in starts' : StartInv(x)'
  BY Typed DEF Inv, TypeOK, BindMutation, Entries, NoEntry, NoBinding, NoLoad, NoEvop, NoRemoval,
     Gone, Set, Starts,
     SessionInv, StartInv, StartTokens, EntryShape, Ready, Load, Running
<1>4. \A x \in Projects : RemovalInv(x)'
  BY LiveAssumption, Typed DEF Inv, TypeOK, BindMutation, Entries, NoEntry, NoBinding, NoLoad,
     NoEvop, NoRemoval, Gone, Set,
     SessionInv, RemovalInv, SessionsOf, EntryShape, Ready, Load, Running, Taken
<1>5. StartTokens'
  BY Typed DEF Inv, TypeOK, StartTokens, BindMutation, NoEntry, NoBinding, NoLoad, NoEvop,
     NoRemoval, Gone, Set, Starts
<1> QED BY <1>1, <1>2, <1>3, <1>4, <1>5 DEF Inv

\* ReleaseMutation preserves the invariant.
LEMMA ReleaseMutationInv == ASSUME Inv, NEW s \in Sessions, ReleaseMutation(s) PROVE Inv'
<1>1. TypeOK'
  BY Typed, ReleaseMutationType DEF Inv
<1>2. ASSUME NEW q \in Sessions PROVE SessionInv(q)'
  <2> USE LiveAssumption DEF Inv, TypeOK, ReleaseMutation, Unreserved, Entries, NoEntry,
     NoBinding, NoLoad, NoEvop, NoRemoval, Gone, Set,
         StartInv, RemovalInv, SessionsOf, SessionInv, EntryShape, Ownership, Ready, Load,
            Running, Evicted
  <2>1. EntryShape(q)' OBVIOUS
  <2>2. Ownership(q)' OBVIOUS
  <2>3. Ready(q)' OBVIOUS
  <2>4. Load(q)' OBVIOUS
  <2>5. Running(q)' OBVIOUS
  <2>6. Evicted(q)' OBVIOUS
  <2> QED BY <2>1, <2>2, <2>3, <2>4, <2>5, <2>6 DEF SessionInv
<1>3. \A x \in starts' : StartInv(x)'
  <2> SUFFICES ASSUME NEW x \in starts PROVE StartInv(x)'
    BY DEF ReleaseMutation
  <2>1. x.tok # 0 /\ x.s \in Sessions
    BY Typed, LiveAssumption
  <2>2. CASE x.s # s
    BY <2>1, <2>2 DEF Inv, TypeOK, ReleaseMutation, StartInv, Set
  <2>3. CASE x.s = s
    BY <2>1, <2>3, LiveAssumption DEF Inv, TypeOK, ReleaseMutation, StartInv, Holds, Set,
       Unreserved, NoEntry, Entries,
       SessionInv, Ready, Running
  <2> QED BY <2>2, <2>3
<1>4. \A x \in Projects : RemovalInv(x)'
  BY LiveAssumption, Typed DEF Inv, TypeOK, ReleaseMutation, Unreserved, Entries, NoEntry,
     NoBinding, NoLoad, NoEvop, NoRemoval, Gone, Set,
     SessionInv, RemovalInv, SessionsOf, EntryShape, Ready, Load, Running, Taken
<1>5. StartTokens'
  BY Typed DEF Inv, TypeOK, StartTokens, ReleaseMutation, Unreserved, NoEntry, NoBinding, NoLoad,
     NoEvop, NoRemoval, Gone, Set, Starts
<1> QED BY <1>1, <1>2, <1>3, <1>4, <1>5 DEF Inv

\* ReserveEviction preserves the invariant.
LEMMA ReserveEvictionInv == ASSUME Inv, NEW s \in Sessions, NEW k \in {"archive", "rewind"},
   ReserveEviction(s, k) PROVE Inv'
<1>1. TypeOK'
  BY Typed, ReserveEvictionType DEF Inv
<1>2. ASSUME NEW q \in Sessions PROVE SessionInv(q)'
  <2>p. PICK t \in Fresh :
        /\ entry' = Set(entry, s, IF entry[s].phase = "live"
                                 THEN [entry[s] EXCEPT !.phase = "evicting", !.op = t]
                                 ELSE [NoEntry EXCEPT !.phase = "evicting", !.owner = t, !.op = t])
        /\ evop' = Set(evop, s, [kind |-> k, st |-> "commit", tok |-> t])
    BY Zenon DEF ReserveEviction
  <2>1. UNCHANGED <<db, evicting, ctx, run, planning, binding, loading>> /\ entry[s].phase \in {"none", "live"}
        /\ run[s] = "idle" /\ ~planning[s]
    BY DEF ReserveEviction, SessionIdle, ManagerIdle
  <2>2. CASE q # s
    <3>1. entry'[q] = entry[q] /\ evop'[q] = evop[q]
      BY <2>p, <2>2 DEF Inv, TypeOK, Set
    <3> QED BY <2>1, <3>1 DEF Inv, SessionInv, EntryShape, Ownership, Ready, Load, Running, Evicted
  <2>3. CASE q = s
    <3>1. /\ entry'[s].phase = "evicting" /\ entry'[s].op = t /\ entry'[s].owner # 0
          /\ entry'[s].teardown = "none" /\ evop'[s].tok = t
      <4>1. CASE entry[s].phase = "live"
        <5>1. entry'[s] = [entry[s] EXCEPT !.phase = "evicting", !.op = t]
          BY <2>p, <4>1 DEF Inv, TypeOK, Set
        <5>2. entry[s] \in Entries /\ entry[s].owner # 0 /\ entry[s].teardown = "none"
          BY <4>1 DEF Inv, TypeOK, SessionInv, EntryShape
        <5> QED BY <2>p, <5>1, <5>2 DEF Entries, Inv, TypeOK, Set
      <4>2. CASE entry[s].phase = "none"
        <5>1. entry'[s] = [NoEntry EXCEPT !.phase = "evicting", !.owner = t, !.op = t]
          BY <2>p, <4>2 DEF Inv, TypeOK, Set
        <5>2. t # 0
          BY LiveAssumption DEF Fresh
        <5> QED BY <2>p, <5>1, <5>2 DEF NoEntry, Inv, TypeOK, Set
      <4> QED BY <2>1, <4>1, <4>2
    <3>2. /\ entry[s].phase = "live" => entry'[s].bound = entry[s].bound /\ entry'[s].owner = entry[s].owner
          /\ entry[s].phase = "none" => ~entry'[s].bound /\ ctx[s] = "none" /\ binding[s].owner = 0
      <4>1. CASE entry[s].phase = "live"
        <5>1. entry'[s] = [entry[s] EXCEPT !.phase = "evicting", !.op = t]
          BY <2>p, <4>1 DEF Inv, TypeOK, Set
        <5>2. entry[s] \in Entries
          BY DEF Inv, TypeOK
        <5>3. entry'[s].bound = entry[s].bound /\ entry'[s].owner = entry[s].owner
          BY <5>1, <5>2 DEF Entries
        <5> QED BY <4>1, <5>3
      <4>2. CASE entry[s].phase = "none"
        <5>1. ~entry'[s].bound
          BY <2>p, <4>2 DEF Inv, TypeOK, NoEntry, Set
        <5> QED BY <4>2, <5>1 DEF Inv, SessionInv, EntryShape, Ownership
      <4> QED BY <2>1, <4>1, <4>2
    <3>3. t # evicting[ProjectOf[s]]
      BY LiveAssumption DEF Fresh, InUse
    <3>4. EntryShape(s)' /\ Ownership(s)' /\ Load(s)' /\ Running(s)'
      BY <2>1, <3>1, <3>2 DEF Inv, SessionInv, EntryShape, Ownership, Ready, Load, Running
    <3>5. Ready(s)'
      BY <2>1, <3>1, <3>2 DEF Inv, SessionInv, Ready
    <3>6. Evicted(s)'
      BY <2>1, <3>1, <3>2, <3>3 DEF Inv, SessionInv, Evicted
    <3> QED BY <2>3, <3>4, <3>5, <3>6 DEF SessionInv
  <2> QED BY <2>2, <2>3
<1>3. \A x \in starts' : StartInv(x)'
  BY Typed DEF Inv, TypeOK, ReserveEviction, Fresh, InUse, SessionIdle, ManagerIdle, Entries,
     NoEntry, NoBinding, NoLoad, NoEvop, NoRemoval, Gone, Set, Starts,
     SessionInv, StartInv, StartTokens, EntryShape, Ready, Load, Running
<1>4. \A x \in Projects : RemovalInv(x)'
  BY LiveAssumption, Typed DEF Inv, TypeOK, ReserveEviction, Fresh, InUse, SessionIdle,
     ManagerIdle, Entries, NoEntry, NoBinding, NoLoad, NoEvop, NoRemoval, Gone, Set,
     SessionInv, RemovalInv, SessionsOf, EntryShape, Ready, Load, Running, Taken
<1>5. StartTokens'
  BY Typed DEF Inv, TypeOK, StartTokens, ReserveEviction, Fresh, InUse, SessionIdle, ManagerIdle,
     NoEntry, NoBinding, NoLoad, NoEvop, NoRemoval, Gone, Set, Starts
<1> QED BY <1>1, <1>2, <1>3, <1>4, <1>5 DEF Inv

\* FinishEviction preserves the invariant.
LEMMA FinishEvictionInv == ASSUME Inv, NEW s \in Sessions, FinishEviction(s) PROVE Inv'
<1>1. TypeOK'
  BY Typed, FinishEvictionType DEF Inv
<1>2. ASSUME NEW q \in Sessions PROVE SessionInv(q)'
  <2> USE LiveAssumption DEF Inv, TypeOK, FinishEviction, Holds, TornDown, Entries, NoEntry,
     NoBinding, NoLoad, NoEvop, NoRemoval, Gone, Set,
         StartInv, RemovalInv, SessionsOf, SessionInv, EntryShape, Ownership, Ready, Load,
            Running, Evicted
  <2>1. EntryShape(q)' OBVIOUS
  <2>2. Ownership(q)' OBVIOUS
  <2>3. Ready(q)' OBVIOUS
  <2>4. Load(q)' OBVIOUS
  <2>5. Running(q)' OBVIOUS
  <2>6. Evicted(q)' OBVIOUS
  <2> QED BY <2>1, <2>2, <2>3, <2>4, <2>5, <2>6 DEF SessionInv
<1>3. \A x \in starts' : StartInv(x)'
  BY Typed DEF Inv, TypeOK, FinishEviction, Holds, TornDown, Entries, NoEntry, NoBinding, NoLoad,
     NoEvop, NoRemoval, Gone, Set, Starts,
     SessionInv, StartInv, StartTokens, EntryShape, Ready, Load, Running
<1>4. \A x \in Projects : RemovalInv(x)'
  BY LiveAssumption, Typed DEF Inv, TypeOK, FinishEviction, Holds, TornDown, Entries, NoEntry,
     NoBinding, NoLoad, NoEvop, NoRemoval, Gone, Set,
     SessionInv, RemovalInv, SessionsOf, EntryShape, Ready, Load, Running, Taken
<1>5. StartTokens'
  BY Typed DEF Inv, TypeOK, StartTokens, FinishEviction, Holds, TornDown, NoEntry, NoBinding,
     NoLoad, NoEvop, NoRemoval, Gone, Set, Starts
<1> QED BY <1>1, <1>2, <1>3, <1>4, <1>5 DEF Inv

\* CancelEviction preserves the invariant.
LEMMA CancelEvictionInv == ASSUME Inv, NEW s \in Sessions, CancelEviction(s) PROVE Inv'
<1>1. TypeOK'
  BY Typed, CancelEvictionType DEF Inv
<1>2. ASSUME NEW q \in Sessions PROVE SessionInv(q)'
  <2> USE LiveAssumption DEF Inv, TypeOK, CancelEviction, Holds, Unreserved, Entries, NoEntry,
     NoBinding, NoLoad, NoEvop, NoRemoval, Gone, Set,
         StartInv, RemovalInv, SessionsOf, SessionInv, EntryShape, Ownership, Ready, Load,
            Running, Evicted
  <2>1. EntryShape(q)' OBVIOUS
  <2>2. Ownership(q)' OBVIOUS
  <2>3. Ready(q)' OBVIOUS
  <2>4. Load(q)' OBVIOUS
  <2>5. Running(q)' OBVIOUS
  <2>6. Evicted(q)' OBVIOUS
  <2> QED BY <2>1, <2>2, <2>3, <2>4, <2>5, <2>6 DEF SessionInv
<1>3. \A x \in starts' : StartInv(x)'
  <2> SUFFICES ASSUME NEW x \in starts PROVE StartInv(x)'
    BY DEF CancelEviction
  <2>1. x.tok # 0 /\ x.s \in Sessions
    BY Typed, LiveAssumption
  <2>2. CASE x.s # s
    BY <2>1, <2>2 DEF Inv, TypeOK, CancelEviction, StartInv, Set
  <2>3. CASE x.s = s
    BY <2>1, <2>3, LiveAssumption DEF Inv, TypeOK, CancelEviction, StartInv, Holds, Set,
       Unreserved, NoEntry, Entries,
       SessionInv, Ready, Running
  <2> QED BY <2>2, <2>3
<1>4. \A x \in Projects : RemovalInv(x)'
  BY LiveAssumption, Typed DEF Inv, TypeOK, CancelEviction, Holds, Unreserved, Entries, NoEntry,
     NoBinding, NoLoad, NoEvop, NoRemoval, Gone, Set,
     SessionInv, RemovalInv, SessionsOf, EntryShape, Ready, Load, Running, Taken
<1>5. StartTokens'
  BY Typed DEF Inv, TypeOK, StartTokens, CancelEviction, Holds, Unreserved, NoEntry, NoBinding,
     NoLoad, NoEvop, NoRemoval, Gone, Set, Starts
<1> QED BY <1>1, <1>2, <1>3, <1>4, <1>5 DEF Inv

\* Check preserves the invariant.
LEMMA CheckInv == ASSUME Inv, NEW s \in Sessions, NEW k \in {"restore", "delete"}, Check(s, k) PROVE Inv'
<1>1. TypeOK'
  BY Typed, CheckType DEF Inv
<1>2. \A q \in Sessions : SessionInv(q)'
  BY DEF Inv, Check, SessionInv, EntryShape, Ownership, Ready, Load, Running, Evicted
<1>3. \A x \in starts' : StartInv(x)'
  BY Typed DEF Inv, TypeOK, Check, Set, Starts, SessionInv, StartInv, StartTokens,
     EntryShape, Ready, Load, Running
<1>4. \A x \in Projects : RemovalInv(x)'
  BY LiveAssumption, Typed DEF Inv, TypeOK, Check, NoEntry, Set, SessionInv,
     RemovalInv, SessionsOf, EntryShape, Ready, Load, Running, Taken
<1>5. StartTokens'
  BY Typed DEF Inv, TypeOK, StartTokens, Check, Set, Starts
<1> QED BY <1>1, <1>2, <1>3, <1>4, <1>5 DEF Inv

\* FinishChecked preserves the invariant.
LEMMA FinishCheckedInv == ASSUME Inv, NEW c \in checked, FinishChecked(c) PROVE Inv'
<1>1. TypeOK'
  BY Typed, FinishCheckedType DEF Inv
<1>2. ASSUME NEW q \in Sessions PROVE SessionInv(q)'
  <2> USE LiveAssumption DEF Inv, TypeOK, FinishChecked, Checks, Durable, Gone, Bindings, NoEntry, NoBinding, Set,
         SessionInv, EntryShape, Ownership, Ready, Load, Running, Evicted
  <2>1. EntryShape(q)' OBVIOUS
  <2>2. Ownership(q)'
    <3>1. UNCHANGED <<entry, ctx, binding, loading>> /\ Ownership(q)
      OBVIOUS
    <3>2. db[q].life = "none" => db'[q].life = "none"
      BY SMTT(30)
    <3> QED BY ONLY <3>1, <3>2 DEF Ownership
  <2>3. Ready(q)' OBVIOUS
  <2>4. Load(q)' OBVIOUS
  <2>5. Running(q)' OBVIOUS
  <2>6. Evicted(q)' OBVIOUS
  <2> QED BY <2>1, <2>2, <2>3, <2>4, <2>5, <2>6 DEF SessionInv
<1>3. \A x \in starts' : StartInv(x)'
  BY Typed DEF Inv, TypeOK, FinishChecked, Gone, Set, Starts, SessionInv, StartInv, StartTokens,
     EntryShape, Ready, Load, Running
<1>4. \A x \in Projects : RemovalInv(x)'
  BY LiveAssumption, Typed DEF Inv, TypeOK, FinishChecked, Gone, NoEntry, Set, SessionInv,
     RemovalInv, SessionsOf, EntryShape, Ready, Load, Running, Taken
<1>5. StartTokens'
  BY Typed DEF Inv, TypeOK, StartTokens, FinishChecked, Gone, Set, Starts
<1> QED BY <1>1, <1>2, <1>3, <1>4, <1>5 DEF Inv

\* ReserveProjectEviction preserves the invariant.
LEMMA ReserveProjectEvictionInv == ASSUME Inv, NEW p \in Projects,
   ReserveProjectEviction(p) PROVE Inv'
<1>1. TypeOK'
  BY Typed, ReserveProjectEvictionType DEF Inv
<1>2. ASSUME NEW q \in Sessions PROVE SessionInv(q)'
  <2>p. PICK t \in Fresh :
        /\ evicting' = Set(evicting, p, t)
        /\ entry' = [s \in Sessions |-> TakenBy(s, p, t)]
        /\ removal' = Set(removal, p, [st |-> "commit", tok |-> t, list |-> {}])
    BY Zenon DEF ReserveProjectEviction
  <2>0. SessionInv(q) /\ UNCHANGED <<db, ctx, run, planning, binding, loading, evop>>
    BY DEF Inv, ReserveProjectEviction
  <2>1. CASE entry[q].bound /\ ProjectOf[q] = p /\ entry[q].phase = "live"
    <3>1. /\ entry'[q].phase = "evicting" /\ entry'[q].owner = entry[q].owner
          /\ entry'[q].op = t /\ entry'[q].bound = entry[q].bound
          /\ entry'[q].teardown = entry[q].teardown /\ evicting'[p] = t
      <4>1. entry'[q] = TakenBy(q, p, t) /\ entry[q] \in Entries /\ evicting'[p] = t
        BY <2>p DEF Inv, TypeOK, Set
      <4> QED BY <2>1, <4>1 DEF TakenBy, Entries
    <3>2. run[q] = "idle" /\ ~planning[q]
      BY <2>1 DEF ReserveProjectEviction, ProjectIdle, ManagerIdle
    <3>3. evop[q].tok # t
      BY DEF Fresh, InUse
    <3> QED
      <4>1. EntryShape(q)'
        BY <2>0, <2>1, <3>1, <3>2, <3>3 DEF Ready, Load, Running, SessionInv, EntryShape
      <4>2. Ownership(q)'
        BY <2>0, <2>1, <3>1, <3>2, <3>3 DEF Ready, Load, Running, SessionInv, EntryShape, Ownership
      <4>3. Ready(q)'
        BY <2>0, <2>1, <3>1, <3>2, <3>3 DEF Ready, Load, Running, SessionInv, EntryShape
      <4>4. Load(q)'
        BY <2>0, <2>1, <3>1, <3>2, <3>3 DEF Ready, Load, Running, SessionInv, EntryShape
      <4>5. Running(q)'
        BY <2>0, <2>1, <3>1, <3>2, <3>3 DEF Ready, Load, Running, SessionInv, EntryShape
      <4>6. Evicted(q)'
        BY <2>0, <2>1, <3>1, <3>2, <3>3 DEF Ready, Load, Running, SessionInv, EntryShape, Evicted
      <4> QED BY <4>1, <4>2, <4>3, <4>4, <4>5, <4>6 DEF SessionInv
  <2>2. CASE ~(entry[q].bound /\ ProjectOf[q] = p /\ entry[q].phase = "live")
    <3>1. entry'[q] = entry[q]
      BY <2>p, <2>2 DEF TakenBy, Inv, TypeOK
    <3>2. EntryShape(q)' /\ Ownership(q)' /\ Ready(q)' /\ Load(q)' /\ Running(q)'
      <4>1. EntryShape(q)'
        BY <2>0, <3>1 DEF Ready, Load, Running, SessionInv, EntryShape
      <4>2. Ownership(q)'
        BY <2>0, <3>1 DEF Ready, Load, Running, SessionInv, EntryShape, Ownership
      <4>3. Ready(q)'
        BY <2>0, <3>1 DEF Ready, Load, Running, SessionInv, EntryShape
      <4>4. Load(q)'
        BY <2>0, <3>1 DEF Ready, Load, Running, SessionInv, EntryShape
      <4>5. Running(q)'
        BY <2>0, <3>1 DEF Ready, Load, Running, SessionInv, EntryShape
      <4> QED BY <4>1, <4>2, <4>3, <4>4, <4>5
    <3>3. Evicted(q)'
      <4>1. CASE ProjectOf[q] # p
        BY <2>p, <3>1, <4>1, LiveAssumption DEF ReserveProjectEviction, Inv, TypeOK, SessionInv,
           Evicted, Set
      <4>2. CASE ProjectOf[q] = p
        <5>1. /\ entry[q].bound => entry[q].phase = "live"
              /\ entry[q].phase \notin {"loading", "mutating"} \/ entry[q].bound
          BY <4>2 DEF ReserveProjectEviction, ProjectIdle
        <5>2. ~entry[q].bound /\ run[q] = "idle" /\ ~planning[q] /\ entry[q].phase \notin {"live", "reserved",
           "loading", "mutating"}
          BY <2>2, <4>2, <5>1 DEF Inv, TypeOK, SessionInv, Ready, Running
        <5>3. entry[q].phase = "evicting" => ctx[q] # "open"
          BY <5>2 DEF Inv, SessionInv, Ready
        <5>4. evop[q].tok # t
          BY DEF Fresh, InUse
        <5> QED BY <2>p, <3>1, <4>2, <5>2, <5>3, <5>4 DEF ReserveProjectEviction, Inv, TypeOK,
           Evicted, Set
      <4> QED BY <4>1, <4>2
    <3> QED BY <3>2, <3>3 DEF SessionInv
  <2> QED BY <2>1, <2>2
<1>3. \A x \in starts' : StartInv(x)'
  <2>p. PICK t \in Fresh :
        /\ evicting' = Set(evicting, p, t)
        /\ entry' = [s \in Sessions |-> TakenBy(s, p, t)]
        /\ removal' = Set(removal, p, [st |-> "commit", tok |-> t, list |-> {}])
    BY Zenon DEF ReserveProjectEviction
  <2> SUFFICES ASSUME NEW x \in starts PROVE StartInv(x)'
    BY DEF ReserveProjectEviction
  <2>1. CASE entry[x.s].bound /\ ProjectOf[x.s] = p /\ entry[x.s].phase = "live"
    <3>1. entry'[x.s].phase = "evicting" /\ entry'[x.s].owner = entry[x.s].owner
      BY <2>p, <2>1, Typed DEF TakenBy, Inv, TypeOK, Entries
    <3> QED BY <2>1, <3>1 DEF ReserveProjectEviction, Inv, StartInv
  <2>2. CASE ~(entry[x.s].bound /\ ProjectOf[x.s] = p /\ entry[x.s].phase = "live")
    <3>1. entry'[x.s] = entry[x.s]
      BY <2>p, <2>2, Typed DEF TakenBy, Inv, TypeOK
    <3> QED BY <3>1 DEF ReserveProjectEviction, Inv, StartInv
  <2> QED BY <2>1, <2>2
<1>4. \A x \in Projects : RemovalInv(x)'
  <2>p. PICK t \in Fresh :
        /\ evicting' = Set(evicting, p, t)
        /\ entry' = [s \in Sessions |-> TakenBy(s, p, t)]
        /\ removal' = Set(removal, p, [st |-> "commit", tok |-> t, list |-> {}])
    BY Zenon DEF ReserveProjectEviction
  <2> SUFFICES ASSUME NEW x \in Projects PROVE RemovalInv(x)'
    OBVIOUS
  <2>1. CASE x = p
    <3>1. removal'[x].st = "commit" /\ removal'[x].tok = t /\ evicting'[x] = t
      BY <2>p, <2>1 DEF Inv, TypeOK, Set
    <3>2. t # 0
      BY <2>p, LiveAssumption DEF Fresh
    <3> QED BY <3>1, <3>2 DEF RemovalInv
  <2>2. CASE x # p
    <3>1. removal'[x] = removal[x] /\ evicting'[x] = evicting[x]
      BY <2>p, <2>2 DEF Inv, TypeOK, Set
    <3>2. \A s \in SessionsOf(x) : entry'[s] = entry[s]
      BY <2>p, <2>2 DEF TakenBy, Inv, TypeOK, SessionsOf
    <3>3. RemovalInv(x)
      BY DEF Inv
    <3> QED BY <3>1, <3>2, <3>3 DEF RemovalInv, SessionsOf
  <2> QED BY <2>1, <2>2
<1>5. StartTokens'
  BY Typed DEF Inv, TypeOK, StartTokens, ReserveProjectEviction, Fresh, InUse, ProjectIdle,
     ManagerIdle, NoEntry, NoBinding, NoLoad, NoEvop, NoRemoval, Gone, Set, Starts
<1> QED BY <1>1, <1>2, <1>3, <1>4, <1>5 DEF Inv

\* CommitProject preserves the invariant.
LEMMA CommitProjectInv == ASSUME Inv, NEW p \in Projects, CommitProject(p) PROVE Inv'
<1>1. TypeOK'
  BY Typed, CommitProjectType DEF Inv
<1>2. \A q \in Sessions : SessionInv(q)'
  <2>1. /\ UNCHANGED <<entry, evicting, ctx, run, planning, binding, loading, evop>>
        /\ \A q \in Sessions : db'[q].life \in {db[q].life, "none"}
    BY DEF CommitProject, Gone
  <2> QED BY <2>1 DEF Inv, SessionInv, EntryShape, Ownership, Ready, Load, Running, Evicted
<1>3. \A x \in starts' : StartInv(x)'
  <2> SUFFICES ASSUME NEW x \in starts PROVE StartInv(x)'
    BY DEF CommitProject
  <2>1. /\ UNCHANGED <<entry, run, binding>> /\ x.s \in Sessions /\ StartInv(x)
        /\ db'[x.s].life \in {db[x.s].life, "none"} /\ projects \ {p} \subseteq projects'
    BY Typed DEF CommitProject, Gone, Inv
  <2>2. x.st = "creating" => ProjectOf[x.s] # p
    <3>1. evicting[p] # 0
      BY DEF CommitProject, Inv, RemovalInv
    <3> QED BY <2>1, <3>1 DEF Inv, StartInv, SessionInv, Evicted
  <2> QED BY <2>1, <2>2 DEF StartInv
<1>4. \A x \in Projects : RemovalInv(x)'
  BY LiveAssumption, Typed DEF Inv, TypeOK, CommitProject, Taken, Removals, NoEntry, NoBinding,
     NoLoad, NoEvop, NoRemoval, Gone, Set,
     SessionInv, RemovalInv, SessionsOf, EntryShape, Ready, Load, Running, Taken
<1>5. StartTokens'
  BY Typed DEF Inv, TypeOK, StartTokens, CommitProject, Taken, NoEntry, NoBinding, NoLoad,
     NoEvop, NoRemoval, Gone, Set, Starts
<1> QED BY <1>1, <1>2, <1>3, <1>4, <1>5 DEF Inv

\* CancelProject preserves the invariant.
LEMMA CancelProjectInv == ASSUME Inv, NEW p \in Projects, CancelProject(p) PROVE Inv'
<1>1. TypeOK'
  BY Typed, CancelProjectType DEF Inv
<1>2. ASSUME NEW q \in Sessions PROVE SessionInv(q)'
  <2>0. SessionInv(q) /\ UNCHANGED <<db, ctx, run, planning, binding, loading, evop>>
    BY DEF Inv, CancelProject
  <2>1. CASE q \in Taken(p, removal[p].tok)
    <3>1. /\ entry'[q].phase = "live" /\ entry'[q].owner = entry[q].owner
          /\ entry'[q].bound = entry[q].bound /\ entry'[q].teardown = entry[q].teardown
      BY <2>1 DEF CancelProject, GivenBack, Inv, TypeOK, Entries
    <3>2. /\ entry[q].phase = "evicting" /\ entry[q].bound /\ ProjectOf[q] = p
          /\ evicting'[p] = 0
      BY <2>1 DEF CancelProject, Taken, SessionsOf, Set, Inv, TypeOK
    <3> QED
      <4>1. EntryShape(q)'
        BY <2>0, <3>1, <3>2 DEF Ready, Load, Running, SessionInv, EntryShape
      <4>2. Ownership(q)'
        BY <2>0, <3>1, <3>2 DEF Ready, Load, Running, SessionInv, EntryShape, Ownership
      <4>3. Ready(q)'
        BY <2>0, <3>1, <3>2 DEF Ready, Load, Running, SessionInv, EntryShape
      <4>4. Load(q)'
        BY <2>0, <3>1, <3>2 DEF Ready, Load, Running, SessionInv, EntryShape
      <4>5. Running(q)'
        BY <2>0, <3>1, <3>2 DEF Ready, Load, Running, SessionInv, EntryShape
      <4>6. Evicted(q)'
        BY <2>0, <3>1, <3>2 DEF Ready, Load, Running, SessionInv, EntryShape, Evicted
      <4> QED BY <4>1, <4>2, <4>3, <4>4, <4>5, <4>6 DEF SessionInv
  <2>2. CASE q \notin Taken(p, removal[p].tok)
    <3>1. entry'[q] = entry[q] /\ evicting'[ProjectOf[q]] \in {0, evicting[ProjectOf[q]]}
      BY <2>2, LiveAssumption DEF CancelProject, GivenBack, Set, Inv, TypeOK
    <3> QED
      <4>1. EntryShape(q)'
        BY <2>0, <3>1 DEF Inv, SessionInv, EntryShape
      <4>2. Ownership(q)'
        BY <2>0, <3>1 DEF Inv, SessionInv, EntryShape, Ownership
      <4>3. Ready(q)'
        BY <2>0, <3>1 DEF Inv, SessionInv, EntryShape, Ready
      <4>4. Load(q)'
        BY <2>0, <3>1 DEF Inv, SessionInv, EntryShape, Load
      <4>5. Running(q)'
        BY <2>0, <3>1 DEF Inv, SessionInv, EntryShape, Running
      <4>6. Evicted(q)'
        BY <2>0, <3>1 DEF Inv, SessionInv, EntryShape, Evicted
      <4> QED BY <4>1, <4>2, <4>3, <4>4, <4>5, <4>6 DEF SessionInv
  <2> QED BY <2>1, <2>2
<1>3. \A x \in starts' : StartInv(x)'
  <2> SUFFICES ASSUME NEW x \in starts PROVE StartInv(x)'
    BY DEF CancelProject
  <2>1. CASE x.s \in Taken(p, removal[p].tok)
    <3>1. /\ entry'[x.s].phase = "live" /\ entry'[x.s].owner = entry[x.s].owner
      <4>1. x.s \in Sessions /\ entry[x.s] \in Entries
        BY Typed DEF Inv, TypeOK
      <4>2. entry'[x.s] = [entry[x.s] EXCEPT !.phase = "live", !.op = 0]
        BY <2>1, <4>1 DEF CancelProject, GivenBack
      <4> QED BY <4>1, <4>2 DEF Entries
    <3>2. entry[x.s].phase = "evicting"
      BY <2>1 DEF Taken
    <3> QED BY <3>1, <3>2 DEF CancelProject, Inv, StartInv
  <2>2. CASE x.s \notin Taken(p, removal[p].tok)
    <3>1. entry'[x.s] = entry[x.s]
      BY <2>2, Typed DEF CancelProject, GivenBack, Inv, TypeOK
    <3> QED BY <3>1 DEF CancelProject, Inv, StartInv
  <2> QED BY <2>1, <2>2
<1>4. \A x \in Projects : RemovalInv(x)'
  <2> SUFFICES ASSUME NEW x \in Projects PROVE RemovalInv(x)'
    OBVIOUS
  <2>1. CASE x = p
    BY <2>1 DEF CancelProject, Inv, TypeOK, RemovalInv, NoRemoval, Set
  <2>2. CASE x # p
    <3>1. \A s \in SessionsOf(x) : entry'[s] = entry[s]
      BY <2>2 DEF CancelProject, GivenBack, Inv, TypeOK, Taken, SessionsOf
    <3>2. removal'[x] = removal[x] /\ evicting'[x] = evicting[x] /\ RemovalInv(x)
      BY <2>2 DEF CancelProject, Inv, TypeOK, Set
    <3> QED BY <3>1, <3>2 DEF RemovalInv, SessionsOf
  <2> QED BY <2>1, <2>2
<1>5. StartTokens'
  BY Typed DEF Inv, TypeOK, StartTokens, CancelProject, Taken, NoEntry, NoBinding, NoLoad,
     NoEvop, NoRemoval, Gone, Set, Starts
<1> QED BY <1>1, <1>2, <1>3, <1>4, <1>5 DEF Inv

\* EvictOne preserves the invariant.
LEMMA EvictOneInv == ASSUME Inv, NEW p \in Projects, EvictOne(p) PROVE Inv'
<1>1. TypeOK'
  BY Typed, EvictOneType DEF Inv
<1>2. ASSUME NEW q \in Sessions PROVE SessionInv(q)'
  <2> USE LiveAssumption DEF Inv, TypeOK, EvictOne, TornDown, Entries, NoEntry, NoBinding,
     NoLoad, NoEvop, NoRemoval, Gone, Set,
         StartInv, RemovalInv, SessionsOf, SessionInv, EntryShape, Ownership, Ready, Load,
            Running, Evicted
  <2>1. EntryShape(q)' OBVIOUS
  <2>2. Ownership(q)' OBVIOUS
  <2>3. Ready(q)' OBVIOUS
  <2>4. Load(q)' OBVIOUS
  <2>5. Running(q)' OBVIOUS
  <2>6. Evicted(q)' OBVIOUS
  <2> QED BY <2>1, <2>2, <2>3, <2>4, <2>5, <2>6 DEF SessionInv
<1>3. \A x \in starts' : StartInv(x)'
  BY Typed DEF Inv, TypeOK, EvictOne, TornDown, Entries, NoEntry, NoBinding, NoLoad, NoEvop,
     NoRemoval, Gone, Set, Starts,
     SessionInv, StartInv, StartTokens, EntryShape, Ready, Load, Running
<1>4. \A x \in Projects : RemovalInv(x)'
  BY LiveAssumption, Typed DEF Inv, TypeOK, EvictOne, TornDown, Entries, NoEntry, NoBinding,
     NoLoad, NoEvop, NoRemoval, Gone, Set,
     SessionInv, RemovalInv, SessionsOf, EntryShape, Ready, Load, Running, Taken
<1>5. StartTokens'
  BY Typed DEF Inv, TypeOK, StartTokens, EvictOne, TornDown, NoEntry, NoBinding, NoLoad, NoEvop,
     NoRemoval, Gone, Set, Starts
<1> QED BY <1>1, <1>2, <1>3, <1>4, <1>5 DEF Inv

\* FinishProject preserves the invariant.
LEMMA FinishProjectInv == ASSUME Inv, NEW p \in Projects, FinishProject(p) PROVE Inv'
<1>1. TypeOK'
  BY Typed, FinishProjectType DEF Inv
<1>2. ASSUME NEW q \in Sessions PROVE SessionInv(q)'
  <2> USE LiveAssumption DEF Inv, TypeOK, FinishProject, NoEntry, NoBinding, NoLoad, NoEvop,
     NoRemoval, Gone, Set,
         StartInv, RemovalInv, SessionsOf, SessionInv, EntryShape, Ownership, Ready, Load,
            Running, Evicted
  <2>1. EntryShape(q)' OBVIOUS
  <2>2. Ownership(q)' OBVIOUS
  <2>3. Ready(q)' OBVIOUS
  <2>4. Load(q)' OBVIOUS
  <2>5. Running(q)' OBVIOUS
  <2>6. Evicted(q)' OBVIOUS
  <2> QED BY <2>1, <2>2, <2>3, <2>4, <2>5, <2>6 DEF SessionInv
<1>3. \A x \in starts' : StartInv(x)'
  BY Typed DEF Inv, TypeOK, FinishProject, NoEntry, NoBinding, NoLoad, NoEvop, NoRemoval, Gone,
     Set, Starts,
     SessionInv, StartInv, StartTokens, EntryShape, Ready, Load, Running
<1>4. \A x \in Projects : RemovalInv(x)'
  BY LiveAssumption, Typed DEF Inv, TypeOK, FinishProject, NoEntry, NoBinding, NoLoad, NoEvop,
     NoRemoval, Gone, Set,
     SessionInv, RemovalInv, SessionsOf, EntryShape, Ready, Load, Running, Taken
<1>5. StartTokens'
  BY Typed DEF Inv, TypeOK, StartTokens, FinishProject, NoEntry, NoBinding, NoLoad, NoEvop,
     NoRemoval, Gone, Set, Starts
<1> QED BY <1>1, <1>2, <1>3, <1>4, <1>5 DEF Inv

\* AddProject preserves the invariant.
LEMMA AddProjectInv == ASSUME Inv, NEW p \in Projects, AddProject(p) PROVE Inv'
<1>1. TypeOK'
  BY Typed, AddProjectType DEF Inv
<1>2. \A q \in Sessions : SessionInv(q)'
  BY DEF Inv, AddProject, SessionInv, EntryShape, Ownership, Ready, Load, Running, Evicted
<1>3. \A x \in starts' : StartInv(x)'
  BY Typed DEF Inv, TypeOK, AddProject, NoEntry, NoBinding, NoLoad, NoEvop, NoRemoval, Gone, Set,
     Starts,
     SessionInv, StartInv, StartTokens, EntryShape, Ready, Load, Running
<1>4. \A x \in Projects : RemovalInv(x)'
  BY LiveAssumption, Typed DEF Inv, TypeOK, AddProject, NoEntry, NoBinding, NoLoad, NoEvop,
     NoRemoval, Gone, Set,
     SessionInv, RemovalInv, SessionsOf, EntryShape, Ready, Load, Running, Taken
<1>5. StartTokens'
  BY Typed DEF Inv, TypeOK, StartTokens, AddProject, NoEntry, NoBinding, NoLoad, NoEvop,
     NoRemoval, Gone, Set, Starts
<1> QED BY <1>1, <1>2, <1>3, <1>4, <1>5 DEF Inv

\* The inductive invariant holds initially, ...
LEMMA InitInv == Init => Inv
<1> SUFFICES ASSUME Init PROVE Inv
  OBVIOUS
<1>1. TypeOK
  <2>1. db \in [Sessions -> Durable]
    BY LiveAssumption DEF Init, Gone, Durable
  <2>2. entry \in [Sessions -> Entries] /\ evicting \in [Projects -> Token0]
    BY EntryOps DEF Init, Token0
  <2>3. binding \in [Sessions -> Bindings] /\ loading \in [Sessions -> Loads]
    BY LiveAssumption DEF Init, NoBinding, Bindings, NoLoad, Loads, Token0
  <2>4. evop \in [Sessions -> Evops] /\ removal \in [Projects -> Removals]
    BY DEF Init, NoEvop, Evops, NoRemoval, Removals, Token0
  <2> QED BY <2>1, <2>2, <2>3, <2>4 DEF Init, TypeOK
<1>2. \A s \in Sessions : SessionInv(s)
  BY LiveAssumption DEF Init, SessionInv, EntryShape, Ownership, Ready, Load, Running, Evicted,
     NoEntry, NoBinding, NoLoad, NoEvop
<1>3. \A p \in Projects : RemovalInv(p)
  BY DEF Init, RemovalInv, NoRemoval
<1> QED BY <1>1, <1>2, <1>3 DEF Inv, Init, StartTokens

\* ... and every action preserves it.
LEMMA NextInv == Inv /\ [Next]_vars => Inv'
<1> SUFFICES ASSUME Inv, [Next]_vars PROVE Inv'
  OBVIOUS
<1>1. CASE StartStep
  BY <1>1, AskInv, CreatedInv, CreateFailsInv, StartFailsInv, ReleaseOwnedInv DEF StartStep
<1>2. ASSUME NEW s \in Sessions, SessionStep(s) PROVE Inv'
  <2>1. CASE LoadStep(s)
    BY <2>1, LoadReadInv, LoadRefusedInv, LoadRestoreInv, LoadAcceptedInv, LoadStaleInv,
       CleanupFailedLoadInv DEF LoadStep, LoadChecked
  <2>2. CASE RunStep(s)
    BY <2>2, StartRunInv, CommitFirstTurnInv, FirstTurnFailsInv, CommitRunInv, CommitFailsInv,
       InvalidateContextInv, EndRunInv DEF RunStep
  <2>3. CASE TeardownStep(s)
    BY <2>3, TeardownSettledInv, CloseContextInv, FinishTeardownInv DEF TeardownStep
  <2>4. CASE ReserveNew(s) \/ EnsureLoaded(s) \/ UpdateSession(s)
    BY <2>4, ReserveNewInv, EnsureLoadedInv, UpdateSessionInv
  <2>5. CASE ReserveMutation(s) \/ BindMutation(s) \/ ReleaseMutation(s)
    BY <2>5, ReserveMutationInv, BindMutationInv, ReleaseMutationInv
  <2>6. CASE \/ \E k \in {"archive", "rewind"} : ReserveEviction(s, k)
             \/ FinishEviction(s) \/ CancelEviction(s)
    BY <2>6, ReserveEvictionInv, FinishEvictionInv, CancelEvictionInv
  <2>7. CASE PlanStep(s) \/ \E k \in {"restore", "delete"} : Check(s, k)
    BY <2>7, BeginPlanInv, CommitPlanInv, PlanFailsInv, CheckInv DEF PlanStep
  <2> QED BY <1>2, <2>1, <2>2, <2>3, <2>4, <2>5, <2>6, <2>7 DEF SessionStep
<1>3. ASSUME NEW p \in Projects, ReserveProjectEviction(p) \/ ProjectStep(p) \/ AddProject(p)
      PROVE  Inv'
  BY <1>3, ReserveProjectEvictionInv, CommitProjectInv, CancelProjectInv, EvictOneInv,
     FinishProjectInv, AddProjectInv DEF ProjectStep
<1>4. CASE UNCHANGED vars
  BY <1>4 DEF vars, Inv, TypeOK, SessionInv, EntryShape, Ownership, Ready, Load, Running, Evicted,
     StartInv, RemovalInv, SessionsOf, StartTokens
<1>5. CASE \E c \in checked : FinishChecked(c)
  BY <1>5, FinishCheckedInv
<1> QED BY <1>1, <1>2, <1>3, <1>4, <1>5 DEF Next

\* Inv is an invariant of LiveSessions.
THEOREM Invariant == Spec => []Inv
BY InitInv, NextInv, PTL DEF Spec

\* Every variable keeps its type: revisions within the bound, tokens from Tokens.
THEOREM TypeCorrect == Spec => []TypeOK
<1>1. Inv => TypeOK
  BY DEF Inv
<1> QED BY <1>1, Invariant, PTL

\* For any number of Sessions, Projects and concurrent handlers, no context and no
\* durable binding outlives its registry entry, and a binding is its entry's
\* owner's: #cleanupFailedLoad and #closeOwnedContext forget what they close.
THEOREM NothingIsOrphaned == Spec => []ContextsAreOwned
<1>1. Inv => ContextsAreOwned
  BY DEF Inv, SessionInv, Ownership, ContextsAreOwned
<1> QED BY <1>1, Invariant, PTL

\* Whoever finds a live entry finds an open context with the entry's own binding.
THEOREM LiveEntriesAreReady == Spec => []LiveIsReady
<1>1. Inv => LiveIsReady
  BY DEF Inv, SessionInv, Ready, LiveIsReady
<1> QED BY <1>1, Invariant, PTL

\* What lives in the backend and what the registry says of it agree, for any number of Sessions.
THEOREM OwnershipIsKept == Spec => []OwnershipHolds
BY NothingIsOrphaned, LiveEntriesAreReady, PTL DEF OwnershipHolds

\* Nothing closes, archives, rewinds, mutates or removes a Session under its Run or
\* under the commit of its plan status, whatever order the handlers run in: the
\* registry's phases and its look at the manager are enough.  The one Run that loses
\* its Session is that of a new Session whose first turn could not be stored; nothing
\* of that Session is durable.
THEOREM RunsAreProtected == Spec => []RunIsProtected
<1>1. Inv => RunIsProtected
  BY DEF Inv, SessionInv, EntryShape, Running, RunIsProtected
<1> QED BY <1>1, Invariant, PTL

\* No Run and no plan commit is active in a Project reserved for removal or relocation.
THEOREM EvictionExcludesRuns == Spec => []NoRunDuringEviction
<1>1. Inv => NoRunDuringEviction
  BY DEF Inv, SessionInv, Evicted, NoRunDuringEviction, ManagerIdle
<1> QED BY <1>1, Invariant, PTL

\* evictIdleProject only returns when every context of the Project is closed, or
\* is being torn down by a failed start; so a Project is removed or relocated
\* under no Run and with no context left behind.
THEOREM EvictionsAreSafe == Spec => EvictionIsSafe
<1>1. Inv /\ [Next]_vars => [EvictionIsComplete]_vars
  <2> SUFFICES ASSUME Inv, Next, NEW p \in Projects, removal[p].st = "evict",
                      removal'[p].st = "no", NEW s \in SessionsOf(p), ctx[s] = "open"
               PROVE  entry[s].teardown # "none"
    BY DEF EvictionIsComplete
  <2>1. FinishProject(p)
    <3>1. removal[p] # removal'[p]
      OBVIOUS
    <3>2. \E x \in Projects : \/ ReserveProjectEviction(x) \/ ProjectStep(x)
      <4>1. StartStep => removal' = removal
        BY Zenon DEF StartStep, Ask, Created, CreateFails, StartFails, ReleaseOwned
      <4>2. ASSUME NEW x \in Sessions, LoadStep(x) PROVE removal' = removal
        BY <4>2, Zenon DEF LoadStep, LoadRead, LoadRefused, LoadRestore, LoadChecked, LoadAccepted,
           LoadStale, CleanupFailedLoad
      <4>3. ASSUME NEW x \in Sessions, RunStep(x) PROVE removal' = removal
        BY <4>3, Zenon DEF RunStep, StartRun, CommitFirstTurn, FirstTurnFails, CommitRun,
           CommitFails, InvalidateContext, EndRun
      <4>4. ASSUME NEW x \in Sessions, TeardownStep(x) PROVE removal' = removal
        BY <4>4, Zenon DEF TeardownStep, TeardownSettled, CloseContext, FinishTeardown
      <4>5. ASSUME NEW x \in Sessions, SessionStep(x) PROVE removal' = removal
        BY <4>2, <4>3, <4>4, <4>5, Zenon DEF SessionStep, ReserveNew, EnsureLoaded, UpdateSession,
           ReserveMutation, BindMutation, ReleaseMutation, ReserveEviction, FinishEviction,
           CancelEviction, PlanStep, BeginPlan, CommitPlan, PlanFails, Check
      <4>6. ASSUME NEW x \in Projects, AddProject(x) PROVE removal' = removal
        BY <4>6, Zenon DEF AddProject
      <4>7. ASSUME NEW c \in checked, FinishChecked(c) PROVE removal' = removal
        BY <4>7, Zenon DEF FinishChecked
      <4> QED BY <3>1, <4>1, <4>5, <4>6, <4>7, Zenon DEF Next
    <3>3. PICK x \in Projects : ReserveProjectEviction(x) \/ ProjectStep(x)
      BY <3>2
    <3>4. x = p
      BY <3>1, <3>3 DEF ProjectStep, ReserveProjectEviction, CommitProject, CancelProject, EvictOne,
         FinishProject, Set, Inv, TypeOK
    <3>5. ~ReserveProjectEviction(p) /\ ~CommitProject(p) /\ ~CancelProject(p)
      <4>1. removal[p] # NoRemoval /\ removal[p].st # "commit"
        BY DEF NoRemoval
      <4> QED BY <4>1 DEF ReserveProjectEviction, CommitProject, CancelProject
    <3>6. ~EvictOne(p)
      BY <3>1 DEF EvictOne
    <3> QED BY <3>3, <3>4, <3>5, <3>6 DEF ProjectStep
  <2>2. s \in Sessions /\ ProjectOf[s] = p /\ removal[p].tok # 0 /\ evicting[p] = removal[p].tok
    BY DEF SessionsOf, Inv, RemovalInv
  <2>3. entry[s].phase \in {"evicting", "releasing"}
    BY <2>2 DEF Inv, TypeOK, Entries, Phases, SessionInv, EntryShape, Ownership, Evicted
  <2>4. entry[s].phase # "evicting"
    BY <2>1, <2>2 DEF FinishProject, Inv, SessionInv, Evicted, Ready, RemovalInv
  <2> QED BY <2>2, <2>3, <2>4 DEF Inv, SessionInv, EntryShape
<1>2. NoRunDuringEviction' /\ [EvictionIsComplete]_vars
        => [NoRunDuringEviction' /\ EvictionIsComplete]_vars
  OBVIOUS
<1> QED BY <1>1, <1>2, Invariant, EvictionExcludesRuns, PTL DEF Spec, EvictionIsSafe

------------------------------------------------------------------------------
(* The record a live context works from. *)

\* A removal that has committed holds the reservation of s: it will not be given back.
Lost(s) == LET r == removal[ProjectOf[s]] IN r.st = "evict" /\ entry[s].op = r.tok

\* The context of s is in use, or may be again.
Usable(s) ==
    \/ entry[s].phase = "live"
    \/ entry[s].phase = "mutating" /\ ctx[s] = "open"
    \/ entry[s].phase = "evicting" /\ ctx[s] = "open" /\ ~Lost(s)
    \/ loading[s].st \in {"restoring", "checking"}

\* An archive or a rewind holds its reservation until it ends; no start owns that entry.
Reserved(s) ==
    evop[s].st = "commit" =>
       Holds(s) /\ \A o \in starts : o.s = s => entry[s].owner # o.tok

\* The durable record of a context that is in use, or will be: what the binding says of it.
Agrees(s) ==
    /\ ProjectOf[s] \in projects
    /\ ~binding[s].isNew /\ ~binding[s].invalid =>
         db[s].life = "active" /\ binding[s].rev = db[s].rev

\* What a load has restored is what it bound.
Restored(s) ==
    loading[s].st \in {"restoring", "checking"} =>
       ~binding[s].isNew /\ ~binding[s].invalid /\ binding[s].rev = loading[s].rev

Durably(s) ==
    /\ Restored(s)
    /\ \A p \in Projects : s \in removal[p].list => ProjectOf[s] = p
    /\ binding[s].isNew => binding[s].rev = 1
    /\ Reserved(s)
    /\ Usable(s) => Agrees(s)

\* All of this about s stays as it is.
Same(s) ==
    /\ db'[s] = db[s] /\ entry'[s] = entry[s] /\ ctx'[s] = ctx[s] /\ binding'[s] = binding[s]
    /\ loading'[s] = loading[s] /\ evop'[s] = evop[s]
    /\ removal'[ProjectOf[s]] = removal[ProjectOf[s]]
    /\ \A p \in Projects : s \in removal'[p].list => s \in removal[p].list
    /\ ProjectOf[s] \in projects => ProjectOf[s] \in projects'
    /\ \A o \in starts' : o.s = s => \E x \in starts : x.s = s /\ x.tok = o.tok

LEMMA SameDurably == ASSUME NEW s \in Sessions, Durably(s), Same(s) PROVE Durably(s)'
BY DEF Same, Durably, Restored, Reserved, Agrees, Usable, Lost, Holds

\* ReserveNew keeps the record of s, and whatever concerns another Session.
LEMMA ReserveNewDurably ==
    ASSUME Inv, Inv', NEW s \in Sessions, ReserveNew(s), Durably(s)
    PROVE  Durably(s)' /\ \A q \in Sessions \ {s} : Same(q)
<1>1. Durably(s)'
  BY DEF ReserveNew, Fresh, InUse, NoEntry, Set, Inv, TypeOK, Entries, Bindings, Durable,
         SessionInv, EntryShape, Ownership, Ready, Load, Running, StartInv, Durably, Restored,
         Reserved,
         Agrees, Usable, Lost, Holds
<1>2. \A q \in Sessions \ {s} : Same(q)
  BY DEF ReserveNew, Fresh, InUse, NoEntry, Set, Inv, TypeOK, Same
<1> QED BY <1>1, <1>2

\* EnsureLoaded keeps the record of s, and whatever concerns another Session.
LEMMA EnsureLoadedDurably ==
    ASSUME Inv, Inv', NEW s \in Sessions, EnsureLoaded(s), Durably(s)
    PROVE  Durably(s)' /\ \A q \in Sessions \ {s} : Same(q)
<1>1. Durably(s)'
  BY DEF EnsureLoaded, NoEntry, Set, Inv, TypeOK, Entries, Bindings, Durable, SessionInv,
         EntryShape, Ownership, Ready, Load, Running, StartInv, Durably, Restored, Reserved,
         Agrees,
         Usable, Lost, Holds
<1>2. \A q \in Sessions \ {s} : Same(q)
  BY DEF EnsureLoaded, NoEntry, Set, Inv, TypeOK, Same
<1> QED BY <1>1, <1>2

\* LoadRead keeps the record of s, and whatever concerns another Session.
LEMMA LoadReadDurably ==
    ASSUME Inv, Inv', NEW s \in Sessions, LoadRead(s), Durably(s)
    PROVE  Durably(s)' /\ \A q \in Sessions \ {s} : Same(q)
<1>1. Durably(s)'
  BY DEF LoadRead, LoadMayBind, LoadMayRestore, Set, Inv, TypeOK, Entries, Bindings, Durable,
         SessionInv, EntryShape, Ownership, Ready, Load, Running, StartInv, Durably, Restored,
         Reserved,
         Agrees, Usable, Lost, Holds
<1>2. \A q \in Sessions \ {s} : Same(q)
  BY DEF LoadRead, LoadMayBind, LoadMayRestore, Set, Inv, TypeOK, Same
<1> QED BY <1>1, <1>2

\* LoadRefused keeps the record of s, and whatever concerns another Session.
LEMMA LoadRefusedDurably ==
    ASSUME Inv, Inv', NEW s \in Sessions, LoadRefused(s), Durably(s)
    PROVE  Durably(s)' /\ \A q \in Sessions \ {s} : Same(q)
<1>1. Durably(s)'
  BY DEF LoadRefused, LoadMayBind, LoadMayRestore, LoadFails, NoLoad, Set, Inv, TypeOK, Entries,
         Bindings, Durable, SessionInv, EntryShape, Ownership, Ready, Load, Running, StartInv,
         Durably, Restored, Reserved, Agrees, Usable, Lost, Holds
<1>2. \A q \in Sessions \ {s} : Same(q)
  BY DEF LoadRefused, LoadMayBind, LoadMayRestore, LoadFails, NoLoad, Set, Inv, TypeOK, Same
<1> QED BY <1>1, <1>2

\* LoadRestore keeps the record of s, and whatever concerns another Session.
LEMMA LoadRestoreDurably ==
    ASSUME Inv, Inv', NEW s \in Sessions, LoadRestore(s), Durably(s)
    PROVE  Durably(s)' /\ \A q \in Sessions \ {s} : Same(q)
<1>1. Durably(s)'
  <2>1. Restored(s)'
    <3>1. binding' = binding /\ loading[s].st = "restoring"
      BY DEF LoadRestore
    <3>2. loading'[s].st = "cleaning" \/ loading'[s].rev = loading[s].rev
      BY DEF LoadRestore, LoadFails, NoLoad, Set, Inv, TypeOK, Loads
    <3> QED BY <3>1, <3>2 DEF Durably, Restored
  <2> QED
    BY <2>1 DEF LoadRestore, LoadFails, NoLoad, Set, Inv, TypeOK, Entries, Bindings, Durable,
       SessionInv, EntryShape, Ownership, Ready, Load, Running, StartInv, Durably, Reserved,
       Agrees, Usable, Lost, Holds
<1>2. \A q \in Sessions \ {s} : Same(q)
  BY DEF LoadRestore, LoadFails, NoLoad, Set, Inv, TypeOK, Same
<1> QED BY <1>1, <1>2

\* LoadAccepted keeps the record of s, and whatever concerns another Session.
LEMMA LoadAcceptedDurably ==
    ASSUME Inv, Inv', NEW s \in Sessions, LoadAccepted(s), Durably(s)
    PROVE  Durably(s)' /\ \A q \in Sessions \ {s} : Same(q)
<1>1. Durably(s)'
  BY DEF LoadAccepted, LoadUnchanged, NoLoad, Set, Inv, TypeOK, Entries, Bindings, Durable,
         SessionInv, EntryShape, Ownership, Ready, Load, Running, StartInv, Durably, Restored,
         Reserved,
         Agrees, Usable, Lost, Holds
<1>2. \A q \in Sessions \ {s} : Same(q)
  BY DEF LoadAccepted, LoadUnchanged, NoLoad, Set, Inv, TypeOK, Same
<1> QED BY <1>1, <1>2

\* LoadStale keeps the record of s, and whatever concerns another Session.
LEMMA LoadStaleDurably ==
    ASSUME Inv, Inv', NEW s \in Sessions, LoadStale(s), Durably(s)
    PROVE  Durably(s)' /\ \A q \in Sessions \ {s} : Same(q)
<1>1. Durably(s)'
  <2>1. Restored(s)'
    <3>1. loading'[s].st = "cleaning"
      BY DEF LoadStale, LoadFails, NoLoad, Set, Inv, TypeOK
    <3> QED BY <3>1 DEF Restored
  <2> QED
    BY <2>1 DEF LoadStale, LoadUnchanged, LoadFails, NoLoad, Set, Inv, TypeOK, Entries,
       Bindings, Durable, SessionInv, EntryShape, Ownership, Ready, Load, Running, StartInv,
       Durably, Reserved, Agrees, Usable, Lost, Holds
<1>2. \A q \in Sessions \ {s} : Same(q)
  BY DEF LoadStale, LoadUnchanged, LoadFails, NoLoad, Set, Inv, TypeOK, Same
<1> QED BY <1>1, <1>2

\* CleanupFailedLoad keeps the record of s, and whatever concerns another Session.
LEMMA CleanupFailedLoadDurably ==
    ASSUME Inv, Inv', NEW s \in Sessions, CleanupFailedLoad(s), Durably(s)
    PROVE  Durably(s)' /\ \A q \in Sessions \ {s} : Same(q)
<1>1. Durably(s)'
  BY DEF CleanupFailedLoad, Forget, NoEntry, NoBinding, NoLoad, Set, Inv, TypeOK, Entries,
         Bindings, Durable, SessionInv, EntryShape, Ownership, Ready, Load, Running, StartInv,
         Durably, Restored, Reserved, Agrees, Usable, Lost, Holds
<1>2. \A q \in Sessions \ {s} : Same(q)
  BY DEF CleanupFailedLoad, Forget, NoEntry, NoBinding, NoLoad, Set, Inv, TypeOK, Same
<1> QED BY <1>1, <1>2

\* StartRun keeps the record of s, and whatever concerns another Session.
LEMMA StartRunDurably ==
    ASSUME Inv, Inv', NEW s \in Sessions, StartRun(s), Durably(s)
    PROVE  Durably(s)' /\ \A q \in Sessions \ {s} : Same(q)
<1>1. Durably(s)'
  BY DEF StartRun, Set, Inv, TypeOK, Entries, Bindings, Durable, SessionInv, EntryShape,
         Ownership, Ready, Load, Running, StartInv, Durably, Restored, Reserved, Agrees, Usable,
         Lost,
         Holds
<1>2. \A q \in Sessions \ {s} : Same(q)
  BY DEF StartRun, Set, Inv, TypeOK, Same
<1> QED BY <1>1, <1>2

\* CommitFirstTurn keeps the record of s, and whatever concerns another Session.
LEMMA CommitFirstTurnDurably ==
    ASSUME Inv, Inv', NEW s \in Sessions, CommitFirstTurn(s), Durably(s)
    PROVE  Durably(s)' /\ \A q \in Sessions \ {s} : Same(q)
<1>1. Durably(s)'
  BY DEF CommitFirstTurn, Set, Inv, TypeOK, Entries, Bindings, Durable, SessionInv, EntryShape,
         Ownership, Ready, Load, Running, StartInv, Durably, Restored, Reserved, Agrees, Usable,
         Lost,
         Holds
<1>2. \A q \in Sessions \ {s} : Same(q)
  BY DEF CommitFirstTurn, Set, Inv, TypeOK, Same
<1> QED BY <1>1, <1>2

\* FirstTurnFails keeps the record of s, and whatever concerns another Session.
LEMMA FirstTurnFailsDurably ==
    ASSUME Inv, Inv', NEW s \in Sessions, FirstTurnFails(s), Durably(s)
    PROVE  Durably(s)' /\ \A q \in Sessions \ {s} : Same(q)
<1>1. Durably(s)'
  BY DEF FirstTurnFails, Set, Inv, TypeOK, Entries, Bindings, Durable,
         SessionInv, EntryShape, Ownership, Ready, Load, Running, StartInv, Durably, Restored,
         Reserved, Agrees, Usable, Lost, Holds
<1>2. \A q \in Sessions \ {s} : Same(q)
  <2>1. UNCHANGED <<db, projects, entry, ctx, binding, loading, evop, removal>>
    BY DEF FirstTurnFails
  <2>2. \A o \in starts' : \E x \in starts : x.s = o.s /\ x.tok = o.tok
    <3>1. \A x \in starts : [x EXCEPT !.st = "failing"].s = x.s
                           /\ [x EXCEPT !.st = "failing"].tok = x.tok
      BY Typed DEF Starts
    <3>2. ASSUME NEW o \in starts' PROVE \E x \in starts : x.s = o.s /\ x.tok = o.tok
      <4>1. PICK x \in starts :
              o = IF x.s = s /\ x.st = "started" THEN [x EXCEPT !.st = "failing"] ELSE x
        BY DEF FirstTurnFails
      <4> QED BY <3>1, <4>1
    <3> QED BY <3>2
  <2> QED BY <2>1, <2>2 DEF Same
<1> QED BY <1>1, <1>2

\* CommitRun keeps the record of s, and whatever concerns another Session.
LEMMA CommitRunDurably ==
    ASSUME Inv, Inv', NEW s \in Sessions, CommitRun(s), Durably(s)
    PROVE  Durably(s)' /\ \A q \in Sessions \ {s} : Same(q)
<1>1. Durably(s)'
  BY DEF CommitRun, Commits, Set, Inv, TypeOK, Entries, Bindings, Durable, SessionInv,
         EntryShape, Ownership, Ready, Load, Running, StartInv, Durably, Restored, Reserved,
         Agrees,
         Usable, Lost, Holds
<1>2. \A q \in Sessions \ {s} : Same(q)
  BY DEF CommitRun, Commits, Set, Inv, TypeOK, Same
<1> QED BY <1>1, <1>2

\* CommitFails keeps the record of s, and whatever concerns another Session.
LEMMA CommitFailsDurably ==
    ASSUME Inv, Inv', NEW s \in Sessions, CommitFails(s), Durably(s)
    PROVE  Durably(s)' /\ \A q \in Sessions \ {s} : Same(q)
<1>1. Durably(s)'
  BY DEF CommitFails, Commits, Set, Inv, TypeOK, Entries, Bindings, Durable, SessionInv,
         EntryShape, Ownership, Ready, Load, Running, StartInv, Durably, Restored, Reserved,
         Agrees,
         Usable, Lost, Holds
<1>2. \A q \in Sessions \ {s} : Same(q)
  BY DEF CommitFails, Commits, Set, Inv, TypeOK, Same
<1> QED BY <1>1, <1>2

\* InvalidateContext keeps the record of s, and whatever concerns another Session.
LEMMA InvalidateContextDurably ==
    ASSUME Inv, Inv', NEW s \in Sessions, InvalidateContext(s), Durably(s)
    PROVE  Durably(s)' /\ \A q \in Sessions \ {s} : Same(q)
<1>1. Durably(s)'
  <2>1. Restored(s)'
    <3>1. loading' = loading /\ loading[s].st = "no"
      BY DEF InvalidateContext, Commits, Inv, SessionInv, Running, Load, EntryShape
    <3> QED BY <3>1 DEF Restored
  <2> QED
    BY <2>1 DEF InvalidateContext, Commits, Invalidated, TornDown, Set, Inv, TypeOK, Entries,
       Bindings, Durable, SessionInv, EntryShape, Ownership, Ready, Load, Running, StartInv,
       Durably, Reserved, Agrees, Usable, Lost, Holds
<1>2. \A q \in Sessions \ {s} : Same(q)
  BY DEF InvalidateContext, Commits, Invalidated, TornDown, Set, Inv, TypeOK, Same
<1> QED BY <1>1, <1>2

\* EndRun keeps the record of s, and whatever concerns another Session.
LEMMA EndRunDurably ==
    ASSUME Inv, Inv', NEW s \in Sessions, EndRun(s), Durably(s)
    PROVE  Durably(s)' /\ \A q \in Sessions \ {s} : Same(q)
<1>1. Durably(s)'
  BY DEF EndRun, Set, Inv, TypeOK, Entries, Bindings, Durable, SessionInv, EntryShape,
         Ownership, Ready, Load, Running, StartInv, Durably, Restored, Reserved, Agrees, Usable,
         Lost,
         Holds
<1>2. \A q \in Sessions \ {s} : Same(q)
  BY DEF EndRun, Set, Inv, TypeOK, Same
<1> QED BY <1>1, <1>2

\* BeginPlan keeps the record of s, and whatever concerns another Session.
LEMMA BeginPlanDurably ==
    ASSUME Inv, Inv', NEW s \in Sessions, BeginPlan(s), Durably(s)
    PROVE  Durably(s)' /\ \A q \in Sessions \ {s} : Same(q)
<1>1. Durably(s)'
  BY DEF BeginPlan, ManagerIdle, Set, Inv, TypeOK, Entries, Bindings, Durable,
         SessionInv, EntryShape, Ownership, Ready, Load, Running, StartInv, Durably, Restored,
         Reserved, Agrees, Usable, Lost, Holds
<1>2. \A q \in Sessions \ {s} : Same(q)
  BY DEF BeginPlan, ManagerIdle, Set, Inv, TypeOK, Same
<1> QED BY <1>1, <1>2

\* CommitPlan keeps the record of s, and whatever concerns another Session.
LEMMA CommitPlanDurably ==
    ASSUME Inv, Inv', NEW s \in Sessions, CommitPlan(s), Durably(s)
    PROVE  Durably(s)' /\ \A q \in Sessions \ {s} : Same(q)
<1>1. Durably(s)'
  BY DEF CommitPlan, Set, Inv, TypeOK, Entries, Bindings, Durable,
         SessionInv, EntryShape, Ownership, Ready, Load, Running, StartInv, Durably, Restored,
         Reserved, Agrees, Usable, Lost, Holds
<1>2. \A q \in Sessions \ {s} : Same(q)
  BY DEF CommitPlan, Set, Inv, TypeOK, Same
<1> QED BY <1>1, <1>2

\* PlanFails keeps the record of s, and whatever concerns another Session.
LEMMA PlanFailsDurably ==
    ASSUME Inv, Inv', NEW s \in Sessions, PlanFails(s), Durably(s)
    PROVE  Durably(s)' /\ \A q \in Sessions \ {s} : Same(q)
<1>1. Durably(s)'
  <2>1. entry[s].phase = "live" /\ ~binding[s].isNew /\ loading[s].st = "no"
    BY PlanFailsEffect DEF Inv, SessionInv, Running, Load
  <2>2. evop[s].st # "commit" /\ Agrees(s)
    BY <2>1 DEF Durably, Reserved, Holds, Usable
  <2>3. Agrees(s)'
    BY <2>1, <2>2, PlanFailsEffect DEF Agrees
  <2> QED BY <2>1, <2>2, <2>3, PlanFailsEffect DEF Durably, Restored, Reserved
<1>2. \A q \in Sessions \ {s} : Same(q)
  BY PlanFailsEffect DEF Same
<1> QED BY <1>1, <1>2

\* UpdateSession keeps the record of s, and whatever concerns another Session.
LEMMA UpdateSessionDurably ==
    ASSUME Inv, Inv', NEW s \in Sessions, UpdateSession(s), Durably(s)
    PROVE  Durably(s)' /\ \A q \in Sessions \ {s} : Same(q)
<1>1. Durably(s)'
  <2>1. /\ UNCHANGED <<projects, entry, ctx, starts, loading, evop, removal>>
        /\ db[s].life = "active" /\ entry[s].phase \in {"none", "live"}
        /\ db'[s].life = "active" /\ db'[s].rev = db[s].rev + 1
    BY DEF UpdateSession, SessionIdle, Inv, TypeOK, Durable
  <2>2. loading[s].st = "no"
    BY <2>1 DEF Inv, SessionInv, Load
  <2>3. (\A p \in Projects : s \in removal'[p].list => ProjectOf[s] = p) /\ Reserved(s)'
    BY <2>1 DEF Durably, Reserved, Holds
  <2>4. CASE entry[s].phase = "none"
    <3>1. binding' = binding
      BY <2>4 DEF UpdateSession
    <3> QED BY <2>1, <2>2, <2>3, <2>4, <3>1 DEF Durably, Restored, Usable
  <2>5. CASE entry[s].phase = "live"
    <3>1. ctx[s] = "open" /\ ProjectOf[s] \in projects
      BY <2>5 DEF Inv, SessionInv, Ready, Durably, Usable, Agrees
    <3>2. CASE binding[s].invalid
      <4>1. binding' = binding
        BY <3>2 DEF UpdateSession
      <4> QED BY <2>1, <2>2, <2>3, <3>1, <3>2, <4>1 DEF Durably, Restored, Agrees
    <3>3. CASE ~binding[s].invalid
      <4>1. binding' = [binding EXCEPT ![s].rev = db[s].rev + 1, ![s].isNew = FALSE]
        BY <2>5, <3>1, <3>3, Zenon DEF UpdateSession
      <4>2. binding'[s].rev = db[s].rev + 1 /\ ~binding'[s].isNew
        BY <4>1 DEF Inv, TypeOK, Bindings
      <4> QED BY <2>1, <2>2, <2>3, <3>1, <4>2 DEF Durably, Restored, Agrees
    <3> QED BY <3>2, <3>3
  <2> QED BY <2>1, <2>4, <2>5
<1>2. \A q \in Sessions \ {s} : Same(q)
  BY DEF UpdateSession, SessionIdle, ManagerIdle, Set, Inv, TypeOK, Same
<1> QED BY <1>1, <1>2

\* TeardownSettled keeps the record of s, and whatever concerns another Session.
LEMMA TeardownSettledDurably ==
    ASSUME Inv, Inv', NEW s \in Sessions, TeardownSettled(s), Durably(s)
    PROVE  Durably(s)' /\ \A q \in Sessions \ {s} : Same(q)
<1>1. Durably(s)'
  BY DEF TeardownSettled, Set, Inv, TypeOK, Entries, Bindings, Durable, SessionInv, EntryShape,
         Ownership, Ready, Load, Running, StartInv, Durably, Restored, Reserved, Agrees, Usable,
         Lost,
         Holds
<1>2. \A q \in Sessions \ {s} : Same(q)
  BY DEF TeardownSettled, Set, Inv, TypeOK, Same
<1> QED BY <1>1, <1>2

\* CloseContext keeps the record of s, and whatever concerns another Session.
LEMMA CloseContextDurably ==
    ASSUME Inv, Inv', NEW s \in Sessions, CloseContext(s), Durably(s)
    PROVE  Durably(s)' /\ \A q \in Sessions \ {s} : Same(q)
<1>1. Durably(s)'
  BY DEF CloseContext, Set, Inv, TypeOK, Entries, Bindings, Durable, SessionInv, EntryShape,
         Ownership, Ready, Load, Running, StartInv, Durably, Restored, Reserved, Agrees, Usable,
         Lost,
         Holds
<1>2. \A q \in Sessions \ {s} : Same(q)
  BY DEF CloseContext, Set, Inv, TypeOK, Same
<1> QED BY <1>1, <1>2

\* FinishTeardown keeps the record of s, and whatever concerns another Session.
LEMMA FinishTeardownDurably ==
    ASSUME Inv, Inv', NEW s \in Sessions, FinishTeardown(s), Durably(s)
    PROVE  Durably(s)' /\ \A q \in Sessions \ {s} : Same(q)
<1>1. Durably(s)'
  <2>1. Restored(s)'
    <3>1. loading' = loading /\ loading[s].st = "no"
      BY DEF FinishTeardown, Inv, SessionInv, Load, EntryShape
    <3> QED BY <3>1 DEF Restored
  <2>2. loading[s].st = "no" /\ entry[s].phase = "releasing"
    BY DEF FinishTeardown, Inv, SessionInv, Load, EntryShape
  <2>3. evop[s].st # "commit" /\ UNCHANGED <<loading, evop, removal>>
    BY <2>2 DEF FinishTeardown, Durably, Reserved, Holds
  <2>4. ~Usable(s)'
    BY <2>2 DEF FinishTeardown, NoEntry, Set, Inv, TypeOK, Usable
  <2>5. binding'[s].isNew => binding'[s].rev = 1
    BY DEF FinishTeardown, Forget, NoBinding, Set, Inv, TypeOK, Durably
  <2> QED BY <2>1, <2>3, <2>4, <2>5 DEF Durably, Reserved
<1>2. \A q \in Sessions \ {s} : Same(q)
  BY DEF FinishTeardown, Forget, NoEntry, NoBinding, Set, Inv, TypeOK, Same
<1> QED BY <1>1, <1>2

\* ReserveMutation keeps the record of s, and whatever concerns another Session.
LEMMA ReserveMutationDurably ==
    ASSUME Inv, Inv', NEW s \in Sessions, ReserveMutation(s), Durably(s)
    PROVE  Durably(s)' /\ \A q \in Sessions \ {s} : Same(q)
<1>1. Durably(s)'
  BY DEF ReserveMutation, SessionIdle, ManagerIdle, NoEntry, Set, Inv, TypeOK, Entries,
         Bindings, Durable, SessionInv, EntryShape, Ownership, Ready, Load, Running, StartInv,
         Durably, Restored, Reserved, Agrees, Usable, Lost, Holds
<1>2. \A q \in Sessions \ {s} : Same(q)
  BY DEF ReserveMutation, SessionIdle, ManagerIdle, NoEntry, Set, Inv, TypeOK, Same
<1> QED BY <1>1, <1>2

\* BindMutation keeps the record of s, and whatever concerns another Session.
LEMMA BindMutationDurably ==
    ASSUME Inv, Inv', NEW s \in Sessions, BindMutation(s), Durably(s)
    PROVE  Durably(s)' /\ \A q \in Sessions \ {s} : Same(q)
<1>1. Durably(s)'
  BY DEF BindMutation, Set, Inv, TypeOK, Entries, Bindings, Durable, SessionInv, EntryShape,
         Ownership, Ready, Load, Running, StartInv, Durably, Restored, Reserved, Agrees, Usable,
         Lost,
         Holds
<1>2. \A q \in Sessions \ {s} : Same(q)
  BY DEF BindMutation, Set, Inv, TypeOK, Same
<1> QED BY <1>1, <1>2

\* ReleaseMutation keeps the record of s, and whatever concerns another Session.
LEMMA ReleaseMutationDurably ==
    ASSUME Inv, Inv', NEW s \in Sessions, ReleaseMutation(s), Durably(s)
    PROVE  Durably(s)' /\ \A q \in Sessions \ {s} : Same(q)
<1>1. Durably(s)'
  BY DEF ReleaseMutation, Unreserved, NoEntry, Set, Inv, TypeOK, Entries, Bindings, Durable,
         SessionInv, EntryShape, Ownership, Ready, Load, Running, StartInv, Durably, Restored,
         Reserved,
         Agrees, Usable, Lost, Holds
<1>2. \A q \in Sessions \ {s} : Same(q)
  BY DEF ReleaseMutation, Unreserved, NoEntry, Set, Inv, TypeOK, Same
<1> QED BY <1>1, <1>2

\* FinishEviction keeps the record of s, and whatever concerns another Session.
LEMMA FinishEvictionDurably ==
    ASSUME Inv, Inv', NEW s \in Sessions, FinishEviction(s), Durably(s)
    PROVE  Durably(s)' /\ \A q \in Sessions \ {s} : Same(q)
<1>1. Durably(s)'
  BY DEF FinishEviction, TornDown, NoEvop, Set, Inv, TypeOK, Entries, Bindings, Durable,
         SessionInv, EntryShape, Ownership, Ready, Load, Running, StartInv, Durably, Restored,
         Reserved,
         Agrees, Usable, Lost, Holds
<1>2. \A q \in Sessions \ {s} : Same(q)
  BY DEF FinishEviction, TornDown, NoEvop, Set, Inv, TypeOK, Same
<1> QED BY <1>1, <1>2

\* CancelEviction keeps the record of s, and whatever concerns another Session.
LEMMA CancelEvictionDurably ==
    ASSUME Inv, Inv', NEW s \in Sessions, CancelEviction(s), Durably(s)
    PROVE  Durably(s)' /\ \A q \in Sessions \ {s} : Same(q)
<1>1. Durably(s)'
  <2> DEFINE e == entry[s]
  <2>1. /\ evop'[s].st # "commit" /\ e.phase = "evicting" /\ Holds(s) /\ e.op = evop[s].tok
        /\ entry'[s] = Unreserved(s) /\ e \in Entries
    BY DEF CancelEviction, Set, NoEvop, Durably, Restored, Reserved, Holds, Inv, TypeOK
  <2>2. UNCHANGED <<db, projects, ctx, binding, loading, removal>>
    BY DEF CancelEviction
  <2>3. CASE ctx[s] = "open"
    <3>1. ~Lost(s)
      <4>1. ProjectOf[s] \in Projects
        BY LiveAssumption
      <4> QED
        BY <2>1, <4>1 DEF Inv, RemovalInv, SessionInv, Evicted, Lost
    <3>2. Agrees(s)
      BY <2>1, <2>3, <3>1 DEF Durably, Usable
    <3> QED
      BY <2>1, <2>2, <3>2 DEF Durably, Restored, Reserved, Agrees
  <2>4. CASE ctx[s] # "open"
    <3>1. entry'[s].phase = "none" /\ loading[s].st = "no"
      BY <2>1, <2>4 DEF Unreserved, NoEntry, Inv, SessionInv, Load
    <3> QED
      BY <2>1, <2>2, <3>1 DEF Durably, Restored, Reserved, Usable
  <2> QED BY <2>3, <2>4
<1>2. \A q \in Sessions \ {s} : Same(q)
  BY DEF CancelEviction, Unreserved, NoEntry, NoEvop, Set, Inv, TypeOK, Same
<1> QED BY <1>1, <1>2

\* Check keeps the record of s, and whatever concerns another Session.
LEMMA CheckDurably ==
    ASSUME Inv, Inv', NEW s \in Sessions, NEW k \in {"restore", "delete"}, Check(s, k), Durably(s)
    PROVE  Durably(s)' /\ \A q \in Sessions \ {s} : Same(q)
<1>1. Durably(s)'
  BY DEF Check, Set, Inv, TypeOK, Entries, Bindings, Durable,
         SessionInv, EntryShape, Ownership, Ready, Load, Running, StartInv, Durably, Restored,
         Reserved, Agrees, Usable, Lost, Holds
<1>2. \A q \in Sessions \ {s} : Same(q)
  BY DEF Check, Set, Inv, TypeOK, Same
<1> QED BY <1>1, <1>2

\* FinishChecked keeps the record of its Session, and whatever concerns another Session.
LEMMA FinishCheckedDurably ==
    ASSUME Inv, Inv', NEW c \in checked, FinishChecked(c), Durably(c.s)
    PROVE  Durably(c.s)' /\ \A q \in Sessions \ {c.s} : Same(q)
<1>1. Durably(c.s)'
  BY DEF FinishChecked, Checks, Gone, Set, Inv, TypeOK, Entries, Bindings, Durable,
         SessionInv, EntryShape, Ownership, Ready, Load, Running, StartInv, Durably, Restored,
         Reserved, Agrees, Usable, Lost, Holds
<1>2. \A q \in Sessions \ {c.s} : Same(q)
  BY DEF FinishChecked, Checks, Gone, Set, Inv, TypeOK, Same
<1> QED BY <1>1, <1>2

\* The archive or the rewind takes over an entry that agrees, or makes one without a context.
LEMMA ReserveEvictionDurably ==
    ASSUME Inv, Inv', NEW s \in Sessions, NEW k \in {"archive", "rewind"}, ReserveEviction(s, k),
           Durably(s)
    PROVE  Durably(s)' /\ \A q \in Sessions \ {s} : Same(q)
<1>1. PICK t \in Fresh :
        /\ entry' = Set(entry, s, IF entry[s].phase = "live"
                                 THEN [entry[s] EXCEPT !.phase = "evicting", !.op = t]
                                 ELSE [NoEntry EXCEPT !.phase = "evicting", !.owner = t, !.op = t])
        /\ evop' = Set(evop, s, [kind |-> k, st |-> "commit", tok |-> t])
  BY Zenon DEF ReserveEviction
<1>2. /\ UNCHANGED <<db, projects, ctx, binding, loading, starts, removal>>
      /\ entry[s].phase \in {"none", "live"} /\ db[s].life # "none"
  BY DEF ReserveEviction, SessionIdle
<1>3. Durably(s)'
  <2>1. Reserved(s)'
    <3>1. Holds(s)'
      BY <1>1, <1>2 DEF Holds, Set, Inv, TypeOK, Entries, NoEntry
    <3>2. \A o \in starts : o.s = s => entry'[s].owner # o.tok
      <4>1. \A o \in starts : o.s = s => t # o.tok /\ entry[s].owner # o.tok
        BY <1>2 DEF Fresh, InUse, Inv, StartInv
      <4>2. entry'[s].owner \in {t, entry[s].owner}
        BY <1>1, <1>2 DEF Set, Inv, TypeOK, Entries, NoEntry
      <4> QED BY <4>1, <4>2
    <3> QED BY <1>2, <3>1, <3>2 DEF Reserved
  <2>2. Usable(s)' => Usable(s)
    BY <1>1, <1>2 DEF Set, Inv, TypeOK, Entries, NoEntry, SessionInv, Ownership, Load, Usable,
       Lost
  <2> QED BY <1>2, <2>1, <2>2 DEF Durably, Restored, Agrees
<1>4. \A q \in Sessions \ {s} : Same(q)
  BY <1>1, <1>2 DEF Set, Inv, TypeOK, Same
<1> QED BY <1>3, <1>4

\* A new Session is not durable yet; what its start leaves to tear down is of no more use.
LEMMA StartDurably ==
    ASSUME Inv, Inv', NEW o \in starts, Durably(o.s),
           Ask(o) \/ Created(o) \/ CreateFails(o) \/ StartFails(o) \/ ReleaseOwned(o)
    PROVE  Durably(o.s)' /\ \A q \in Sessions \ {o.s} : Same(q)
<1>1. o \in Starts /\ o.s \in Sessions /\ StartInv(o)
  BY Typed DEF Inv
<1>2. CASE Ask(o) \/ CreateFails(o) \/ StartFails(o)
  <2>1. Same(o.s) /\ \A q \in Sessions \ {o.s} : Same(q)
    BY <1>1, <1>2 DEF Ask, CreateFails, StartFails, Step, Same, Starts
  <2> QED BY <1>1, <2>1, SameDurably
<1>3. CASE Created(o)
  <2>0. entry[o.s].owner = o.tok /\ entry[o.s].phase = "reserved" /\ binding[o.s].owner \in {0, o.tok}
    <3>1. o.st = "creating"
      BY <1>3 DEF Created
    <3> QED BY <1>1, <3>1 DEF StartInv, Inv, SessionInv, Ownership
  <2>1. /\ entry'[o.s].phase = "live" /\ binding'[o.s].isNew /\ binding'[o.s].rev = 1
        /\ ProjectOf[o.s] \in projects
    <3>1. /\ entry' = [entry EXCEPT ![o.s].phase = "live"]
          /\ binding' = Set(binding, o.s, [owner |-> o.tok, isNew |-> TRUE, invalid |-> FALSE, rev |-> 1])
      BY <1>3, <2>0, Zenon DEF Created
    <3>2. ProjectOf[o.s] \in projects
      BY <1>1, <1>3 DEF Created, StartInv
    <3> QED BY <1>1, <3>1, <3>2 DEF Set, Inv, TypeOK, Entries
  <2>2. UNCHANGED <<projects, evop, removal>> /\ entry[o.s].phase = "reserved"
    BY <1>1, <1>3, Zenon DEF Created, StartInv
  <2>3. Durably(o.s)'
    <3>1. loading'[o.s].st = "no"
      BY <1>1, <1>3, <2>2 DEF Created, Inv, SessionInv, Load
    <3> QED BY <2>1, <2>2, <3>1 DEF Durably, Restored, Reserved, Agrees, Holds
  <2>4. \A q \in Sessions \ {o.s} : Same(q)
    BY <1>1, <1>3 DEF Created, Step, Set, Inv, TypeOK, Same, Starts
  <2> QED BY <2>3, <2>4
<1>4. CASE ReleaseOwned(o)
  <2>1. Durably(o.s)'
    BY <1>1, <1>4 DEF ReleaseOwned, TornDown, Set, Inv, TypeOK, Entries, SessionInv, EntryShape,
       Ready, Load, Durably, Restored, Reserved, Agrees, Usable, Lost, Holds
  <2>2. \A q \in Sessions \ {o.s} : Same(q)
    BY <1>1, <1>4 DEF ReleaseOwned, Set, Inv, TypeOK, Same
  <2> QED BY <2>1, <2>2
<1> QED BY <1>2, <1>3, <1>4

\* A Project is only reserved, given back or removed with the contexts it holds.
LEMMA ProjectDurably ==
    ASSUME Inv, Inv', NEW p \in Projects, NEW s \in Sessions, Durably(s),
           ReserveProjectEviction(p) \/ ProjectStep(p) \/ AddProject(p)
    PROVE  Durably(s)'
<1>7. \A x \in Projects : s \in removal'[x].list => ProjectOf[s] = x
  <2>1. CASE CommitProject(p)
    <3>1. /\ removal'[p].list \subseteq SessionsOf(p)
          /\ \A x \in Projects \ {p} : removal'[x] = removal[x]
      <4>1. removal' = [removal EXCEPT ![p].st = "evict", ![p].list = Taken(p, removal[p].tok)]
        BY <2>1 DEF CommitProject
      <4>2. Taken(p, removal[p].tok) \subseteq SessionsOf(p)
        BY DEF Taken
      <4> QED BY <4>1, <4>2 DEF Inv, TypeOK, Removals
    <3> QED BY <3>1 DEF Durably, SessionsOf
  <2>2. CASE ~CommitProject(p)
    <3>1. \A x \in Projects : removal'[x].list = {} \/ removal'[x] = removal[x]
      BY <2>2 DEF ReserveProjectEviction, ProjectStep, CancelProject, EvictOne, FinishProject,
         AddProject, Set, NoRemoval, Inv, TypeOK
    <3> QED BY <3>1 DEF Durably
  <2> QED BY <2>1, <2>2
<1>1. CASE ReserveProjectEviction(p)
  <2>1. PICK t \in Fresh : /\ entry' = [q \in Sessions |-> TakenBy(q, p, t)]
                           /\ removal' = Set(removal, p, [st |-> "commit", tok |-> t, list |-> {}])
    BY <1>1, Zenon DEF ReserveProjectEviction
  <2>2. UNCHANGED <<db, projects, ctx, binding, loading, starts, evop>> /\ removal[p] = NoRemoval
    BY <1>1 DEF ReserveProjectEviction
  <2>3. CASE entry'[s] = entry[s]
    <3>1. Usable(s)' => Usable(s)
      BY <2>1, <2>2, <2>3, LiveAssumption DEF Usable, Lost, Set, NoRemoval, Inv, TypeOK
    <3> QED BY <1>7, <2>2, <2>3, <3>1 DEF Durably, Restored, Reserved, Agrees, Holds
  <2>4. CASE entry'[s] # entry[s]
    <3>1. entry[s].phase = "live"
      <4>1. entry'[s] = TakenBy(s, p, t)
        BY <2>1
      <4> QED BY <2>4, <4>1, Zenon DEF TakenBy
    <3>2. evop[s].st # "commit"
      BY <3>1 DEF Durably, Restored, Reserved, Holds
    <3> QED BY <1>7, <2>2, <3>1, <3>2 DEF Durably, Restored, Reserved, Agrees, Usable
  <2> QED BY <2>3, <2>4
<1>2. CASE CommitProject(p)
  <2>1. /\ UNCHANGED <<entry, ctx, binding, loading, starts, evop>>
        /\ removal[p].st = "commit" /\ removal'[p].st = "evict" /\ removal'[p].tok = removal[p].tok
        /\ \A x \in Projects \ {p} : removal'[x] = removal[x]
    BY <1>2 DEF CommitProject, Inv, TypeOK, Removals
  <2>2. CASE ProjectOf[s] = p
    <3>1. evicting[ProjectOf[s]] = removal[p].tok /\ evicting[ProjectOf[s]] # 0
      BY <2>1, <2>2 DEF Inv, RemovalInv
    <3>2. ~Usable(s)'
      <4>1. /\ entry[s].phase # "live" /\ loading[s].st \notin {"restoring", "checking"}
            /\ entry[s].phase = "mutating" => ctx[s] = "none"
            /\ entry[s].phase = "evicting" /\ ctx[s] = "open" => entry[s].op = removal[p].tok
        BY <3>1 DEF Inv, SessionInv, Evicted, Load
      <4> QED BY <2>1, <2>2, <4>1 DEF Usable, Lost
    <3> QED BY <1>7, <2>1, <3>2 DEF Durably, Restored, Reserved, Holds
  <2>3. CASE ProjectOf[s] # p
    <3>1. db'[s] = db[s] /\ (ProjectOf[s] \in projects => ProjectOf[s] \in projects')
      BY <1>2, <2>3 DEF CommitProject
    <3>2. Same(s)
      BY <1>7, <2>1, <2>3, <3>1, LiveAssumption DEF Same
    <3> QED BY <3>2, SameDurably
  <2> QED BY <2>2, <2>3
<1>3. CASE CancelProject(p)
  <2>1. /\ UNCHANGED <<db, projects, ctx, binding, loading, starts, evop>>
        /\ removal[p].st = "commit" /\ entry'[s] = GivenBack(s, p)
        /\ \A x \in Projects \ {p} : removal'[x] = removal[x]
    BY <1>3 DEF CancelProject, Set, Inv, TypeOK
  <2>2. CASE s \in Taken(p, removal[p].tok)
    <3>1. /\ ProjectOf[s] = p /\ entry[s].phase = "evicting" /\ entry[s].op = removal[p].tok
          /\ entry[s].bound
      BY <2>2 DEF Taken, SessionsOf
    <3>2. evop[s].tok # entry[s].op /\ ctx[s] = "open"
      BY <2>1, <3>1 DEF Inv, RemovalInv, SessionInv, Evicted, Ready
    <3>3. Agrees(s) /\ evop[s].st # "commit"
      BY <2>1, <3>1, <3>2 DEF Durably, Restored, Reserved, Usable, Lost, Holds
    <3> QED BY <1>7, <2>1, <3>3 DEF Durably, Restored, Reserved, Agrees
  <2>3. CASE s \notin Taken(p, removal[p].tok)
    <3>1. entry'[s] = entry[s]
      BY <2>1, <2>3 DEF GivenBack
    <3>2. Usable(s)' => Usable(s)
      BY <2>1, <3>1, LiveAssumption DEF Usable, Lost
    <3> QED BY <1>7, <2>1, <3>1, <3>2 DEF Durably, Restored, Reserved, Agrees, Holds
  <2> QED BY <2>2, <2>3
<1>4. CASE EvictOne(p)
  <2>1. PICK x \in removal[p].list :
          /\ entry[x].phase = "evicting" /\ entry[x].op = removal[p].tok
          /\ entry' = Set(entry, x, TornDown(entry[x], "closing"))
    BY <1>4, Zenon DEF EvictOne
  <2>2. UNCHANGED <<db, projects, ctx, binding, loading, starts, evop, removal>>
        /\ removal[p].st = "evict"
    BY <1>4 DEF EvictOne
  <2>3. CASE s = x
    <3>1. ~Usable(s)'
      BY <2>1, <2>2, <2>3 DEF Set, TornDown, Inv, TypeOK, Entries, SessionInv, Load, EntryShape,
         Usable
    <3>2. evop[s].st # "commit"
      <4>1. s \in SessionsOf(p)
        BY <2>1, <2>3 DEF Durably, SessionsOf
      <4> QED BY <1>7, <2>1, <2>2, <2>3, <4>1 DEF Durably, Restored, Reserved, Holds, Inv,
         RemovalInv,
          SessionInv, Evicted, SessionsOf
    <3> QED BY <1>7, <2>2, <3>1, <3>2 DEF Durably, Restored, Reserved
  <2>4. CASE s # x
    <3>1. Same(s)
      BY <2>1, <2>2, <2>4 DEF Same, Set, Inv, TypeOK
    <3> QED BY <3>1, SameDurably
  <2> QED BY <2>3, <2>4
<1>5. CASE FinishProject(p)
  <2>1. /\ UNCHANGED <<db, projects, entry, ctx, binding, loading, starts, evop>>
        /\ removal[p].st = "evict"
        /\ \A x \in removal[p].list : entry[x].op # removal[p].tok
        /\ \A x \in Projects \ {p} : removal'[x] = removal[x]
    BY <1>5 DEF FinishProject, Set, Inv, TypeOK
  <2>2. Usable(s)' => Usable(s)
    <3>1. CASE ProjectOf[s] # p
      <4>1. removal'[ProjectOf[s]] = removal[ProjectOf[s]]
        BY <2>1, <3>1, LiveAssumption
      <4> QED BY <2>1, <4>1 DEF Usable, Lost
    <3>2. CASE ProjectOf[s] = p
      BY <2>1, <3>2 DEF Usable, Lost, Inv, RemovalInv, SessionsOf, SessionInv, Ready
    <3> QED BY <3>1, <3>2
  <2> QED BY <1>7, <2>1, <2>2 DEF Durably, Restored, Reserved, Agrees, Holds
<1>6. CASE AddProject(p)
  <2>1. Same(s)
    BY <1>6 DEF AddProject, Same
  <2> QED BY <2>1, SameDurably
<1> QED BY <1>1, <1>2, <1>3, <1>4, <1>5, <1>6 DEF ProjectStep

\* Nothing is loaded at the start, ...
LEMMA InitDurably == Init => \A s \in Sessions : Durably(s)
BY LiveAssumption DEF Init, NoEntry, NoBinding, NoLoad, NoEvop, NoRemoval, Durably, Restored,
   Reserved,
   Usable

\* ... and every action keeps the record of every Session.
LEMMA NextDurably ==
    ASSUME Inv, Inv', \A s \in Sessions : Durably(s), [Next]_vars
    PROVE  \A s \in Sessions : Durably(s)'
<1>1. ASSUME NEW s \in Sessions, Durably(s)' /\ \A q \in Sessions \ {s} : Same(q)
      PROVE  \A q \in Sessions : Durably(q)'
  BY <1>1, SameDurably
<1>2. CASE StartStep
  <2>1. PICK o \in starts : Ask(o) \/ Created(o) \/ CreateFails(o) \/ StartFails(o) \/ ReleaseOwned(o)
    BY <1>2 DEF StartStep
  <2>2. o.s \in Sessions
    BY Typed
  <2>3. Durably(o.s)
    BY <2>2
  <2>4. Durably(o.s)' /\ \A q \in Sessions \ {o.s} : Same(q)
    BY <2>1, <2>3, StartDurably
  <2> QED BY <1>1, <2>2, <2>4
<1>3. ASSUME NEW s \in Sessions, SessionStep(s) PROVE \A q \in Sessions : Durably(q)'
  <2> DEFINE Kept == Durably(s)' /\ \A q \in Sessions \ {s} : Same(q)
  <2>1. CASE LoadStep(s)
    <3>1. Kept
      BY <2>1, LoadReadDurably, LoadRefusedDurably, LoadRestoreDurably, LoadAcceptedDurably,
         LoadStaleDurably, CleanupFailedLoadDurably DEF LoadStep, LoadChecked
    <3> QED BY <1>1, <3>1
  <2>2. CASE RunStep(s)
    <3>1. Kept
      BY <2>2, StartRunDurably, CommitFirstTurnDurably, FirstTurnFailsDurably, CommitRunDurably,
         CommitFailsDurably, InvalidateContextDurably, EndRunDurably DEF RunStep
    <3> QED BY <1>1, <3>1
  <2>3. CASE TeardownStep(s)
    <3>1. Kept
      BY <2>3, TeardownSettledDurably, CloseContextDurably, FinishTeardownDurably DEF TeardownStep
    <3> QED BY <1>1, <3>1
  <2>4. CASE ReserveNew(s) \/ EnsureLoaded(s) \/ UpdateSession(s)
    <3>1. Kept
      BY <2>4, ReserveNewDurably, EnsureLoadedDurably, UpdateSessionDurably
    <3> QED BY <1>1, <3>1
  <2>5. CASE ReserveMutation(s) \/ BindMutation(s) \/ ReleaseMutation(s)
    <3>1. Kept
      BY <2>5, ReserveMutationDurably, BindMutationDurably, ReleaseMutationDurably
    <3> QED BY <1>1, <3>1
  <2>6. CASE \/ \E k \in {"archive", "rewind"} : ReserveEviction(s, k)
             \/ FinishEviction(s) \/ CancelEviction(s)
    <3>1. Kept
      BY <2>6, ReserveEvictionDurably, FinishEvictionDurably, CancelEvictionDurably
    <3> QED BY <1>1, <3>1
  <2>7. CASE PlanStep(s) \/ \E k \in {"restore", "delete"} : Check(s, k)
    <3>1. Kept
      BY <2>7, BeginPlanDurably, CommitPlanDurably, PlanFailsDurably, CheckDurably DEF PlanStep
    <3> QED BY <1>1, <3>1
  <2> QED BY <1>3, <2>1, <2>2, <2>3, <2>4, <2>5, <2>6, <2>7 DEF SessionStep
<1>4. ASSUME NEW p \in Projects, ReserveProjectEviction(p) \/ ProjectStep(p) \/ AddProject(p)
      PROVE  \A s \in Sessions : Durably(s)'
  BY <1>4, ProjectDurably
<1>5. CASE UNCHANGED vars
  <2>1. \A s \in Sessions : Same(s)
    BY <1>5 DEF vars, Same
  <2> QED BY <2>1, SameDurably
<1>6. CASE \E c \in checked : FinishChecked(c)
  <2>1. PICK c \in checked : FinishChecked(c)
    BY <1>6
  <2>2. c.s \in Sessions
    BY DEF Inv, TypeOK, Checks
  <2>3. Durably(c.s)' /\ \A q \in Sessions \ {c.s} : Same(q)
    BY <2>1, <2>2, FinishCheckedDurably
  <2> QED BY <1>1, <2>2, <2>3
<1> QED BY <1>2, <1>3, <1>4, <1>5, <1>6 DEF Next

LEMMA RecordsInvariant == Spec => [](Inv /\ \A s \in Sessions : Durably(s))
<1>1. Init => Inv /\ \A s \in Sessions : Durably(s)
  BY InitInv, InitDurably
<1>2. Inv /\ (\A s \in Sessions : Durably(s)) /\ [Next]_vars
        => (Inv /\ \A s \in Sessions : Durably(s))'
  <2> SUFFICES ASSUME Inv, \A s \in Sessions : Durably(s), [Next]_vars
               PROVE  Inv' /\ \A s \in Sessions : Durably(s)'
    OBVIOUS
  <2>1. Inv'
    BY NextInv
  <2> QED BY <2>1, NextDurably
<1> QED BY <1>1, <1>2, PTL DEF Spec

\* The record that a live context works from is the durable one, whatever loads, commits,
\* updates, archives, rewinds, deletes, relocates and removes beside it: the reservations of
\* the registry keep every other writer away from a Session that is live or being loaded.
THEOREM LiveRecordsAreDurable == Spec => []LiveMatchesDurable
<1>1. Inv /\ (\A s \in Sessions : Durably(s)) => LiveMatchesDurable
  BY DEF Durably, Usable, Agrees, LiveMatchesDurable
<1> QED BY <1>1, RecordsInvariant, PTL

\* The second read of a load finds the record as it was: no writer reaches a Session that is
\* being loaded, so #load never throws a context away because the record has changed.
THEOREM LoadsAreNotOvertaken ==
    Spec => [](\A s \in Sessions : loading[s].st = "checking" => LoadUnchanged(s))
<1>1. Inv /\ (\A s \in Sessions : Durably(s))
        => \A s \in Sessions : loading[s].st = "checking" => LoadUnchanged(s)
  BY DEF Inv, SessionInv, Load, Durably, Restored, Usable, Agrees, LoadUnchanged
<1> QED BY <1>1, RecordsInvariant, PTL

=============================================================================
