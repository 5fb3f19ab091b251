----------------------------- MODULE TerminalPool -----------------------------
(***************************************************************************)
(* The PTY terminals of the Sessions: TerminalPool.  An open reserves a    *)
(* slot, prepares across several awaits and registers the terminal only if *)
(* its Session was not closed meanwhile.  Closing a terminal kills the PTY *)
(* and ends with the exit event and the end of its capture, in any order   *)
(* with the other terminals; the kill may throw.                           *)
(***************************************************************************)
EXTENDS Naturals, FiniteSets

CONSTANTS
  Sessions,
  Terminals,     \* attempts to open a terminal
  TerminalLimit, \* MAX_TERMINALS_PER_SESSION
  MaxCloses      \* calls of closeSession per Session

ASSUME PoolAssumption == TerminalLimit \in Nat

VARIABLES
  term,    \* each attempt, and the terminal it became
  gen,     \* #sessionGenerations
  blocked, \* #blockedSessions
  pool,    \* "open", "disposed", or "cut": dispose() threw before it reached all terminals
  watch,   \* what a waitForSessionExit of a blocked Session still waits for
  quiet    \* blocked Sessions such a wait was answered for

poolVars == <<term, gen, blocked, pool, watch, quiet>>

\* explicit is explicitClose; stuck says that the last kill threw.
NewTerminal == [at |-> "free", session |-> "none", gen |-> 0, explicit |-> FALSE, stuck |-> FALSE]
NoWatch == [on |-> FALSE, for |-> {}]

PoolInit ==
  /\ term = [t \in Terminals |-> NewTerminal]
  /\ gen = [s \in Sessions |-> 0]
  /\ blocked = {} /\ pool = "open"
  /\ watch = [s \in Sessions |-> NoWatch] /\ quiet = {}

Of(s) == {t \in Terminals : term[t].session = s}
Resources(s) == {t \in Of(s) : term[t].at \in {"running", "exiting", "exited"}}
Reservations(s) == {t \in Of(s) : term[t].at = "opening"}
PutTerm(t, r) == term' = [term EXCEPT ![t] = r]

\* #sessionTerminalCount
Count(s) == Cardinality(Resources(s)) + Cardinality(Reservations(s))

------------------------------------------------------------------------------
Open(t, s) ==
  /\ term[t].at = "free"
  /\ pool = "open" /\ s \notin blocked
  /\ Count(s) < TerminalLimit
  /\ PutTerm(t, [NewTerminal EXCEPT !.at = "opening", !.session = s, !.gen = gen[s]])
  /\ UNCHANGED <<gen, blocked, pool, watch, quiet>>

\* Mutant: the generation is not compared.
MutStillValid(r) == pool = "open" /\ r.session \notin blocked
\* #assertOpenStillValid: checked once, in the step that spawns and registers
StillValid(r) == pool = "open" /\ r.session \notin blocked /\ gen[r.session] = r.gen

Opened(t) ==
  /\ term[t].at = "opening"
  /\ PutTerm(t, [term[t] EXCEPT !.at = IF StillValid(term[t]) THEN "running" ELSE "failed"])
  /\ UNCHANGED <<gen, blocked, pool, watch, quiet>>

\* The directory, the shell profile or the spawn failed.
OpenFails(t) ==
  /\ term[t].at = "opening"
  /\ PutTerm(t, [term[t] EXCEPT !.at = "failed"])
  /\ UNCHANGED <<gen, blocked, pool, watch, quiet>>

\* onExit: the process is gone, its capture is not finished yet.
Exit(t) ==
  /\ term[t].at = "running"
  /\ PutTerm(t, [term[t] EXCEPT !.at = "exiting"])
  /\ UNCHANGED <<gen, blocked, pool, watch, quiet>>

\* A terminal nobody closed stays listed, and counts, after its process is gone.
Left(r) == IF r.explicit THEN "gone" ELSE "exited"

Exited(t) ==
  /\ term[t].at = "exiting"
  /\ PutTerm(t, [term[t] EXCEPT !.at = Left(term[t])])
  /\ UNCHANGED <<gen, blocked, pool, watch, quiet>>

------------------------------------------------------------------------------
(* Closing. *)

Closable(r) == ~r.explicit /\ r.at \in {"running", "exiting", "exited"}
Killed(r) == [r EXCEPT !.explicit = TRUE, !.stuck = FALSE]
KillThrows(r) == [r EXCEPT !.stuck = TRUE]

\* #disposeResource: what may become of the terminal
Outcomes(r) ==
  IF ~Closable(r) THEN {r}
  ELSE IF r.at = "exited" THEN {[r EXCEPT !.explicit = TRUE, !.at = "gone"]}
  ELSE IF r.at = "exiting" THEN {Killed(r)}
  ELSE {Killed(r), KillThrows(r)}

\* close() and cancelBackground()
Close(t) ==
  /\ Closable(term[t])
  /\ \E r \in Outcomes(term[t]) : PutTerm(t, r)
  /\ UNCHANGED <<gen, blocked, pool, watch, quiet>>

\* Every terminal of the Session is tried, whatever became of the others.
CloseSession(s) ==
  /\ gen[s] < MaxCloses
  /\ gen' = [gen EXCEPT ![s] = @ + 1]
  /\ \E b \in BOOLEAN : blocked' = IF b THEN blocked \cup {s} ELSE blocked
  /\ term' \in {f \in [Terminals -> UNION {Outcomes(term[t]) : t \in Terminals}] :
                  \A t \in Terminals :
                    f[t] \in IF t \in Of(s) THEN Outcomes(term[t]) ELSE {term[t]}}
  /\ UNCHANGED <<pool, watch, quiet>>

Live == {t \in Terminals : Closable(term[t])}

\* dispose() goes through the terminals and stops at the first kill that throws, with any of
\* the others behind it.
Dispose ==
  /\ pool = "open"
  /\ \/ /\ pool' = "disposed"
        /\ term' = [t \in Terminals |->
                      IF t \notin Live THEN term[t]
                      ELSE IF term[t].at = "exited" THEN [term[t] EXCEPT !.explicit = TRUE,
                                                                       !.at = "gone"]
                      ELSE Killed(term[t])]
     \/ \E bad \in {t \in Live : term[t].at = "running"} : \E done \in SUBSET (Live \ {bad}) :
        /\ pool' = "cut"
        /\ term' = [t \in Terminals |->
                      IF t = bad THEN KillThrows(term[t])
                      ELSE IF t \notin done THEN term[t]
                      ELSE IF term[t].at = "exited" THEN [term[t] EXCEPT !.explicit = TRUE,
                                                                       !.at = "gone"]
                      ELSE Killed(term[t])]
  /\ UNCHANGED <<gen, blocked, watch, quiet>>

\* waitForSessionExit, as the end of a cancelled child calls it
Watch(s) ==
  /\ s \in blocked /\ ~watch[s].on /\ s \notin quiet
  /\ watch' = [watch EXCEPT ![s] = [on |-> TRUE, for |-> Resources(s)]]
  /\ UNCHANGED <<term, gen, blocked, pool, quiet>>

Watched(s) ==
  /\ watch[s].on /\ \A t \in watch[s].for : term[t].at \in {"exited", "gone"}
  /\ watch' = [watch EXCEPT ![s] = NoWatch] /\ quiet' = quiet \cup {s}
  /\ UNCHANGED <<term, gen, blocked, pool>>

PoolNext ==
  \/ \E t \in Terminals : \/ \E s \in Sessions : Open(t, s)
                          \/ Opened(t) \/ OpenFails(t) \/ Exit(t) \/ Exited(t) \/ Close(t)
  \/ \E s \in Sessions : CloseSession(s) \/ Watch(s) \/ Watched(s)
  \/ Dispose

PoolSpec == PoolInit /\ [][PoolNext]_poolVars

------------------------------------------------------------------------------
(* Properties. *)

\* Once the wait that follows the stop of a Session is answered, no process of that Session
\* lives, neither one that was running then nor one whose open was under way.  After any close
\* of its Session, and after the pool was disposed, a running terminal is one that was told to
\* end or whose kill threw.  At no time do the terminals of a Session, the ones being opened
\* included, exceed the limit.
StoppedSessionsAreQuiet ==
  /\ \A s \in quiet : \A t \in Of(s) : term[t].at \notin {"running", "exiting"}
  /\ \A t \in Terminals :
       LET r == term[t]
       IN r.at = "running" /\ (pool = "disposed" \/ r.gen # gen[r.session])
            => r.explicit \/ r.stuck
  /\ \A s \in Sessions : Cardinality(Resources(s) \cup Reservations(s)) <= TerminalLimit

\* A terminal that was closed leaves the list, whichever of its exit and the close came first.
ClosedTerminalsLeave ==
  \A t \in Terminals : term[t].explicit ~> term[t].at = "gone"
=============================================================================
