------------------------------ MODULE McpManager ------------------------------
(***************************************************************************)
(* One configured MCP server: McpManager with its McpStdioConnection.  A   *)
(* record owns the connection of one launch fingerprint; configuration     *)
(* changes, restarts, tool calls, exits of the server process and timers   *)
(* meet it at every await.  A record that was replaced lives on until the  *)
(* work it has is done.                                                    *)
(*                                                                         *)
(* Tools, catalogs and revisions are left out but for whether there is a   *)
(* catalog, and a server that is disabled is not told from one that is not *)
(* trusted.  A close of a connection that is closed already, or of none,   *)
(* is over at once.                                                        *)
(***************************************************************************)
EXTENDS Naturals, FiniteSets

CONSTANTS
  Prints,      \* launch fingerprints
  Calls,       \* tool calls
  MaxRecords,  \* bound: records made for the server
  MaxProcs,    \* bound: processes started
  MaxRequests, \* bound: configuration changes and restarts
  MaxRestarts  \* MAX_RESTART_ATTEMPTS

ASSUME McpAssumption == MaxRecords \in Nat /\ MaxProcs \in Nat

VARIABLES
  configs,  \* #configs: whether the server is enabled and trusted, and its fingerprint
  current,  \* #connections: the record of the server, 0 for none
  rec,      \* every record made
  proc,     \* the process of every connection made
  toolCall, \* where each call is
  disposed, \* #disposed
  requests  \* configuration changes and restarts so far

mcpVars == <<configs, current, rec, proc, toolCall, disposed, requests>>

Records == 1..MaxRecords
Procs == 1..MaxProcs
NoProc == 0

\* at is what #connect awaits and on which process; stops are the calls of #stop
\* that await a close, and whether a restart follows.
NewRecord(print) ==
  [print |-> print, state |-> "stopped", conn |-> NoProc, catalog |-> FALSE, at |-> "idle",
   opening |-> NoProc, stopReq |-> FALSE, intentional |-> FALSE, attempts |-> 0,
   timer |-> FALSE, stops |-> {}]

NoCall == [at |-> "idle", rec |-> 0, proc |-> NoProc]

McpInit ==
  /\ configs = [on |-> FALSE, print |-> "none"]
  /\ current = 0
  /\ rec = [r \in Records |-> NewRecord("none")]
  /\ proc = [k \in Procs |-> "free"]
  /\ toolCall = [c \in Calls |-> NoCall]
  /\ disposed = FALSE /\ requests = 0

\* The records and the processes, as one value that the operators below change.
World == [rec |-> rec, proc |-> proc]
Becomes(w) == rec' = w.rec /\ proc' = w.proc
Room == \E k \in Procs : proc[k] = "free"
Active(r) == {c \in Calls : toolCall[c].at = "calling" /\ toolCall[c].rec = r}
Live(k) == proc[k] \in {"hello", "up"}

------------------------------------------------------------------------------
(* #start, #requestStop, #stop *)

\* #connect up to its first await: whatever the record held is forgotten.
Connect(w, r) ==
  LET k == CHOOSE k \in Procs : w.proc[k] = "free"
  IN  [rec |-> [w.rec EXCEPT ![r] = [@ EXCEPT !.state = "starting", !.intentional = FALSE,
                                              !.stopReq = FALSE, !.conn = k,
                                              !.at = "connecting", !.opening = k]],
       proc |-> [w.proc EXCEPT ![k] = "hello"]]

\* Mutant: the trust of the fingerprint is not looked at.
MutStarted(w, r, c) ==
  LET x == w.rec[r]
  IN  IF \/ disposed \/ x.state = "ready" \/ x.at # "idle" \/ x.timer
         \/ x.state = "error" /\ x.attempts >= MaxRestarts
      THEN w ELSE Connect(w, r)

\* #start for configuration c.
Started(w, r, c) ==
  LET x == w.rec[r]
  IN  IF \/ disposed \/ x.state = "ready" \/ x.at # "idle" \/ x.timer
         \/ x.state = "error" /\ x.attempts >= MaxRestarts
      THEN w
      ELSE IF ~c.on \/ x.print # c.print
           THEN [w EXCEPT !.rec[r].state = "stopped"]
           ELSE Connect(w, r)

\* #stop after its close, and what restart() does then.
Stopped(w, r, then, c) ==
  LET off == [w EXCEPT !.rec[r] = [@ EXCEPT !.conn = NoProc, !.catalog = FALSE,
                                            !.state = "stopped"]]
  IN  IF then = "restart" THEN Started([off EXCEPT !.rec[r].attempts = 0], r, c) ELSE off

\* #stop up to its close, which is over at once if the connection was closed before.
Stop(w, r, then, c) ==
  LET k == w.rec[r].conn
      x == [w EXCEPT !.rec[r] = [@ EXCEPT !.timer = FALSE, !.stopReq = FALSE,
                                          !.intentional = TRUE]]
  IN  IF k # NoProc /\ w.proc[k] \in {"hello", "up"}
      THEN [x EXCEPT !.proc[k] = "closing", !.rec[r].stops = @ \cup {<<k, then>>}]
      ELSE Stopped(x, r, then, c)

\* Mutant: calls in flight do not hold a stop up.
MutRequestStop(w, r, then, c) == Stop(w, r, then, c)

\* #requestStop: with calls in flight the record drains, and nothing is restarted.
RequestStop(w, r, then, c) ==
  IF Active(r) = {} THEN Stop(w, r, then, c)
  ELSE [w EXCEPT !.rec[r] = [@ EXCEPT !.timer = FALSE, !.stopReq = TRUE, !.state = "draining"]]

------------------------------------------------------------------------------
(* The operations of the manager. *)

\* A configuration is applied: a change of the user, a reload, a workspace that becomes
\* active; one that changes nothing is also what a read of the catalog does.  A record
\* that does not fit is stopped, and, if the server may run, replaced; replacing it asks
\* it to stop a second time.
ApplyConfigs(c) ==
  /\ ~disposed /\ requests < MaxRequests /\ requests' = requests + 1
  /\ configs' = c
  /\ LET w == IF current # 0 /\ (~c.on \/ rec[current].print # c.print)
              THEN RequestStop(World, current, "nothing", c) ELSE World
         fits == current # 0 /\ rec[current].print = c.print
     IN  IF ~c.on THEN Becomes(w) /\ UNCHANGED current
         ELSE IF fits THEN Room /\ Becomes(Started(w, current, c)) /\ UNCHANGED current
         ELSE /\ current < MaxRecords /\ Room
              /\ current' = current + 1
              /\ LET made == [w EXCEPT !.rec[current'] = NewRecord(c.print)]
                     left == IF current = 0 THEN made
                             ELSE RequestStop(made, current, "nothing", c)
                 IN  Becomes(Started(left, current', c))
  /\ UNCHANGED <<toolCall, disposed>>

Restart ==
  /\ ~disposed /\ configs.on /\ current # 0 /\ Room
  /\ requests < MaxRequests /\ requests' = requests + 1
  /\ Becomes(RequestStop(World, current, "restart", configs))
  /\ UNCHANGED <<configs, current, toolCall, disposed>>

\* The call goes to the connection there is, if any.
Sent(x) == IF x.conn = NoProc THEN "done" ELSE "calling"

\* callTool: the catalog is checked, and the call awaits a #start that connects.
CallTool(c) ==
  /\ toolCall[c].at = "idle" /\ configs.on /\ current # 0 /\ ~disposed /\ Room
  /\ rec[current].print = configs.print /\ rec[current].catalog
  /\ LET w == Started(World, current, configs)
         x == w.rec[current]
     IN  /\ Becomes(w)
         /\ toolCall' = [toolCall EXCEPT ![c] =
                       [at |-> IF x.at = "connecting" \/ x.at = "failing" THEN "waiting" ELSE Sent(x),
                        rec |-> current, proc |-> x.conn]]
  /\ UNCHANGED <<configs, current, disposed, requests>>

CallGoes(c) ==
  /\ toolCall[c].at = "waiting"
  /\ LET x == rec[toolCall[c].rec]
     IN  /\ x.at = "idle"
         /\ toolCall' = [toolCall EXCEPT ![c] = [at |-> Sent(x), rec |-> @.rec, proc |-> x.conn]]
  /\ UNCHANGED <<configs, current, rec, proc, disposed, requests>>

\* The call is answered, times out or is stopped; the last one stops a draining record.
CallEnds(c) ==
  /\ toolCall[c].at = "calling"
  /\ toolCall' = [toolCall EXCEPT ![c].at = "done"]
  /\ LET r == toolCall[c].rec
     IN  Becomes(IF rec[r].stopReq /\ Active(r) = {c} THEN Stop(World, r, "nothing", configs)
                 ELSE World)
  /\ UNCHANGED <<configs, current, disposed, requests>>

\* dispose stops the record of the map.
Dispose ==
  /\ ~disposed /\ disposed' = TRUE
  /\ Becomes(IF current = 0 THEN World ELSE Stop(World, current, "nothing", configs))
  /\ UNCHANGED <<configs, current, toolCall, requests>>

------------------------------------------------------------------------------
(* What the connections and the timers do. *)

\* The handshake succeeds; nobody may want it any more.
Connected(r) ==
  LET x == rec[r]
      k == x.opening
  IN  /\ x.at = "connecting" /\ proc[k] \in {"hello", "closing"}
      /\ Becomes([rec |-> [rec EXCEPT ![r] =
                    IF x.conn # k \/ x.intentional \/ disposed
                    THEN [@ EXCEPT !.at = "idle", !.opening = NoProc]
                    ELSE [@ EXCEPT !.at = "idle", !.opening = NoProc, !.state = "ready",
                                   !.catalog = TRUE]],
                  proc |-> [proc EXCEPT ![k] = IF @ = "hello" THEN "up" ELSE @]])
      /\ UNCHANGED <<configs, current, toolCall, disposed, requests>>

\* The handshake fails, times out, or loses its process: the catch of #connect.
ConnectFails(r) ==
  LET x == rec[r]
      k == x.opening
  IN  /\ x.at = "connecting" /\ proc[k] \in {"hello", "closing", "gone"}
      /\ Becomes(IF x.conn # k
                 THEN [rec |-> [rec EXCEPT ![r].at = "idle", ![r].opening = NoProc], proc |-> proc]
                 ELSE IF proc[k] = "hello"
                      THEN [rec |-> [rec EXCEPT ![r].state = "error", ![r].at = "failing"],
                            proc |-> [proc EXCEPT ![k] = "closing"]]
                      ELSE [rec |-> [rec EXCEPT ![r].state = "error", ![r].at = "idle",
                                                ![r].opening = NoProc, ![r].conn = NoProc],
                            proc |-> proc])
      /\ UNCHANGED <<configs, current, toolCall, disposed, requests>>

FailureClosed(r) ==
  /\ rec[r].at = "failing" /\ proc[rec[r].opening] = "gone"
  /\ rec' = [rec EXCEPT ![r].at = "idle", ![r].opening = NoProc, ![r].conn = NoProc]
  /\ UNCHANGED <<configs, current, proc, toolCall, disposed, requests>>

Closed(k) ==
  /\ proc[k] = "closing" /\ proc' = [proc EXCEPT ![k] = "gone"]
  /\ UNCHANGED <<configs, current, rec, toolCall, disposed, requests>>

\* A #stop that awaited the close goes on, whatever the record holds by now.
StopResumes(r, s) ==
  /\ s \in rec[r].stops /\ proc[s[1]] = "gone" /\ Room
  /\ Becomes(Stopped([rec |-> [rec EXCEPT ![r].stops = @ \ {s}], proc |-> proc], r, s[2], configs))
  /\ UNCHANGED <<configs, current, toolCall, disposed, requests>>

\* #handleUnexpectedClose: what becomes of a record that loses its connection; one that was
\* up long enough has the attempts of its record forgiven.
Lost(x, stable) ==
  LET y == [x EXCEPT !.conn = NoProc, !.catalog = FALSE, !.attempts = IF stable THEN 0 ELSE @]
  IN  IF disposed \/ x.intentional THEN y
      ELSE IF ~configs.on THEN [y EXCEPT !.state = "stopped"]
      ELSE IF y.attempts >= MaxRestarts THEN [y EXCEPT !.state = "error"]
      ELSE [y EXCEPT !.attempts = @ + 1, !.state = "restarting", !.timer = TRUE]

\* The process ends by itself.
ProcessDies(k, stable) ==
  /\ Live(k) /\ (stable => proc[k] = "up")
  /\ proc' = [proc EXCEPT ![k] = "gone"]
  /\ rec' = [r \in Records |-> IF rec[r].conn = k THEN Lost(rec[r], stable) ELSE rec[r]]
  /\ UNCHANGED <<configs, current, toolCall, disposed, requests>>

TimerFires(r) ==
  /\ rec[r].timer /\ Room
  /\ Becomes(Started([World EXCEPT !.rec[r].timer = FALSE], r, configs))
  /\ UNCHANGED <<configs, current, toolCall, disposed, requests>>

McpNext ==
  \/ \E on \in BOOLEAN, print \in Prints : ApplyConfigs([on |-> on, print |-> print])
  \/ Restart \/ Dispose
  \/ \E c \in Calls : CallTool(c) \/ CallGoes(c) \/ CallEnds(c)
  \/ \E r \in Records :
        \/ Connected(r) \/ ConnectFails(r) \/ FailureClosed(r) \/ TimerFires(r)
        \/ \E s \in rec[r].stops : StopResumes(r, s)
  \/ \E k \in Procs : Closed(k) \/ \E stable \in BOOLEAN : ProcessDies(k, stable)

McpSpec == McpInit /\ [][McpNext]_mcpVars

------------------------------------------------------------------------------
(* Properties. *)

\* Only the shutdown closes a connection under a call.
NoCallIsCut ==
  [][\A c \in Calls :
       toolCall[c].at = "calling" /\ toolCall'[c].at = "calling" /\ proc[toolCall[c].proc] = "up"
         => proc'[toolCall[c].proc] # "closing" \/ disposed']_mcpVars

\* A launch is configured again after its record was replaced.  A restart or a back-off of
\* the old record that is still to come then connects it too, though the map holds it no more.
Returned == \E r, s \in 1..current : r < s /\ rec[r].print = rec[s].print

\* Trust that is withdrawn, or given to another launch, leaves a connection only to the calls in
\* flight on its record; of a record that was replaced, unless its launch came back.
TrustIsRespected ==
  \A r \in Records :
    LET k == rec[r].conn
    IN  k # NoProc /\ Live(k) /\ (r = current => ~configs.on) /\ (Returned => r = current)
          => rec[r].stopReq /\ Active(r) # {}

\* The application's exit leaves no server process behind.
ExitCleansUp ==
  disposed /\ (\A r \in Records : rec[r].stops = {} /\ rec[r].at = "idle")
           /\ (\A c \in Calls : toolCall[c].at \notin {"waiting", "calling"})
    => \A k \in Procs : ~Live(k)
==============================================================================
