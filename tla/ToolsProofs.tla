------------------------------ MODULE ToolsProofs ------------------------------
(***************************************************************************)
(* Proofs about the tools of a Run: their batches, and the processes and   *)
(* terminals they start.                                                   *)
(*                                                                         *)
(* ToolBatch, for a batch of any length: the types, the order and          *)
(* completeness of the results, the serial barrier, what an "ok" means and *)
(* which bodies outlive the batch, and the refinement of ToolResults.  The *)
(* inductive invariant ties the position of executeToolCalls to the        *)
(* history, and both to what the calls behind, inside and beyond the       *)
(* current segment may look like.                                          *)
(*                                                                         *)
(* TerminalPool and CommandSessions, for any terminals, processes, limits, *)
(* closes, stops and kills that fail: what was stopped is gone when the    *)
(* wait for it is over, and the slots are those of what is not.            *)
(***************************************************************************)
EXTENDS ToolBatch, TerminalPool, CommandSessions, FiniteSetTheorems, TLAPS

(* ToolBatch. *)

\* A segment boundary lies between the current segment's start and the call.
Beyond(c) == \E j \in first..(c - 1) : LastOfSegment(j)

\* Where the batch stands, and how many results that has produced.
Position ==
  /\ first <= cur
  /\ phase \in {"prepare", "finalize"} => \A j \in first..(cur - 1) : ~LastOfSegment(j)
  /\ phase \in {"launch", "execute"} => cur = first
  /\ phase \in {"prepare", "launch", "execute"} => Len(history) = first - 1
  /\ phase = "finalize" => Len(history) = cur - 1
  /\ Ended => Len(history) = N
  /\ \A k \in 1..Len(history) : history[k].call = k

\* How far each call is: the segments behind are settled, those beyond untouched.
Progress ==
  \A c \in Calls :
    /\ phase = "prepare" => /\ c >= cur => result[c] = "unseen"
                            /\ first <= c /\ c < cur => result[c] # "unseen"
    /\ phase \in {"prepare", "launch"} /\ c >= first => body[c] = "none"
    /\ phase \in {"launch", "execute", "finalize"} /\ c >= first /\ ~Beyond(c) =>
         result[c] # "unseen"
    /\ ~Ended /\ c < first => result[c] \in Statuses
    /\ phase = "finalize" => result[c] # "pending"
    /\ ~Ended /\ Beyond(c) => result[c] = "unseen"
    /\ Beyond(c) => body[c] = "none"

\* What a body says of its call.
Bodies ==
  \A c \in Calls :
    /\ result[c] = "ok" => body[c] = "ended"
    /\ body[c] = "ended" => result[c] \in Statuses
    /\ body[c] # "none" => result[c] # "unseen"
    /\ body[c] = "entered" => result[c] = "pending" /\ phase = "execute"
    /\ body[c] = "running" /\ abortable[c] => result[c] = "pending" /\ phase = "execute"

IInv == TypeOK /\ Position /\ Progress /\ Bodies /\ OkMeansRan

LEMMA Initially == Init => IInv
<1> SUFFICES ASSUME Init PROVE IInv
  OBVIOUS
<1> USE BatchAssumption DEF Init, Calls
<1>1. TypeOK
  <2>1. first \in Calls /\ cur \in Calls
    OBVIOUS
  <2>2. history \in Seq(Entries)
    OBVIOUS
  <2> QED BY <2>1, <2>2 DEF TypeOK
<1>2. Position
  BY DEF Position, Ended
<1>3. Progress /\ Bodies /\ OkMeansRan
  BY DEF Progress, Bodies, OkMeansRan, Beyond, Ended
<1> QED BY <1>1, <1>2, <1>3 DEF IInv

\* What stays of the segments when their start and the modes stay.
LEMMA SegmentsStay ==
  ASSUME UNCHANGED first, UNCHANGED mode
  PROVE  /\ \A j : LastOfSegment(j)' <=> LastOfSegment(j)
         /\ \A c \in Calls : Beyond(c)' <=> Beyond(c)
<1>1. ASSUME NEW j PROVE LastOfSegment(j)' <=> LastOfSegment(j)
  BY DEF LastOfSegment
<1>2. ASSUME NEW c \in Calls PROVE Beyond(c)' <=> Beyond(c)
  BY <1>1 DEF Beyond
<1> QED BY <1>1, <1>2

\* The results delivered never exceed the calls, and cover the segments behind.
LEMMA HistoryFits ==
  ASSUME TypeOK, Position
  PROVE  Len(history) \in 0..N /\ first - 1 <= Len(history)
BY BatchAssumption DEF TypeOK, Position, Ended, Calls

\* One body moves neither the position nor the history, and settles only its own call.
LEMMA BodySteps ==
  ASSUME IInv, NEW c \in Calls,
         StartBody(c) \/ RefuseBody(c) \/ EndBody(c) \/ CutShort(c)
  PROVE  IInv'
<1> USE DEF IInv
<1>1. UNCHANGED <<mode, abortable, phase, first, cur, history, aborted>>
  BY DEF StartBody, RefuseBody, EndBody, CutShort, Traits
<1>2. /\ \A j : LastOfSegment(j)' <=> LastOfSegment(j)
      /\ \A d \in Calls : Beyond(d)' <=> Beyond(d)
  BY <1>1, SegmentsStay
<1>3. body[c] \in {"entered", "running"}
  BY DEF StartBody, RefuseBody, EndBody, CutShort
<1>4. /\ body' \in [Calls -> {"none", "entered", "running", "ended"}]
      /\ \A d \in Calls \ {c} : body'[d] = body[d]
  BY DEF TypeOK, StartBody, RefuseBody, EndBody, CutShort
<1>5. /\ result' \in [Calls -> Statuses \cup {"unseen", "pending"}]
      /\ \A d \in Calls \ {c} : result'[d] = result[d]
      /\ result'[c] = result[c] \/ result'[c] \in Statuses
  BY DEF TypeOK, Statuses, StartBody, RefuseBody, EndBody, CutShort, BodyOutcomes
<1>6. /\ result'[c] = "ok" => body'[c] = "ended"
      /\ body'[c] = "ended" => result'[c] \in Statuses
      /\ body'[c] = "entered" => FALSE
      /\ body'[c] = "running" /\ abortable[c] => result'[c] = "pending" /\ phase = "execute"
  <2>1. CASE StartBody(c)
    BY <2>1 DEF StartBody, TypeOK, Bodies
  <2>2. CASE RefuseBody(c)
    BY <2>2 DEF RefuseBody, TypeOK, Bodies
  <2>3. CASE EndBody(c)
    BY <2>3, <1>3 DEF EndBody, TypeOK, Bodies, BodyOutcomes, Statuses
  <2>4. CASE CutShort(c)
    BY <2>4 DEF CutShort, TypeOK, Bodies
  <2> QED BY <2>1, <2>2, <2>3, <2>4
<1>7. TypeOK'
  BY <1>1, <1>4, <1>5 DEF TypeOK
<1>8. Position'
  BY <1>1, <1>2 DEF Position, Ended, TypeOK, Calls
<1>9. Progress'
  BY <1>1, <1>2, <1>3, <1>4, <1>5 DEF Progress, Bodies, Ended, Statuses
<1>10. Bodies'
  BY <1>1, <1>3, <1>4, <1>5, <1>6 DEF Bodies, Statuses
<1>11. OkMeansRan'
  <2>1. \A k \in 1..Len(history) : k \in Calls
    BY HistoryFits, BatchAssumption DEF Calls
  <2> QED BY <2>1, <1>1, <1>3, <1>4 DEF OkMeansRan
<1> QED BY <1>7, <1>8, <1>9, <1>10, <1>11

\* A stop disturbs nothing but the signal.
LEMMA InterruptStep ==
  ASSUME IInv, Interrupt
  PROVE  IInv'
<1> USE DEF IInv, Interrupt, Traits
<1>1. /\ \A j : LastOfSegment(j)' <=> LastOfSegment(j)
      /\ \A d \in Calls : Beyond(d)' <=> Beyond(d)
  BY SegmentsStay
<1>2. TypeOK'
  BY DEF TypeOK
<1>3. Position'
  BY <1>1 DEF Position, Ended, TypeOK, Calls
<1>4. Progress' /\ Bodies' /\ OkMeansRan'
  BY <1>1 DEF Progress, Bodies, OkMeansRan, Ended
<1> QED BY <1>2, <1>3, <1>4

\* Preparation and finalization: the batch moves within its segment.
LEMMA PrepareStep ==
  ASSUME IInv, Prepare
  PROVE  IInv'
<1> USE DEF IInv
<1>1. UNCHANGED <<mode, abortable, first, body, history, aborted>> /\ phase = "prepare"
  BY DEF Prepare, Traits
<1>2. /\ \A j : LastOfSegment(j)' <=> LastOfSegment(j)
      /\ \A d \in Calls : Beyond(d)' <=> Beyond(d)
  BY <1>1, SegmentsStay
<1>3. /\ result' \in [Calls -> Statuses \cup {"unseen", "pending"}]
      /\ \A d \in Calls \ {cur} : result'[d] = result[d]
      /\ result'[cur] \in {"pending", "error", "denied", "cancelled"}
  BY DEF TypeOK, Statuses, Prepare, PrepareOutcomes
<1>4. \/ LastOfSegment(cur) /\ phase' = "launch" /\ cur' = first
      \/ ~LastOfSegment(cur) /\ phase' = "prepare" /\ cur' = cur + 1 /\ cur # N
  BY <1>1 DEF Prepare, LastOfSegment
<1>5. TypeOK'
  BY <1>1, <1>3, <1>4, BatchAssumption DEF TypeOK, Calls
<1>6. Position'
  BY <1>1, <1>2, <1>4 DEF Position, Ended, TypeOK, Calls
<1>7. ~Ended /\ ~Ended'
  BY <1>1, <1>4 DEF Ended
<1>8. ~Beyond(cur) /\ first <= cur /\ body[cur] = "none"
  BY <1>1 DEF Beyond, Position, Progress, TypeOK
<1>9. ASSUME NEW c \in Calls, LastOfSegment(cur), c > cur PROVE Beyond(c)
  BY <1>8, <1>9 DEF Beyond, TypeOK, Calls
<1>10. Progress'
  <2>1. CASE phase' = "launch"
    BY <2>1, <1>1, <1>2, <1>3, <1>4, <1>7, <1>8, <1>9 DEF Progress, TypeOK, Calls, Statuses
  <2>2. CASE phase' = "prepare"
    BY <2>2, <1>1, <1>2, <1>3, <1>4, <1>7, <1>8 DEF Progress, TypeOK, Calls, Statuses
  <2> QED BY <2>1, <2>2, <1>4
<1>11. Bodies'
  BY <1>1, <1>3, <1>8 DEF Bodies
<1>12. OkMeansRan'
  BY <1>1 DEF OkMeansRan
<1> QED BY <1>5, <1>6, <1>10, <1>11, <1>12

\* A segment's ready calls enter the executor: none of them lies beyond the segment.
LEMMA LaunchStep ==
  ASSUME IInv, Launch
  PROVE  IInv'
<1> USE DEF IInv
<1>1. /\ UNCHANGED <<mode, abortable, first, cur, history, aborted>>
      /\ phase = "launch" /\ phase' = "execute"
  BY DEF Launch, Traits
<1>2. /\ \A j : LastOfSegment(j)' <=> LastOfSegment(j)
      /\ \A d \in Calls : Beyond(d)' <=> Beyond(d)
  BY <1>1, SegmentsStay
<1>3. ~Ended /\ ~Ended'
  BY <1>1 DEF Ended
<1>4. /\ body' \in [Calls -> {"none", "entered", "running", "ended"}]
      /\ \A c \in Calls : \/ body'[c] = body[c] /\ body[c] # "entered"
                          \/ body'[c] = "entered" /\ result[c] = "pending" /\ ~aborted
  <2>1. body' = [c \in Calls |-> IF Launched(c) THEN "entered" ELSE body[c]]
    BY DEF Launch
  <2>2. body' \in [Calls -> {"none", "entered", "running", "ended"}]
    BY <2>1 DEF TypeOK
  <2>3. ASSUME NEW c \in Calls
        PROVE  \/ body'[c] = body[c] /\ body[c] # "entered"
               \/ body'[c] = "entered" /\ result[c] = "pending" /\ ~aborted
    BY <2>1, <1>1 DEF Launched, Bodies
  <2> QED BY <2>2, <2>3
<1>5. /\ result' \in [Calls -> Statuses \cup {"unseen", "pending"}]
      /\ \A c \in Calls : \/ result'[c] = result[c]
                          \/ result[c] = "pending" /\ result'[c] = "cancelled" /\ aborted
  <2> DEFINE Now(c) == IF result[c] = "pending" /\ aborted THEN "cancelled" ELSE result[c]
  <2>1. result' = [c \in Calls |-> Now(c)]
    BY DEF Launch
  <2>2. \A c \in Calls : Now(c) \in Statuses \cup {"unseen", "pending"}
    BY DEF TypeOK, Statuses
  <2>3. result' \in [Calls -> Statuses \cup {"unseen", "pending"}]
    <3> HIDE DEF Now
    <3> QED BY <2>1, <2>2
  <2> QED BY <2>1, <2>3
<1>6. TypeOK'
  BY <1>1, <1>4, <1>5 DEF TypeOK
<1>7. Position'
  BY <1>1, <1>2 DEF Position, Ended, TypeOK, Calls
<1>8. Progress'
  BY <1>1, <1>2, <1>3, <1>4, <1>5 DEF Progress, Statuses
<1>9. Bodies'
  BY <1>1, <1>4, <1>5 DEF Bodies, Statuses
<1>10. OkMeansRan'
  <2>1. \A k \in 1..Len(history) : k \in Calls
    BY HistoryFits, BatchAssumption DEF Calls
  <2> QED BY <2>1, <1>1, <1>4 DEF OkMeansRan, Bodies, Statuses
<1> QED BY <1>6, <1>7, <1>8, <1>9, <1>10

\* The segment is settled.
LEMMA CollectStep ==
  ASSUME IInv, Collect
  PROVE  IInv'
<1> USE DEF IInv
<1>1. /\ UNCHANGED <<mode, abortable, first, cur, history, aborted, body, result>>
      /\ phase = "execute" /\ phase' = "finalize" /\ Settled
  BY DEF Collect, Traits
<1>2. /\ \A j : LastOfSegment(j)' <=> LastOfSegment(j)
      /\ \A d \in Calls : Beyond(d)' <=> Beyond(d)
  BY <1>1, SegmentsStay
<1>3. TypeOK'
  BY <1>1 DEF TypeOK
<1>4. Position'
  BY <1>1, <1>2 DEF Position, Ended, TypeOK, Calls
<1>5. Progress' /\ Bodies' /\ OkMeansRan'
  BY <1>1, <1>2 DEF Progress, Bodies, OkMeansRan, Ended, Settled
<1> QED BY <1>3, <1>4, <1>5

\* What a finalization does to the history, and where it leaves the batch.
LEMMA Finalization ==
  ASSUME IInv, Finalize
  PROVE  \E s \in Statuses :
           /\ history' = Append(history, [call |-> cur, status |-> s])
           /\ Len(history) = cur - 1
           /\ s = "ok" => body[cur] = "ended"
<1> USE DEF IInv
<1>1. ~Beyond(cur) /\ first <= cur /\ phase = "finalize" /\ cur \in Calls
  BY DEF Finalize, Beyond, Position, TypeOK
<1>2. result[cur] \in Statuses
  BY <1>1 DEF Progress, TypeOK, Ended
<1>3. PICK s \in FilteredOutcomes(cur) : history' = Append(history, [call |-> cur, status |-> s])
  BY DEF Finalize
<1>4. s \in Statuses /\ (s = "ok" => body[cur] = "ended")
  BY <1>1, <1>2, <1>3 DEF FilteredOutcomes, Statuses, Bodies
<1> QED BY <1>1, <1>3, <1>4 DEF Position

\* A finalized call moves behind the position; the last of a segment opens the next.
LEMMA FinalizeStep ==
  ASSUME IInv, Finalize
  PROVE  IInv'
<1> USE DEF IInv
<1>1. PICK s \in Statuses : /\ history' = Append(history, [call |-> cur, status |-> s])
                            /\ Len(history) = cur - 1
                            /\ s = "ok" => body[cur] = "ended"
  BY Finalization
<1>2. UNCHANGED <<mode, abortable, body, result, aborted>> /\ phase = "finalize"
  BY DEF Finalize, Traits
<1>3. /\ history' \in Seq(Entries) /\ Len(history') = cur
      /\ \A k \in 1..(cur - 1) : history'[k] = history[k]
      /\ history'[cur] = [call |-> cur, status |-> s]
  BY <1>1 DEF TypeOK, Entries, Calls
<1>4. \A j : LastOfSegment(j)' <=> LastOfSegment(j)
  BY <1>2 DEF LastOfSegment
<1>5. OkMeansRan'
  BY <1>1, <1>2, <1>3 DEF OkMeansRan, TypeOK, Calls
<1>6. \A k \in 1..Len(history') : history'[k].call = k
  BY <1>1, <1>3 DEF Position, TypeOK, Calls
<1>7. /\ first \in Calls /\ cur \in Calls /\ first <= cur /\ N \in Nat
      /\ \A j \in first..(cur - 1) : ~LastOfSegment(j)
  BY <1>2, BatchAssumption DEF TypeOK, Position
<1>8. \A c \in Calls : ~Beyond(c) /\ c >= first => result[c] \in Statuses
  BY <1>2 DEF Progress, TypeOK
<1>9. CASE ~LastOfSegment(cur)
  <2>1. cur' = cur + 1 /\ UNCHANGED <<phase, first>> /\ cur # N
    BY <1>9 DEF Finalize, LastOfSegment
  <2>2. TypeOK'
    BY <2>1, <1>2, <1>3, <1>7 DEF TypeOK, Calls
  <2>3. Position'
    BY <2>1, <1>2, <1>3, <1>4, <1>6, <1>7, <1>9 DEF Position, Ended, Calls
  <2>4. \A c \in Calls : Beyond(c)' <=> Beyond(c)
    BY <2>1, <1>2, SegmentsStay
  <2>5. Progress' /\ Bodies'
    BY <2>1, <2>4, <1>2 DEF Progress, Bodies, Ended
  <2> QED BY <2>2, <2>3, <2>5, <1>5
<1>10. CASE LastOfSegment(cur) /\ cur < N
  <2>1. cur' = cur + 1 /\ first' = cur + 1 /\ phase' = "prepare"
    BY <1>10 DEF Finalize
  <2>2. TypeOK'
    BY <2>1, <1>2, <1>3, <1>7, <1>10 DEF TypeOK, Calls
  <2>3. Position'
    BY <2>1, <1>2, <1>3, <1>4, <1>6, <1>7 DEF Position, Ended, Calls
  <2>4. \A c \in Calls : c > cur <=> Beyond(c)
    BY <1>7, <1>10 DEF Beyond, Calls
  <2>5. \A c \in Calls : Beyond(c)' => Beyond(c)
    BY <2>1, <1>4, <1>7 DEF Beyond, Calls
  <2>6. ~Ended /\ ~Ended'
    BY <2>1, <1>2 DEF Ended
  <2>7. Progress'
    BY <2>1, <2>4, <2>5, <2>6, <1>2, <1>7, <1>8 DEF Progress, Calls, Statuses
  <2>8. Bodies'
    BY <2>1, <1>2 DEF Bodies
  <2> QED BY <2>2, <2>3, <2>7, <2>8, <1>5
<1>11. CASE LastOfSegment(cur) /\ ~(cur < N)
  <2>1. phase' \in {"returned", "threw"} /\ UNCHANGED <<cur, first>> /\ cur = N
    BY <1>7, <1>11 DEF Finalize, Calls
  <2>2. TypeOK'
    BY <2>1, <1>2, <1>3, <1>7 DEF TypeOK
  <2>3. Position'
    BY <2>1, <1>3, <1>6, <1>7 DEF Position, Ended
  <2>4. \A c \in Calls : Beyond(c)' <=> Beyond(c)
    BY <2>1, <1>2, SegmentsStay
  <2>5. Progress' /\ Bodies'
    BY <2>1, <2>4, <1>2 DEF Progress, Bodies, Ended
  <2> QED BY <2>2, <2>3, <2>5, <1>5
<1> QED BY <1>9, <1>10, <1>11

\* What the catch block appends, and that it answers every call that is owed.
LEMMA BreakingOff ==
  ASSUME IInv, BreakOff
  PROVE  /\ ~Ended /\ Ended'
         /\ \E s \in {"cancelled", "error"} :
              history' = history \o [k \in 1..(N - Len(history)) |->
                                       [call |-> Len(history) + k, status |-> s]]
         /\ history' \in Seq(Entries) /\ Len(history') = N
         /\ \A k \in 1..Len(history) : history'[k] = history[k]
         /\ \A k \in Calls \ 1..Len(history) :
              history'[k].call = k /\ history'[k].status # "ok"
<1> USE DEF IInv
<1> DEFINE s == IF aborted THEN "cancelled" ELSE "error"
<1> DEFINE owed == [k \in 1..(N - Len(history)) |-> [call |-> Len(history) + k, status |-> s]]
<1>1. history' = history \o owed /\ ~Ended /\ Ended'
  BY DEF BreakOff, Owed, Ended
<1>2. Len(history) \in 0..N /\ N \in Nat
  BY HistoryFits, BatchAssumption
<1>3. owed \in Seq(Entries) /\ Len(owed) = N - Len(history)
  BY <1>2 DEF Entries, Statuses, Calls
<1>4. history \in Seq(Entries)
  BY DEF TypeOK
<1>5. history' \in Seq(Entries) /\ Len(history') = N
  BY <1>1, <1>2, <1>3, <1>4
<1>6. \A k \in 1..Len(history) : history'[k] = history[k]
  BY <1>1, <1>2, <1>3, <1>4
<1>7. \A k \in Calls \ 1..Len(history) : history'[k] = owed[k - Len(history)]
  <2> SUFFICES ASSUME NEW k \in Calls, ~(k \in 1..Len(history))
               PROVE  history'[k] = owed[k - Len(history)]
    OBVIOUS
  <2>1. k \in (Len(history) + 1)..(Len(history) + Len(owed))
    BY <1>2, <1>3 DEF Calls
  <2> HIDE DEF owed
  <2> QED BY <2>1, <1>1, <1>2, <1>3, <1>4
<1>8. \A k \in Calls \ 1..Len(history) : history'[k].call = k /\ history'[k].status # "ok"
  <2> SUFFICES ASSUME NEW k \in Calls, ~(k \in 1..Len(history))
               PROVE  history'[k].call = k /\ history'[k].status # "ok"
    OBVIOUS
  <2>1. k - Len(history) \in 1..(N - Len(history)) /\ Len(history) + (k - Len(history)) = k
    BY <1>2 DEF Calls
  <2>2. owed[k - Len(history)] = [call |-> k, status |-> s]
    <3> HIDE DEF s
    <3> QED BY <2>1
  <2>3. s # "ok"
    OBVIOUS
  <2>4. history'[k] = [call |-> k, status |-> s]
    <3> HIDE DEF owed, s
    <3> QED BY <1>7, <2>2
  <2> HIDE DEF s
  <2> QED BY <2>3, <2>4
<1> QED BY <1>1, <1>5, <1>6, <1>8

\* A broken batch is complete.
LEMMA BreakOffStep ==
  ASSUME IInv, BreakOff
  PROVE  IInv'
<1> USE DEF IInv
<1>1. /\ UNCHANGED <<mode, abortable, first, cur, result, body, aborted>>
      /\ phase \in {"prepare", "finalize"} /\ phase' = "threw"
  BY DEF BreakOff, Traits
<1>2. /\ \A j : LastOfSegment(j)' <=> LastOfSegment(j)
      /\ \A d \in Calls : Beyond(d)' <=> Beyond(d)
  BY <1>1, SegmentsStay
<1>3. Len(history) \in 0..N /\ N \in Nat
  BY HistoryFits, BatchAssumption
<1>4. TypeOK'
  BY <1>1, BreakingOff DEF TypeOK
<1>5. Position'
  BY <1>1, <1>3, BreakingOff DEF Position, Ended, Calls
<1>6. Progress' /\ Bodies'
  BY <1>1, <1>2 DEF Progress, Bodies, Ended
<1>7. OkMeansRan'
  BY <1>1, <1>3, BreakingOff DEF OkMeansRan, Calls
<1> QED BY <1>4, <1>5, <1>6, <1>7

\* IInv is inductive.
LEMMA Invariant == Spec => []IInv
<1>1. IInv /\ UNCHANGED vars => IInv'
  <2> SUFFICES ASSUME IInv, UNCHANGED vars PROVE IInv'
    OBVIOUS
  <2> USE DEF IInv, vars
  <2>1. /\ \A j : LastOfSegment(j)' <=> LastOfSegment(j)
        /\ \A d \in Calls : Beyond(d)' <=> Beyond(d)
    BY SegmentsStay
  <2>2. TypeOK' /\ Bodies' /\ OkMeansRan'
    BY DEF TypeOK, Bodies, OkMeansRan
  <2>3. Position' /\ Progress'
    BY <2>1 DEF Position, Progress, Ended, TypeOK, Calls
  <2> QED BY <2>2, <2>3
<1>2. IInv /\ Next => IInv'
  BY PrepareStep, LaunchStep, CollectStep, FinalizeStep, BreakOffStep, InterruptStep, BodySteps
     DEF Next, Step
<1> QED BY <1>1, <1>2, Initially, PTL DEF Spec

\* Every variable keeps its type.
THEOREM TypesHold == Spec => []TypeOK
<1>1. IInv => TypeOK
  BY DEF IInv
<1> QED BY <1>1, Invariant, PTL

\* However a batch goes, its results are in the order of the calls, at most one for each,
\* and exactly one for each when it is over.
THEOREM EveryCallHasItsResult == Spec => []ResultsInOrder
<1>1. IInv => ResultsInOrder
  BY HistoryFits DEF IInv, Position, ResultsInOrder
<1> QED BY <1>1, Invariant, PTL

\* The model is told of a success only if the body ran to its end.
THEOREM SuccessIsReal == Spec => []OkMeansRan
<1>1. IInv => OkMeansRan
  BY DEF IInv
<1> QED BY <1>1, Invariant, PTL

\* No body is entered across a serial call before the results on the other side exist.
THEOREM SerialCallsAreBarriers == Spec => []SerialBarrier
<1>1. IInv => SerialBarrier
  <2> SUFFICES ASSUME IInv, NEW c \in Calls, NEW d \in Calls, d < c, body[c] # "none",
                      NEW j \in d..c, mode[j] = "serial"
               PROVE  d <= Len(history)
    BY DEF SerialBarrier
  <2>1. ~Beyond(c)
    BY DEF IInv, Progress
  <2>2. first - 1 <= Len(history) /\ Len(history) \in Nat /\ first \in Calls
    BY HistoryFits DEF IInv, TypeOK
  <2>3. \E k \in d..(c - 1) : LastOfSegment(k)
    <3>1. CASE j = c
      BY <3>1 DEF LastOfSegment, Calls
    <3>2. CASE j # c
      BY <3>2 DEF LastOfSegment, Calls
    <3> QED BY <3>1, <3>2
  <2>4. d < first
    BY <2>1, <2>2, <2>3 DEF Beyond, Calls
  <2> QED BY <2>2, <2>4 DEF Calls
<1> QED BY <1>1, Invariant, PTL

\* Only bodies that cannot be aborted go on after their batch.
THEOREM OnlyTrackedBodiesGoOn == Spec => []OnlyTrackedBodiesOutlive
<1>1. IInv => OnlyTrackedBodiesOutlive
  BY DEF IInv, TypeOK, Bodies, OnlyTrackedBodiesOutlive, Ended
<1> QED BY <1>1, Invariant, PTL

\* No body is reported as done that did not end, and none is lost track of while it runs.
THEOREM BodiesAreTracked == Spec => []BodiesAreAccountedFor
BY SuccessIsReal, OnlyTrackedBodiesGoOn, PTL DEF BodiesAreAccountedFor

\* After a stop no body starts, although a call may be between its approval and its body.
THEOREM StopIsHeard == Spec => StopStartsNothing
<1>1. IInv /\ [Next]_vars =>
        [\A c \in Calls : aborted /\ body[c] # "running" => body'[c] # "running"]_vars
  <2> SUFFICES ASSUME IInv, Next, NEW c \in Calls, aborted, body[c] # "running"
               PROVE  body'[c] # "running"
    OBVIOUS
  <2>1. CASE Prepare \/ Launch \/ Collect \/ Finalize \/ BreakOff \/ Interrupt
    BY <2>1 DEF Prepare, Launch, Collect, Finalize, BreakOff, Interrupt, IInv, TypeOK
  <2>2. ASSUME NEW d \in Calls, StartBody(d) \/ RefuseBody(d) \/ CutShort(d) \/ EndBody(d)
        PROVE  body'[c] # "running"
    BY <2>2 DEF StartBody, MayRun, RefuseBody, CutShort, EndBody, IInv, TypeOK
  <2> QED BY <2>1, <2>2 DEF Next, Step
<1> QED BY <1>1, Invariant, PTL DEF Spec, StopStartsNothing

\* The batch implements ToolResults: a finalization delivers the next result, a break-off
\* gives up, and everything else goes unnoticed.
THEOREM Refinement == Spec => ImplementsResults
<1>1. Init => Results!Init
  BY DEF Init, Results!Init, Ended
<1>2. IInv /\ [Next]_vars => [Results!Next]_<<history, Ended>>
  <2> SUFFICES ASSUME IInv, [Next]_vars
               PROVE  Results!Next \/ UNCHANGED <<history, Ended>>
    OBVIOUS
  <2>1. CASE Finalize
    <3>1. PICK s \in Statuses : /\ history' = Append(history, [call |-> cur, status |-> s])
                                /\ Len(history) = cur - 1
      BY <2>1, Finalization
    <3>2. cur \in Calls /\ N \in Nat /\ phase = "finalize"
      BY <2>1, BatchAssumption DEF IInv, TypeOK, Finalize
    <3>3. Ended' <=> cur = N
      BY <2>1, <3>2 DEF Finalize, LastOfSegment, Ended, Calls
    <3>4. Results!Deliver
      BY <3>1, <3>2, <3>3 DEF Results!Deliver, Ended, Calls
    <3> QED BY <3>4 DEF Results!Next
  <2>2. CASE BreakOff
    BY <2>2, BreakingOff DEF Results!Next, Results!GiveUp, Statuses
  <2>3. CASE Prepare \/ Launch \/ Collect \/ Interrupt
    BY <2>3 DEF Prepare, Launch, Collect, Interrupt, Ended
  <2>4. ASSUME NEW c \in Calls, StartBody(c) \/ RefuseBody(c) \/ CutShort(c) \/ EndBody(c)
        PROVE  UNCHANGED <<history, Ended>>
    BY <2>4 DEF StartBody, RefuseBody, CutShort, EndBody, Ended
  <2>5. CASE UNCHANGED vars
    BY <2>5 DEF vars, Ended
  <2> QED BY <2>1, <2>2, <2>3, <2>4, <2>5 DEF Next, Step
<1> QED BY <1>1, <1>2, Invariant, PTL DEF Spec, ImplementsResults, Results!Spec

-----------------------------------------------------------------------------
(* TerminalPool. *)

TermStates ==
  [at : {"free", "opening", "running", "exiting", "exited", "gone", "failed"},
   session : Sessions \cup {"none"}, gen : Nat, explicit : BOOLEAN, stuck : BOOLEAN]

PoolTypes ==
  /\ term \in [Terminals -> TermStates] /\ gen \in [Sessions -> Nat]
  /\ blocked \subseteq Sessions /\ quiet \subseteq blocked
  /\ \A t \in Terminals : term[t].at \notin {"free", "failed"} => term[t].session \in Sessions

\* A process of the Session s lives.
Runs(r, s) == r.session = s /\ r.at \in {"running", "exiting"}

\* A blocked Session starts nothing: what lives there lived when the wait began.
Waits ==
  \A s \in Sessions : watch[s].on =>
    s \in blocked /\ \A t \in Terminals : Runs(term[t], s) => t \in watch[s].for
Quiets == \A s \in quiet : \A t \in Terminals : ~Runs(term[t], s)

\* A terminal that outlived a close of its Session, or the pool, was told to end.
Told(r) == r.explicit \/ r.stuck
Leaves ==
  \A t \in Terminals :
    term[t].at = "running" /\ (pool = "disposed" \/ term[t].gen # gen[term[t].session])
      => Told(term[t])

\* The slots of a Session, and that they are finitely many.
Holds(r, s) == r.session = s /\ r.at \in {"opening", "running", "exiting", "exited"}
Held(s) == {t \in Terminals : Holds(term[t], s)}
Fits == \A s \in Sessions : IsFiniteSet(Held(s)) /\ Cardinality(Held(s)) <= TerminalLimit

PoolInv == PoolTypes /\ Waits /\ Quiets /\ Leaves /\ Fits

\* Initially there is no terminal.
LEMMA PoolInitInv == PoolInit => PoolInv
<1> SUFFICES ASSUME PoolInit PROVE PoolInv
  OBVIOUS
<1>1. PoolTypes
  BY DEF PoolInit, PoolTypes, TermStates, NewTerminal
<1>2. Waits /\ Quiets /\ Leaves
  BY DEF PoolInit, Waits, Quiets, Leaves, Runs, NewTerminal, NoWatch
<1>3. \A s \in Sessions : Held(s) = {}
  BY DEF PoolInit, Held, Holds, NewTerminal
<1>4. Fits
  BY <1>3, FS_EmptySet, PoolAssumption DEF Fits
<1> QED
  BY <1>1, <1>2, <1>4 DEF PoolInv

\* What may become of a terminal without an open or a spawn: it lives only if it did, keeps
\* its slot or gives it up, and stays told to end.
Ages(r, x) ==
  /\ x \in TermStates /\ x.session = r.session /\ x.gen = r.gen
  /\ x.at \in {"free", "failed"} \/ x.session \in Sessions
  /\ x.at = "running" => r.at = "running" /\ (Told(r) => Told(x))
  /\ x.at = "exiting" => r.at \in {"running", "exiting"}
  /\ x.at \in {"opening", "running", "exiting", "exited"} =>
       r.at \in {"opening", "running", "exiting", "exited"}

\* Slots that are given up make room.
LEMMA FewerFit ==
  ASSUME Fits, \A s \in Sessions : Held(s)' \subseteq Held(s)
  PROVE  Fits'
<1> SUFFICES ASSUME NEW s \in Sessions
             PROVE  IsFiniteSet(Held(s)') /\ Cardinality(Held(s)') <= TerminalLimit
  BY DEF Fits
<1>1. IsFiniteSet(Held(s)) /\ Cardinality(Held(s)) <= TerminalLimit /\ Held(s)' \subseteq Held(s)
  BY DEF Fits
<1>2. IsFiniteSet(Held(s)') /\ Cardinality(Held(s)') <= Cardinality(Held(s))
  BY <1>1, FS_Subset
<1>3. Cardinality(Held(s)') \in Nat /\ Cardinality(Held(s)) \in Nat
  BY <1>1, <1>2, FS_CardinalityType
<1> QED
  BY <1>1, <1>2, <1>3, PoolAssumption

\* A step in which the terminals only age.
LEMMA AgesKept ==
  ASSUME PoolInv, term' \in [Terminals -> TermStates], gen' \in [Sessions -> Nat],
         blocked \subseteq blocked', blocked' \subseteq Sessions, UNCHANGED <<watch, quiet>>,
         \A t \in Terminals : Ages(term[t], term'[t]),
         \A t \in Terminals :
           /\ term'[t].at = "running"
           /\ pool' = "disposed" \/ term'[t].gen # gen'[term'[t].session]
           => Told(term'[t]) \/ (pool = "disposed" \/ term[t].gen # gen[term[t].session])
  PROVE  PoolInv'
<1>1. PoolTypes'
  BY DEF PoolInv, PoolTypes, Ages
<1>2. \A t \in Terminals, s \in Sessions : Runs(term'[t], s) => Runs(term[t], s)
  BY DEF Runs, Ages
<1>3. Waits' /\ Quiets'
  BY <1>2 DEF PoolInv, PoolTypes, Waits, Quiets, Runs
<1>4. Leaves'
  BY DEF PoolInv, Leaves, Ages
<1>5. \A s \in Sessions : Held(s)' \subseteq Held(s)
  BY DEF Held, Holds, Ages
<1>6. Fits'
  BY <1>5, FewerFit DEF PoolInv
<1> QED
  BY <1>1, <1>3, <1>4, <1>6 DEF PoolInv

\* A step on one terminal that keeps the rest.
LEMMA OneAges ==
  ASSUME PoolInv, NEW t \in Terminals, NEW r, PutTerm(t, r), Ages(term[t], r),
         UNCHANGED <<gen, blocked, pool, watch, quiet>>
  PROVE  PoolInv'
<1>1. term \in [Terminals -> TermStates] /\ r \in TermStates
  BY DEF PoolInv, PoolTypes, Ages
<1>2. /\ term' \in [Terminals -> TermStates] /\ term'[t] = r
      /\ \A u \in Terminals : u # t => term'[u] = term[u]
  BY <1>1 DEF PutTerm
<1>3. \A u \in Terminals : Ages(term[u], term[u])
  BY <1>1 DEF PoolInv, PoolTypes, Ages, TermStates
<1>4. \A u \in Terminals : Ages(term[u], term'[u])
  BY <1>2, <1>3
<1>5. /\ gen' \in [Sessions -> Nat] /\ blocked \subseteq blocked' /\ blocked' \subseteq Sessions
  BY DEF PoolInv, PoolTypes
<1>6. \A u \in Terminals : term'[u].gen = term[u].gen /\ term'[u].session = term[u].session
  BY <1>4 DEF Ages
<1> QED
  BY <1>2, <1>4, <1>5, <1>6, AgesKept

\* What disposing of a terminal may make of it.
LEMMA OutcomesAge ==
  ASSUME PoolInv, NEW t \in Terminals, NEW r \in Outcomes(term[t])
  PROVE  Ages(term[t], r) /\ (r.at = "running" => Told(r))
<1>1. /\ term[t] \in TermStates
      /\ term[t].at \in {"free", "failed"} \/ term[t].session \in Sessions
  BY DEF PoolInv, PoolTypes
<1>2. CASE r = term[t] /\ ~Closable(term[t])
  BY <1>1, <1>2 DEF Ages, Told, Closable
<1>3. CASE r = [term[t] EXCEPT !.explicit = TRUE, !.at = "gone"] /\ Closable(term[t])
  BY <1>1, <1>3 DEF Ages, Told, TermStates, Closable
<1>4. CASE r = Killed(term[t]) /\ Closable(term[t])
  BY <1>1, <1>4 DEF Ages, Told, TermStates, Closable, Killed
<1>5. CASE r = KillThrows(term[t]) /\ Closable(term[t]) /\ term[t].at = "running"
  BY <1>1, <1>5 DEF Ages, Told, TermStates, Closable, KillThrows
<1> QED
  BY <1>1, <1>2, <1>3, <1>4, <1>5 DEF Outcomes, Closable, TermStates

\* The limit is the one step of open that several opens race for.
LEMMA OpenKept ==
  ASSUME PoolInv, NEW t \in Terminals, NEW s \in Sessions, Open(t, s)
  PROVE  PoolInv'
<1> DEFINE r == [NewTerminal EXCEPT !.at = "opening", !.session = s, !.gen = gen[s]]
<1>1. r \in TermStates /\ r.at = "opening" /\ r.session = s
  BY DEF PoolInv, PoolTypes, TermStates, NewTerminal
<1>2. term' = [term EXCEPT ![t] = r] /\ UNCHANGED <<gen, blocked, pool, watch, quiet>>
  BY DEF Open, PutTerm
<1>3. term[t].at = "free" /\ Count(s) < TerminalLimit /\ term \in [Terminals -> TermStates]
  BY DEF Open, PoolInv, PoolTypes
<1> HIDE DEF r
<1>4. /\ term' \in [Terminals -> TermStates] /\ term'[t] = r
      /\ \A u \in Terminals : u # t => term'[u] = term[u]
  BY <1>1, <1>2, <1>3
<1>5. PoolTypes'
  BY <1>1, <1>2, <1>4 DEF PoolInv, PoolTypes
<1>6. \A u \in Terminals, z \in Sessions : Runs(term'[u], z) => Runs(term[u], z)
  BY <1>1, <1>4 DEF Runs
<1>7. Waits' /\ Quiets'
  BY <1>2, <1>6 DEF PoolInv, PoolTypes, Waits, Quiets
<1>8. Leaves'
  BY <1>1, <1>2, <1>4 DEF PoolInv, Leaves
<1>9. Fits'
  <2> SUFFICES ASSUME NEW z \in Sessions
               PROVE  IsFiniteSet(Held(z)') /\ Cardinality(Held(z)') <= TerminalLimit
    BY DEF Fits
  <2>1. IsFiniteSet(Held(z)) /\ Cardinality(Held(z)) <= TerminalLimit
    BY DEF PoolInv, Fits
  <2>2. CASE z # s
    <3>1. Held(z)' = Held(z)
      BY <1>1, <1>3, <1>4, <2>2 DEF Held, Holds
    <3> QED
      BY <2>1, <3>1
  <2>3. CASE z = s
    <3>1. Held(s)' = Held(s) \cup {t} /\ t \notin Held(s)
      BY <1>1, <1>3, <1>4 DEF Held, Holds
    <3>2. Cardinality(Held(s)) = Count(s)
      <4>1. /\ Held(s) = Resources(s) \cup Reservations(s)
            /\ Resources(s) \cap Reservations(s) = {}
        BY DEF Held, Holds, Resources, Reservations, Of
      <4>2. IsFiniteSet(Resources(s)) /\ IsFiniteSet(Reservations(s))
        BY <2>1, <2>3, <4>1, FS_Subset
      <4>3. Cardinality(Held(s)) = Cardinality(Resources(s)) + Cardinality(Reservations(s))
                                     - Cardinality({})
        BY <4>1, <4>2, FS_Union
      <4>4. Cardinality(Resources(s)) \in Nat /\ Cardinality(Reservations(s)) \in Nat
        BY <4>2, FS_CardinalityType
      <4> QED
        BY <4>3, <4>4, FS_EmptySet DEF Count
    <3>3. IsFiniteSet(Held(s)') /\ Cardinality(Held(s)') = Cardinality(Held(s)) + 1
      BY <2>1, <2>3, <3>1, FS_AddElement
    <3>4. Cardinality(Held(s)) \in Nat
      BY <2>1, <2>3, FS_CardinalityType
    <3> QED
      BY <1>3, <2>3, <3>2, <3>3, <3>4, PoolAssumption
  <2> QED
    BY <2>2, <2>3
<1> QED
  BY <1>5, <1>7, <1>8, <1>9 DEF PoolInv

\* The generation is compared in the step that spawns, so nothing starts in a Session that was
\* closed, blocked, or in a pool that was disposed.
LEMMA OpenedKept ==
  ASSUME PoolInv, NEW t \in Terminals, Opened(t)
  PROVE  PoolInv'
<1>1. term \in [Terminals -> TermStates] /\ term[t].at = "opening" /\ term[t].session \in Sessions
  BY DEF Opened, PoolInv, PoolTypes
<1>2. UNCHANGED <<gen, blocked, pool, watch, quiet>>
  BY DEF Opened
<1>3. CASE StillValid(term[t])
  <2> DEFINE r == [term[t] EXCEPT !.at = "running"]
  <2>1. /\ r \in TermStates /\ r.at = "running" /\ r.session = term[t].session
        /\ r.gen = term[t].gen
    BY <1>1 DEF TermStates
  <2>2. term' = [term EXCEPT ![t] = r]
    BY <1>3 DEF Opened, PutTerm
  <2> HIDE DEF r
  <2>3. /\ term' \in [Terminals -> TermStates] /\ term'[t] = r
        /\ \A u \in Terminals : u # t => term'[u] = term[u]
    BY <1>1, <2>1, <2>2
  <2>4. /\ pool = "open" /\ term[t].session \notin blocked
        /\ gen[term[t].session] = term[t].gen
    BY <1>3 DEF StillValid
  <2>5. PoolTypes'
    BY <1>1, <1>2, <2>1, <2>3 DEF PoolInv, PoolTypes
  <2>6. \A u \in Terminals, s \in Sessions :
          Runs(term'[u], s) => Runs(term[u], s) \/ s \notin blocked
    BY <2>1, <2>3, <2>4 DEF Runs
  <2>7. Waits' /\ Quiets'
    BY <1>2, <2>6 DEF PoolInv, PoolTypes, Waits, Quiets
  <2>8. Leaves'
    BY <1>2, <2>1, <2>3, <2>4 DEF PoolInv, Leaves
  <2>9. \A s \in Sessions : Held(s)' \subseteq Held(s)
    BY <1>1, <2>1, <2>3 DEF Held, Holds
  <2> QED
    BY <2>5, <2>7, <2>8, <2>9, FewerFit DEF PoolInv
<1>4. CASE ~StillValid(term[t])
  <2>1. PutTerm(t, [term[t] EXCEPT !.at = "failed"])
    BY <1>4 DEF Opened
  <2>2. Ages(term[t], [term[t] EXCEPT !.at = "failed"])
    BY <1>1 DEF Ages, TermStates
  <2> QED
    BY <1>2, <2>1, <2>2, OneAges
<1> QED
  BY <1>3, <1>4

\* The steps of one terminal.
LEMMA TerminalKept ==
  ASSUME PoolInv, NEW t \in Terminals, OpenFails(t) \/ Exit(t) \/ Exited(t) \/ Close(t)
  PROVE  PoolInv'
<1>1. /\ term[t] \in TermStates
      /\ term[t].at \in {"free", "failed"} \/ term[t].session \in Sessions
  BY DEF PoolInv, PoolTypes
<1>2. UNCHANGED <<gen, blocked, pool, watch, quiet>>
  BY DEF OpenFails, Exit, Exited, Close
<1>3. PICK r : PutTerm(t, r) /\ Ages(term[t], r)
  <2>1. CASE OpenFails(t)
    <3>1. Ages(term[t], [term[t] EXCEPT !.at = "failed"])
      BY <1>1 DEF Ages, TermStates
    <3> QED
      BY <2>1, <3>1 DEF OpenFails
  <2>2. CASE Exit(t)
    <3>1. Ages(term[t], [term[t] EXCEPT !.at = "exiting"])
      BY <1>1, <2>2 DEF Ages, TermStates, Exit
    <3> QED
      BY <2>2, <3>1 DEF Exit
  <2>3. CASE Exited(t)
    <3>1. Ages(term[t], [term[t] EXCEPT !.at = Left(term[t])])
      BY <1>1, <2>3 DEF Ages, TermStates, Exited, Left
    <3> QED
      BY <2>3, <3>1 DEF Exited
  <2>4. CASE Close(t)
    BY <2>4, OutcomesAge DEF Close
  <2> QED
    BY <2>1, <2>2, <2>3, <2>4
<1> QED
  BY <1>2, <1>3, OneAges

\* A close tries every terminal of its Session.
LEMMA CloseSessionKept ==
  ASSUME PoolInv, NEW s \in Sessions, CloseSession(s)
  PROVE  PoolInv'
<1>1. /\ gen \in [Sessions -> Nat] /\ gen' = [gen EXCEPT ![s] = @ + 1]
      /\ UNCHANGED <<pool, watch, quiet>>
      /\ blocked \subseteq blocked' /\ blocked' \subseteq Sessions
  BY DEF CloseSession, PoolInv, PoolTypes
<1>2. /\ term' \in [Terminals -> UNION {Outcomes(term[t]) : t \in Terminals}]
      /\ \A t \in Terminals : term'[t] \in IF t \in Of(s) THEN Outcomes(term[t]) ELSE {term[t]}
  BY DEF CloseSession
<1>3. \A t \in Terminals : Ages(term[t], term[t]) /\ term[t] \in TermStates
  BY DEF PoolInv, PoolTypes, Ages, TermStates
<1>4. \A t \in Terminals :
        /\ Ages(term[t], term'[t])
        /\ t \in Of(s) /\ term'[t].at = "running" => Told(term'[t])
        /\ t \notin Of(s) => term'[t] = term[t]
  <2> TAKE t \in Terminals
  <2>1. CASE t \in Of(s)
    BY <1>2, <2>1, OutcomesAge
  <2>2. CASE t \notin Of(s)
    BY <1>2, <1>3, <2>2
  <2> QED
    BY <2>1, <2>2
<1>5. term' \in [Terminals -> TermStates]
  <2>1. \A t \in Terminals : term'[t] \in TermStates
    BY <1>4 DEF Ages
  <2> QED
    BY <1>2, <2>1
<1>6. gen' \in [Sessions -> Nat] /\ \A z \in Sessions : z # s => gen'[z] = gen[z]
  BY <1>1
<1>7. ASSUME NEW t \in Terminals, term'[t].at = "running",
             pool' = "disposed" \/ term'[t].gen # gen'[term'[t].session]
      PROVE  Told(term'[t]) \/ (pool = "disposed" \/ term[t].gen # gen[term[t].session])
  <2>1. CASE t \in Of(s)
    BY <1>4, <1>7, <2>1
  <2>2. CASE t \notin Of(s)
    <3>1. term[t].session \in Sessions /\ term[t].session # s /\ term'[t] = term[t]
      BY <1>4, <1>7, <2>2 DEF PoolInv, PoolTypes, Of
    <3> QED
      BY <1>1, <1>6, <1>7, <3>1
  <2> QED
    BY <2>1, <2>2
<1> QED
  BY <1>1, <1>4, <1>5, <1>6, <1>7, AgesKept

LEMMA DisposePoolKept == ASSUME PoolInv, Dispose PROVE PoolInv'
<1>1. UNCHANGED <<gen, blocked, watch, quiet>> /\ term \in [Terminals -> TermStates]
  <2>1. UNCHANGED <<gen, blocked, watch, quiet>>
    BY Zenon DEF Dispose
  <2> QED
    BY <2>1 DEF PoolInv, PoolTypes
<1>2. \A t \in Terminals : Ages(term[t], term[t])
  BY <1>1 DEF PoolInv, PoolTypes, Ages, TermStates
<1>3. /\ \A t \in Terminals : term'[t] = term[t] \/ term'[t] \in Outcomes(term[t])
      /\ pool' = "disposed" => \A t \in Terminals : term'[t] \in Outcomes(term[t])
      /\ term' = [t \in Terminals |-> term'[t]]
  <2> DEFINE gone(t) == [term[t] EXCEPT !.explicit = TRUE, !.at = "gone"]
  <2>1. \A t \in Terminals : term[t].at \in {"running", "exiting", "exited"} \/ t \notin Live
    BY DEF Live, Closable
  <2>2. \A t \in Live : term[t].at # "exited" => Killed(term[t]) \in Outcomes(term[t])
    BY <2>1 DEF Live, Outcomes
  <2>3. \A t \in Live : term[t].at = "running" => KillThrows(term[t]) \in Outcomes(term[t])
    BY <2>1 DEF Live, Outcomes
  <2>4. \A t \in Live : term[t].at = "exited" => gone(t) \in Outcomes(term[t])
    BY DEF Live, Outcomes
  <2>5. \A t \in Terminals : t \notin Live => term[t] \in Outcomes(term[t])
    BY DEF Live, Outcomes
  <2> HIDE DEF gone
  <2>6. \A t \in Live :
          (IF term[t].at = "exited" THEN gone(t) ELSE Killed(term[t])) \in Outcomes(term[t])
    BY <2>2, <2>4
  <2>7. CASE /\ pool' = "disposed"
             /\ term' = [t \in Terminals |->
                           IF t \notin Live THEN term[t]
                           ELSE IF term[t].at = "exited" THEN gone(t) ELSE Killed(term[t])]
    BY <2>5, <2>6, <2>7
  <2>8. ASSUME NEW bad \in {t \in Live : term[t].at = "running"},
               NEW done \in SUBSET (Live \ {bad}),
               pool' = "cut",
               term' = [t \in Terminals |->
                          IF t = bad THEN KillThrows(term[t])
                          ELSE IF t \notin done THEN term[t]
                          ELSE IF term[t].at = "exited" THEN gone(t) ELSE Killed(term[t])]
        PROVE  /\ \A t \in Terminals : term'[t] = term[t] \/ term'[t] \in Outcomes(term[t])
               /\ pool' # "disposed" /\ term' = [t \in Terminals |-> term'[t]]
    BY <2>3, <2>6, <2>8
  <2> QED
    BY <2>7, <2>8, Zenon DEF Dispose, gone
<1>4. \A t \in Terminals :
        /\ Ages(term[t], term'[t])
        /\ pool' = "disposed" /\ term'[t].at = "running" => Told(term'[t])
  BY <1>2, <1>3, OutcomesAge
<1>5. term' \in [Terminals -> TermStates]
  <2>1. \A t \in Terminals : term'[t] \in TermStates
    BY <1>4 DEF Ages
  <2> QED
    BY <1>3, <2>1
<1>6. /\ gen' \in [Sessions -> Nat] /\ blocked \subseteq blocked' /\ blocked' \subseteq Sessions
      /\ \A t \in Terminals : term'[t].gen = term[t].gen /\ term'[t].session = term[t].session
  BY <1>1, <1>4 DEF PoolInv, PoolTypes, Ages
<1> QED
  BY <1>1, <1>4, <1>5, <1>6, AgesKept

\* The wait of a blocked Session.
LEMMA WatchKept ==
  ASSUME PoolInv, NEW s \in Sessions, Watch(s) \/ Watched(s)
  PROVE  PoolInv'
<1>1. UNCHANGED <<term, gen, blocked, pool>>
  BY DEF Watch, Watched
<1>2. /\ Leaves' /\ Fits'
      /\ \A t \in Terminals, z \in Sessions : Runs(term'[t], z) <=> Runs(term[t], z)
  BY <1>1 DEF PoolInv, Leaves, Fits, Held, Told
<1>3. CASE Watch(s)
  <2>1. Waits'
    BY <1>1, <1>3 DEF PoolInv, Waits, Watch, Resources, Of, Runs
  <2>2. PoolTypes' /\ Quiets'
    BY <1>1, <1>3 DEF PoolInv, PoolTypes, Quiets, Watch
  <2> QED
    BY <1>2, <2>1, <2>2 DEF PoolInv
<1>4. CASE Watched(s)
  <2>1. \A t \in Terminals : ~Runs(term[t], s)
    BY <1>4 DEF PoolInv, Waits, Watched, Runs
  <2>2. s \in blocked /\ quiet' = quiet \cup {s}
    BY <1>4 DEF PoolInv, Waits, Watched
  <2>3. PoolTypes' /\ Quiets'
    BY <1>1, <2>1, <2>2 DEF PoolInv, PoolTypes, Quiets
  <2>4. Waits'
    BY <1>1, <1>4 DEF PoolInv, Waits, Watched, NoWatch
  <2> QED
    BY <1>2, <2>3, <2>4 DEF PoolInv
<1> QED
  BY <1>3, <1>4

LEMMA PoolNextInv == PoolInv /\ [PoolNext]_poolVars => PoolInv'
<1>1. CASE UNCHANGED poolVars
  BY <1>1 DEF poolVars, PoolInv, PoolTypes, Waits, Quiets, Leaves, Fits, Held
<1> QED
  BY <1>1, OpenKept, OpenedKept, TerminalKept, CloseSessionKept, DisposePoolKept, WatchKept
  DEF PoolNext

\* For any terminals, Sessions, closes and kills that throw: a Session whose stop was waited for
\* has no process, what outlives a close was told to end or could not be killed, and the
\* limit holds at every await.
THEOREM StopsAreQuiet == PoolSpec => []StoppedSessionsAreQuiet
<1>1. PoolInv => StoppedSessionsAreQuiet
  <2> SUFFICES ASSUME PoolInv PROVE StoppedSessionsAreQuiet
    OBVIOUS
  <2>1. \A s \in quiet : \A t \in Of(s) : term[t].at \notin {"running", "exiting"}
    BY DEF PoolInv, Quiets, Runs, Of
  <2>2. \A s \in Sessions : Held(s) = Resources(s) \cup Reservations(s)
    BY DEF Held, Holds, Resources, Reservations, Of
  <2> QED
    BY <2>1, <2>2 DEF PoolInv, Leaves, Told, Fits, StoppedSessionsAreQuiet
<1> QED
  BY <1>1, PoolInitInv, PoolNextInv, PTL DEF PoolSpec

-----------------------------------------------------------------------------
(* CommandSessions. *)

Scopes == {"open", "closing", "awaiting", "ending", "gone"}
EntryStates ==
  [at : {"free", "cwd", "capture", "spawning", "alive", "unspawned", "finalizing", "settled"},
   ready : BOOLEAN, stop : BOOLEAN, kill : {"none", "soft", "force"}, again : BOOLEAN,
   timer : BOOLEAN, killed : BOOLEAN, failed : BOOLEAN]

\* An entry that is over holds nothing; the others hold a slot each.
OverAt == {"free", "settled"}
Slots == {p \in Procs : proc[p].at \notin OverAt}

CommandInv ==
  /\ scope \in Scopes /\ proc \in [Procs -> EntryStates]
  /\ scope = "gone" => Slots = {}
  /\ IsFiniteSet(Slots) /\ active = Cardinality(Slots)

\* Initially nothing was started.
LEMMA CommandInitInv == CommandInit => CommandInv
<1> SUFFICES ASSUME CommandInit PROVE CommandInv
  OBVIOUS
<1>1. NewEntry \in EntryStates /\ NewEntry.at \in OverAt
  BY DEF NewEntry, EntryStates, OverAt
<1>2. scope \in Scopes /\ proc \in [Procs -> EntryStates] /\ Slots = {} /\ active = 0
  BY <1>1 DEF CommandInit, Scopes, Slots
<1> QED
  BY <1>2, FS_EmptySet DEF CommandInv

\* A step in which no entry starts or settles.
LEMMA SlotsStay ==
  ASSUME CommandInv, proc' \in [Procs -> EntryStates], scope' \in Scopes, UNCHANGED active,
         scope' = "gone" => scope = "gone" \/ Slots = {},
         \A p \in Procs : proc'[p].at \in OverAt <=> proc[p].at \in OverAt
  PROVE  CommandInv'
<1>1. Slots' = Slots
  BY DEF Slots
<1> QED
  BY <1>1 DEF CommandInv

\* A request to end changes neither what an entry is nor what it holds.
LEMMA RequestKeeps ==
  ASSUME NEW r \in EntryStates
  PROVE  StopRequested(r) \in EntryStates /\ StopRequested(r).at = r.at
<1> DEFINE kill == IF r.kill = "none" THEN "soft" ELSE r.kill
           marked == [r EXCEPT !.stop = TRUE]
           asked == [r EXCEPT !.stop = TRUE, !.timer = TRUE, !.kill = kill]
<1>1. marked \in EntryStates /\ marked.at = r.at
  BY DEF EntryStates
<1>2. asked \in EntryStates /\ asked.at = r.at
  <2>1. kill \in {"none", "soft", "force"}
    BY DEF EntryStates
  <2> HIDE DEF kill
  <2> QED
    BY <2>1 DEF EntryStates
<1>3. StopRequested(r) \in {r, marked, asked}
  BY Zenon DEF StopRequested
<1> HIDE DEF marked, asked
<1> QED
  BY <1>1, <1>2, <1>3

LEMMA ForcedKeeps ==
  ASSUME NEW r \in EntryStates
  PROVE  Forced(r) \in EntryStates /\ Forced(r).at = r.at
BY DEF Forced, EntryStates

\* A step on one entry that neither starts nor settles it.
LEMMA EntryKept ==
  ASSUME CommandInv, NEW p \in Procs, NEW r \in EntryStates, PutEntry(p, r),
         r.at \in OverAt <=> proc[p].at \in OverAt, UNCHANGED <<scope, active>>
  PROVE  CommandInv'
<1>1. /\ proc' \in [Procs -> EntryStates] /\ proc'[p] = r
      /\ \A q \in Procs : q # p => proc'[q] = proc[q]
  BY DEF CommandInv, PutEntry
<1>2. scope' \in Scopes /\ (scope' = "gone" => scope = "gone")
  BY DEF CommandInv
<1> QED
  BY <1>1, <1>2, SlotsStay

LEMMA StartCommandKept == ASSUME CommandInv, NEW p \in Procs, Start(p) PROVE CommandInv'
<1> DEFINE r == [NewEntry EXCEPT !.at = "cwd"]
<1>1. r \in EntryStates /\ r.at = "cwd"
  BY DEF NewEntry, EntryStates
<1> HIDE DEF r
<1>2. /\ proc' = [proc EXCEPT ![p] = r] /\ scope' = scope /\ scope = "open"
      /\ active' = active + 1 /\ proc[p].at = "free"
  BY DEF Start, PutEntry, IsOpen, r
<1>3. /\ proc' \in [Procs -> EntryStates] /\ proc'[p] = r
      /\ \A q \in Procs : q # p => proc'[q] = proc[q]
  BY <1>1, <1>2 DEF CommandInv
<1>4. Slots' = Slots \cup {p} /\ p \notin Slots
  BY <1>1, <1>2, <1>3 DEF Slots, OverAt
<1>5. IsFiniteSet(Slots') /\ Cardinality(Slots') = Cardinality(Slots) + 1
  BY <1>4, FS_AddElement DEF CommandInv
<1> QED
  BY <1>2, <1>3, <1>5 DEF CommandInv

LEMMA EntrySettledKept ==
  ASSUME CommandInv, NEW p \in Procs, EntrySettled(p)
  PROVE  CommandInv'
<1> DEFINE r == [proc[p] EXCEPT !.at = "settled", !.ready = TRUE]
<1>1. r \in EntryStates /\ r.at = "settled"
  BY DEF CommandInv, EntryStates
<1> HIDE DEF r
<1>2. /\ proc' = [proc EXCEPT ![p] = r] /\ scope' = scope
      /\ active' = active - 1 /\ proc[p].at = "finalizing"
  BY DEF EntrySettled, PutEntry, r
<1>3. /\ proc' \in [Procs -> EntryStates] /\ proc'[p] = r
      /\ \A q \in Procs : q # p => proc'[q] = proc[q]
  BY <1>1, <1>2 DEF CommandInv
<1>4. Slots' = Slots \ {p} /\ p \in Slots
  BY <1>1, <1>2, <1>3 DEF Slots, OverAt
<1>5. IsFiniteSet(Slots') /\ Cardinality(Slots') = Cardinality(Slots) - 1
  BY <1>4, FS_RemoveElement DEF CommandInv
<1>6. scope' # "gone"
  BY <1>2, <1>4 DEF CommandInv
<1> QED
  BY <1>2, <1>3, <1>5, <1>6 DEF CommandInv

\* The steps of one entry between its start and its end.
LEMMA EntryStepKept ==
  ASSUME CommandInv, NEW p \in Procs,
         \/ Located(p) \/ Captured(p) \/ Spawned(p) \/ SpawnFails(p) \/ GraceOver(p)
         \/ KillAnswers(p) \/ Closed(p) \/ Terminate(p)
  PROVE  CommandInv'
<1>1. proc[p] \in EntryStates
  BY DEF CommandInv
<1>2. UNCHANGED <<scope, active>>
  BY DEF Located, Captured, Spawned, SpawnFails, GraceOver, KillAnswers, Closed, Terminate
<1>3. PICK r \in EntryStates : PutEntry(p, r) /\ (r.at \in OverAt <=> proc[p].at \in OverAt)
  <2>1. CASE Located(p)
    <3>1. \A a \in {"capture", "finalizing"} :
            [proc[p] EXCEPT !.at = a] \in EntryStates /\ [proc[p] EXCEPT !.at = a].at = a
      BY <1>1 DEF EntryStates
    <3> QED
      BY <2>1, <3>1 DEF Located, OverAt
  <2>2. CASE Captured(p)
    <3>1. \A a \in {"spawning", "finalizing"} :
            [proc[p] EXCEPT !.at = a] \in EntryStates /\ [proc[p] EXCEPT !.at = a].at = a
      BY <1>1 DEF EntryStates
    <3> QED
      BY <2>2, <3>1 DEF Captured, OverAt
  <2>3. CASE Spawned(p)
    <3> DEFINE r == [proc[p] EXCEPT !.at = "alive", !.ready = TRUE]
    <3>1. r \in EntryStates /\ r.at = "alive"
      BY <1>1 DEF EntryStates
    <3> HIDE DEF r
    <3>2. AfterSpawn(r) \in EntryStates /\ AfterSpawn(r).at = "alive"
      BY <3>1, RequestKeeps DEF AfterSpawn
    <3> QED
      BY <2>3, <3>2 DEF Spawned, OverAt, r
  <2>4. CASE SpawnFails(p)
    <3> DEFINE r == [proc[p] EXCEPT !.at = "unspawned", !.ready = TRUE]
    <3>1. r \in EntryStates /\ r.at = "unspawned"
      BY <1>1 DEF EntryStates
    <3> QED
      BY <2>4, <3>1 DEF SpawnFails, OverAt
  <2>5. CASE GraceOver(p)
    <3> DEFINE r == [proc[p] EXCEPT !.timer = FALSE]
    <3>1. r \in EntryStates /\ r.at = proc[p].at
      BY <1>1 DEF EntryStates
    <3> HIDE DEF r
    <3>2. Forced(r) \in EntryStates /\ Forced(r).at = proc[p].at
      BY <3>1, ForcedKeeps
    <3> QED
      BY <2>5, <3>2 DEF GraceOver, r
  <2>6. CASE KillAnswers(p)
    <3> DEFINE kill == IF proc[p].again /\ HasChild(proc[p]) THEN "force" ELSE "none"
               next == [proc[p] EXCEPT !.kill = kill, !.again = FALSE]
               done == [next EXCEPT !.failed = FALSE, !.killed = @ \/ proc[p].kill = "force"]
               not == [next EXCEPT !.failed = HasChild(proc[p])]
    <3>1. next \in EntryStates /\ next.at = proc[p].at
      BY <1>1 DEF EntryStates
    <3>2. PutEntry(p, done) \/ PutEntry(p, not)
      BY <2>6 DEF KillAnswers
    <3> HIDE DEF next
    <3>3. done \in EntryStates /\ done.at = proc[p].at
      BY <3>1 DEF EntryStates
    <3>4. not \in EntryStates /\ not.at = proc[p].at
      <4>1. HasChild(proc[p]) \in BOOLEAN
        BY DEF HasChild
      <4> QED
        BY <3>1, <4>1 DEF EntryStates
    <3> HIDE DEF done, not
    <3> QED
      BY <3>2, <3>3, <3>4
  <2>7. CASE Closed(p)
    <3> DEFINE r == [proc[p] EXCEPT !.at = "finalizing", !.timer = FALSE]
    <3>1. r \in EntryStates /\ r.at = "finalizing"
      BY <1>1 DEF EntryStates
    <3> QED
      BY <2>7, <3>1 DEF Closed, OverAt
  <2>8. CASE Terminate(p)
    BY <1>1, <2>8, RequestKeeps DEF Terminate
  <2> QED
    BY <2>1, <2>2, <2>3, <2>4, <2>5, <2>6, <2>7, <2>8
<1> QED
  BY <1>2, <1>3, EntryKept

\* The end of the Run asks every entry, and waits for all of them before it is over.
LEMMA EndKept ==
  ASSUME CommandInv, StopRun \/ FinishRun \/ StartsAreOver \/ ScopeGone
  PROVE  CommandInv'
<1>1. UNCHANGED active
  BY DEF StopRun, FinishRun, StartsAreOver, ScopeGone
<1>2. CASE StopRun \/ FinishRun \/ StartsAreOver
  <2>1. StopAll /\ scope' \in Scopes /\ scope' # "gone"
    BY <1>2 DEF StopRun, FinishRun, StartsAreOver, CommandInv, Scopes
  <2>2. \A p \in Procs : proc'[p] \in EntryStates /\ proc'[p].at = proc[p].at
    BY <2>1, RequestKeeps DEF CommandInv, StopAll
  <2>3. proc' \in [Procs -> EntryStates]
    BY <2>1, <2>2 DEF StopAll
  <2> QED
    BY <1>1, <2>1, <2>2, <2>3, SlotsStay
<1>3. CASE ScopeGone
  <2>1. Slots = {} /\ scope' = "gone" /\ proc' = proc
    BY <1>3 DEF ScopeGone, Over, Known, Slots, OverAt
  <2> QED
    BY <1>1, <2>1, SlotsStay DEF CommandInv, Scopes
<1> QED
  BY <1>2, <1>3

LEMMA CommandNextInv == CommandInv /\ [CommandNext]_commandVars => CommandInv'
<1>1. CASE UNCHANGED commandVars
  BY <1>1 DEF commandVars, CommandInv, Slots
<1> QED
  BY <1>1, StartCommandKept, EntrySettledKept, EntryStepKept, EndKept DEF CommandNext, ProcStep

\* For any commands, limits, stops and kills that fail: when a Run is over no process, start or
\* slot of it is left, and while it goes on the slots are those of the entries not settled.
THEOREM NoProcessIsLeft == CommandSpec => []RunsLeaveNoProcess
<1>1. CommandInv => RunsLeaveNoProcess
  <2>1. Slots = {p \in Known : proc[p].at # "settled"}
    BY DEF Slots, OverAt, Known
  <2> QED
    BY <2>1 DEF CommandInv, RunsLeaveNoProcess, Slots, OverAt
<1> QED
  BY <1>1, CommandInitInv, CommandNextInv, PTL DEF CommandSpec
=============================================================================
