-------------------------- MODULE LinePool_proofs --------------------------
(***************************************************************************)
(* Proofs about LinePool, for every number of lines, every set of workers  *)
(* and a storage that may or may not fail.                                 *)
(*                                                                         *)
(* The inductive invariant IInv has two halves.  Accounts says where each  *)
(* line is: still in the queue, held by one worker, or with its one        *)
(* result.  PipeInv says what a worker that waits may find between itself  *)
(* and its child: messages of its own line only, the final flow record     *)
(* right before the result and with the same status, a node record before  *)
(* a Completed one; and that between two lines there is nothing at all.    *)
(* That is why a result is never read for another line, and why the        *)
(* storage already agrees with it when it is read.                         *)
(***************************************************************************)
EXTENDS LinePool, FiniteSetTheorems, SequenceTheorems, TLAPS

-----------------------------------------------------------------------------
(* Where the lines are *)

\* The lines the workers have taken from the queue: they leave it in order.
Taken == 1 .. NLines - Len(taskQueue)
HasResult(l) == \E i \in 1 .. Len(results) : results[i].line = l

QueueInOrder ==
  /\ Len(taskQueue) <= NLines
  /\ \A i \in 1 .. Len(taskQueue) : taskQueue[i] = NLines - Len(taskQueue) + i

\* A worker holds a line from the moment it takes it until it has seen to its result,
\* no line is held twice, and a line that was taken is held or has its result.
LinesAccounted ==
  /\ \A w \in Workers : line[w] = 0 <=> worker[w] \in {"get", "exited"}
  /\ \A w \in Workers : line[w] # 0 => line[w] \in Taken
  /\ \A v, w \in Workers : v # w => line[v] = 0 \/ line[v] # line[w]
  /\ \A w \in Workers : worker[w] \in {"wait", "timedout", "died"} => ~ HasResult(line[w])
  /\ \A w \in Workers : worker[w] \in {"kill", "mark", "pop"} => HasResult(line[w])
  /\ \A l \in Taken : HasResult(l) \/ \E w \in Workers : line[w] = l

OneResultPerLine ==
  /\ \A i \in 1 .. Len(results) : results[i].line \in Taken
  /\ \A i, j \in 1 .. Len(results) : results[i].line = results[j].line => i = j

Accounts ==
  /\ QueueInOrder
  /\ LinesAccounted
  /\ OneResultPerLine

\* A worker leaves only when the queue is empty, and ends its child.
EndInv ==
  /\ \A w \in Workers : worker[w] = "exited" => taskQueue = <<>> /\ child[w].pc = "dead"
  /\ outcome = "returned" => \A w \in Workers : worker[w] = "exited"
  /\ outcome = "raised" => \A w \in Workers : worker[w] \in {"exited", "died"}

-----------------------------------------------------------------------------
(* What is between a worker and its child *)

Ends == {"Completed", "Failed"}
InLine == {"running", "ran", "ending", "ended", "persisted"}
BetweenLines == {"starting", "idle", "dead"}
USE DEF InLine, BetweenLines
LastOf(s) == s[Len(s)]

\* A child in a line has its number, its status is final once end_run was called, and
\* a child that has not started or is dead has put nothing.
ChildInv ==
  \A w \in Workers :
    /\ child[w].pc \in InLine => child[w].line \in Lines
    /\ child[w].pc \in {"ending", "ended", "persisted"} => child[w].status \in Ends
    /\ child[w].pc \in {"starting", "dead"} => buffer[w] = <<>>

Quiet(w) ==
  /\ child[w].pc \in BetweenLines
  /\ inQueue[w] = <<>> /\ buffer[w] = <<>> /\ outQueue[w] = <<>>

\* Every message, and the child's record, is about the line the worker waits for.
LineFlows(w) ==
  /\ inQueue[w] # <<>> =>
       /\ inQueue[w] = <<line[w]>>
       /\ buffer[w] = <<>> /\ outQueue[w] = <<>>
       /\ child[w].pc \in BetweenLines
  /\ child[w].pc \in InLine => child[w].line = line[w]
  /\ \A i \in 1 .. Len(buffer[w]) : buffer[w][i].line = line[w]
  /\ \A i \in 1 .. Len(outQueue[w]) : outQueue[w][i].line = line[w]

\* All the child has put was pickled, and the last of it is the final flow record with
\* this status, which the worker is about to read or has put into the storage.
FinalRecordSent(w, status) ==
  IF outQueue[w] = <<>> THEN stored[line[w]] = status
  ELSE LastOf(outQueue[w]).kind = "flow" /\ LastOf(outQueue[w]).status = status

\* A result that waits to be pickled is the last message and follows the final flow
\* record; from then on the child's record does not change before it is pickled.
BufferInv(w) ==
  /\ \A i \in 1 .. Len(buffer[w]) :
       buffer[w][i].kind = "result" =>
         /\ i = Len(buffer[w])
         /\ child[w].pc = "idle" /\ child[w].status \in Ends
         /\ IF i = 1 THEN FinalRecordSent(w, child[w].status)
            ELSE buffer[w][i - 1].kind = "flow"
  /\ child[w].pc = "persisted" =>
       IF buffer[w] = <<>> THEN FinalRecordSent(w, child[w].status)
       ELSE LastOf(buffer[w]).kind = "flow"

\* A result that can be read is the last message of its line and follows a flow record
\* of the same status, or that status is in the storage already.
OutInv(w) ==
  \A i \in 1 .. Len(outQueue[w]) :
    outQueue[w][i].kind = "result" =>
      /\ i = Len(outQueue[w])
      /\ buffer[w] = <<>>
      /\ child[w].pc \in {"idle", "dead"}
      /\ outQueue[w][i].status \in Ends
      /\ IF i = 1 THEN stored[line[w]] = outQueue[w][i].status
         ELSE /\ outQueue[w][i - 1].kind = "flow"
              /\ outQueue[w][i - 1].status = outQueue[w][i].status

\* The node record is on its way or in the storage before the line is Completed.
NodeSent(w) ==
  \/ line[w] \in storedNodes
  \/ \E i \in 1 .. Len(outQueue[w]) : outQueue[w][i].kind = "node"
  \/ \E i \in 1 .. Len(buffer[w]) : buffer[w][i].kind = "node"

NodesInv(w) ==
  /\ child[w].pc = "ran" => NodeSent(w)
  /\ inQueue[w] = <<>> /\ child[w].status = "Completed" => NodeSent(w)
  /\ \A i \in 1 .. Len(outQueue[w]) :
       outQueue[w][i].kind = "result" /\ outQueue[w][i].status = "Completed" => NodeSent(w)

Flowing(w) == LineFlows(w) /\ BufferInv(w) /\ OutInv(w) /\ NodesInv(w)

\* Nothing is said of a worker that gave its line up: it reads nothing more before its
\* child is replaced.
Pipe(w) ==
  /\ worker[w] \in {"get", "mark", "pop", "exited"} => Quiet(w)
  /\ worker[w] = "wait" => Flowing(w)
PipeInv == \A w \in Workers : Pipe(w)

-----------------------------------------------------------------------------
\* What the storage says of each result.
StorageAgrees == RecordMatchesResult /\ NodeRecordsStored

IInv ==
  /\ TypeOK
  /\ Accounts
  /\ EndInv
  /\ ChildInv
  /\ PipeInv
  /\ StorageAgrees

-----------------------------------------------------------------------------
(* Sequences *)

\* Taking the first element of a queue.
LEMMA Taking ==
  ASSUME NEW S, NEW s \in Seq(S), s # <<>>
  PROVE  /\ Head(s) \in S /\ Head(s) = s[1] /\ Len(s) \in Nat /\ Len(s) >= 1
         /\ Tail(s) \in Seq(S) /\ Len(Tail(s)) = Len(s) - 1
         /\ \A i \in 1 .. Len(s) - 1 : Tail(s)[i] = s[i + 1]
OBVIOUS

\* The empty queue is the one of length 0.
LEMMA EmptyIfShort ==
  ASSUME NEW S, NEW s \in Seq(S)
  PROVE  /\ s = <<>> <=> Len(s) = 0
         /\ Len(s) = 1 => Tail(s) = <<>>
         /\ s # <<>> /\ Len(s) # 1 => Tail(s) # <<>>
<1>1. s = <<>> <=> Len(s) = 0
  BY EmptySeq
<1>2. s # <<>> => Tail(s) \in Seq(S) /\ Len(s) \in Nat /\ Len(Tail(s)) = Len(s) - 1
  BY Taking
<1>3. s # <<>> => (Tail(s) = <<>> <=> Len(Tail(s)) = 0)
  BY <1>2, EmptySeq
<1>4. Len(s) = 1 => s # <<>>
  BY <1>1
<1> QED BY <1>1, <1>2, <1>3, <1>4

\* Putting an element at the end of a queue.
LEMMA Putting ==
  ASSUME NEW S, NEW s \in Seq(S), NEW e \in S
  PROVE  /\ Append(s, e) \in Seq(S) /\ Len(s) \in Nat /\ Len(Append(s, e)) = Len(s) + 1
         /\ \A i \in 1 .. Len(s) : Append(s, e)[i] = s[i]
         /\ Append(s, e)[Len(s) + 1] = e
         /\ Append(s, e) # <<>>
OBVIOUS

\* Emptying one of the queues.
LEMMA Emptying ==
  ASSUME NEW S, NEW q \in [Workers -> Seq(S)], NEW w \in Workers
  PROVE  [q EXCEPT ![w] = <<>>] \in [Workers -> Seq(S)]
OBVIOUS

-----------------------------------------------------------------------------
(* Types *)

ChildRecords ==
  [pc : ChildStates, line : Lines \cup {0}, status : Statuses, ended : BOOLEAN]
BufferedMessages == [kind : MessageKinds, line : Lines]

\* A result names a line and how it ended.
LEMMA ResultType ==
  ASSUME TypeOK, NEW i \in 1 .. Len(results)
  PROVE  results[i].line \in Lines /\ results[i].status \in Ends
<1> DEFINE R == [line : Lines, status : Ends]
<1>1. results \in Seq(R)
  BY DEF TypeOK, Ends
<1>2. results[i] \in R
  <2> HIDE DEF R
  <2> QED BY <1>1
<1> QED BY <1>2

\* A new record of a child.
LEMMA ChildUpdates ==
  ASSUME NEW c \in ChildRecords, NEW s \in Statuses
  PROVE  /\ NewChild \in ChildRecords /\ DeadChild \in ChildRecords
         /\ \A pc \in ChildStates :
              /\ [c EXCEPT !.pc = pc] \in ChildRecords
              /\ [c EXCEPT !.pc = pc, !.status = s] \in ChildRecords
              /\ [c EXCEPT !.pc = pc, !.ended = TRUE] \in ChildRecords
         /\ [c EXCEPT !.status = s] \in ChildRecords
         /\ \A l \in Lines :
              [pc |-> "running", line |-> l, status |-> "Running", ended |-> FALSE]
                \in ChildRecords
BY DEF ChildRecords, NewChild, DeadChild, ChildStates, Statuses

\* What a child puts has its type.
LEMMA PutType ==
  ASSUME TypeOK, NEW w \in Workers, NEW kind \in MessageKinds, NEW l \in Lines, Put(w, kind, l)
  PROVE  /\ buffer' \in [Workers -> Seq(BufferedMessages)]
         /\ buffer' = [buffer EXCEPT ![w] = Append(buffer[w], Buffered(kind, l))]
         /\ Buffered(kind, l) \in BufferedMessages
<1>1. Buffered(kind, l) \in BufferedMessages
  BY DEF Buffered, BufferedMessages
<1>2. buffer[w] \in Seq(BufferedMessages)
  BY DEF TypeOK, BufferedMessages
<1>3. Append(buffer[w], Buffered(kind, l)) \in Seq(BufferedMessages)
  BY <1>1, <1>2, Putting
<1> QED BY <1>1, <1>3 DEF TypeOK, BufferedMessages, Put

\* What a worker reads has its type.
LEMMA TypeMessage ==
  ASSUME TypeOK, NEW w \in Workers, NEW kind, Receiving(w, kind)
  PROVE  /\ Message(w) \in Messages(MessageKinds) /\ Tail(outQueue[w]) \in Seq(Messages(MessageKinds))
         /\ Message(w).line \in Lines /\ Message(w).status \in Statuses
<1>1. outQueue[w] \in Seq(Messages(MessageKinds)) /\ outQueue[w] # <<>>
  BY DEF TypeOK, Receiving
<1>2. Message(w) \in Messages(MessageKinds) /\ Tail(outQueue[w]) \in Seq(Messages(MessageKinds))
  BY <1>1, Taking DEF Message
<1>3. Message(w).line \in Lines /\ Message(w).status \in Statuses
  BY <1>2 DEF Messages
<1> QED BY <1>2, <1>3

\* A worker between taking a line and giving it up holds one of the lines.
LEMMA HeldLine ==
  ASSUME TypeOK, LinesAccounted, NEW w \in Workers, worker[w] \notin {"get", "exited"}
  PROVE  line[w] \in Lines
<1>1. line[w] \in Lines \cup {0}
  BY DEF TypeOK
<1> QED BY <1>1 DEF LinesAccounted

LEMMA TypeWorker ==
  ASSUME TypeOK, LinesAccounted, PipeInv, NEW w \in Workers, WorkerStep(w)
  PROVE  TypeOK'
<1> USE DEF poolVars, childVars
<1>1. CASE Dispatch(w)
  <2>1. /\ Head(taskQueue) \in Lines /\ Tail(taskQueue) \in Seq(Lines)
    BY <1>1, Taking DEF Dispatch, TypeOK
  <2>2. Append(inQueue[w], Head(taskQueue)) \in Seq(Lines)
    BY <2>1, Putting DEF TypeOK
  <2> QED BY <1>1, <2>1, <2>2 DEF Dispatch, TypeOK, WorkerStates
<1>2. CASE QueueEmpty(w)
  <2>1. DeadChild \in ChildRecords
    BY DEF DeadChild, NewChild, ChildRecords, ChildStates, Statuses
  <2>2. child' \in [Workers -> ChildRecords]
    BY <1>2, <2>1 DEF QueueEmpty, Ended, TypeOK, ChildRecords
  <2>3. buffer' \in [Workers -> Seq(BufferedMessages)]
    BY <1>2, Emptying DEF QueueEmpty, TypeOK, BufferedMessages
  <2> QED
    BY <1>2, <2>2, <2>3 DEF QueueEmpty, TypeOK, WorkerStates, ChildRecords, BufferedMessages
<1>3. ASSUME NEW kind, Receiving(w, kind), Received(w)
      PROVE  /\ outQueue' \in [Workers -> Seq(Messages(MessageKinds))]
             /\ Message(w) \in Messages(MessageKinds)
             /\ Message(w).line \in Lines /\ Message(w).status \in Statuses
  BY <1>3, TypeMessage DEF TypeOK, Received
<1>4. CASE ReceiveResult(w)
  <2>1. /\ outQueue' \in [Workers -> Seq(Messages(MessageKinds))] /\ Message(w).line \in Lines
    BY <1>3, <1>4 DEF ReceiveResult
  <2>2. Message(w).status \in Ends
    BY <1>4, Taking DEF ReceiveResult, Receiving, Message, PipeInv, OutInv, Pipe, Flowing, TypeOK
  <2>3. Result(Message(w).line, Message(w).status) \in [line : Lines, status : Ends]
    BY <2>1, <2>2 DEF Result
  <2>4. results' \in Seq([line : Lines, status : Ends])
    BY <1>4, <2>3, Putting DEF ReceiveResult, TypeOK, Ends
  <2> QED BY <1>4, <2>1, <2>4 DEF ReceiveResult, AfterResult, TypeOK, WorkerStates, Ends
<1>5. CASE ReceiveFlowRun(w)
  <2>1. /\ outQueue' \in [Workers -> Seq(Messages(MessageKinds))]
        /\ Message(w).line \in Lines /\ Message(w).status \in Statuses
    BY <1>3, <1>5 DEF ReceiveFlowRun
  <2>2. stored' \in [Lines -> Statuses \ {"Running"}]
    BY <1>5, <2>1 DEF ReceiveFlowRun, TypeOK
  <2> QED BY <1>5, <2>1, <2>2 DEF ReceiveFlowRun, TypeOK
<1>6. CASE ReceiveNodeRun(w)
  <2>1. /\ outQueue' \in [Workers -> Seq(Messages(MessageKinds))] /\ Message(w).line \in Lines
    BY <1>3, <1>6 DEF ReceiveNodeRun
  <2> QED BY <1>6, <2>1 DEF ReceiveNodeRun, TypeOK
<1>7. CASE PersistRaises(w)
  <2>1. outQueue' \in [Workers -> Seq(Messages(MessageKinds))]
    BY <1>3, <1>7 DEF PersistRaises
  <2> QED BY <1>7, <2>1 DEF PersistRaises, TypeOK, WorkerStates
<1>8. CASE TimeOut(w)
  <2>1. line[w] \in Lines
    BY <1>8, HeldLine DEF TimeOut, PollEnds
  <2> QED BY <1>8, <2>1 DEF TimeOut, Marked, TypeOK, WorkerStates
<1>9. CASE MarkCompleted(w)
  <2>1. line[w] \in Lines
    BY <1>9, HeldLine DEF MarkCompleted
  <2> QED BY <1>9, <2>1 DEF MarkCompleted, Marked, TypeOK, WorkerStates
<1>10. CASE FailLine(w)
  <2>1. line[w] \in Lines
    BY <1>10, HeldLine DEF FailLine
  <2>2. Result(line[w], "Failed") \in [line : Lines, status : Ends]
    BY <2>1 DEF Result, Ends
  <2>3. results' \in Seq([line : Lines, status : Ends])
    BY <1>10, <2>2, Putting DEF FailLine, TimeoutResults, TypeOK, Ends
  <2>4. stored' \in [Lines -> Statuses \ {"Running"}]
    BY <1>10, <2>1 DEF FailLine, TimeoutStored, TypeOK, Statuses
  <2> QED BY <1>10, <2>3, <2>4 DEF FailLine, TypeOK, WorkerStates, Ends
<1>11. CASE FailLineRaises(w)
  BY <1>11 DEF FailLineRaises, TypeOK, WorkerStates
<1>12. CASE ReplaceChild(w)
  <2>1. NewChild \in ChildRecords
    BY DEF NewChild, ChildRecords, ChildStates, Statuses
  <2>2. child' \in [Workers -> ChildRecords]
    BY <1>12, <2>1 DEF ReplaceChild, TypeOK, ChildRecords
  <2>3. buffer' \in [Workers -> Seq(BufferedMessages)]
    BY <1>12, Emptying DEF ReplaceChild, TypeOK, BufferedMessages
  <2>4. inQueue' \in [Workers -> Seq(Lines)]
    BY <1>12 DEF ReplaceChild, NewQueue, TypeOK
  <2>5. outQueue' \in [Workers -> Seq(Messages(MessageKinds))]
    BY <1>12 DEF ReplaceChild, NewQueue, TypeOK
  <2> QED
    BY <1>12, <2>2, <2>3, <2>4, <2>5
    DEF ReplaceChild, TypeOK, WorkerStates, ChildRecords, BufferedMessages
<1>13. CASE PopProcessing(w)
  BY <1>13 DEF PopProcessing, TypeOK, WorkerStates
<1> QED
  BY <1>1, <1>2, <1>4, <1>5, <1>6, <1>7, <1>8, <1>9, <1>10, <1>11, <1>12, <1>13
  DEF WorkerStep

LEMMA TypeChild ==
  ASSUME TypeOK, ChildInv, NEW w \in Workers, ChildStep(w)
  PROVE  TypeOK'
<1> USE DEF poolVars
<1>c. child[w] \in ChildRecords
  BY DEF TypeOK, ChildRecords
<1>u. ASSUME NEW c \in ChildRecords, child' = [child EXCEPT ![w] = c],
             buffer' \in [Workers -> Seq(BufferedMessages)],
             UNCHANGED <<poolVars, worker, line, outQueue>>,
             inQueue' \in [Workers -> Seq(Lines)]
      PROVE  TypeOK'
  <2>1. child' \in [Workers -> ChildRecords]
    BY <1>u DEF TypeOK, ChildRecords
  <2> QED BY <1>u, <2>1 DEF TypeOK, ChildRecords, BufferedMessages
<1>v. ASSUME buffer' = buffer PROVE buffer' \in [Workers -> Seq(BufferedMessages)]
  BY <1>v DEF TypeOK, BufferedMessages
<1>i. ASSUME inQueue' = inQueue PROVE inQueue' \in [Workers -> Seq(Lines)]
  BY <1>i DEF TypeOK
<1>1. CASE ChildStarts(w)
  <2>1. [child[w] EXCEPT !.pc = "idle"] \in ChildRecords
    BY <1>c, ChildUpdates DEF ChildStates, Statuses
  <2> QED BY <1>1, <1>u, <1>v, <1>i, <2>1 DEF ChildStarts
<1>2. CASE ChildTakesLine(w)
  <2>1. Head(inQueue[w]) \in Lines /\ Tail(inQueue[w]) \in Seq(Lines)
    BY <1>2, Taking DEF ChildTakesLine, TypeOK
  <2>2. buffer' \in [Workers -> Seq(BufferedMessages)]
    BY <1>2, <2>1, PutType DEF ChildTakesLine, MessageKinds
  <2>3. inQueue' \in [Workers -> Seq(Lines)]
    BY <1>2, <2>1 DEF ChildTakesLine, TypeOK
  <2> QED BY <1>2, <1>c, <1>u, <2>1, <2>2, <2>3, ChildUpdates DEF ChildTakesLine, Statuses
<1>3. CASE ChildRunsNodes(w)
  <2>1. buffer' \in [Workers -> Seq(BufferedMessages)]
    BY <1>3, PutType DEF ChildRunsNodes, ChildInv, MessageKinds
  <2>2. [child[w] EXCEPT !.pc = "ran"] \in ChildRecords
    BY <1>c, ChildUpdates DEF ChildStates, Statuses
  <2> QED BY <1>3, <1>u, <1>i, <2>1, <2>2 DEF ChildRunsNodes
<1>4. ASSUME NEW s \in Ends, ChildEndsRun(w, s) PROVE TypeOK'
  <2>1. [child[w] EXCEPT !.pc = "ending", !.status = s] \in ChildRecords
    BY <1>c, ChildUpdates DEF ChildStates, Statuses, Ends
  <2> QED BY <1>4, <1>u, <1>v, <1>i, <2>1 DEF ChildEndsRun
<1>5. CASE ChildSetsEndTime(w)
  <2>1. [child[w] EXCEPT !.pc = "ended", !.ended = TRUE] \in ChildRecords
    BY <1>c, ChildUpdates DEF ChildStates, Statuses
  <2> QED BY <1>5, <1>u, <1>v, <1>i, <2>1 DEF ChildSetsEndTime
<1>6. CASE ChildFailsAggregationInputs(w)
  <2>1. [child[w] EXCEPT !.status = "Failed"] \in ChildRecords
    BY <1>c, ChildUpdates DEF Statuses
  <2> QED BY <1>6, <1>u, <1>v, <1>i, <2>1 DEF ChildFailsAggregationInputs
<1>7. CASE ChildPersistsFlowRun(w)
  <2>1. buffer' \in [Workers -> Seq(BufferedMessages)]
    BY <1>7, PutType DEF ChildPersistsFlowRun, ChildInv, MessageKinds
  <2>2. [child[w] EXCEPT !.pc = "persisted"] \in ChildRecords
    BY <1>c, ChildUpdates DEF ChildStates, Statuses
  <2> QED BY <1>7, <1>u, <1>i, <2>1, <2>2 DEF ChildPersistsFlowRun
<1>8. CASE ChildPutsResult(w)
  <2>1. buffer' \in [Workers -> Seq(BufferedMessages)]
    BY <1>8, PutType DEF ChildPutsResult, ChildInv, MessageKinds
  <2>2. [child[w] EXCEPT !.pc = "idle"] \in ChildRecords
    BY <1>c, ChildUpdates DEF ChildStates, Statuses
  <2> QED BY <1>8, <1>u, <1>i, <2>1, <2>2 DEF ChildPutsResult
<1>9. CASE ChildDies(w)
  <2>1. buffer' \in [Workers -> Seq(BufferedMessages)]
    BY <1>9, Emptying DEF ChildDies, TypeOK, BufferedMessages
  <2>2. DeadChild \in ChildRecords
    BY <1>c, ChildUpdates DEF Statuses
  <2> QED BY <1>9, <1>u, <1>i, <2>1, <2>2 DEF ChildDies
<1>b. ASSUME buffer[w] # <<>>
      PROVE  /\ Head(buffer[w]) \in BufferedMessages /\ Tail(buffer[w]) \in Seq(BufferedMessages)
  BY <1>b, Taking DEF TypeOK, BufferedMessages
<1>10. CASE Feed(w)
  <2>1. buffer' \in [Workers -> Seq(BufferedMessages)]
    BY <1>10, <1>b DEF Feed, TypeOK, BufferedMessages
  <2>2. Pickled(w, Head(buffer[w])) \in Messages(MessageKinds)
    <3>1. Head(buffer[w]).kind \in MessageKinds /\ Head(buffer[w]).line \in Lines
      BY <1>10, <1>b DEF Feed, BufferedMessages
    <3>2. child[w].status \in Statuses /\ child[w].ended \in BOOLEAN
      BY <1>c DEF ChildRecords
    <3> QED BY <3>1, <3>2 DEF Pickled, Messages, MessageKinds, Statuses
  <2>3. Append(outQueue[w], Pickled(w, Head(buffer[w]))) \in Seq(Messages(MessageKinds))
    BY <2>2, Putting DEF TypeOK
  <2>4. outQueue' \in [Workers -> Seq(Messages(MessageKinds))]
    BY <1>10, <2>3 DEF Feed, TypeOK
  <2> QED BY <1>10, <2>1, <2>4 DEF Feed, TypeOK, BufferedMessages
<1>11. CASE FeedFails(w)
  <2>1. buffer' \in [Workers -> Seq(BufferedMessages)]
    BY <1>11, <1>b DEF FeedFails, TypeOK, BufferedMessages
  <2> QED BY <1>11, <2>1 DEF FeedFails, TypeOK, BufferedMessages
<1> QED
  BY <1>1, <1>2, <1>3, <1>4, <1>5, <1>6, <1>7, <1>8, <1>9, <1>10, <1>11 DEF ChildStep, Ends

-----------------------------------------------------------------------------
(* What the steps leave alone *)

\* A child process touches only its own queues.
LEMMA ChildStepFrame ==
  ASSUME TypeOK, NEW w \in Workers, ChildStep(w)
  PROVE  /\ UNCHANGED <<poolVars, worker, line>>
         /\ \A v \in Workers \ {w} :
              /\ child'[v] = child[v] /\ inQueue'[v] = inQueue[v]
              /\ buffer'[v] = buffer[v] /\ outQueue'[v] = outQueue[v]
<1>1. UNCHANGED <<poolVars, worker, line>>
  BY DEF ChildStep, ChildStarts, ChildTakesLine, ChildRunsNodes, ChildEndsRun, ChildSetsEndTime,
     ChildFailsAggregationInputs, ChildPersistsFlowRun, ChildPutsResult, ChildDies, Feed, FeedFails
<1>2. \A v \in Workers \ {w} : child'[v] = child[v]
  BY DEF ChildStep, ChildStarts, ChildTakesLine, ChildRunsNodes, ChildEndsRun, ChildSetsEndTime,
     ChildFailsAggregationInputs, ChildPersistsFlowRun, ChildPutsResult, ChildDies, Feed, FeedFails,
     TypeOK
<1>3. \A v \in Workers \ {w} : inQueue'[v] = inQueue[v] /\ outQueue'[v] = outQueue[v]
  BY DEF ChildStep, ChildStarts, ChildTakesLine, ChildRunsNodes, ChildEndsRun, ChildSetsEndTime,
     ChildFailsAggregationInputs, ChildPersistsFlowRun, ChildPutsResult, ChildDies, Feed, FeedFails,
     TypeOK
<1>4. \A v \in Workers \ {w} : buffer'[v] = buffer[v]
  BY DEF ChildStep, ChildStarts, ChildTakesLine, ChildRunsNodes, ChildEndsRun, ChildSetsEndTime,
     ChildFailsAggregationInputs, ChildPersistsFlowRun, ChildPutsResult, ChildDies, Feed, FeedFails,
     Put, TypeOK
<1> QED BY <1>1, <1>2, <1>3, <1>4

\* A worker thread touches only its own child.
LEMMA WorkerStepFrame ==
  ASSUME TypeOK, NEW w \in Workers, WorkerStep(w)
  PROVE  /\ outcome' = outcome
         /\ \A v \in Workers \ {w} :
              /\ worker'[v] = worker[v] /\ line'[v] = line[v] /\ child'[v] = child[v]
              /\ inQueue'[v] = inQueue[v] /\ buffer'[v] = buffer[v]
              /\ outQueue'[v] = outQueue[v]
<1> USE DEF poolVars, childVars
<1>1. outcome' = outcome
  BY DEF WorkerStep, Dispatch, QueueEmpty, ReceiveResult, ReceiveFlowRun, ReceiveNodeRun,
     PersistRaises, TimeOut, MarkCompleted, FailLine, FailLineRaises, ReplaceChild, PopProcessing
<1>2. \A v \in Workers \ {w} : worker'[v] = worker[v] /\ line'[v] = line[v]
  BY DEF WorkerStep, Dispatch, QueueEmpty, ReceiveResult, ReceiveFlowRun, ReceiveNodeRun,
     PersistRaises, TimeOut, MarkCompleted, FailLine, FailLineRaises, ReplaceChild, PopProcessing,
     TypeOK
<1>3. \A v \in Workers \ {w} : child'[v] = child[v] /\ inQueue'[v] = inQueue[v]
  BY DEF WorkerStep, Dispatch, QueueEmpty, ReceiveResult, ReceiveFlowRun, ReceiveNodeRun,
     PersistRaises, TimeOut, MarkCompleted, FailLine, FailLineRaises, ReplaceChild, PopProcessing,
     TypeOK
<1>4. \A v \in Workers \ {w} : buffer'[v] = buffer[v] /\ outQueue'[v] = outQueue[v]
  BY DEF WorkerStep, Dispatch, QueueEmpty, ReceiveResult, ReceiveFlowRun, ReceiveNodeRun,
     PersistRaises, TimeOut, MarkCompleted, FailLine, FailLineRaises, ReplaceChild, PopProcessing,
     Received, TypeOK
<1> QED BY <1>1, <1>2, <1>3, <1>4

-----------------------------------------------------------------------------
(* The lines and their results *)

\* A step that leaves the queue, the lines held and the results alone, and each
\* worker between the same two of its actions on them.
LEMMA SameAccounts ==
  ASSUME Accounts, UNCHANGED <<taskQueue, line, results>>,
         \A v \in Workers :
           /\ worker'[v] \in {"get", "exited"} <=> worker[v] \in {"get", "exited"}
           /\ worker'[v] \in {"wait", "timedout", "died"} => worker[v] \in {"wait", "timedout", "died"}
           /\ worker'[v] \in {"kill", "mark", "pop"} => worker[v] \in {"kill", "mark", "pop"}
  PROVE  Accounts'
BY DEF Accounts, QueueInOrder, LinesAccounted, OneResultPerLine, Taken, HasResult

\* A worker appends the result of the line it holds.
LEMMA ResultAccounts ==
  ASSUME TypeOK, Accounts, NEW w \in Workers, worker[w] \in {"wait", "timedout"},
         NEW s \in Ends, results' = Append(results, Result(line[w], s)),
         NEW pc \in {"kill", "mark"}, worker' = [worker EXCEPT ![w] = pc],
         UNCHANGED <<taskQueue, line>>
  PROVE  /\ Accounts'
         /\ line[w] \in Lines /\ ~ HasResult(line[w])
         /\ \A l \in Lines : HasResult(l)' <=> HasResult(l) \/ l = line[w]
<1>1. line[w] \in Lines /\ line[w] \in Taken /\ ~ HasResult(line[w])
  BY DEF Accounts, LinesAccounted, TypeOK
<1>2. Result(line[w], s) \in [line : Lines, status : Ends] /\ Result(line[w], s).line = line[w]
  BY <1>1 DEF Result
<1>3. /\ Len(results) \in Nat /\ Len(results') = Len(results) + 1
      /\ \A i \in 1 .. Len(results) : results'[i] = results[i]
      /\ results'[Len(results) + 1].line = line[w]
  BY <1>2, Putting DEF TypeOK, Ends
<1>4. \A l \in Lines : HasResult(l)' <=> HasResult(l) \/ l = line[w]
  BY <1>3 DEF HasResult
<1>5. QueueInOrder'
  BY DEF Accounts, QueueInOrder
<1>6. Taken' = Taken /\ Taken \subseteq Lines
  <2>1. Len(taskQueue) \in Nat
    BY DEF TypeOK
  <2> QED BY <2>1, PoolAssumption DEF Taken, Lines, PoolAssumption
<1>7. OneResultPerLine'
  <2>1. \A i \in 1 .. Len(results') : i \in 1 .. Len(results) \/ i = Len(results) + 1
    BY <1>3
  <2>2. \A i \in 1 .. Len(results) : results[i].line \in Taken /\ results[i].line # line[w]
    BY <1>1 DEF Accounts, OneResultPerLine, HasResult
  <2>3. ASSUME NEW i \in 1 .. Len(results') PROVE results'[i].line \in Taken'
    BY <1>1, <1>3, <1>6, <2>1, <2>2
  <2>4. ASSUME NEW i \in 1 .. Len(results'), NEW j \in 1 .. Len(results'),
               results'[i].line = results'[j].line
        PROVE  i = j
    <3>1. CASE i \in 1 .. Len(results) /\ j \in 1 .. Len(results)
      <4>1. results[i].line = results[j].line
        BY <1>3, <2>4, <3>1
      <4> QED BY <3>1, <4>1 DEF Accounts, OneResultPerLine
    <3>2. CASE i = Len(results) + 1 /\ j = Len(results) + 1
      BY <3>2
    <3>3. CASE i = Len(results) + 1 /\ j \in 1 .. Len(results)
      BY <1>3, <2>2, <2>4, <3>3
    <3>4. CASE j = Len(results) + 1 /\ i \in 1 .. Len(results)
      BY <1>3, <2>2, <2>4, <3>4
    <3> QED BY <2>1, <3>1, <3>2, <3>3, <3>4
  <2> QED BY <2>3, <2>4 DEF OneResultPerLine
<1>8. \A v \in Workers : worker'[v] = IF v = w THEN pc ELSE worker[v]
  BY DEF TypeOK
<1>9. \A v \in Workers : line[v] \in Lines \cup {0} /\ 0 \notin Lines
  BY DEF TypeOK, Lines
<1>10. LinesAccounted'
  <2>1. \A v \in Workers : line'[v] = 0 <=> worker'[v] \in {"get", "exited"}
    BY <1>8 DEF Accounts, LinesAccounted
  <2>2. \A v \in Workers : line'[v] # 0 => line'[v] \in Taken'
    BY <1>6 DEF Accounts, LinesAccounted
  <2>3. \A u, v \in Workers : u # v => line'[u] = 0 \/ line'[u] # line'[v]
    BY DEF Accounts, LinesAccounted
  <2>4. ASSUME NEW v \in Workers, worker'[v] \in {"wait", "timedout", "died"}
        PROVE  ~ HasResult(line[v])'
    <3>1. v # w /\ worker[v] \in {"wait", "timedout", "died"}
      BY <1>8, <2>4
    <3>2. line[v] \in Lines /\ line[v] # line[w] /\ ~ HasResult(line[v])
      BY <3>1, <1>9 DEF Accounts, LinesAccounted
    <3>3. ~ (\E i \in 1 .. Len(results') : results'[i].line = line[v])
      BY <3>2, <1>4 DEF HasResult
    <3> QED BY <3>3 DEF HasResult
  <2>5. ASSUME NEW v \in Workers, worker'[v] \in {"kill", "mark", "pop"}
        PROVE  HasResult(line[v])'
    <3>1. line[v] \in Lines /\ (v = w \/ HasResult(line[v]))
      BY <1>1, <1>8, <1>9, <2>5 DEF Accounts, LinesAccounted
    <3>2. \E i \in 1 .. Len(results') : results'[i].line = line[v]
      BY <3>1, <1>4 DEF HasResult
    <3> QED BY <3>2 DEF HasResult
  <2>6. \A l \in Taken' : HasResult(l)' \/ \E v \in Workers : line'[v] = l
    BY <1>4, <1>6 DEF Accounts, LinesAccounted
  <2> QED BY <2>1, <2>2, <2>3, <2>4, <2>5, <2>6 DEF LinesAccounted
<1> QED BY <1>1, <1>4, <1>5, <1>7, <1>10 DEF Accounts

LEMMA DispatchAccounts ==
  ASSUME TypeOK, Accounts, NEW w \in Workers, Dispatch(w)
  PROVE  Accounts' /\ line'[w] \in Lines
<1> DEFINE l == Head(taskQueue)
<1>1. /\ Len(taskQueue) \in 1 .. NLines /\ Len(taskQueue') = Len(taskQueue) - 1
      /\ l = taskQueue[1] /\ l \in Lines
      /\ \A i \in 1 .. Len(taskQueue) - 1 : taskQueue'[i] = taskQueue[i + 1]
  BY Taking, PoolAssumption DEF Dispatch, TypeOK, Accounts, QueueInOrder, PoolAssumption
<1>2. l = NLines - Len(taskQueue) + 1
  BY <1>1, PoolAssumption DEF Accounts, QueueInOrder, PoolAssumption
<1>3. Taken' = Taken \cup {l} /\ l \notin Taken
  BY <1>1, <1>2, PoolAssumption DEF Taken, PoolAssumption
<1>4. /\ \A v \in Workers : /\ line'[v] = IF v = w THEN l ELSE line[v]
                            /\ worker'[v] = IF v = w THEN "wait" ELSE worker[v]
      /\ results' = results /\ worker[w] = "get"
  BY DEF Dispatch, TypeOK
<1> HIDE DEF l
<1>5. QueueInOrder'
  BY <1>1, PoolAssumption DEF Accounts, QueueInOrder, PoolAssumption
<1>6. OneResultPerLine'
  BY <1>3, <1>4 DEF Accounts, OneResultPerLine
<1>7. ~ HasResult(l)
  BY <1>3 DEF Accounts, OneResultPerLine, HasResult
<1>8. l # 0
  BY <1>1 DEF Lines
<1>9. LinesAccounted'
  <2>1. \A k \in Lines : HasResult(k)' <=> HasResult(k)
    BY <1>4 DEF HasResult
  <2>2. \A v \in Workers : line'[v] = 0 <=> worker'[v] \in {"get", "exited"}
    BY <1>4, <1>8 DEF Accounts, LinesAccounted
  <2>3. \A v \in Workers : line'[v] # 0 => line'[v] \in Taken'
    BY <1>3, <1>4 DEF Accounts, LinesAccounted
  <2>4. \A u, v \in Workers : u # v => line'[u] = 0 \/ line'[u] # line'[v]
    BY <1>3, <1>4 DEF Accounts, LinesAccounted
  <2>5. \A v \in Workers :
          worker'[v] \in {"wait", "timedout", "died"} => ~ HasResult(line[v])' \/ v = w
    BY <1>4 DEF Accounts, LinesAccounted, HasResult
  <2>6. ~ HasResult(line[w])'
    BY <1>4, <1>7 DEF HasResult
  <2>7. \A v \in Workers : worker'[v] \in {"kill", "mark", "pop"} => HasResult(line[v])'
    BY <1>4 DEF Accounts, LinesAccounted, HasResult
  <2>8. \A k \in Taken' : HasResult(k)' \/ \E v \in Workers : line'[v] = k
    <3> SUFFICES ASSUME NEW k \in Taken', ~ HasResult(k)'
                 PROVE  \E v \in Workers : line'[v] = k
      OBVIOUS
    <3>1. CASE k = l
      BY <1>4, <3>1
    <3>2. CASE k # l
      <4>1. k \in Taken /\ ~ HasResult(k)
        BY <1>3, <1>4, <3>2 DEF HasResult
      <4>2. PICK v \in Workers : line[v] = k
        BY <4>1 DEF Accounts, LinesAccounted
      <4>3. v # w
        BY <1>4, <4>1, <4>2, <1>8, PoolAssumption DEF Accounts, LinesAccounted, Taken
      <4> QED BY <1>4, <4>2, <4>3
    <3> QED BY <3>1, <3>2
  <2> QED BY <2>2, <2>3, <2>4, <2>5, <2>6, <2>7, <2>8 DEF LinesAccounted
<1> QED BY <1>1, <1>4, <1>5, <1>6, <1>9 DEF Accounts

LEMMA PopAccounts ==
  ASSUME TypeOK, Accounts, NEW w \in Workers, PopProcessing(w)
  PROVE  Accounts'
<1>1. /\ \A v \in Workers : /\ line'[v] = IF v = w THEN 0 ELSE line[v]
                            /\ worker'[v] = IF v = w THEN "get" ELSE worker[v]
      /\ results' = results /\ taskQueue' = taskQueue /\ worker[w] = "pop"
  BY DEF PopProcessing, TypeOK
<1>2. HasResult(line[w])
  BY <1>1 DEF Accounts, LinesAccounted
<1>3. QueueInOrder' /\ OneResultPerLine'
  BY <1>1 DEF Accounts, QueueInOrder, OneResultPerLine, Taken
<1>4. LinesAccounted'
  <2>1. Taken' = Taken /\ \A l \in Lines \cup {0} : HasResult(l)' <=> HasResult(l)
    BY <1>1 DEF Taken, HasResult
  <2>2. \A v \in Workers : line[v] \in Lines \cup {0}
    BY DEF TypeOK
  <2>3. /\ \A v \in Workers : line'[v] = 0 <=> worker'[v] \in {"get", "exited"}
        /\ \A v \in Workers : line'[v] # 0 => line'[v] \in Taken'
        /\ \A u, v \in Workers : u # v => line'[u] = 0 \/ line'[u] # line'[v]
    BY <1>1, <2>1 DEF Accounts, LinesAccounted
  <2>4. ASSUME NEW v \in Workers, v # w
        PROVE  /\ worker'[v] \in {"wait", "timedout", "died"} => ~ HasResult(line[v])'
               /\ worker'[v] \in {"kill", "mark", "pop"} => HasResult(line[v])'
    <3>1. worker'[v] = worker[v] /\ line'[v] = line[v] /\ results' = results
      BY <1>1, <2>4
    <3> QED BY <3>1 DEF Accounts, LinesAccounted, HasResult
  <2>5. \A l \in Taken' : HasResult(l)' \/ \E v \in Workers : line'[v] = l
    <3> SUFFICES ASSUME NEW l \in Taken, ~ HasResult(l) PROVE \E v \in Workers : line'[v] = l
      BY <1>1, <2>1 DEF HasResult
    <3>1. PICK v \in Workers : line[v] = l
      BY DEF Accounts, LinesAccounted
    <3> QED BY <1>1, <1>2, <3>1
  <2> QED BY <1>1, <2>3, <2>4, <2>5 DEF LinesAccounted
<1> QED BY <1>3, <1>4 DEF Accounts

LEMMA AccountsStep ==
  ASSUME TypeOK, Accounts, PipeInv, [Next]_vars
  PROVE  Accounts'
<1> USE DEF poolVars, childVars
<1>1. ASSUME NEW w \in Workers, WorkerStep(w) PROVE Accounts'
  <2>1. CASE Dispatch(w)
    BY <2>1, DispatchAccounts
  <2>2. CASE ReceiveResult(w)
    <3>1. worker[w] = "wait" /\ outQueue[w] # <<>> /\ LineFlows(w) /\ OutInv(w)
      BY <2>2 DEF ReceiveResult, Receiving, PipeInv, Pipe, Flowing
    <3>2. Message(w).line = line[w] /\ Message(w).status \in Ends
      BY <2>2, <3>1, Taking
      DEF ReceiveResult, Receiving, Message, LineFlows, OutInv, TypeOK
    <3>3. results' = Append(results, Result(line[w], Message(w).status))
      BY <2>2, <3>2 DEF ReceiveResult
    <3> QED BY <2>2, <3>1, <3>2, <3>3, ResultAccounts DEF ReceiveResult, AfterResult
  <2>3. CASE FailLine(w)
    BY <2>3, ResultAccounts DEF FailLine, TimeoutResults, Ends
  <2>4. CASE PopProcessing(w)
    BY <2>4, PopAccounts
  <2>5. CASE QueueEmpty(w)
    BY <2>5, SameAccounts DEF QueueEmpty, TypeOK
  <2>6. CASE ReceiveFlowRun(w)
    BY <2>6, SameAccounts DEF ReceiveFlowRun
  <2>7. CASE ReceiveNodeRun(w)
    BY <2>7, SameAccounts DEF ReceiveNodeRun
  <2>8. CASE PersistRaises(w)
    BY <2>8, SameAccounts DEF PersistRaises, Receiving, TypeOK
  <2>9. CASE TimeOut(w)
    BY <2>9, SameAccounts DEF TimeOut, PollEnds, TypeOK
  <2>10. CASE MarkCompleted(w)
    BY <2>10, SameAccounts DEF MarkCompleted, TypeOK
  <2>11. CASE FailLineRaises(w)
    BY <2>11, SameAccounts DEF FailLineRaises, TypeOK
  <2>12. CASE ReplaceChild(w)
    BY <2>12, SameAccounts DEF ReplaceChild, TypeOK
  <2> QED
    BY <1>1, <2>1, <2>2, <2>3, <2>4, <2>5, <2>6, <2>7, <2>8, <2>9, <2>10, <2>11, <2>12
    DEF WorkerStep
<1>2. ASSUME UNCHANGED <<taskQueue, line, results, worker>> PROVE Accounts'
  BY <1>2, SameAccounts
<1>3. ASSUME NEW w \in Workers, ChildStep(w) PROVE Accounts'
  BY <1>2, <1>3, ChildStepFrame
<1>4. CASE RunEnds
  BY <1>2, <1>4 DEF RunEnds
<1>5. CASE UNCHANGED vars
  BY <1>2, <1>5 DEF vars
<1> QED BY <1>1, <1>3, <1>4, <1>5 DEF Next

-----------------------------------------------------------------------------
(* The end of the call, and the children *)

LEMMA EndStep ==
  ASSUME TypeOK, EndInv, [Next]_vars
  PROVE  EndInv'
<1> USE DEF poolVars, childVars
<1>1. ASSUME NEW w \in Workers, WorkerStep(w) PROVE EndInv'
  <2>1. outcome' = outcome /\ worker[w] \notin {"exited", "died"}
    BY <1>1, WorkerStepFrame
    DEF WorkerStep, Dispatch, QueueEmpty, ReceiveResult, ReceiveFlowRun, ReceiveNodeRun, Receiving,
     PersistRaises, TimeOut, PollEnds, MarkCompleted, FailLine, FailLineRaises, ReplaceChild,
     PopProcessing
  <2>2. outcome = "running"
    BY <2>1 DEF EndInv, TypeOK
  <2>3. worker'[w] = "exited" => taskQueue = <<>> /\ taskQueue' = <<>> /\ child'[w].pc = "dead"
    BY <1>1 DEF WorkerStep, Dispatch, QueueEmpty, ReceiveResult, AfterResult, ReceiveFlowRun,
     ReceiveNodeRun, Receiving, PersistRaises, TimeOut, PollEnds, MarkCompleted, FailLine,
     FailLineRaises, ReplaceChild, PopProcessing, Ended, DeadChild, NewChild, TypeOK
  <2>4. taskQueue = <<>> => taskQueue' = <<>>
    BY <1>1 DEF WorkerStep, Dispatch, QueueEmpty, ReceiveResult, ReceiveFlowRun,
     ReceiveNodeRun, PersistRaises, TimeOut, MarkCompleted, FailLine,
     FailLineRaises, ReplaceChild, PopProcessing
  <2>5. \A v \in Workers \ {w} : worker'[v] = worker[v] /\ child'[v] = child[v]
    BY <1>1, WorkerStepFrame
  <2> QED BY <2>1, <2>2, <2>3, <2>4, <2>5 DEF EndInv
<1>2. ASSUME NEW w \in Workers, ChildStep(w) PROVE EndInv'
  <2>1. child[w].pc = "dead" => worker[w] # "exited" \/ child'[w].pc = "dead"
    BY <1>2 DEF ChildStep, ChildStarts, ChildTakesLine, ChildRunsNodes, ChildEndsRun, MayEnd,
      ChildSetsEndTime, ChildFailsAggregationInputs, ChildPersistsFlowRun, ChildPutsResult,
      ChildDies, Feed, FeedFails
  <2> QED BY <1>2, <2>1, ChildStepFrame DEF EndInv
<1>3. CASE RunEnds
  BY <1>3 DEF RunEnds, EndInv
<1>4. CASE UNCHANGED vars
  BY <1>4 DEF vars, EndInv
<1> QED BY <1>1, <1>2, <1>3, <1>4 DEF Next

LEMMA ChildInvStep ==
  ASSUME TypeOK, ChildInv, [Next]_vars
  PROVE  ChildInv'
<1> USE DEF poolVars, childVars
<1>1. ASSUME NEW w \in Workers, WorkerStep(w) PROVE ChildInv'
  <2>1. \/ child'[w] = child[w] /\ buffer'[w] = buffer[w]
        \/ child'[w].pc \in {"starting", "dead"} /\ buffer'[w] = <<>>
    BY <1>1 DEF WorkerStep, Dispatch, QueueEmpty, ReceiveResult, ReceiveFlowRun, ReceiveNodeRun,
     PersistRaises, TimeOut, MarkCompleted, FailLine, FailLineRaises, ReplaceChild, PopProcessing,
     Ended, DeadChild, NewChild, TypeOK
  <2> QED BY <1>1, <2>1, WorkerStepFrame DEF ChildInv
<1>2. ASSUME NEW w \in Workers, ChildStep(w) PROVE ChildInv'
  <2> DEFINE Sound(c, b) ==
               /\ c.pc \in {"running", "ran", "ending", "ended", "persisted"} => c.line \in Lines
               /\ c.pc \in {"ending", "ended", "persisted"} => c.status \in Ends
               /\ c.pc \in {"starting", "dead"} => b = <<>>
  <2>0. child[w] \in ChildRecords /\ Sound(child[w], buffer[w])
    BY DEF ChildInv, TypeOK, ChildRecords
  <2>1. ChildStarts(w) => Sound(child'[w], buffer'[w])
    BY <2>0 DEF ChildStarts, ChildRecords, TypeOK
  <2>2. ChildTakesLine(w) => Sound(child'[w], buffer'[w])
    BY <2>0, Taking DEF ChildTakesLine, ChildRecords, TypeOK
  <2>3. ChildRunsNodes(w) => Sound(child'[w], buffer'[w])
    BY <2>0 DEF ChildRunsNodes, ChildRecords, TypeOK
  <2>4. \A s \in Ends : ChildEndsRun(w, s) => Sound(child'[w], buffer'[w])
    BY <2>0 DEF ChildEndsRun, MayEnd, ChildRecords, TypeOK
  <2>5. ChildSetsEndTime(w) => Sound(child'[w], buffer'[w])
    BY <2>0 DEF ChildSetsEndTime, ChildRecords, TypeOK
  <2>6. ChildFailsAggregationInputs(w) => Sound(child'[w], buffer'[w])
    BY <2>0 DEF ChildFailsAggregationInputs, ChildRecords, TypeOK, Ends
  <2>7. ChildPersistsFlowRun(w) => Sound(child'[w], buffer'[w])
    BY <2>0 DEF ChildPersistsFlowRun, ChildRecords, TypeOK
  <2>8. ChildPutsResult(w) => Sound(child'[w], buffer'[w])
    BY <2>0 DEF ChildPutsResult, ChildRecords, TypeOK
  <2>9. ChildDies(w) => Sound(child'[w], buffer'[w])
    BY DEF ChildDies, DeadChild, NewChild, TypeOK
  <2>10. Feed(w) \/ FeedFails(w) => Sound(child'[w], buffer'[w])
    BY <2>0 DEF Feed, FeedFails, TypeOK
  <2>11. Sound(child'[w], buffer'[w])
    BY <1>2, <2>1, <2>2, <2>3, <2>4, <2>5, <2>6, <2>7, <2>8, <2>9, <2>10 DEF ChildStep, Ends
  <2>12. \A v \in Workers \ {w} : child'[v] = child[v] /\ buffer'[v] = buffer[v]
    BY <1>2, ChildStepFrame
  <2>13. \A v \in Workers : Sound(child'[v], buffer'[v])
    BY <2>11, <2>12 DEF ChildInv
  <2> QED BY <2>13 DEF ChildInv
<1>3. CASE RunEnds
  BY <1>3 DEF RunEnds, ChildInv
<1>4. CASE UNCHANGED vars
  BY <1>4 DEF vars, ChildInv
<1> QED BY <1>1, <1>2, <1>3, <1>4 DEF Next

-----------------------------------------------------------------------------
(* The messages of a line: what a child's own steps do to them *)

\* The invariant of a worker whose child and queues are left alone, when the storage
\* of its line is.
LEMMA PipeFrame ==
  ASSUME NEW v \in Workers, Pipe(v),
         worker'[v] = worker[v], line'[v] = line[v], child'[v] = child[v],
         inQueue'[v] = inQueue[v], buffer'[v] = buffer[v], outQueue'[v] = outQueue[v],
         worker[v] = "wait" => stored'[line[v]] = stored[line[v]],
         storedNodes \subseteq storedNodes'
  PROVE  Pipe(v)'
<1>1. Quiet(v) => Quiet(v)'
  BY DEF Quiet
<1>2. CASE worker[v] = "wait"
  <2>1. LineFlows(v)'
    BY <1>2 DEF Pipe, Flowing, LineFlows
  <2>2. BufferInv(v)'
    BY <1>2 DEF Pipe, Flowing, BufferInv, FinalRecordSent, LastOf
  <2>3. OutInv(v)'
    BY <1>2 DEF Pipe, Flowing, OutInv
  <2>4. NodesInv(v)'
    BY <1>2 DEF Pipe, Flowing, NodesInv, NodeSent
  <2> QED BY <1>2, <2>1, <2>2, <2>3, <2>4 DEF Pipe, Flowing
<1> QED BY <1>1, <1>2 DEF Pipe

\* Between two lines nothing is on its way, and nothing is put.
LEMMA QuietChild ==
  ASSUME TypeOK, NEW w \in Workers, Quiet(w), ChildStep(w)
  PROVE  Quiet(w)'
<1>1. CASE ChildStarts(w)
  BY <1>1 DEF ChildStarts, Quiet, TypeOK
<1>2. CASE ChildDies(w)
  BY <1>2 DEF ChildDies, Quiet, TypeOK, DeadChild, NewChild
<1>3. ~ (ChildTakesLine(w) \/ Feed(w) \/ FeedFails(w))
  BY DEF ChildTakesLine, Feed, FeedFails, Quiet
<1>4. ~ (ChildRunsNodes(w) \/ \E s \in Ends : ChildEndsRun(w, s))
  BY DEF ChildRunsNodes, ChildEndsRun, MayEnd, Quiet
<1>5. ~ (ChildSetsEndTime(w) \/ ChildFailsAggregationInputs(w) \/ ChildPersistsFlowRun(w)
         \/ ChildPutsResult(w))
  BY DEF ChildSetsEndTime, ChildFailsAggregationInputs, ChildPersistsFlowRun, ChildPutsResult, Quiet
<1> QED BY <1>1, <1>2, <1>3, <1>4, <1>5 DEF ChildStep, Ends

LEMMA ChildTakesLineFlowing ==
  ASSUME TypeOK, NEW w \in Workers, Flowing(w), ChildTakesLine(w)
  PROVE  Flowing(w)'
<1>0. inQueue[w] = <<line[w]>> /\ buffer[w] = <<>> /\ outQueue[w] = <<>>
  BY DEF ChildTakesLine, Flowing, LineFlows
<1>1. /\ Head(inQueue[w]) = line[w] /\ Tail(inQueue[w]) = <<>>
      /\ buffer[w] = <<>> /\ outQueue[w] = <<>>
  BY <1>0
<1>2. /\ child'[w].pc = "running" /\ child'[w].line = line[w] /\ child'[w].status = "Running"
      /\ inQueue'[w] = <<>> /\ outQueue'[w] = <<>> /\ line'[w] = line[w]
      /\ buffer'[w] = <<Buffered("flow", line[w])>>
  BY <1>1 DEF ChildTakesLine, Put, TypeOK
<1>3. LineFlows(w)'
  BY <1>2 DEF LineFlows, Buffered
<1>4. BufferInv(w)'
  BY <1>2 DEF BufferInv, Buffered
<1>5. OutInv(w)'
  BY <1>2 DEF OutInv
<1>6. NodesInv(w)'
  BY <1>2 DEF NodesInv
<1> QED BY <1>3, <1>4, <1>5, <1>6 DEF Flowing

\* A step of the child that puts nothing, and keeps the status of a record it put.
LEMMA RecordFlowing ==
  ASSUME TypeOK, NEW w \in Workers, Flowing(w),
         UNCHANGED <<line, inQueue, buffer, outQueue, stored, storedNodes>>,
         child'[w].line = child[w].line,
         child[w].pc \in {"running", "ran", "ending", "ended"},
         child'[w].pc \in {"ending", "ended"},
         child'[w].status = "Completed" => child[w].status = "Completed" \/ child[w].pc = "ran"
  PROVE  Flowing(w)'
<1>1. LineFlows(w)'
  BY DEF Flowing, LineFlows
<1>2. BufferInv(w)'
  BY DEF Flowing, BufferInv
<1>3. OutInv(w)'
  BY DEF Flowing, OutInv
<1>4. NodesInv(w)'
  <2>1. NodeSent(w)' <=> NodeSent(w)
    BY DEF NodeSent
  <2> QED BY <2>1 DEF Flowing, NodesInv
<1> QED BY <1>1, <1>2, <1>3, <1>4 DEF Flowing

\* What putting a message of the line does to the buffer.
LEMMA PutFacts ==
  ASSUME TypeOK, NEW w \in Workers, NEW kind \in MessageKinds, NEW l \in Lines, Put(w, kind, l)
  PROVE  /\ Len(buffer[w]) \in Nat /\ Len(buffer'[w]) = Len(buffer[w]) + 1
         /\ \A i \in 1 .. Len(buffer[w]) : buffer'[w][i] = buffer[w][i]
         /\ buffer'[w][Len(buffer[w]) + 1].kind = kind
         /\ buffer'[w][Len(buffer[w]) + 1].line = l
         /\ buffer'[w] # <<>>
         /\ buffer[w] = <<>> <=> Len(buffer[w]) = 0
<1>1. buffer[w] \in Seq(BufferedMessages) /\ Buffered(kind, l) \in BufferedMessages
  BY DEF TypeOK, BufferedMessages, Buffered
<1>2. buffer'[w] = Append(buffer[w], Buffered(kind, l))
  BY DEF TypeOK, Put
<1> QED BY <1>1, <1>2, Putting DEF Buffered

\* The child has put one more message of this kind, about the worker's line.
PutMore(w, kind) ==
  /\ Len(buffer[w]) \in Nat /\ Len(buffer'[w]) = Len(buffer[w]) + 1
  /\ \A i \in 1 .. Len(buffer[w]) : buffer'[w][i] = buffer[w][i]
  /\ buffer'[w][Len(buffer[w]) + 1].kind = kind
  /\ buffer'[w][Len(buffer[w]) + 1].line = line[w]

\* Each message then is an earlier one or the last.
LEMMA PutPlaces ==
  ASSUME NEW w, NEW kind, PutMore(w, kind), NEW i \in 1 .. Len(buffer'[w])
  PROVE  \/ i \in 1 .. Len(buffer[w]) /\ buffer'[w][i] = buffer[w][i]
         \/ /\ i = Len(buffer[w]) + 1
            /\ buffer'[w][i].kind = kind /\ buffer'[w][i].line = line[w]
BY DEF PutMore

LEMMA PutLineFlows ==
  ASSUME NEW w \in Workers, NEW kind, LineFlows(w), PutMore(w, kind),
         child[w].pc \notin BetweenLines,
         child'[w].pc \in InLine => child'[w].line = line[w],
         UNCHANGED <<line, inQueue, outQueue>>
  PROVE  LineFlows(w)'
<1>1. inQueue[w] = <<>> /\ \A i \in 1 .. Len(outQueue[w]) : outQueue[w][i].line = line[w]
  BY DEF LineFlows
<1>2. ASSUME NEW i \in 1 .. Len(buffer'[w]) PROVE buffer'[w][i].line = line[w]
  <2>1. \A j \in 1 .. Len(buffer[w]) : buffer[w][j].line = line[w]
    BY DEF LineFlows
  <2> QED BY <2>1, PutPlaces
<1> QED BY <1>1, <1>2 DEF LineFlows

\* A child in a line has put no result of it yet.
LEMMA PutNoResult ==
  ASSUME NEW w \in Workers, NEW kind, BufferInv(w), PutMore(w, kind), kind # "result",
         child[w].pc # "idle"
  PROVE  \A i \in 1 .. Len(buffer'[w]) : buffer'[w][i].kind # "result"
<1>1. \A i \in 1 .. Len(buffer[w]) : buffer[w][i].kind # "result"
  BY DEF BufferInv
<1> QED BY <1>1, PutPlaces

LEMMA PutNodeSent ==
  ASSUME NEW w \in Workers, NEW kind, PutMore(w, kind),
         UNCHANGED <<line, outQueue, storedNodes>>, NodeSent(w)
  PROVE  NodeSent(w)'
<1>1. CASE \E i \in 1 .. Len(buffer[w]) : buffer[w][i].kind = "node"
  <2>1. PICK i \in 1 .. Len(buffer[w]) : buffer[w][i].kind = "node"
    BY <1>1
  <2>2. i \in 1 .. Len(buffer'[w]) /\ buffer'[w][i].kind = "node"
    BY <2>1 DEF PutMore
  <2> QED BY <2>2 DEF NodeSent
<1>2. CASE line[w] \in storedNodes \/ \E i \in 1 .. Len(outQueue[w]) : outQueue[w][i].kind = "node"
  BY <1>2 DEF NodeSent
<1> QED BY <1>1, <1>2 DEF NodeSent

LEMMA ChildRunsNodesFlowing ==
  ASSUME TypeOK, ChildInv, NEW w \in Workers, Flowing(w), ChildRunsNodes(w)
  PROVE  Flowing(w)'
<1>1. /\ child[w].pc = "running" /\ child'[w].pc = "ran"
      /\ child'[w].line = child[w].line /\ child'[w].status = child[w].status
      /\ UNCHANGED <<line, inQueue, outQueue, stored, storedNodes>>
      /\ child[w].line \in Lines /\ child[w].line = line[w]
  BY DEF ChildRunsNodes, poolVars, TypeOK, ChildInv, Flowing, LineFlows
<1>2. Put(w, "node", line[w])
  BY <1>1 DEF ChildRunsNodes
<1>3. /\ Len(buffer[w]) \in Nat /\ Len(buffer'[w]) = Len(buffer[w]) + 1
      /\ \A i \in 1 .. Len(buffer[w]) : buffer'[w][i] = buffer[w][i]
      /\ buffer'[w][Len(buffer[w]) + 1].kind = "node"
      /\ buffer'[w][Len(buffer[w]) + 1].line = line[w]
  BY <1>1, <1>2, PutFacts DEF MessageKinds
<1>p. PutMore(w, "node")
  BY <1>3 DEF PutMore
<1>4. LineFlows(w)'
  BY <1>1, <1>p, PutLineFlows DEF Flowing, BetweenLines
<1>5. BufferInv(w)'
  <2>1. \A i \in 1 .. Len(buffer'[w]) : buffer'[w][i].kind # "result"
    BY <1>1, <1>p, PutNoResult DEF Flowing
  <2> QED BY <1>1, <2>1 DEF BufferInv
<1>6. OutInv(w)'
  BY <1>1 DEF Flowing, OutInv
<1>7. NodeSent(w)'
  BY <1>3 DEF NodeSent
<1> QED BY <1>4, <1>5, <1>6, <1>7 DEF Flowing, NodesInv

LEMMA ChildPersistsFlowRunFlowing ==
  ASSUME TypeOK, ChildInv, NEW w \in Workers, Flowing(w), ChildPersistsFlowRun(w)
  PROVE  Flowing(w)'
<1>1. /\ child[w].pc = "ended" /\ child'[w].pc = "persisted"
      /\ child'[w].line = child[w].line /\ child'[w].status = child[w].status
      /\ UNCHANGED <<line, inQueue, outQueue, stored, storedNodes>>
      /\ child[w].line \in Lines /\ child[w].line = line[w]
  BY DEF ChildPersistsFlowRun, poolVars, TypeOK, ChildInv, Flowing, LineFlows
<1>2. Put(w, "flow", line[w])
  BY <1>1 DEF ChildPersistsFlowRun
<1>3. /\ Len(buffer[w]) \in Nat /\ Len(buffer'[w]) = Len(buffer[w]) + 1
      /\ \A i \in 1 .. Len(buffer[w]) : buffer'[w][i] = buffer[w][i]
      /\ buffer'[w][Len(buffer[w]) + 1].kind = "flow"
      /\ buffer'[w][Len(buffer[w]) + 1].line = line[w]
      /\ buffer'[w] # <<>>
  BY <1>1, <1>2, PutFacts DEF MessageKinds
<1>p. PutMore(w, "flow")
  BY <1>3 DEF PutMore
<1>4. LineFlows(w)'
  BY <1>1, <1>p, PutLineFlows DEF Flowing, BetweenLines
<1>5. BufferInv(w)'
  <2>1. \A i \in 1 .. Len(buffer'[w]) : buffer'[w][i].kind # "result"
    BY <1>1, <1>p, PutNoResult DEF Flowing
  <2>2. buffer'[w] # <<>> /\ LastOf(buffer'[w]).kind = "flow"
    BY <1>3 DEF LastOf
  <2> QED BY <2>1, <2>2 DEF BufferInv
<1>6. OutInv(w)'
  BY <1>1 DEF Flowing, OutInv
<1>7. NodeSent(w) => NodeSent(w)'
  BY <1>1, <1>p, PutNodeSent
<1>8. NodesInv(w)'
  BY <1>1, <1>7 DEF Flowing, NodesInv
<1> QED BY <1>4, <1>5, <1>6, <1>8 DEF Flowing

LEMMA ChildPutsResultFlowing ==
  ASSUME TypeOK, ChildInv, NEW w \in Workers, Flowing(w), ChildPutsResult(w)
  PROVE  Flowing(w)'
<1>1. /\ child[w].pc = "persisted" /\ child'[w].pc = "idle"
      /\ child'[w].line = child[w].line /\ child'[w].status = child[w].status
      /\ UNCHANGED <<line, inQueue, outQueue, stored, storedNodes>>
      /\ child[w].line \in Lines /\ child[w].line = line[w] /\ child[w].status \in Ends
  BY DEF ChildPutsResult, poolVars, TypeOK, ChildInv, Flowing, LineFlows
<1>2. Put(w, "result", line[w])
  BY <1>1 DEF ChildPutsResult
<1>3. /\ Len(buffer[w]) \in Nat /\ Len(buffer'[w]) = Len(buffer[w]) + 1
      /\ \A i \in 1 .. Len(buffer[w]) : buffer'[w][i] = buffer[w][i]
      /\ buffer'[w][Len(buffer[w]) + 1].kind = "result"
      /\ buffer'[w][Len(buffer[w]) + 1].line = line[w]
      /\ buffer[w] = <<>> <=> Len(buffer[w]) = 0
  BY <1>1, <1>2, PutFacts DEF MessageKinds
<1>p. PutMore(w, "result")
  BY <1>3 DEF PutMore
<1>4. LineFlows(w)'
  BY <1>1, <1>p, PutLineFlows DEF Flowing, BetweenLines
<1>5. BufferInv(w)'
  <2>1. FinalRecordSent(w, child[w].status)' <=> FinalRecordSent(w, child[w].status)
    BY <1>1 DEF FinalRecordSent
  <2>2. \A i \in 1 .. Len(buffer[w]) : buffer[w][i].kind # "result"
    BY <1>1 DEF Flowing, BufferInv
  <2>3. IF Len(buffer[w]) = 0 THEN FinalRecordSent(w, child[w].status)
        ELSE buffer[w][Len(buffer[w])].kind = "flow"
    BY <1>1, <1>3 DEF Flowing, BufferInv, LastOf
  <2>4. ASSUME NEW i \in 1 .. Len(buffer'[w]), buffer'[w][i].kind = "result"
        PROVE  /\ i = Len(buffer'[w])
               /\ IF i = 1 THEN FinalRecordSent(w, child[w].status)
                  ELSE buffer'[w][i - 1].kind = "flow"
    <3>1. i = Len(buffer[w]) + 1
      BY <1>3, <2>2, <2>4
    <3>2. CASE Len(buffer[w]) = 0
      BY <1>3, <2>3, <3>1, <3>2
    <3>3. CASE Len(buffer[w]) # 0
      BY <1>3, <2>3, <3>1, <3>3
    <3> QED BY <3>2, <3>3
  <2> QED BY <1>1, <2>1, <2>4 DEF BufferInv
<1>6. OutInv(w)'
  BY <1>1 DEF Flowing, OutInv
<1>7. NodeSent(w) => NodeSent(w)'
  BY <1>1, <1>p, PutNodeSent
<1>8. NodesInv(w)'
  BY <1>1, <1>7 DEF Flowing, NodesInv
<1> QED BY <1>4, <1>5, <1>6, <1>8 DEF Flowing

LEMMA ChildDiesFlowing ==
  ASSUME TypeOK, ChildInv, NEW w \in Workers, Flowing(w), ChildDies(w)
  PROVE  Flowing(w)'
<1>1. /\ child'[w].pc = "dead" /\ child'[w].status = "none" /\ buffer'[w] = <<>>
      /\ UNCHANGED <<line, inQueue, outQueue, stored, storedNodes>>
  BY DEF ChildDies, DeadChild, NewChild, poolVars, TypeOK
<1>2. LineFlows(w)'
  BY <1>1 DEF Flowing, LineFlows
<1>3. BufferInv(w)'
  BY <1>1 DEF Flowing, BufferInv
<1>4. OutInv(w)'
  BY <1>1 DEF Flowing, OutInv
<1>5. NodesInv(w)'
  <2>1. ASSUME NEW i \in 1 .. Len(outQueue[w]), outQueue[w][i].kind = "result",
               outQueue[w][i].status = "Completed"
        PROVE  NodeSent(w)'
    <3>1. buffer[w] = <<>> /\ NodeSent(w)
      BY <2>1 DEF Flowing, OutInv, NodesInv
    <3> QED BY <1>1, <3>1 DEF NodeSent
  <2> QED BY <1>1, <2>1 DEF NodesInv
<1> QED BY <1>2, <1>3, <1>4, <1>5 DEF Flowing

\* The feeder moves the first of the buffered messages behind what the worker can read.
LEMMA FeedFacts ==
  ASSUME TypeOK, NEW w \in Workers, Feed(w)
  PROVE  /\ UNCHANGED <<line, worker, child, inQueue, stored, storedNodes>>
         /\ Len(buffer[w]) \in Nat /\ Len(buffer[w]) >= 1 /\ Len(buffer'[w]) = Len(buffer[w]) - 1
         /\ buffer'[w] = <<>> <=> Len(buffer[w]) = 1
         /\ \A i \in 1 .. Len(buffer[w]) - 1 : buffer'[w][i] = buffer[w][i + 1]
         /\ Len(outQueue[w]) \in Nat /\ Len(outQueue'[w]) = Len(outQueue[w]) + 1
         /\ outQueue[w] = <<>> <=> Len(outQueue[w]) = 0
         /\ outQueue'[w] # <<>>
         /\ \A i \in 1 .. Len(outQueue[w]) : outQueue'[w][i] = outQueue[w][i]
         /\ outQueue'[w][Len(outQueue[w]) + 1].kind = buffer[w][1].kind
         /\ outQueue'[w][Len(outQueue[w]) + 1].line = buffer[w][1].line
         /\ buffer[w][1].kind # "node" =>
              outQueue'[w][Len(outQueue[w]) + 1].status = child[w].status
<1>1. /\ buffer[w] \in Seq(BufferedMessages) /\ buffer[w] # <<>>
      /\ outQueue[w] \in Seq(Messages(MessageKinds))
  BY DEF TypeOK, BufferedMessages, Feed
<1>2. /\ buffer'[w] = Tail(buffer[w])
      /\ outQueue'[w] = Append(outQueue[w], Pickled(w, Head(buffer[w])))
  BY DEF Feed, TypeOK
<1>3. /\ Head(buffer[w]) = buffer[w][1] /\ Head(buffer[w]) \in BufferedMessages
      /\ Len(buffer[w]) \in Nat /\ Len(buffer[w]) >= 1 /\ Len(buffer'[w]) = Len(buffer[w]) - 1
      /\ \A i \in 1 .. Len(buffer[w]) - 1 : buffer'[w][i] = buffer[w][i + 1]
      /\ buffer'[w] \in Seq(BufferedMessages)
  BY <1>1, <1>2, Taking
<1>4. /\ Pickled(w, Head(buffer[w])).kind = Head(buffer[w]).kind
      /\ Pickled(w, Head(buffer[w])).line = Head(buffer[w]).line
      /\ Head(buffer[w]).kind # "node" => Pickled(w, Head(buffer[w])).status = child[w].status
  BY DEF Pickled
<1>5. Pickled(w, Head(buffer[w])) \in Messages(MessageKinds)
  BY <1>3 DEF Pickled, Messages, MessageKinds, BufferedMessages, TypeOK, Statuses
<1>6. /\ Len(outQueue[w]) \in Nat /\ Len(outQueue'[w]) = Len(outQueue[w]) + 1
      /\ outQueue'[w] # <<>>
      /\ \A i \in 1 .. Len(outQueue[w]) : outQueue'[w][i] = outQueue[w][i]
      /\ outQueue'[w][Len(outQueue[w]) + 1] = Pickled(w, Head(buffer[w]))
  BY <1>1, <1>2, <1>5, Putting
<1>7. /\ buffer'[w] = <<>> <=> Len(buffer[w]) = 1
      /\ outQueue[w] = <<>> <=> Len(outQueue[w]) = 0
  BY <1>1, <1>2, EmptyIfShort
<1>8. UNCHANGED <<line, worker, child, inQueue, stored, storedNodes>>
  BY DEF Feed, poolVars
<1> QED BY <1>3, <1>4, <1>6, <1>7, <1>8

LEMMA FeedFlowing ==
  ASSUME TypeOK, ChildInv, NEW w \in Workers, Flowing(w), Feed(w)
  PROVE  Flowing(w)'
<1> DEFINE n == Len(outQueue[w])
           b == Len(buffer[w])
<1>u. UNCHANGED <<line, worker, child, inQueue, stored, storedNodes>>
  BY FeedFacts
<1>b. /\ b \in Nat /\ b >= 1 /\ Len(buffer'[w]) = b - 1
      /\ buffer[w] # <<>>
      /\ buffer'[w] = <<>> <=> b = 1
  BY FeedFacts DEF Feed
<1>f. \A i \in 1 .. b - 1 : buffer'[w][i] = buffer[w][i + 1]
  BY FeedFacts
<1>n. /\ n \in Nat /\ Len(outQueue'[w]) = n + 1
      /\ outQueue[w] = <<>> <=> n = 0
      /\ outQueue'[w] # <<>>
  BY FeedFacts
<1>o. \A i \in 1 .. n : outQueue'[w][i] = outQueue[w][i]
  BY FeedFacts
<1>m. /\ outQueue'[w][n + 1].kind = buffer[w][1].kind
      /\ outQueue'[w][n + 1].line = buffer[w][1].line
      /\ buffer[w][1].kind # "node" => outQueue'[w][n + 1].status = child[w].status
  BY FeedFacts
<1> HIDE DEF n, b
<1>2. \A i \in 1 .. n : outQueue[w][i].kind # "result"
  BY <1>b DEF Flowing, OutInv, n
<1>3. inQueue[w] = <<>>
  BY <1>b DEF Flowing, LineFlows
<1>4. LineFlows(w)'
  <2>1. \A i \in 1 .. Len(buffer'[w]) : buffer'[w][i].line = line'[w]
    <3> SUFFICES ASSUME NEW i \in 1 .. b - 1 PROVE buffer'[w][i].line = line[w]
      BY <1>u, <1>b
    <3>1. i + 1 \in 1 .. b
      BY <1>b
    <3>2. buffer[w][i + 1].line = line[w]
      BY <3>1 DEF Flowing, LineFlows, b
    <3> QED BY <1>f, <3>2
  <2>2. \A i \in 1 .. Len(outQueue'[w]) : outQueue'[w][i].line = line'[w]
    <3> SUFFICES ASSUME NEW i \in 1 .. n + 1 PROVE outQueue'[w][i].line = line[w]
      BY <1>u, <1>n
    <3>1. CASE i \in 1 .. n
      BY <1>o, <3>1 DEF Flowing, LineFlows, n
    <3>2. CASE i = n + 1
      BY <1>b, <1>m, <3>2 DEF Flowing, LineFlows, b
    <3> QED BY <1>n, <3>1, <3>2
  <2>3. child[w].pc \in {"running", "ran", "ending", "ended", "persisted"}
          => child[w].line = line[w]
    BY DEF Flowing, LineFlows
  <2> QED BY <1>u, <1>3, <2>1, <2>2, <2>3 DEF LineFlows
\* a flow record that is fed says what the child's record says
<1>5. buffer[w][1].kind = "flow" => FinalRecordSent(w, child[w].status)'
  BY <1>n, <1>m, <1>u DEF FinalRecordSent, LastOf
<1>6. BufferInv(w)'
  <2>1. ASSUME NEW i \in 1 .. Len(buffer'[w]), buffer'[w][i].kind = "result"
        PROVE  /\ i = Len(buffer'[w])
               /\ child'[w].pc = "idle" /\ child'[w].status \in Ends
               /\ IF i = 1 THEN FinalRecordSent(w, child[w].status)'
                  ELSE buffer'[w][i - 1].kind = "flow"
    <3>1. i + 1 \in 1 .. b /\ i \in 1 .. b - 1 /\ buffer[w][i + 1].kind = "result"
      <4>1. i \in 1 .. b - 1
        BY <1>b, <2>1
      <4> QED BY <1>b, <1>f, <2>1, <4>1
    <3>2. /\ i + 1 = b /\ child[w].pc = "idle" /\ child[w].status \in Ends
          /\ buffer[w][i].kind = "flow"
      BY <3>1 DEF Flowing, BufferInv, b
    <3>3. CASE i = 1
      BY <1>b, <1>5, <1>u, <3>2, <3>3
    <3>4. CASE i # 1
      <4>1. i - 1 \in 1 .. b - 1 /\ (i - 1) + 1 = i
        BY <1>b, <3>1, <3>4
      <4>2. buffer'[w][i - 1].kind = "flow"
        BY <1>f, <3>2, <4>1
      <4> QED BY <1>b, <1>u, <3>2, <3>4, <4>2
    <3> QED BY <3>3, <3>4
  <2>2. ASSUME child'[w].pc = "persisted"
        PROVE  IF buffer'[w] = <<>> THEN FinalRecordSent(w, child[w].status)'
               ELSE LastOf(buffer'[w]).kind = "flow"
    <3>1. buffer[w][b].kind = "flow"
      BY <1>b, <1>u, <2>2 DEF Flowing, BufferInv, LastOf, b
    <3>2. CASE b = 1
      BY <1>b, <1>5, <3>1, <3>2
    <3>3. CASE b # 1
      <4>1. b - 1 \in 1 .. b - 1 /\ (b - 1) + 1 = b
        BY <1>b, <3>3
      <4>2. buffer'[w][b - 1].kind = "flow"
        BY <1>f, <3>1, <4>1
      <4> QED BY <1>b, <3>3, <4>2 DEF LastOf
    <3> QED BY <3>2, <3>3
  <2> QED BY <1>u, <2>1, <2>2 DEF BufferInv
<1>7. OutInv(w)'
  <2> SUFFICES ASSUME NEW i \in 1 .. Len(outQueue'[w]), outQueue'[w][i].kind = "result"
               PROVE  /\ i = Len(outQueue'[w]) /\ buffer'[w] = <<>>
                      /\ child'[w].pc \in {"idle", "dead"} /\ outQueue'[w][i].status \in Ends
                      /\ IF i = 1 THEN stored'[line'[w]] = outQueue'[w][i].status
                         ELSE /\ outQueue'[w][i - 1].kind = "flow"
                              /\ outQueue'[w][i - 1].status = outQueue'[w][i].status
    BY DEF OutInv
  <2>1. i = n + 1 /\ buffer[w][1].kind = "result" /\ outQueue'[w][i].status = child[w].status
    <3>1. i = n + 1
      BY <1>n, <1>o, <1>2
    <3> QED BY <1>m, <3>1
  <2>2. /\ b = 1 /\ child[w].pc = "idle" /\ child[w].status \in Ends
        /\ FinalRecordSent(w, child[w].status)
    BY <1>b, <2>1 DEF Flowing, BufferInv, b
  <2>3. CASE n = 0
    BY <1>n, <1>b, <1>u, <2>1, <2>2, <2>3 DEF FinalRecordSent
  <2>4. CASE n # 0
    <3>1. outQueue[w][n].kind = "flow" /\ outQueue[w][n].status = child[w].status
      BY <1>n, <2>2, <2>4 DEF FinalRecordSent, LastOf, n
    <3>2. n \in 1 .. n /\ i - 1 = n /\ i # 1
      BY <1>n, <2>1, <2>4
    <3> QED BY <1>n, <1>b, <1>o, <1>u, <2>1, <2>2, <3>1, <3>2
  <2> QED BY <2>3, <2>4
<1>8. NodeSent(w) => NodeSent(w)'
  <2>1. ASSUME NEW i \in 1 .. Len(outQueue[w]), outQueue[w][i].kind = "node"
        PROVE  NodeSent(w)'
    BY <1>n, <1>o, <2>1 DEF NodeSent, n
  <2>2. ASSUME NEW i \in 1 .. Len(buffer[w]), buffer[w][i].kind = "node"
        PROVE  NodeSent(w)'
    <3>1. CASE i = 1
      <4>1. n + 1 \in 1 .. Len(outQueue'[w])
        BY <1>n
      <4>2. outQueue'[w][n + 1].kind = "node"
        BY <1>m, <2>2, <3>1
      <4> HIDE DEF n
      <4> QED BY <4>1, <4>2 DEF NodeSent
    <3>2. CASE i # 1
      <4>1. i - 1 \in 1 .. b - 1 /\ (i - 1) + 1 = i
        BY <1>b, <3>2 DEF b
      <4>2. buffer'[w][i - 1].kind = "node"
        BY <1>f, <2>2, <4>1
      <4> QED BY <1>b, <4>1, <4>2 DEF NodeSent
    <3> QED BY <3>1, <3>2
  <2>3. line[w] \in storedNodes => NodeSent(w)'
    BY <1>u DEF NodeSent
  <2> QED BY <2>1, <2>2, <2>3 DEF NodeSent
<1>9. NodesInv(w)'
  <2>1. ASSUME NEW i \in 1 .. Len(outQueue'[w]), outQueue'[w][i].kind = "result",
               outQueue'[w][i].status = "Completed"
        PROVE  NodeSent(w)
    <3>1. i = n + 1 /\ buffer[w][1].kind = "result" /\ child[w].status = "Completed"
      <4>1. i = n + 1
        BY <1>n, <1>o, <1>2, <2>1
      <4> QED BY <1>m, <2>1, <4>1
    <3> QED BY <1>3, <3>1 DEF Flowing, NodesInv
  <2>2. /\ child[w].pc = "ran" => NodeSent(w)
        /\ child[w].status = "Completed" => NodeSent(w)
    BY <1>3 DEF Flowing, NodesInv
  <2> QED BY <1>u, <1>8, <2>1, <2>2 DEF NodesInv
<1> QED BY <1>4, <1>6, <1>7, <1>9 DEF Flowing

LEMMA FeedFailsFlowing ==
  ASSUME TypeOK, NEW w \in Workers, Flowing(w), FeedFails(w)
  PROVE  Flowing(w)'
<1>1. /\ buffer[w] \in Seq(BufferedMessages) /\ buffer[w] # <<>> /\ Head(buffer[w]).kind = "result"
      /\ buffer'[w] = Tail(buffer[w])
      /\ UNCHANGED <<line, worker, child, inQueue, outQueue, stored, storedNodes>>
  BY DEF FeedFails, TypeOK, BufferedMessages, poolVars
<1>2. buffer[w][1].kind = "result" /\ Len(buffer[w]) \in Nat /\ Len(buffer[w]) >= 1
  BY <1>1, Taking
<1>3. Len(buffer[w]) = 1 /\ child[w].pc = "idle"
  <2>1. 1 \in 1 .. Len(buffer[w])
    BY <1>2
  <2> QED BY <1>2, <2>1 DEF Flowing, BufferInv
<1>u. child' = child
  BY <1>1
<1>4. buffer'[w] = <<>>
  BY <1>1, <1>3, EmptyIfShort
<1>5. LineFlows(w)'
  BY <1>1, <1>4 DEF Flowing, LineFlows
<1>6. BufferInv(w)'
  BY <1>u, <1>3, <1>4 DEF BufferInv
<1>7. OutInv(w)'
  BY <1>1, <1>4 DEF Flowing, OutInv
<1>8. NodeSent(w) => NodeSent(w)'
  BY <1>1, <1>2, <1>3 DEF NodeSent
<1>9. NodesInv(w)'
  BY <1>1, <1>8 DEF Flowing, NodesInv
<1> QED BY <1>5, <1>6, <1>7, <1>9 DEF Flowing

\* Every step of a child keeps the messages of its line in order.
LEMMA ChildStepFlowing ==
  ASSUME TypeOK, ChildInv, NEW w \in Workers, Flowing(w), ChildStep(w)
  PROVE  Flowing(w)'
<1> USE DEF poolVars
<1>1. CASE ChildStarts(w)
  <2>1. /\ child[w].pc = "starting" /\ child'[w].pc = "idle" /\ child'[w].line = child[w].line
        /\ child'[w].status = child[w].status /\ buffer[w] = <<>>
        /\ UNCHANGED <<line, inQueue, buffer, outQueue, stored, storedNodes>>
    BY <1>1 DEF ChildStarts, TypeOK, ChildInv
  <2>2. LineFlows(w)'
    BY <2>1 DEF Flowing, LineFlows
  <2>3. BufferInv(w)'
    BY <2>1 DEF BufferInv
  <2>4. OutInv(w)'
    BY <2>1 DEF Flowing, OutInv
  <2>5. NodeSent(w) => NodeSent(w)'
    BY <2>1 DEF NodeSent
  <2>6. NodesInv(w)'
    BY <2>1, <2>5 DEF Flowing, NodesInv
  <2> QED BY <2>2, <2>3, <2>4, <2>6 DEF Flowing
<1>2. CASE ChildTakesLine(w)
  BY <1>2, ChildTakesLineFlowing
<1>3. CASE ChildRunsNodes(w)
  BY <1>3, ChildRunsNodesFlowing
<1>4. ASSUME NEW s \in Ends, ChildEndsRun(w, s) PROVE Flowing(w)'
  BY <1>4, RecordFlowing DEF ChildEndsRun, MayEnd, TypeOK, Ends
<1>5. CASE ChildSetsEndTime(w)
  <2>1. /\ UNCHANGED <<line, inQueue, buffer, outQueue, stored, storedNodes>>
        /\ child'[w].line = child[w].line /\ child'[w].status = child[w].status
        /\ child[w].pc \in {"running", "ran", "ending", "ended"}
        /\ child'[w].pc \in {"ending", "ended"}
    BY <1>5 DEF ChildSetsEndTime, TypeOK
  <2> QED BY <2>1, RecordFlowing
<1>6. CASE ChildFailsAggregationInputs(w)
  BY <1>6, RecordFlowing DEF ChildFailsAggregationInputs, TypeOK
<1>7. CASE ChildPersistsFlowRun(w)
  BY <1>7, ChildPersistsFlowRunFlowing
<1>8. CASE ChildPutsResult(w)
  BY <1>8, ChildPutsResultFlowing
<1>9. CASE ChildDies(w)
  BY <1>9, ChildDiesFlowing
<1>10. CASE Feed(w)
  BY <1>10, FeedFlowing
<1>11. CASE FeedFails(w)
  BY <1>11, FeedFailsFlowing
<1> QED
  BY <1>1, <1>2, <1>3, <1>4, <1>5, <1>6, <1>7, <1>8, <1>9, <1>10, <1>11 DEF ChildStep, Ends

-----------------------------------------------------------------------------
(* The messages of a line: what the worker does to them *)

\* Reading a message, whatever is done with it.
LEMMA ReceivedFacts ==
  ASSUME TypeOK, NEW w \in Workers, NEW kind, Receiving(w, kind), Received(w), Flowing(w)
  PROVE  /\ outQueue[w] # <<>> /\ inQueue[w] = <<>> /\ worker[w] = "wait"
         /\ Len(outQueue[w]) \in Nat /\ Len(outQueue[w]) >= 1
         /\ Len(outQueue'[w]) = Len(outQueue[w]) - 1
         /\ outQueue'[w] = <<>> <=> Len(outQueue[w]) = 1
         /\ \A i \in 1 .. Len(outQueue[w]) - 1 : outQueue'[w][i] = outQueue[w][i + 1]
         /\ Message(w) = outQueue[w][1] /\ Message(w).kind = kind
         /\ Message(w).line = line[w]
<1>1. /\ outQueue[w] \in Seq(Messages(MessageKinds)) /\ outQueue[w] # <<>>
      /\ outQueue'[w] = Tail(outQueue[w])
      /\ worker[w] = "wait" /\ Message(w).kind = kind
  BY DEF TypeOK, Receiving, Received
<1>2. /\ Len(outQueue[w]) \in Nat /\ Len(outQueue[w]) >= 1
      /\ Len(outQueue'[w]) = Len(outQueue[w]) - 1
      /\ \A i \in 1 .. Len(outQueue[w]) - 1 : outQueue'[w][i] = outQueue[w][i + 1]
      /\ Message(w) = outQueue[w][1]
  BY <1>1, Taking DEF Message
<1>3. outQueue'[w] = <<>> <=> Len(outQueue[w]) = 1
  BY <1>1, EmptyIfShort
<1>4. inQueue[w] = <<>>
  BY <1>1 DEF Flowing, LineFlows
<1>5. Message(w).line = line[w]
  <2>1. 1 \in 1 .. Len(outQueue[w])
    BY <1>2
  <2> QED BY <1>2, <2>1 DEF Flowing, LineFlows
<1> QED BY <1>1, <1>2, <1>3, <1>4, <1>5

\* The result is the last message of its line: nothing is left behind it.
LEMMA ReceiveResultQuiet ==
  ASSUME TypeOK, NEW w \in Workers, Flowing(w), ReceiveResult(w)
  PROVE  /\ Quiet(w)'
         /\ Message(w).line = line[w] /\ Message(w).status \in Ends
         /\ stored[line[w]] = Message(w).status
         /\ Message(w).status = "Completed" => line[w] \in storedNodes
<1>1. /\ outQueue[w] # <<>> /\ inQueue[w] = <<>>
      /\ Len(outQueue[w]) \in Nat /\ Len(outQueue[w]) >= 1
      /\ outQueue'[w] = <<>> <=> Len(outQueue[w]) = 1
      /\ Message(w) = outQueue[w][1] /\ Message(w).kind = "result"
      /\ Message(w).line = line[w]
  BY ReceivedFacts DEF ReceiveResult
<1>2. UNCHANGED <<child, inQueue, buffer>>
  BY DEF ReceiveResult
<1>3. 1 \in 1 .. Len(outQueue[w])
  BY <1>1
<1>4. /\ Len(outQueue[w]) = 1 /\ buffer[w] = <<>> /\ child[w].pc \in {"idle", "dead"}
      /\ Message(w).status \in Ends /\ stored[line[w]] = Message(w).status
  BY <1>1, <1>3 DEF Flowing, OutInv
<1>5. Message(w).status = "Completed" => NodeSent(w)
  BY <1>1, <1>3 DEF Flowing, NodesInv
<1>6. NodeSent(w) => line[w] \in storedNodes
  <2>1. ~ \E i \in 1 .. Len(buffer[w]) : buffer[w][i].kind = "node"
    BY <1>4
  <2>2. ~ \E i \in 1 .. Len(outQueue[w]) : outQueue[w][i].kind = "node"
    BY <1>1, <1>4
  <2> QED BY <2>1, <2>2 DEF NodeSent
<1>7. Quiet(w)'
  BY <1>1, <1>2, <1>4 DEF Quiet
<1> QED BY <1>1, <1>4, <1>5, <1>6, <1>7

\* A record that is read goes to the storage: the final one carries the status the
\* result will have.
LEMMA ReceiveRecordFlowing ==
  ASSUME TypeOK, ChildInv, NEW w \in Workers, Flowing(w), NEW kind \in {"flow", "node"},
         Receiving(w, kind), Received(w), UNCHANGED <<line, child, inQueue, buffer>>,
         kind = "flow" => /\ storedNodes' = storedNodes
                          /\ Message(w).status # "Running" => stored'[line[w]] = Message(w).status,
         kind = "node" => stored' = stored /\ line[w] \in storedNodes',
         storedNodes \subseteq storedNodes'
  PROVE  Flowing(w)'
<1> DEFINE n == Len(outQueue[w])
<1>n. /\ n \in Nat /\ n >= 1 /\ Len(outQueue'[w]) = n - 1
      /\ outQueue'[w] = <<>> <=> n = 1
      /\ outQueue[w] # <<>> /\ inQueue[w] = <<>>
  BY ReceivedFacts
<1>o. \A i \in 1 .. n - 1 : outQueue'[w][i] = outQueue[w][i + 1]
  BY ReceivedFacts
<1>m. Message(w) = outQueue[w][1] /\ Message(w).kind = kind
  BY ReceivedFacts
<1> HIDE DEF n
<1>1. LineFlows(w)'
  <2>1. ASSUME NEW i \in 1 .. Len(outQueue'[w]) PROVE outQueue'[w][i].line = line[w]
    <3>1. i \in 1 .. n - 1 /\ i + 1 \in 1 .. n
      BY <1>n, <2>1
    <3> QED BY <1>o, <3>1 DEF Flowing, LineFlows, n
  <2> QED BY <1>n, <2>1 DEF Flowing, LineFlows
\* the last message read, if it is the final record, leaves its status in the storage
<1>2. ASSUME NEW s \in Ends, FinalRecordSent(w, s) PROVE FinalRecordSent(w, s)'
  <2>1. outQueue[w][n].kind = "flow" /\ outQueue[w][n].status = s
    BY <1>n, <1>2 DEF FinalRecordSent, LastOf, n
  <2>2. CASE n = 1
    <3>1. kind = "flow" /\ Message(w).status = s /\ s # "Running"
      BY <1>m, <2>1, <2>2 DEF Ends
    <3>2. stored'[line[w]] = s
      BY <3>1
    <3> QED BY <1>n, <2>2, <3>2 DEF FinalRecordSent
  <2>3. CASE n # 1
    <3>1. n - 1 \in 1 .. n - 1 /\ (n - 1) + 1 = n
      BY <1>n, <2>3
    <3>2. outQueue'[w][n - 1] = outQueue[w][n]
      BY <1>o, <3>1
    <3> QED BY <1>n, <2>1, <2>3, <3>2 DEF FinalRecordSent, LastOf
  <2> QED BY <2>2, <2>3
<1>3. BufferInv(w)'
  <2>1. ASSUME NEW i \in 1 .. Len(buffer[w]), buffer[w][i].kind = "result"
        PROVE  /\ i = Len(buffer[w])
               /\ child[w].pc = "idle" /\ child[w].status \in Ends
               /\ IF i = 1 THEN FinalRecordSent(w, child[w].status)'
                  ELSE buffer[w][i - 1].kind = "flow"
    BY <1>2, <2>1 DEF Flowing, BufferInv
  <2>2. ASSUME child[w].pc = "persisted"
        PROVE  IF buffer[w] = <<>> THEN FinalRecordSent(w, child[w].status)'
               ELSE LastOf(buffer[w]).kind = "flow"
    <3>1. child[w].status \in Ends
      BY <2>2 DEF ChildInv
    <3> QED BY <1>2, <2>2, <3>1 DEF Flowing, BufferInv
  <2> QED BY <2>1, <2>2 DEF BufferInv
<1>4. OutInv(w)'
  <2> SUFFICES ASSUME NEW i \in 1 .. Len(outQueue'[w]), outQueue'[w][i].kind = "result"
               PROVE  /\ i = Len(outQueue'[w]) /\ buffer'[w] = <<>>
                      /\ child'[w].pc \in {"idle", "dead"} /\ outQueue'[w][i].status \in Ends
                      /\ IF i = 1 THEN stored'[line'[w]] = outQueue'[w][i].status
                         ELSE /\ outQueue'[w][i - 1].kind = "flow"
                              /\ outQueue'[w][i - 1].status = outQueue'[w][i].status
    BY DEF OutInv
  <2>1. i \in 1 .. n - 1 /\ i + 1 \in 1 .. n /\ i + 1 # 1 /\ (i + 1) - 1 = i
    BY <1>n
  <2>2. outQueue'[w][i] = outQueue[w][i + 1] /\ outQueue[w][i + 1].kind = "result"
    BY <1>o, <2>1
  <2>3. /\ i + 1 = n /\ buffer[w] = <<>> /\ child[w].pc \in {"idle", "dead"}
        /\ outQueue[w][i + 1].status \in Ends
        /\ outQueue[w][i].kind = "flow" /\ outQueue[w][i].status = outQueue[w][i + 1].status
    BY <2>1, <2>2 DEF Flowing, OutInv, n
  <2>4. CASE i = 1
    <3>1. kind = "flow" /\ Message(w).status \in Ends /\ Message(w).status # "Running"
      BY <1>m, <2>3, <2>4 DEF Ends
    <3>2. stored'[line[w]] = Message(w).status
      BY <3>1
    <3> QED BY <1>n, <1>m, <2>2, <2>3, <2>4, <3>2
  <2>5. CASE i # 1
    <3>1. i - 1 \in 1 .. n - 1 /\ (i - 1) + 1 = i
      BY <2>1, <2>5, <1>n
    <3>2. outQueue'[w][i - 1] = outQueue[w][i]
      BY <1>o, <3>1
    <3> QED BY <1>n, <2>2, <2>3, <2>5, <3>2
  <2> QED BY <2>4, <2>5
<1>5. NodeSent(w) => NodeSent(w)'
  <2>1. ASSUME NEW i \in 1 .. Len(outQueue[w]), outQueue[w][i].kind = "node"
        PROVE  NodeSent(w)'
    <3>1. CASE i = 1
      <4>1. kind = "node"
        BY <1>m, <2>1, <3>1
      <4> QED BY <4>1 DEF NodeSent
    <3>2. CASE i # 1
      <4>1. i - 1 \in 1 .. n - 1 /\ (i - 1) + 1 = i
        BY <1>n, <2>1, <3>2 DEF n
      <4>2. outQueue'[w][i - 1].kind = "node"
        BY <1>o, <2>1, <4>1
      <4> QED BY <1>n, <4>1, <4>2 DEF NodeSent
    <3> QED BY <3>1, <3>2
  <2>2. (line[w] \in storedNodes \/ \E i \in 1 .. Len(buffer[w]) : buffer[w][i].kind = "node")
          => NodeSent(w)'
    BY DEF NodeSent
  <2> QED BY <2>1, <2>2 DEF NodeSent
<1>6. NodesInv(w)'
  <2>1. ASSUME NEW i \in 1 .. Len(outQueue'[w]), outQueue'[w][i].kind = "result",
               outQueue'[w][i].status = "Completed"
        PROVE  NodeSent(w)
    <3>1. i \in 1 .. n - 1 /\ i + 1 \in 1 .. n
      BY <1>n, <2>1
    <3>2. outQueue[w][i + 1].kind = "result" /\ outQueue[w][i + 1].status = "Completed"
      BY <1>o, <2>1, <3>1
    <3> QED BY <3>1, <3>2 DEF Flowing, NodesInv, n
  <2>2. /\ child[w].pc = "ran" => NodeSent(w)
        /\ child[w].status = "Completed" => NodeSent(w)
    BY <1>n DEF Flowing, NodesInv
  <2> QED BY <1>5, <2>1, <2>2 DEF NodesInv
<1> QED BY <1>1, <1>3, <1>4, <1>6 DEF Flowing

\* A worker writes the record of no line but its own, while the line has no result;
\* node records are only added.
LEMMA StorageFrame ==
  ASSUME TypeOK, PipeInv, NEW w \in Workers, WorkerStep(w)
  PROVE  /\ storedNodes \subseteq storedNodes'
         /\ stored' # stored => worker[w] \in {"wait", "timedout"}
         /\ \A l \in Lines : l # line[w] => stored'[l] = stored[l]
<1> USE DEF poolVars
<1>1. CASE ReceiveFlowRun(w)
  <2>1. Message(w).line = line[w]
    <3>1. Flowing(w) /\ Receiving(w, "flow") /\ Received(w)
      BY <1>1 DEF ReceiveFlowRun, Receiving, PipeInv, Pipe
    <3> QED BY <3>1, ReceivedFacts
  <2>2. stored' = stored \/ stored' = [stored EXCEPT ![line[w]] = Message(w).status]
    BY <1>1, <2>1 DEF ReceiveFlowRun
  <2> QED BY <1>1, <2>2 DEF ReceiveFlowRun, Receiving, TypeOK
<1>2. CASE ReceiveNodeRun(w)
  BY <1>2 DEF ReceiveNodeRun
<1>3. CASE FailLine(w)
  BY <1>3 DEF FailLine, TimeoutStored, TypeOK
<1>4. CASE UNCHANGED <<stored, storedNodes>>
  BY <1>4
<1> QED
  BY <1>1, <1>2, <1>3, <1>4
  DEF WorkerStep, Dispatch, QueueEmpty, ReceiveResult, PersistRaises, TimeOut, MarkCompleted,
      FailLineRaises, ReplaceChild, PopProcessing

\* A line that is sent to a quiet child.
LEMMA DispatchFlowing ==
  ASSUME TypeOK, NEW w \in Workers, Quiet(w), Dispatch(w)
  PROVE  Flowing(w)'
<1>1. /\ line'[w] = Head(taskQueue) /\ inQueue'[w] = Append(inQueue[w], Head(taskQueue))
      /\ UNCHANGED <<child, buffer, outQueue>>
  BY DEF Dispatch, TypeOK
<1>2. inQueue'[w] = <<line'[w]>> /\ buffer'[w] = <<>> /\ outQueue'[w] = <<>>
      /\ child'[w].pc \in {"starting", "idle", "dead"}
  BY <1>1 DEF Quiet
<1>3. inQueue'[w] # <<>>
  BY <1>2
<1>4. LineFlows(w)'
  BY <1>2 DEF LineFlows
<1>5. BufferInv(w)'
  BY <1>2 DEF BufferInv
<1>6. OutInv(w)'
  BY <1>2 DEF OutInv
<1>7. NodesInv(w)'
  BY <1>2, <1>3 DEF NodesInv
<1> QED BY <1>4, <1>5, <1>6, <1>7 DEF Flowing

LEMMA WorkerStepPipe ==
  ASSUME TypeOK, ChildInv, EndInv, NEW w \in Workers, Pipe(w), WorkerStep(w)
  PROVE  Pipe(w)'
<1> USE DEF poolVars, childVars
<1>q. ASSUME Quiet(w), UNCHANGED <<child, inQueue, buffer, outQueue>> PROVE Quiet(w)'
  BY <1>q DEF Quiet
<1>1. CASE Dispatch(w)
  <2>1. Quiet(w) /\ worker'[w] = "wait"
    BY <1>1 DEF Dispatch, Pipe, TypeOK
  <2> QED BY <1>1, <2>1, DispatchFlowing DEF Pipe
<1>2. CASE QueueEmpty(w)
  <2>1. Quiet(w) /\ worker'[w] = "exited" /\ child'[w].pc = "dead" /\ buffer'[w] = <<>>
        /\ UNCHANGED <<inQueue, outQueue>>
    BY <1>2 DEF QueueEmpty, Pipe, Ended, DeadChild, NewChild, TypeOK
  <2> QED BY <2>1 DEF Pipe, Quiet
<1>3. CASE ReceiveResult(w)
  <2>1. Flowing(w) /\ worker'[w] = "mark"
    BY <1>3 DEF ReceiveResult, Receiving, AfterResult, Pipe, TypeOK
  <2> QED BY <1>3, <2>1, ReceiveResultQuiet DEF Pipe
<1>4. CASE ReceiveFlowRun(w)
  <2>1. Flowing(w) /\ worker[w] = "wait" /\ worker' = worker
    BY <1>4 DEF ReceiveFlowRun, Receiving, Pipe
  <2>2. Receiving(w, "flow") /\ Received(w)
    BY <1>4 DEF ReceiveFlowRun
  <2>3. Message(w).line = line[w] /\ line[w] \in Lines
    BY <2>1, <2>2, ReceivedFacts, TypeMessage
  <2>4. Message(w).status # "Running" => stored'[line[w]] = Message(w).status
    BY <1>4, <2>3 DEF ReceiveFlowRun, TypeOK
  <2>5. Flowing(w)'
    BY <1>4, <2>1, <2>2, <2>4, ReceiveRecordFlowing DEF ReceiveFlowRun
  <2> QED BY <2>1, <2>5 DEF Pipe
<1>5. CASE ReceiveNodeRun(w)
  <2>1. Flowing(w) /\ worker[w] = "wait" /\ worker' = worker
    BY <1>5 DEF ReceiveNodeRun, Receiving, Pipe
  <2>2. Receiving(w, "node") /\ Received(w)
    BY <1>5 DEF ReceiveNodeRun
  <2>3. Message(w).line = line[w]
    BY <2>1, <2>2, ReceivedFacts
  <2>4. Flowing(w)'
    BY <1>5, <2>1, <2>2, <2>3, ReceiveRecordFlowing DEF ReceiveNodeRun
  <2> QED BY <2>1, <2>4 DEF Pipe
<1>6. CASE PersistRaises(w) \/ TimeOut(w) \/ FailLine(w) \/ FailLineRaises(w)
  <2>1. worker'[w] \in {"died", "timedout", "kill"}
    BY <1>6 DEF PersistRaises, TimeOut, FailLine, FailLineRaises, TypeOK
  <2> QED BY <2>1 DEF Pipe
<1>7. CASE MarkCompleted(w)
  <2>1. Quiet(w) /\ worker'[w] = "pop"
    BY <1>7 DEF MarkCompleted, Pipe, TypeOK
  <2> QED BY <1>7, <1>q, <2>1 DEF MarkCompleted, Pipe
<1>8. CASE ReplaceChild(w)
  <2>1. /\ worker'[w] = "pop" /\ child'[w].pc = "starting"
        /\ inQueue'[w] = <<>> /\ buffer'[w] = <<>> /\ outQueue'[w] = <<>>
    BY <1>8 DEF ReplaceChild, NewQueue, NewChild, TypeOK
  <2> QED BY <2>1 DEF Pipe, Quiet
<1>9. CASE PopProcessing(w)
  <2>1. Quiet(w) /\ worker'[w] = "get"
    BY <1>9 DEF PopProcessing, Pipe, TypeOK
  <2> QED BY <1>9, <1>q, <2>1 DEF PopProcessing, Pipe
<1> QED BY <1>1, <1>2, <1>3, <1>4, <1>5, <1>6, <1>7, <1>8, <1>9 DEF WorkerStep

LEMMA PipeStep ==
  ASSUME TypeOK, Accounts, EndInv, ChildInv, PipeInv, [Next]_vars
  PROVE  PipeInv'
<1>1. ASSUME NEW w \in Workers, WorkerStep(w), NEW v \in Workers PROVE Pipe(v)'
  <2>1. CASE v = w
    BY <1>1, <2>1, WorkerStepPipe DEF PipeInv
  <2>2. CASE v # w
    <3>1. /\ worker'[v] = worker[v] /\ line'[v] = line[v] /\ child'[v] = child[v]
          /\ inQueue'[v] = inQueue[v] /\ buffer'[v] = buffer[v] /\ outQueue'[v] = outQueue[v]
      BY <1>1, <2>2, WorkerStepFrame
    <3>2. worker[v] = "wait" => line[v] \in Lines /\ line[v] # line[w]
      <4>1. worker[v] = "wait" => line[v] \in Lines
        BY HeldLine DEF Accounts
      <4>2. line[v] = 0 \/ line[v] # line[w]
        BY <2>2 DEF Accounts, LinesAccounted
      <4>3. worker[v] = "wait" => line[v] # 0
        BY DEF Accounts, LinesAccounted
      <4> QED BY <4>1, <4>2, <4>3
    <3>3. storedNodes \subseteq storedNodes' /\ \A l \in Lines : l # line[w] => stored'[l] = stored[l]
      BY <1>1, StorageFrame
    <3> QED BY <3>1, <3>2, <3>3, PipeFrame DEF PipeInv
  <2> QED BY <2>1, <2>2
<1>2. ASSUME NEW w \in Workers, ChildStep(w), NEW v \in Workers PROVE Pipe(v)'
  <2>0. UNCHANGED <<stored, storedNodes, worker, line>>
    BY <1>2, ChildStepFrame DEF poolVars
  <2>1. CASE v = w
    <3>1. Pipe(w)
      BY DEF PipeInv
    <3> QED BY <1>2, <2>0, <2>1, <3>1, QuietChild, ChildStepFlowing DEF Pipe
  <2>2. CASE v # w
    <3>1. /\ child'[v] = child[v] /\ inQueue'[v] = inQueue[v]
          /\ buffer'[v] = buffer[v] /\ outQueue'[v] = outQueue[v]
      BY <1>2, <2>2, ChildStepFrame
    <3> QED BY <2>0, <3>1, PipeFrame DEF PipeInv
  <2> QED BY <2>1, <2>2
<1>3. ASSUME UNCHANGED <<worker, line, childVars, stored, storedNodes>>, NEW v \in Workers
      PROVE  Pipe(v)'
  BY <1>3, PipeFrame DEF PipeInv, childVars
<1>4. CASE RunEnds
  BY <1>3, <1>4 DEF RunEnds, PipeInv
<1>5. CASE UNCHANGED vars
  BY <1>3, <1>5 DEF vars, poolVars, PipeInv
<1> QED BY <1>1, <1>2, <1>4, <1>5 DEF Next, PipeInv

-----------------------------------------------------------------------------
(* The storage agrees with the results *)

\* A step that leaves the results alone leaves the records of the lines that have one.
LEMMA StorageOfResults ==
  ASSUME TypeOK, Accounts, PipeInv, [Next]_vars
  PROVE  /\ storedNodes \subseteq storedNodes'
         /\ \A l \in Lines : HasResult(l) => stored'[l] = stored[l]
<1>1. ASSUME NEW w \in Workers, WorkerStep(w), NEW l \in Lines, HasResult(l)
      PROVE  stored'[l] = stored[l]
  <2>1. CASE stored' = stored
    BY <2>1
  <2>2. CASE stored' # stored
    <3>1. worker[w] \in {"wait", "timedout"} /\ \A k \in Lines : k # line[w] => stored'[k] = stored[k]
      BY <1>1, <2>2, StorageFrame
    <3>2. l # line[w]
      BY <1>1, <3>1 DEF Accounts, LinesAccounted
    <3> QED BY <3>1, <3>2
  <2> QED BY <2>1, <2>2
<1>2. ASSUME NEW w \in Workers, WorkerStep(w) PROVE storedNodes \subseteq storedNodes'
  BY <1>2, StorageFrame
<1>3. ASSUME NEW w \in Workers, ChildStep(w) PROVE UNCHANGED <<stored, storedNodes>>
  BY <1>3, ChildStepFrame DEF poolVars
<1>4. RunEnds \/ UNCHANGED vars => UNCHANGED <<stored, storedNodes>>
  BY DEF RunEnds, vars, poolVars
<1> QED BY <1>1, <1>2, <1>3, <1>4 DEF Next

\* The only steps that add a result: the child's is read, or the line is given up.
ResultAdded(w, status) ==
  /\ worker[w] \in {"wait", "timedout"}
  /\ status \in Ends
  /\ results' = Append(results, Result(line[w], status))
  /\ stored'[line[w]] = status
  /\ status = "Completed" => line[w] \in storedNodes'

LEMMA ResultsGrow ==
  ASSUME TypeOK, Accounts, PipeInv, [Next]_vars
  PROVE  results' = results \/ \E w \in Workers, status \in Ends : ResultAdded(w, status)
<1> USE DEF poolVars, childVars
<1>1. ASSUME NEW w \in Workers, ReceiveResult(w)
      PROVE  \E status \in Ends : ResultAdded(w, status)
  <2>1. Flowing(w) /\ worker[w] = "wait"
    BY <1>1 DEF ReceiveResult, Receiving, PipeInv, Pipe
  <2>2. /\ Message(w).line = line[w] /\ Message(w).status \in Ends
        /\ stored[line[w]] = Message(w).status
        /\ Message(w).status = "Completed" => line[w] \in storedNodes
    BY <1>1, <2>1, ReceiveResultQuiet
  <2>3. ResultAdded(w, Message(w).status)
    BY <1>1, <2>1, <2>2 DEF ReceiveResult, ResultAdded
  <2> QED BY <2>2, <2>3
<1>2. ASSUME NEW w \in Workers, FailLine(w)
      PROVE  \E status \in Ends : ResultAdded(w, status)
  <2>1. line[w] \in Lines
    BY <1>2, HeldLine DEF FailLine, Accounts
  <2>2. ResultAdded(w, "Failed")
    BY <1>2, <2>1 DEF FailLine, TimeoutStored, TimeoutResults, ResultAdded, TypeOK, Ends
  <2> QED BY <2>2 DEF Ends
<1>3. ASSUME NEW w \in Workers, WorkerStep(w), ~ ReceiveResult(w), ~ FailLine(w)
      PROVE  results' = results
  BY <1>3 DEF WorkerStep, Dispatch, QueueEmpty, ReceiveFlowRun, ReceiveNodeRun, PersistRaises,
     TimeOut, MarkCompleted, FailLineRaises, ReplaceChild, PopProcessing
<1>4. ASSUME NEW w \in Workers, ChildStep(w) PROVE results' = results
  BY <1>4, ChildStepFrame
<1>5. RunEnds \/ UNCHANGED vars => results' = results
  BY DEF RunEnds, vars
<1>6. ASSUME NEW w \in Workers, WorkerStep(w)
      PROVE  results' = results \/ \E v \in Workers, status \in Ends : ResultAdded(v, status)
  BY <1>1, <1>2, <1>3, <1>6
<1> QED BY <1>4, <1>5, <1>6 DEF Next

LEMMA StorageStep ==
  ASSUME TypeOK, Accounts, PipeInv, StorageAgrees, [Next]_vars
  PROVE  StorageAgrees'
<1>1. \A i \in 1 .. Len(results) : results[i].line \in Lines /\ HasResult(results[i].line)
  <2> SUFFICES ASSUME NEW i \in 1 .. Len(results)
               PROVE  results[i].line \in Lines /\ HasResult(results[i].line)
    OBVIOUS
  <2> QED BY ResultType DEF HasResult
<1>2. /\ storedNodes \subseteq storedNodes'
      /\ \A l \in Lines : HasResult(l) => stored'[l] = stored[l]
  BY StorageOfResults
<1>3. \A i \in 1 .. Len(results) :
        /\ stored'[results[i].line] = results[i].status
        /\ results[i].status = "Completed" => results[i].line \in storedNodes'
  BY <1>1, <1>2 DEF StorageAgrees, RecordMatchesResult, NodeRecordsStored, ResultSet
<1>4. CASE results' = results
  BY <1>3, <1>4 DEF StorageAgrees, RecordMatchesResult, NodeRecordsStored, ResultSet
<1>5. ASSUME NEW w \in Workers, NEW s \in Ends, ResultAdded(w, s) PROVE StorageAgrees'
  <2>1. line[w] \in Lines
    BY <1>5, HeldLine DEF ResultAdded, Accounts
  <2>2. Result(line[w], s) \in [line : Lines, status : Ends]
    BY <2>1 DEF Result
  <2>3. /\ Len(results) \in Nat /\ Len(results') = Len(results) + 1
        /\ \A i \in 1 .. Len(results) : results'[i] = results[i]
        /\ results'[Len(results) + 1] = Result(line[w], s)
    BY <1>5, <2>2, Putting DEF ResultAdded, TypeOK, Ends
  <2>4. ASSUME NEW i \in 1 .. Len(results')
        PROVE  /\ stored'[results'[i].line] = results'[i].status
               /\ results'[i].status = "Completed" => results'[i].line \in storedNodes'
    <3>1. CASE i \in 1 .. Len(results)
      BY <1>3, <2>3, <3>1
    <3>2. CASE i = Len(results) + 1
      BY <1>5, <2>3, <3>2 DEF Result, ResultAdded
    <3> QED BY <2>3, <3>1, <3>2
  <2> QED BY <2>4 DEF StorageAgrees, RecordMatchesResult, NodeRecordsStored, ResultSet
<1> QED BY <1>4, <1>5, ResultsGrow

-----------------------------------------------------------------------------
(* The invariant *)

LEMMA InitIInv == Init => IInv
<1> SUFFICES ASSUME Init PROVE IInv
  OBVIOUS
<1>n. NLines \in Nat
  BY PoolAssumption DEF PoolAssumption
<1>q. taskQueue \in Seq(Lines) /\ Len(taskQueue) = NLines /\ \A i \in Lines : taskQueue[i] = i
  BY <1>n DEF Init, Lines
<1>e. results = <<>> /\ Len(results) = 0
  BY DEF Init
<1>1. TypeOK
  <2>1. child \in [Workers -> ChildRecords]
    <3>1. NewChild \in ChildRecords
      BY DEF NewChild, ChildRecords, ChildStates, Statuses
    <3> QED BY <3>1 DEF Init
  <2> QED
    BY <1>q, <2>1 DEF Init, TypeOK, WorkerStates, Statuses, ChildRecords
<1>2. Accounts
  <2>1. QueueInOrder
    BY <1>n, <1>q DEF QueueInOrder, Lines
  <2>2. Taken = {}
    BY <1>n, <1>q DEF Taken
  <2>3. LinesAccounted
    BY <2>2 DEF Init, LinesAccounted
  <2>4. OneResultPerLine
    BY <1>e DEF OneResultPerLine
  <2> QED BY <2>1, <2>3, <2>4 DEF Accounts
<1>3. EndInv /\ ChildInv
  BY DEF Init, EndInv, ChildInv, NewChild
<1>4. PipeInv
  BY DEF Init, PipeInv, Pipe, Quiet, NewChild
<1>5. StorageAgrees
  BY <1>e DEF StorageAgrees, RecordMatchesResult, NodeRecordsStored, ResultSet
<1> QED BY <1>1, <1>2, <1>3, <1>4, <1>5 DEF IInv

LEMMA NextIInv == IInv /\ [Next]_vars => IInv'
<1> SUFFICES ASSUME IInv, [Next]_vars PROVE IInv'
  OBVIOUS
<1>1. TypeOK'
  <2>1. ASSUME NEW w \in Workers, WorkerStep(w) PROVE TypeOK'
    BY <2>1, TypeWorker DEF IInv, Accounts
  <2>2. ASSUME NEW w \in Workers, ChildStep(w) PROVE TypeOK'
    BY <2>2, TypeChild DEF IInv
  <2>3. CASE RunEnds
    BY <2>3 DEF IInv, RunEnds, TypeOK, childVars
  <2>4. CASE UNCHANGED vars
    BY <2>4 DEF IInv, vars, poolVars, childVars, TypeOK
  <2> QED BY <2>1, <2>2, <2>3, <2>4 DEF Next
<1>2. Accounts'
  BY AccountsStep DEF IInv
<1>3. EndInv' /\ ChildInv'
  BY EndStep, ChildInvStep DEF IInv
<1>4. PipeInv'
  BY PipeStep DEF IInv
<1>5. StorageAgrees'
  BY StorageStep DEF IInv
<1> QED BY <1>1, <1>2, <1>3, <1>4, <1>5 DEF IInv

\* The invariant holds in every state the pool reaches.
THEOREM Invariance == Spec => []IInv
BY InitIInv, NextIInv, PTL DEF Spec

\* Whatever the number of lines and of workers, every variable keeps its type: no
\* message reaches a worker that could not be a result of its line.
THEOREM TypeCorrect == Spec => []TypeOK
<1>1. IInv => TypeOK
  BY DEF IInv
<1> QED BY <1>1, Invariance, PTL

\* The line record of the storage says what the line's result says.
THEOREM RecordsAgree == Spec => []RecordMatchesResult
<1>1. IInv => RecordMatchesResult
  BY DEF IInv, StorageAgrees
<1> QED BY <1>1, Invariance, PTL

\* A line reported Completed has its node records in the storage.
THEOREM NodeRecordsKept == Spec => []NodeRecordsStored
<1>1. IInv => NodeRecordsStored
  BY DEF IInv, StorageAgrees
<1> QED BY <1>1, Invariance, PTL

\* When run returns no child process is left.
THEOREM ChildrenGone == Spec => []NoChildLeft
<1>1. IInv => NoChildLeft
  BY DEF IInv, EndInv, NoChildLeft
<1> QED BY <1>1, Invariance, PTL

\* When run returns every line has exactly one result.
EveryLineAnswered ==
  outcome = "returned" =>
    \A l \in Lines : \E i \in 1 .. Len(results) :
      /\ results[i].line = l
      /\ \A j \in 1 .. Len(results) : results[j].line = l => j = i

LEMMA AllTaken ==
  ASSUME IInv, \A w \in Workers : worker[w] = "exited"
  PROVE  \A l \in Lines : HasResult(l)
<1>1. Workers # {}
  <2>1. Cardinality({}) = 0
    BY FS_EmptySet
  <2> QED BY <2>1, PoolAssumption DEF PoolAssumption
<1>2. taskQueue = <<>>
  BY <1>1 DEF IInv, EndInv
<1>3. Taken = Lines
  BY <1>2, PoolAssumption DEF Taken, Lines, PoolAssumption
<1>4. \A w \in Workers : line[w] = 0
  BY DEF IInv, Accounts, LinesAccounted
<1>5. 0 \notin Lines
  BY DEF Lines
<1> QED BY <1>3, <1>4, <1>5 DEF IInv, Accounts, LinesAccounted

THEOREM AllAnswered == Spec => []EveryLineAnswered
<1>1. ASSUME IInv, outcome = "returned", NEW l \in Lines PROVE HasResult(l)
  BY <1>1, AllTaken DEF IInv, EndInv
<1>2. IInv => EveryLineAnswered
  BY <1>1 DEF EveryLineAnswered, HasResult, IInv, Accounts, OneResultPerLine
<1> QED BY <1>2, Invariance, PTL

-----------------------------------------------------------------------------
(* Progress *)

\* Where a worker is between taking a line and taking the next, and where a child is
\* in its line.
WorkerRank(pc) ==
  CASE pc = "wait" -> 6
    [] pc \in {"timedout", "mark"} -> 5
    [] pc = "kill" -> 4
    [] pc = "pop" -> 3
    [] pc = "get" -> 2
    [] OTHER -> 1
ChildRank(process) ==
  CASE process.pc = "starting" -> 8
    [] process.pc = "running" -> 7
    [] process.pc = "ran" -> 6
    [] process.pc = "ending" -> 5
    [] process.pc = "ended" -> IF process.status = "Completed" THEN 4 ELSE 3
    [] process.pc = "persisted" -> 2
    [] process.pc = "idle" -> 1
    [] OTHER -> 0

\* A message counts twice until it is pickled.
Unread(w) == 2 * Len(buffer[w]) + Len(outQueue[w])

\* A worker and its child come closer to the end of their line: the worker moves on,
\* or the child takes its line, or the child moves on, or a message does.
Closer(w) ==
  \/ WorkerRank(worker'[w]) < WorkerRank(worker[w])
  \/ /\ worker'[w] = worker[w]
     /\ \/ Len(inQueue'[w]) < Len(inQueue[w])
        \/ /\ inQueue'[w] = inQueue[w]
           /\ \/ ChildRank(child'[w]) < ChildRank(child[w])
              \/ child'[w] = child[w] /\ Unread(w)' < Unread(w)

\* The other workers and their children stay where they are.
Alone(w) ==
  \A v \in Workers \ {w} :
    /\ worker'[v] = worker[v] /\ child'[v] = child[v]
    /\ inQueue'[v] = inQueue[v] /\ buffer'[v] = buffer[v] /\ outQueue'[v] = outQueue[v]

\* A step takes a line from the queue, or ends run, or brings one worker closer.
Advances ==
  \/ Len(taskQueue') < Len(taskQueue)
  \/ /\ taskQueue' = taskQueue
     /\ \/ outcome = "running" /\ outcome' # "running" /\ UNCHANGED <<worker, childVars>>
        \/ outcome' = outcome /\ \E w \in Workers : Closer(w) /\ Alone(w)

EveryStepAdvances == [][Advances]_vars

LEMMA QueueLengths ==
  ASSUME TypeOK, NEW w \in Workers
  PROVE  Len(inQueue[w]) \in Nat /\ Len(buffer[w]) \in Nat /\ Len(outQueue[w]) \in Nat
<1>1. inQueue[w] \in Seq(Lines)
  BY DEF TypeOK
<1>2. buffer[w] \in Seq(BufferedMessages)
  BY DEF TypeOK, BufferedMessages
<1>3. outQueue[w] \in Seq(Messages(MessageKinds))
  BY DEF TypeOK
<1> QED BY <1>1, <1>2, <1>3

LEMMA UnreadShrinks ==
  ASSUME NEW w, Len(buffer[w]) \in Nat, Len(outQueue[w]) \in Nat,
         \/ /\ Len(buffer'[w]) = Len(buffer[w]) - 1
            /\ Len(outQueue'[w]) = Len(outQueue[w]) + 1 \/ Len(outQueue'[w]) = Len(outQueue[w])
         \/ Len(buffer'[w]) = Len(buffer[w]) /\ Len(outQueue'[w]) = Len(outQueue[w]) - 1
  PROVE  Unread(w)' < Unread(w)
<1>1. \A b, o \in Nat : /\ 2 * (b - 1) + (o + 1) < 2 * b + o
                       /\ 2 * (b - 1) + o < 2 * b + o
                       /\ 2 * b + (o - 1) < 2 * b + o
  OBVIOUS
<1>2. /\ Unread(w) = 2 * Len(buffer[w]) + Len(outQueue[w])
      /\ Unread(w)' = 2 * Len(buffer'[w]) + Len(outQueue'[w])
  BY DEF Unread
<1> QED BY <1>1, <1>2

\* A child that starts, runs, ends its line or dies moves on.
LEMMA ChildMovesOn ==
  ASSUME TypeOK, ChildInv, NEW w \in Workers,
         \/ ChildStarts(w) \/ ChildRunsNodes(w)
         \/ \E status \in Ends : ChildEndsRun(w, status)
         \/ ChildSetsEndTime(w) \/ ChildFailsAggregationInputs(w)
         \/ ChildPersistsFlowRun(w) \/ ChildPutsResult(w) \/ ChildDies(w)
  PROVE  inQueue'[w] = inQueue[w] /\ ChildRank(child'[w]) < ChildRank(child[w])
<1>0. child[w] \in ChildRecords /\ child \in [Workers -> ChildRecords]
  BY DEF TypeOK, ChildRecords
<1>1. CASE ChildStarts(w)
  <2>1. child[w].pc = "starting" /\ child'[w].pc = "idle" /\ inQueue' = inQueue
    BY <1>0, <1>1 DEF ChildStarts, ChildRecords
  <2> QED BY <2>1 DEF ChildRank
<1>2. CASE ChildRunsNodes(w)
  <2>1. child[w].pc = "running" /\ child'[w].pc = "ran" /\ inQueue' = inQueue
    BY <1>0, <1>2 DEF ChildRunsNodes, ChildRecords
  <2> QED BY <2>1 DEF ChildRank
<1>3. ASSUME NEW status \in Ends, ChildEndsRun(w, status)
      PROVE  inQueue'[w] = inQueue[w] /\ ChildRank(child'[w]) < ChildRank(child[w])
  <2>1. child[w].pc \in {"running", "ran"} /\ child'[w].pc = "ending" /\ inQueue' = inQueue
    BY <1>0, <1>3 DEF ChildEndsRun, MayEnd, ChildRecords
  <2> QED BY <2>1 DEF ChildRank
<1>4. CASE ChildSetsEndTime(w)
  <2>1. child[w].pc = "ending" /\ child'[w].pc = "ended" /\ inQueue' = inQueue
    BY <1>0, <1>4 DEF ChildSetsEndTime, ChildRecords
  <2> QED BY <2>1 DEF ChildRank
<1>5. CASE ChildFailsAggregationInputs(w)
  <2>1. /\ child[w].pc = "ended" /\ child'[w].pc = "ended" /\ inQueue' = inQueue
        /\ child[w].status = "Completed" /\ child'[w].status = "Failed"
    BY <1>0, <1>5 DEF ChildFailsAggregationInputs, ChildRecords
  <2> QED BY <2>1 DEF ChildRank
<1>6. CASE ChildPersistsFlowRun(w)
  <2>1. child[w].pc = "ended" /\ child'[w].pc = "persisted" /\ inQueue' = inQueue
    BY <1>0, <1>6 DEF ChildPersistsFlowRun, ChildRecords
  <2> QED BY <2>1 DEF ChildRank
<1>7. CASE ChildPutsResult(w)
  <2>1. child[w].pc = "persisted" /\ child'[w].pc = "idle" /\ inQueue' = inQueue
    BY <1>0, <1>7 DEF ChildPutsResult, ChildRecords
  <2> QED BY <2>1 DEF ChildRank
<1>8. CASE ChildDies(w)
  <2>1. /\ child[w].pc \in ChildStates \ {"dead"} /\ inQueue' = inQueue
        /\ child'[w].pc = "dead"
    BY <1>0, <1>8 DEF ChildDies, ChildRecords, DeadChild, NewChild
  <2> QED BY <2>1 DEF ChildRank, ChildStates
<1> QED BY <1>1, <1>2, <1>3, <1>4, <1>5, <1>6, <1>7, <1>8

\* Whatever a child does, its worker comes closer and the others stay.
LEMMA ChildCloser ==
  ASSUME TypeOK, ChildInv, NEW w \in Workers, ChildStep(w)
  PROVE  UNCHANGED <<taskQueue, outcome>> /\ Closer(w) /\ Alone(w)
<1>1. UNCHANGED <<taskQueue, outcome, worker>> /\ Alone(w)
  BY ChildStepFrame DEF Alone, poolVars
<1>2. CASE ChildTakesLine(w)
  <2>1. inQueue[w] \in Seq(Lines) /\ inQueue[w] # <<>> /\ inQueue'[w] = Tail(inQueue[w])
    BY <1>2 DEF ChildTakesLine, TypeOK
  <2>2. Len(inQueue'[w]) < Len(inQueue[w])
    BY <2>1, Taking
  <2> QED BY <1>1, <2>2 DEF Closer
<1>3. CASE Feed(w)
  <2>1. /\ child' = child /\ inQueue' = inQueue
        /\ Len(buffer[w]) \in Nat /\ Len(buffer'[w]) = Len(buffer[w]) - 1
        /\ Len(outQueue[w]) \in Nat /\ Len(outQueue'[w]) = Len(outQueue[w]) + 1
    BY <1>3, FeedFacts
  <2>2. Unread(w)' < Unread(w)
    BY <2>1, UnreadShrinks
  <2> QED BY <1>1, <2>1, <2>2 DEF Closer
<1>4. CASE FeedFails(w)
  <2>1. buffer[w] \in Seq(BufferedMessages) /\ buffer[w] # <<>> /\ buffer'[w] = Tail(buffer[w])
    BY <1>4 DEF FeedFails, TypeOK, BufferedMessages
  <2>2. UNCHANGED <<child, inQueue, outQueue>>
    BY <1>4 DEF FeedFails
  <2>3. Len(buffer[w]) \in Nat /\ Len(buffer'[w]) = Len(buffer[w]) - 1
    BY <2>1, Taking
  <2>4. Unread(w)' < Unread(w)
    BY <2>2, <2>3, QueueLengths, UnreadShrinks
  <2> QED BY <1>1, <2>2, <2>4 DEF Closer
<1>5. ASSUME \/ ChildStarts(w) \/ ChildRunsNodes(w)
             \/ \E status \in Ends : ChildEndsRun(w, status)
             \/ ChildSetsEndTime(w) \/ ChildFailsAggregationInputs(w)
             \/ ChildPersistsFlowRun(w) \/ ChildPutsResult(w) \/ ChildDies(w)
      PROVE  Closer(w)
  BY <1>1, <1>5, ChildMovesOn DEF Closer
<1> QED BY <1>1, <1>2, <1>3, <1>4, <1>5 DEF ChildStep, Ends

\* A record that is read leaves the output queue.
LEMMA ReadingCloser ==
  ASSUME TypeOK, NEW w \in Workers, ReceiveFlowRun(w) \/ ReceiveNodeRun(w)
  PROVE  taskQueue' = taskQueue /\ Closer(w)
<1>1. outQueue[w] \in Seq(Messages(MessageKinds)) /\ outQueue[w] # <<>>
  BY DEF TypeOK, ReceiveFlowRun, ReceiveNodeRun, Receiving
<1>2. outQueue'[w] = Tail(outQueue[w]) /\ UNCHANGED <<taskQueue, worker, child, inQueue, buffer>>
  BY DEF TypeOK, ReceiveFlowRun, ReceiveNodeRun, Received
<1>3. Len(outQueue[w]) \in Nat /\ Len(outQueue'[w]) = Len(outQueue[w]) - 1
  BY <1>1, <1>2, Taking
<1>4. Unread(w)' < Unread(w)
  BY <1>2, <1>3, QueueLengths, UnreadShrinks
<1> QED BY <1>2, <1>4 DEF Closer

\* Whatever else a worker does, it moves on.
LEMMA WorkerMovesOn ==
  ASSUME TypeOK, NEW w \in Workers,
         \/ QueueEmpty(w) \/ ReceiveResult(w) \/ PersistRaises(w) \/ TimeOut(w)
         \/ MarkCompleted(w) \/ FailLine(w) \/ FailLineRaises(w) \/ ReplaceChild(w)
         \/ PopProcessing(w)
  PROVE  taskQueue' = taskQueue /\ Closer(w)
<1>1. taskQueue' = taskQueue
  BY DEF QueueEmpty, ReceiveResult, PersistRaises, TimeOut, MarkCompleted, FailLine,
     FailLineRaises, ReplaceChild, PopProcessing, poolVars
<1>2. \/ worker[w] = "get" /\ worker'[w] = "exited"
      \/ worker[w] = "wait" /\ worker'[w] \in {"mark", "died", "timedout"}
      \/ worker[w] = "mark" /\ worker'[w] = "pop"
      \/ worker[w] = "timedout" /\ worker'[w] \in {"kill", "died"}
      \/ worker[w] = "kill" /\ worker'[w] = "pop"
      \/ worker[w] = "pop" /\ worker'[w] = "get"
  BY DEF QueueEmpty, ReceiveResult, AfterResult, PersistRaises, Receiving, TimeOut, PollEnds,
     MarkCompleted, FailLine, FailLineRaises, ReplaceChild, PopProcessing, TypeOK
<1>3. WorkerRank(worker'[w]) < WorkerRank(worker[w])
  BY <1>2 DEF WorkerRank
<1> QED BY <1>1, <1>3 DEF Closer

\* Every step of the workers, of the children, whatever they do, and of their feeders
\* is one of finitely many: it takes one of the lines, or brings a worker closer to the
\* end of the line it has, or ends run.
THEOREM NoStepInVain == Spec => EveryStepAdvances
<1>1. IInv /\ [Next]_vars => [Advances]_vars
  <2> SUFFICES ASSUME IInv, Next PROVE Advances
    OBVIOUS
  <2>0. TypeOK /\ ChildInv
    BY DEF IInv
  <2>1. ASSUME NEW w \in Workers, ChildStep(w) PROVE Advances
    BY <2>0, <2>1, ChildCloser DEF Advances
  <2>2. ASSUME NEW w \in Workers, WorkerStep(w) PROVE Advances
    <3>1. outcome' = outcome /\ Alone(w)
      BY <2>0, <2>2, WorkerStepFrame DEF Alone
    <3>2. CASE Dispatch(w)
      <4>1. taskQueue \in Seq(Lines) /\ taskQueue # <<>> /\ taskQueue' = Tail(taskQueue)
        BY <2>0, <3>2 DEF Dispatch, TypeOK
      <4>2. Len(taskQueue') < Len(taskQueue)
        BY <4>1, Taking
      <4> QED BY <4>2 DEF Advances
    <3>3. ASSUME ~ Dispatch(w) PROVE taskQueue' = taskQueue /\ Closer(w)
      BY <2>0, <2>2, <3>3, ReadingCloser, WorkerMovesOn DEF WorkerStep
    <3> QED BY <3>1, <3>2, <3>3 DEF Advances
  <2>3. CASE RunEnds
    <3>1. outcome = "running" /\ outcome' # "running" /\ UNCHANGED <<taskQueue, worker, childVars>>
      BY <2>3 DEF RunEnds
    <3> QED BY <3>1 DEF Advances
  <2> QED BY <2>1, <2>2, <2>3 DEF Next
<1> QED BY <1>1, Invariance, PTL DEF EveryStepAdvances, Spec

-----------------------------------------------------------------------------
(* The pool implements BulkExecution *)

\* The answer of a line without a result.
LEMMA NoneYet ==
  ASSUME NEW l, ResultsOf(l) = {} PROVE AnswerOf(l) = "none"
<1>1. Cardinality(ResultsOf(l)) # 1
  BY FS_EmptySet
<1> QED BY <1>1 DEF AnswerOf

\* What a line's answer is: nothing before its result, its result from then on.
LEMMA AnswerFacts ==
  IInv =>
    \A l \in Lines :
      /\ ~ HasResult(l) => AnswerOf(l) = "none"
      /\ \A i \in 1 .. Len(results) : results[i].line = l => AnswerOf(l) = results[i].status
<1> SUFFICES ASSUME IInv, NEW l \in Lines
             PROVE  /\ ~ HasResult(l) => AnswerOf(l) = "none"
                    /\ \A i \in 1 .. Len(results) :
                         results[i].line = l => AnswerOf(l) = results[i].status
  OBVIOUS
<1>1. ~ HasResult(l) => AnswerOf(l) = "none"
  BY NoneYet DEF HasResult, ResultsOf
<1>2. ASSUME NEW i \in 1 .. Len(results), results[i].line = l
      PROVE  AnswerOf(l) = results[i].status
  <2>1. ResultsOf(l) = {i}
    BY <1>2 DEF ResultsOf, IInv, Accounts, OneResultPerLine
  <2>2. Cardinality(ResultsOf(l)) = 1
    BY <2>1, FS_Singleton
  <2>3. (CHOOSE j \in ResultsOf(l) : TRUE) = i
    BY <2>1
  <2>4. ResultsOf(l) # {}
    BY <2>1
  <2> QED BY <2>2, <2>3, <2>4 DEF AnswerOf
<1> QED BY <1>1, <1>2

\* Each step of the pool answers one line, ends the call or changes nothing the
\* abstract specification sees.
LEMMA PoolStep ==
  ASSUME IInv, IInv', [Next]_vars
  PROVE  [Bulk!Next]_Bulk!vars
<1> DEFINE answer == [l \in Lines |-> AnswerOf(l)]
<1>a. \A l \in Lines :
        /\ ~ HasResult(l) => AnswerOf(l) = "none"
        /\ \A i \in 1 .. Len(results) : results[i].line = l => AnswerOf(l) = results[i].status
  BY AnswerFacts
<1>b. (\A l \in Lines :
         /\ ~ HasResult(l) => AnswerOf(l) = "none"
         /\ \A i \in 1 .. Len(results) : results[i].line = l => AnswerOf(l) = results[i].status)'
  <2>1. (IInv =>
           \A l \in Lines :
             /\ ~ HasResult(l) => AnswerOf(l) = "none"
             /\ \A i \in 1 .. Len(results) :
                  results[i].line = l => AnswerOf(l) = results[i].status)'
    BY AnswerFacts, PTL
  <2> QED BY <2>1
<1>s. ASSUME results' = results PROVE answer' = answer
  BY <1>s DEF AnswerOf, ResultsOf
<1>r. \A l \in Lines : HasResult(l) => AnswerOf(l) \in Ends
  <2> SUFFICES ASSUME NEW l \in Lines, NEW i \in 1 .. Len(results), results[i].line = l
               PROVE  AnswerOf(l) \in Ends
    BY DEF HasResult
  <2> QED BY <1>a, ResultType DEF IInv
<1>1. CASE RunEnds
  <2>1. results' = results /\ outcome = "running"
    BY <1>1 DEF RunEnds
  <2>2. CASE \E w \in Workers : worker[w] = "died"
    BY <1>1, <1>s, <2>1, <2>2 DEF RunEnds, Bulk!Next, Bulk!Raise
  <2>3. CASE ~ \E w \in Workers : worker[w] = "died"
    <3>1. (\A w \in Workers : worker[w] = "exited") /\ outcome' = "returned"
      BY <1>1, <2>3 DEF RunEnds
    <3>2. \A l \in Lines : answer[l] # "none"
      BY <3>1, <1>r, AllTaken DEF Ends
    <3> QED BY <1>s, <2>1, <3>1, <3>2 DEF Bulk!Next, Bulk!Return
  <2> QED BY <2>2, <2>3
<1>2. ASSUME ~ RunEnds PROVE outcome' = outcome
  <2>1. \A w \in Workers : WorkerStep(w) \/ ChildStep(w) => outcome' = outcome
    BY WorkerStepFrame, ChildStepFrame DEF IInv, poolVars
  <2> QED BY <1>2, <2>1 DEF Next, vars, poolVars
<1>3. CASE results' = results /\ ~ RunEnds
  BY <1>s, <1>2, <1>3 DEF Bulk!vars
<1>4. ASSUME NEW w \in Workers, NEW s \in Ends, ResultAdded(w, s), ~ RunEnds
      PROVE  Bulk!Answer(line[w], s) /\ line[w] \in Lines
  <2>1. /\ line[w] \in Lines /\ ~ HasResult(line[w]) /\ outcome = "running"
        /\ results' = Append(results, Result(line[w], s))
    <3>1. /\ worker[w] \in {"wait", "timedout"}
          /\ results' = Append(results, Result(line[w], s))
      BY <1>4 DEF ResultAdded
    <3>2. line[w] \in Lines
      BY <3>1, HeldLine DEF IInv, Accounts
    <3>3. ~ HasResult(line[w])
      BY <3>1 DEF IInv, Accounts, LinesAccounted
    <3>4. outcome = "running"
      BY <3>1 DEF IInv, EndInv, TypeOK
    <3> QED BY <3>1, <3>2, <3>3, <3>4
  <2>2. Result(line[w], s) \in [line : Lines, status : Ends]
    BY <2>1 DEF Result
  <2>3. /\ Len(results) \in Nat /\ Len(results') = Len(results) + 1
        /\ \A i \in 1 .. Len(results) : results'[i] = results[i]
        /\ results'[Len(results) + 1] = Result(line[w], s)
    BY <2>1, <2>2, Putting DEF IInv, TypeOK, Ends
  <2>4. ASSUME NEW l \in Lines PROVE answer'[l] = IF l = line[w] THEN s ELSE answer[l]
    <3>1. CASE l = line[w]
      <4>1. /\ Len(results) + 1 \in 1 .. Len(results')
            /\ results'[Len(results) + 1].line = l /\ results'[Len(results) + 1].status = s
        BY <2>3, <3>1 DEF Result
      <4> QED BY <1>b, <3>1, <4>1
    <3>2. CASE l # line[w] /\ HasResult(l)
      <4>1. PICK i \in 1 .. Len(results) : results[i].line = l
        BY <3>2 DEF HasResult
      <4>2. i \in 1 .. Len(results') /\ results'[i] = results[i]
        BY <2>3
      <4> QED BY <1>a, <1>b, <3>2, <4>1, <4>2
    <3>3. CASE l # line[w] /\ ~ HasResult(l)
      <4>1. ~ (HasResult(l)')
        BY <2>3, <3>3 DEF HasResult, Result
      <4> QED BY <1>a, <1>b, <3>3, <4>1
    <3> QED BY <3>1, <3>2, <3>3
  <2>5. answer' = [answer EXCEPT ![line[w]] = s]
    BY <2>1, <2>4
  <2>6. answer[line[w]] = "none"
    BY <1>a, <2>1
  <2>7. outcome' = outcome
    BY <1>2, <1>4
  <2> QED BY <2>1, <2>5, <2>6, <2>7 DEF Bulk!Answer
<1>5. results' = results \/ \E w \in Workers, s \in Ends : ResultAdded(w, s)
  BY ResultsGrow DEF IInv
<1> QED BY <1>1, <1>3, <1>4, <1>5 DEF Bulk!Next, Ends

THEOREM Implementation == Spec => ImplementsBulkExecution
<1>1. Init => Bulk!Init
  <2> SUFFICES ASSUME Init PROVE Bulk!Init
    OBVIOUS
  <2>1. \A l \in Lines : ResultsOf(l) = {}
    <3>1. Len(results) = 0
      BY DEF Init
    <3> QED BY <3>1 DEF ResultsOf
  <2>2. \A l \in Lines : AnswerOf(l) = "none"
    BY <2>1, NoneYet
  <2> QED BY <2>2 DEF Init, Bulk!Init
<1>2. IInv /\ IInv' /\ [Next]_vars => [Bulk!Next]_Bulk!vars
  BY PoolStep
<1> QED BY <1>1, <1>2, Invariance, PTL DEF Spec, Bulk!Spec, ImplementsBulkExecution
=============================================================================
