----------------------- MODULE NodeInvocation_proofs -----------------------
(***************************************************************************)
(* Theorems about NodeInvocation for every set of calls, of threads and of *)
(* nodes, and every number of inner calls and printed lines.               *)
(***************************************************************************)
EXTENDS NodeInvocation, SequenceTheorems, TLAPS

(* The inductive invariant *)

\* The traces are the tree of the calls the tool made, each with its own outcome.
Tree(traces) ==
  \A k \in DOMAIN traces : traces[k].parent = traces[k].by /\ traces[k].holds = k

\* The same while the calls in stack are under way: their outcomes are to come.
Follows(tr, stack) ==
  /\ tr.stack = stack /\ stack[1] = 1
  /\ \A i \in DOMAIN stack : stack[i] \in DOMAIN tr.traces
  /\ \A k \in DOMAIN tr.traces :
       /\ tr.traces[k].parent = tr.traces[k].by
       /\ tr.traces[k].holds = k \/ \E i \in DOMAIN stack : stack[i] = k

\* What a thread without a node takes along.
LeftClean(t) ==
  /\ codeStack[t] = <<>>
  /\ tracer[t] # NoTracer =>
       /\ tracer[t].run \in Nodes
       /\ CallOf[tracer[t].run] = CallOf[t]
       /\ fate[tracer[t].run] \in NoEndRun
  /\ logNode[t] # None => fate[logNode[t]] \in NoEndRun \/ logNode[t] \in broken

\* Lines that node n printed, and all of them unless sys.stdout was put back.
Prints(lines, n) ==
  /\ LinesInOrder(lines, n, printed[n])
  /\ CallOf[n] \notin intruded => lines = FirstLines(n, printed[n])

\* A thread while the tool of its node runs.  The open traces are those of the calls
\* under way until a called tool raises past its pop.
Working(t) ==
  LET n == node[t] IN
  /\ n \in Nodes /\ CallOf[n] = CallOf[t] /\ Inside(CallOf[n])
  /\ fate[n] = None /\ record[n].status = "Running"
  /\ tracer[t].run = n /\ logNode[t] = n
  /\ Len(codeStack[t]) >= 1
  /\ n \notin nestedError => Follows(tracer[t], codeStack[t])
  /\ Prints(buffer[n], n)

ThreadInv(t) == IF Idle(t) THEN LeftClean(t) ELSE Working(t)

\* What a node that is over has left in its record and in the writer.
NodeEnded(n) ==
  /\ IF fate[n] \in NoEndRun \/ n \in broken
     THEN record[n].status = "Running"
     ELSE record[n].status = IF fate[n] = "returned" THEN "Completed" ELSE "Failed"
  /\ fate[n] \in Outcomes /\ n \notin broken => Prints(record[n].logs, n)
  /\ fate[n] \in Outcomes /\ n \notin nestedError => Tree(record[n].traces)
  /\ buffer[n] # <<>> => fate[n] \in NoEndRun \/ n \in broken
  /\ fate[n] = "refused" => Unended(CallOf[n]) # {}

NodeInv(n) ==
  /\ n \in persisted <=> fate[n] # None
  /\ n \in broken => fate[n] # None
  /\ fate[n] # None => NodeEnded(n)
  /\ fate[n] = None /\ (\A t \in Threads : node[t] # n) => buffer[n] = <<>> /\ printed[n] = 0

\* A node is on one thread at most.
OneThread == \A t, u \in Threads : t # u /\ ~ Idle(t) => node[t] # node[u]

LineInv(c) ==
  callPc[c] \in {"ended", "leaving", "left"} =>
    /\ Unended(c) = {} => lineStored[c] = lineStatus[c] /\ lineStatus[c] # "Running"
    /\ lineStored[c] = "Completed" =>
         \A n \in NodesOf(c) : fate[n] = "returned" /\ n \notin broken
    /\ Unended(c) # {} => lineStored[c] = "Running"

\* Only another call's __exit__ takes the writer away from a call.
WriterInPlace == \A c \in Calls : Inside(c) /\ c \notin intruded => stdout = "writer"

\* What __exit__ puts back was saved by an __enter__.
SavedBefore ==
  \A c \in Calls :
    /\ callPc[c] \in {"entering", "inside", "ended"} => prevStdout # None
    /\ callPc[c] = "leaving" => loaded[c] # None

Within == {"entering", "inside", "ended", "leaving"}

\* While calls come one at a time, what __enter__ saves is the original.
Alone ==
  overlapped = {} =>
    /\ \A c, d \in Calls : callPc[c] \in Within /\ callPc[d] \in Within => c = d
    /\ (\A c \in Calls : callPc[c] \notin Within) => stdout = "original"
    /\ \A c \in Calls : callPc[c] = "entering" => stdout = "original"
    /\ \A c \in Calls : callPc[c] \in {"entering", "inside", "ended"} => prevStdout = "original"
    /\ \A c \in Calls : callPc[c] = "leaving" => loaded[c] = "original"

IInv ==
  /\ TypeOK
  /\ \A t \in Threads : ThreadInv(t)
  /\ \A n \in Nodes : NodeInv(n)
  /\ OneThread
  /\ \A c \in Calls : LineInv(c)
  /\ WriterInPlace
  /\ SavedBefore
  /\ Alone

-----------------------------------------------------------------------------
(* Tracers *)

\* No tracer is a tracer, and no record a record.
LEMMA NoneTyped == NoTracer \in Tracers /\ NoRecord \in Records
<1>1. <<>> \in Seq(Traces) /\ <<>> \in Seq(Nat) /\ <<>> \in Seq(Lines)
  BY EmptySeq
<1> QED BY <1>1 DEF NoTracer, NoRecord, Tracers, Records

\* All but the last of a sequence.
LEMMA FrontFacts ==
  ASSUME NEW S, NEW s \in Seq(S)
  PROVE  /\ Front(s) \in Seq(S)
         /\ Len(s) >= 1 => /\ Len(Front(s)) = Len(s) - 1
                           /\ Last(s) = s[Len(s)]
                           /\ Last(s) \in S
         /\ \A i \in 1 .. Len(s) - 1 : Front(s)[i] = s[i]
<1>0. Len(s) \in Nat
  BY LenProperties
<1>1. Len(s) \in Nat /\ \A i \in 1 .. Len(s) : s[i] \in S
  BY LenProperties, ElementOfSeq
<1>2. \A i \in 1 .. Len(s) - 1 : s[i] \in S
  BY <1>1
<1>3. Len(s) - 1 \in Int /\ 1 \in Int
  BY <1>1
<1>4. /\ SubSeq(s, 1, Len(s) - 1) \in Seq(S)
      /\ Len(SubSeq(s, 1, Len(s) - 1)) = IF 1 <= Len(s) - 1 THEN Len(s) - 1 - 1 + 1 ELSE 0
      /\ \A i \in 1 .. Len(s) - 1 - 1 + 1 : SubSeq(s, 1, Len(s) - 1)[i] = s[1 + i - 1]
  BY <1>2, <1>3, SubSeqProperties
<1>5. Front(s) = SubSeq(s, 1, Len(s) - 1) /\ Last(s) = s[Len(s)]
  BY DEF Front, Last
<1>6. \A i \in 1 .. Len(s) - 1 : 1 + i - 1 = i /\ i \in 1 .. Len(s) - 1 - 1 + 1
  BY <1>1
<1>7. \A i \in 1 .. Len(s) - 1 : Front(s)[i] = s[i]
  BY <1>4, <1>5, <1>6
<1>8. ASSUME Len(s) >= 1
      PROVE  Len(Front(s)) = Len(s) - 1 /\ Last(s) = s[Len(s)] /\ Last(s) \in S
  <2>1. Len(s) \in 1 .. Len(s)
    BY <1>1, <1>8
  <2>2. CASE Len(s) = 1
    BY <1>1, <1>4, <1>5, <2>1, <2>2
  <2>3. CASE Len(s) # 1
    <3>1. 1 <= Len(s) - 1 /\ Len(s) - 1 - 1 + 1 = Len(s) - 1
      <4>1. \A m \in Nat : m >= 1 /\ m # 1 => 1 <= m - 1 /\ m - 1 - 1 + 1 = m - 1
        OBVIOUS
      <4> QED BY <1>0, <1>8, <2>3, <4>1
    <3> QED BY <1>1, <1>4, <1>5, <2>1, <3>1
  <2> QED BY <2>2, <2>3
<1>9. Front(s) \in Seq(S)
  BY <1>4, <1>5
<1> QED BY <1>7, <1>8, <1>9

\* Tracer.push.
LEMMA PushFacts ==
  ASSUME NEW tr \in Tracers, NEW caller \in Nat, NEW kind \in {"TOOL", "LLM"}
  PROVE  /\ NewTrace(tr, caller, kind) \in Traces
         /\ Push(tr, caller, kind) \in Tracers
         /\ Push(tr, caller, kind).run = tr.run
         /\ Push(tr, caller, kind).traces = Append(tr.traces, NewTrace(tr, caller, kind))
         /\ Push(tr, caller, kind).stack = Append(tr.stack, Len(tr.traces) + 1)
<1> DEFINE traces == Append(tr.traces, NewTrace(tr, caller, kind))
           stack == Append(tr.stack, Len(tr.traces) + 1)
<1>1. tr.traces \in Seq(Traces) /\ tr.stack \in Seq(Nat)
  BY DEF Tracers
<1>2. tr.stack # <<>> => Last(tr.stack) \in Nat
  <2>1. tr.stack # <<>> => Len(tr.stack) >= 1
    BY <1>1, EmptySeq
  <2> QED BY <1>1, <2>1, FrontFacts
<1>3. NewTrace(tr, caller, kind) \in Traces
  BY <1>2 DEF NewTrace, Traces
<1>4. Len(tr.traces) + 1 \in Nat
  BY <1>1, LenProperties
<1>5. traces \in Seq(Traces) /\ stack \in Seq(Nat)
  BY <1>1, <1>3, <1>4, AppendProperties
<1>6. Push(tr, caller, kind) = [tr EXCEPT !.traces = traces, !.stack = stack]
  BY DEF Push
<1> HIDE DEF traces, stack
<1>7. /\ Push(tr, caller, kind) \in Tracers
      /\ Push(tr, caller, kind).run = tr.run
      /\ Push(tr, caller, kind).traces = traces
      /\ Push(tr, caller, kind).stack = stack
  <2>1. ASSUME NEW Ts, NEW Ss, tr \in [run : Nodes \cup {None}, traces : Ts, stack : Ss],
               traces \in Ts, stack \in Ss
        PROVE  /\ Push(tr, caller, kind) \in [run : Nodes \cup {None}, traces : Ts, stack : Ss]
               /\ Push(tr, caller, kind).run = tr.run
               /\ Push(tr, caller, kind).traces = traces
               /\ Push(tr, caller, kind).stack = stack
    BY <2>1, <1>6
  <2> QED BY <2>1, <1>5, <1>6 DEF Tracers
<1> QED BY <1>3, <1>7 DEF traces, stack

\* The outcome that pop writes.
LEMMA TraceFacts ==
  ASSUME NEW trace \in Traces, NEW call \in Nat
  PROVE  LET written == [trace EXCEPT !.holds = call] IN
         /\ written \in Traces
         /\ written.parent = trace.parent /\ written.by = trace.by
         /\ written.kind = trace.kind /\ written.holds = call
  BY DEF Traces

\* Tracer.pop.
LEMMA PopFacts ==
  ASSUME NEW tr \in Tracers, NEW call \in Nat
  PROVE  LET popped == Pop(tr, call) IN
         /\ popped \in Tracers
         /\ popped.run = tr.run
         /\ popped.stack = Front(tr.stack)
         /\ DOMAIN popped.traces = DOMAIN tr.traces
         /\ \A k \in DOMAIN tr.traces :
              /\ popped.traces[k].parent = tr.traces[k].parent
              /\ popped.traces[k].by = tr.traces[k].by
              /\ popped.traces[k].kind = tr.traces[k].kind
              /\ popped.traces[k].holds =
                   IF k = Last(tr.stack) THEN call ELSE tr.traces[k].holds
<1> DEFINE top == Last(tr.stack)
           traces == [tr.traces EXCEPT ![top].holds = call]
<1>1. tr.traces \in Seq(Traces) /\ tr.stack \in Seq(Nat)
  BY DEF Tracers
<1>2. Front(tr.stack) \in Seq(Nat)
  BY <1>1, FrontFacts
<1>3. /\ Len(tr.traces) \in Nat
      /\ tr.traces \in [1 .. Len(tr.traces) -> Traces]
      /\ DOMAIN tr.traces = 1 .. Len(tr.traces)
  BY <1>1, LenProperties
<1>4. traces = [k \in DOMAIN tr.traces |->
                  IF k = top THEN [tr.traces[k] EXCEPT !.holds = call] ELSE tr.traces[k]]
  BY <1>3
<1>5. ASSUME NEW k \in DOMAIN tr.traces
      PROVE  /\ traces[k] \in Traces
             /\ traces[k].parent = tr.traces[k].parent
             /\ traces[k].by = tr.traces[k].by
             /\ traces[k].kind = tr.traces[k].kind
             /\ traces[k].holds = IF k = top THEN call ELSE tr.traces[k].holds
  <2>1. tr.traces[k] \in Traces
    BY <1>3
  <2>2. traces[k] = IF k = top THEN [tr.traces[k] EXCEPT !.holds = call] ELSE tr.traces[k]
    BY <1>4
  <2> HIDE DEF traces
  <2>3. CASE k = top
    <3>1. traces[k] = [tr.traces[k] EXCEPT !.holds = call]
      BY <2>2, <2>3
    <3> QED BY <2>1, <2>3, <3>1, TraceFacts
  <2>4. CASE k # top
    BY <2>1, <2>2, <2>4
  <2> QED BY <2>3, <2>4
<1>6. DOMAIN traces = DOMAIN tr.traces
  BY <1>4
<1>7. Pop(tr, call) = [tr EXCEPT !.traces = traces, !.stack = Front(tr.stack)]
  BY DEF Pop
<1>8. traces \in Seq(Traces)
  <2>1. traces \in [1 .. Len(tr.traces) -> Traces]
    BY <1>3, <1>4, <1>5
  <2> HIDE DEF traces
  <2> QED BY <1>3, <2>1, SeqDef
<1> HIDE DEF traces
<1>9. /\ Pop(tr, call) \in Tracers
      /\ Pop(tr, call).run = tr.run
      /\ Pop(tr, call).traces = traces
      /\ Pop(tr, call).stack = Front(tr.stack)
  <2>1. ASSUME NEW Ts, NEW Ss, tr \in [run : Nodes \cup {None}, traces : Ts, stack : Ss],
               traces \in Ts, Front(tr.stack) \in Ss
        PROVE  /\ Pop(tr, call) \in [run : Nodes \cup {None}, traces : Ts, stack : Ss]
               /\ Pop(tr, call).run = tr.run
               /\ Pop(tr, call).traces = traces
               /\ Pop(tr, call).stack = Front(tr.stack)
    BY <2>1, <1>7
  <2> QED BY <2>1, <1>2, <1>7, <1>8 DEF Tracers
<1> QED BY <1>5, <1>6, <1>9
-----------------------------------------------------------------------------
(* The open traces are those of the calls under way *)

\* The first push of a node.
LEMMA FirstPush ==
  ASSUME NEW n \in Nodes
  PROVE  LET tr == Push([NoTracer EXCEPT !.run = n], 0, "TOOL") IN
         tr \in Tracers /\ tr.run = n /\ Follows(tr, <<1>>)
<1> DEFINE none == [NoTracer EXCEPT !.run = n]
           tr == Push(none, 0, "TOOL")
           first == NewTrace(none, 0, "TOOL")
<1>1. none \in Tracers /\ none.run = n /\ none.traces = <<>> /\ none.stack = <<>>
  BY NoneTyped, EmptySeq DEF NoTracer, Tracers
<1>2. first.parent = 0 /\ first.by = 0
  BY <1>1 DEF NewTrace
<1> HIDE DEF none, first
<1>3. /\ tr \in Tracers /\ tr.run = n
      /\ tr.traces = Append(<<>>, first) /\ tr.stack = Append(<<>>, Len(<<>>) + 1)
  BY <1>1, PushFacts DEF first
<1> HIDE DEF tr
<1>4. tr.traces = <<first>> /\ tr.stack = <<1>>
  BY <1>3
<1>5. Follows(tr, <<1>>)
  BY <1>2, <1>4 DEF Follows
<1> QED BY <1>3, <1>5 DEF tr, none

\* Between the pushes and the pops: what is pushed is a call of the innermost call.
LEMMA PushFollows ==
  ASSUME NEW tr \in Tracers, NEW stack \in Seq(Nat), Len(stack) >= 1, Follows(tr, stack),
         NEW kind \in {"TOOL", "LLM"}
  PROVE  Follows(Push(tr, Last(stack), kind), Append(stack, Len(tr.traces) + 1))
<1> DEFINE pushed == Push(tr, Last(stack), kind)
           new == NewTrace(tr, Last(stack), kind)
           called == Append(stack, Len(tr.traces) + 1)
<1>1. Last(stack) \in Nat
  BY FrontFacts
<1>2. /\ new \in Traces /\ pushed.traces = Append(tr.traces, new)
      /\ pushed.stack = Append(tr.stack, Len(tr.traces) + 1)
  BY <1>1, PushFacts
<1>3. tr.traces \in Seq(Traces) /\ tr.stack = stack
  BY DEF Tracers, Follows
<1>4. new.parent = Last(stack) /\ new.by = Last(stack)
  <2>1. stack # <<>>
    BY EmptySeq
  <2> QED BY <1>3, <2>1 DEF NewTrace
<1>5. Len(tr.traces) \in Nat /\ Len(stack) \in Nat
  BY <1>3, LenProperties
<1>6. /\ DOMAIN tr.traces = 1 .. Len(tr.traces)
      /\ DOMAIN stack = 1 .. Len(stack)
  BY <1>3, LenProperties
<1> HIDE DEF new, pushed
<1>7. /\ DOMAIN pushed.traces = 1 .. Len(tr.traces) + 1
      /\ \A k \in 1 .. Len(tr.traces) : pushed.traces[k] = tr.traces[k]
      /\ pushed.traces[Len(tr.traces) + 1] = new
  <2>1. Append(tr.traces, new) \in Seq(Traces) /\ Len(Append(tr.traces, new)) = Len(tr.traces) + 1
    BY <1>2, <1>3, AppendProperties
  <2>2. DOMAIN Append(tr.traces, new) = 1 .. Len(tr.traces) + 1
    BY <2>1, LenProperties
  <2> QED BY <1>2, <1>3, <2>2, AppendProperties
<1>8. /\ DOMAIN called = 1 .. Len(stack) + 1
      /\ \A i \in 1 .. Len(stack) : called[i] = stack[i]
      /\ called[Len(stack) + 1] = Len(tr.traces) + 1
  <2>1. Len(tr.traces) + 1 \in Nat
    BY <1>5
  <2>2. called \in Seq(Nat) /\ Len(called) = Len(stack) + 1
    BY <2>1, AppendProperties
  <2>3. DOMAIN called = 1 .. Len(stack) + 1
    BY <2>2, LenProperties
  <2> QED BY <2>1, <2>3, AppendProperties
<1>9. pushed.stack = called
  BY <1>2, <1>3
<1> HIDE DEF called
<1>10. called[1] = 1
  <2>1. 1 \in 1 .. Len(stack)
    BY <1>5
  <2> QED BY <1>8, <2>1 DEF Follows
<1>11. \A i \in DOMAIN called : called[i] \in DOMAIN pushed.traces
  <2>1. SUFFICES ASSUME NEW i \in 1 .. Len(stack) + 1
                 PROVE  called[i] \in 1 .. Len(tr.traces) + 1
    BY <1>7, <1>8
  <2>2. CASE i \in 1 .. Len(stack)
    <3>1. called[i] \in 1 .. Len(tr.traces)
      BY <1>6, <1>8, <2>2 DEF Follows
    <3> QED BY <1>5, <3>1
  <2>3. CASE i = Len(stack) + 1
    BY <1>5, <1>8, <2>3
  <2> QED BY <1>5, <2>2, <2>3
<1>12. ASSUME NEW k \in DOMAIN pushed.traces
       PROVE  /\ pushed.traces[k].parent = pushed.traces[k].by
              /\ pushed.traces[k].holds = k \/ \E i \in DOMAIN called : called[i] = k
  <2>1. CASE k \in 1 .. Len(tr.traces)
    <3>1. /\ tr.traces[k].parent = tr.traces[k].by
          /\ tr.traces[k].holds = k \/ \E i \in 1 .. Len(stack) : stack[i] = k
      BY <1>6, <2>1 DEF Follows
    <3>2. pushed.traces[k] = tr.traces[k]
      BY <1>7, <2>1
    <3>3. ASSUME NEW i \in 1 .. Len(stack), stack[i] = k
          PROVE  i \in DOMAIN called /\ called[i] = k
      BY <1>5, <1>8, <3>3
    <3> QED BY <3>1, <3>2, <3>3
  <2>2. CASE k = Len(tr.traces) + 1
    <3>1. Len(stack) + 1 \in DOMAIN called /\ called[Len(stack) + 1] = k
      BY <1>5, <1>8, <2>2
    <3> QED BY <1>4, <1>7, <2>2, <3>1
  <2> QED BY <1>5, <1>7, <2>1, <2>2
<1>13. Follows(pushed, called)
  BY <1>9, <1>10, <1>11, <1>12 DEF Follows
<1> QED BY <1>13 DEF pushed, called

\* The innermost call is popped with its own outcome.
LEMMA PopFollows ==
  ASSUME NEW tr \in Tracers, NEW stack \in Seq(Nat), Len(stack) >= 1, Follows(tr, stack)
  PROVE  LET popped == Pop(tr, Last(stack)) IN
         /\ popped.stack = Front(stack)
         /\ DOMAIN popped.traces = DOMAIN tr.traces
         /\ \A k \in DOMAIN popped.traces :
              /\ popped.traces[k].parent = popped.traces[k].by
              /\ \/ popped.traces[k].holds = k
                 \/ \E i \in 1 .. Len(stack) - 1 : stack[i] = k
<1> DEFINE popped == Pop(tr, Last(stack))
<1>1. Last(stack) \in Nat /\ Last(stack) = stack[Len(stack)]
  BY FrontFacts
<1>2. tr.stack = stack
  BY DEF Follows
<1>3. /\ popped.stack = Front(stack)
      /\ DOMAIN popped.traces = DOMAIN tr.traces
      /\ \A k \in DOMAIN tr.traces :
           /\ popped.traces[k].parent = tr.traces[k].parent
           /\ popped.traces[k].by = tr.traces[k].by
           /\ popped.traces[k].holds =
                IF k = Last(stack) THEN Last(stack) ELSE tr.traces[k].holds
  BY <1>1, <1>2, PopFacts
<1>4. DOMAIN stack = 1 .. Len(stack) /\ Len(stack) \in Nat
  BY LenProperties
<1> HIDE DEF popped
<1>5. ASSUME NEW k \in DOMAIN tr.traces
      PROVE  /\ popped.traces[k].parent = popped.traces[k].by
             /\ \/ popped.traces[k].holds = k
                \/ \E i \in 1 .. Len(stack) - 1 : stack[i] = k
  <2>1. tr.traces[k].parent = tr.traces[k].by
    BY DEF Follows
  <2>2. CASE k = Last(stack)
    BY <1>3, <2>1, <2>2
  <2>3. CASE k # Last(stack)
    <3>1. popped.traces[k].holds = tr.traces[k].holds
      BY <1>3, <2>3
    <3>2. tr.traces[k].holds = k \/ \E i \in 1 .. Len(stack) : stack[i] = k
      BY <1>4 DEF Follows
    <3>3. ASSUME NEW i \in 1 .. Len(stack), stack[i] = k PROVE i \in 1 .. Len(stack) - 1
      BY <1>1, <1>4, <2>3, <3>3
    <3> QED BY <1>3, <2>1, <3>1, <3>2, <3>3
  <2> QED BY <2>2, <2>3
<1> QED BY <1>3, <1>5 DEF popped

\* A called tool returns.
LEMMA ReturnFollows ==
  ASSUME NEW tr \in Tracers, NEW stack \in Seq(Nat), Len(stack) > 1, Follows(tr, stack)
  PROVE  Follows(Pop(tr, Last(stack)), Front(stack))
<1> DEFINE popped == Pop(tr, Last(stack))
<1>1. Len(stack) \in Nat /\ Len(stack) >= 1 /\ DOMAIN stack = 1 .. Len(stack)
  BY LenProperties
<1>2. /\ popped.stack = Front(stack)
      /\ DOMAIN popped.traces = DOMAIN tr.traces
      /\ \A k \in DOMAIN popped.traces :
           /\ popped.traces[k].parent = popped.traces[k].by
           /\ \/ popped.traces[k].holds = k
              \/ \E i \in 1 .. Len(stack) - 1 : stack[i] = k
  BY <1>1, PopFollows
<1>3. /\ Len(Front(stack)) = Len(stack) - 1
      /\ \A i \in 1 .. Len(stack) - 1 : Front(stack)[i] = stack[i]
      /\ Front(stack) \in Seq(Nat)
  BY <1>1, FrontFacts
<1>4. DOMAIN Front(stack) = 1 .. Len(stack) - 1
  BY <1>3, LenProperties
<1>5. 1 \in 1 .. Len(stack) - 1 /\ \A i \in 1 .. Len(stack) - 1 : i \in 1 .. Len(stack)
  BY <1>1
<1> HIDE DEF popped
<1>6. Front(stack)[1] = 1
  BY <1>3, <1>5 DEF Follows
<1>7. \A i \in DOMAIN Front(stack) : Front(stack)[i] \in DOMAIN popped.traces
  BY <1>1, <1>2, <1>3, <1>4, <1>5 DEF Follows
<1>8. \A k \in DOMAIN popped.traces :
        /\ popped.traces[k].parent = popped.traces[k].by
        /\ popped.traces[k].holds = k \/ \E i \in DOMAIN Front(stack) : Front(stack)[i] = k
  BY <1>2, <1>3, <1>4
<1>9. Follows(popped, Front(stack))
  BY <1>2, <1>6, <1>7, <1>8 DEF Follows
<1> QED BY <1>9 DEF popped

\* An injected API is pushed and popped.
LEMMA ApiFollows ==
  ASSUME NEW tr \in Tracers, NEW stack \in Seq(Nat), Len(stack) >= 1, Follows(tr, stack),
         NEW returned \in BOOLEAN
  PROVE  Follows(AfterApi(Push(tr, Last(stack), "LLM"), Len(tr.traces) + 1, returned), stack)
<1> DEFINE pushed == Push(tr, Last(stack), "LLM")
           new == Len(tr.traces) + 1
           called == Append(stack, new)
           popped == Pop(pushed, new)
<1>1. Last(stack) \in Nat /\ Len(stack) \in Nat /\ DOMAIN stack = 1 .. Len(stack)
  BY FrontFacts, LenProperties
<1>2. new \in Nat
  <2>1. tr.traces \in Seq(Traces)
    BY DEF Tracers
  <2> QED BY <2>1, LenProperties
<1>3. pushed \in Tracers
  BY <1>1, PushFacts
<1>4. Follows(pushed, called)
  BY PushFollows
<1>5. /\ called \in Seq(Nat) /\ Len(called) = Len(stack) + 1
      /\ called[Len(stack) + 1] = new
      /\ \A i \in 1 .. Len(stack) : called[i] = stack[i]
  BY <1>2, AppendProperties
<1> HIDE DEF called, pushed, new
<1>0. Len(called) >= 1 /\ Len(called) > 1
  BY <1>1, <1>5
<1>6. Last(called) = new
  <2>1. Last(called) = called[Len(called)]
    BY <1>0, <1>5, FrontFacts
  <2> QED BY <1>5, <2>1
<1>7. Follows(Pop(pushed, Last(called)), Front(called))
  BY <1>0, <1>3, <1>4, <1>5, ReturnFollows
<1>8. Front(called) = stack
  <2>1. /\ Front(called) \in Seq(Nat) /\ Len(Front(called)) = Len(called) - 1
        /\ \A i \in 1 .. Len(called) - 1 : Front(called)[i] = called[i]
    BY <1>0, <1>5, FrontFacts
  <2>2. Len(called) - 1 = Len(stack)
    BY <1>1, <1>5
  <2> QED BY <1>5, <2>1, <2>2, SeqEqual
<1> QED BY <1>6, <1>7, <1>8 DEF AfterApi, pushed, new

\* The outcome of the node's own call is the last to come.
LEMMA LastPop ==
  ASSUME NEW tr \in Tracers, NEW stack \in Seq(Nat), Len(stack) = 1, Follows(tr, stack)
  PROVE  Tree(Pop(tr, 1).traces)
<1>1. Last(stack) = 1
  <2>1. Len(stack) >= 1
    OBVIOUS
  <2>2. Last(stack) = stack[Len(stack)]
    BY <2>1, FrontFacts
  <2> QED BY <2>2 DEF Follows
<1>2. Len(stack) >= 1 /\ 1 .. Len(stack) - 1 = {}
  OBVIOUS
<1>3. LET popped == Pop(tr, Last(stack)) IN
      \A k \in DOMAIN popped.traces :
        /\ popped.traces[k].parent = popped.traces[k].by
        /\ popped.traces[k].holds = k \/ \E i \in 1 .. Len(stack) - 1 : stack[i] = k
  BY <1>2, PopFollows
<1> QED BY <1>1, <1>2, <1>3 DEF Tree
-----------------------------------------------------------------------------
(* The lines in the writer *)

\* A node that printed nothing has no lines.
LEMMA NothingPrinted ==
  ASSUME NEW n
  PROVE  LinesInOrder(<<>>, n, 0) /\ <<>> = FirstLines(n, 0)
<1>1. 1 .. 0 = {} /\ DOMAIN <<>> = {}
  OBVIOUS
<1>2. LinesInOrder(<<>>, n, 0)
  BY <1>1 DEF LinesInOrder
<1> QED BY <1>1, <1>2 DEF FirstLines

\* A node prints its next line: it comes after those that are there.
LEMMA NextLine ==
  ASSUME NEW n \in Nodes, NEW lines \in Seq(Lines), NEW many \in Nat
  PROVE  LET more == Append(lines, <<n, many + 1>>) IN
         /\ more \in Seq(Lines)
         /\ LinesInOrder(lines, n, many) =>
              LinesInOrder(lines, n, many + 1) /\ LinesInOrder(more, n, many + 1)
         /\ lines = FirstLines(n, many) => more = FirstLines(n, many + 1)
<1> DEFINE line == <<n, many + 1>>
           more == Append(lines, line)
<1>1. line \in Lines
  BY DEF Lines
<1>2. /\ more \in Seq(Lines) /\ Len(more) = Len(lines) + 1
      /\ \A i \in 1 .. Len(lines) : more[i] = lines[i]
      /\ more[Len(lines) + 1] = line
  BY <1>1, AppendProperties
<1>3. DOMAIN lines = 1 .. Len(lines) /\ Len(lines) \in Nat /\ DOMAIN more = 1 .. Len(lines) + 1
  BY <1>2, LenProperties
<1> HIDE DEF more
<1>4. \A k \in 1 .. many : k \in 1 .. many + 1
  OBVIOUS
<1>5. LinesInOrder(lines, n, many) => LinesInOrder(lines, n, many + 1)
  BY <1>4 DEF LinesInOrder
<1>6. ASSUME LinesInOrder(lines, n, many) PROVE LinesInOrder(more, n, many + 1)
  <2>1. \A i \in 1 .. Len(lines) : \E k \in 1 .. many : lines[i] = <<n, k>>
    BY <1>3, <1>6 DEF LinesInOrder
  <2>2. \A i, j \in 1 .. Len(lines) : i < j => lines[i][2] < lines[j][2]
    BY <1>3, <1>6 DEF LinesInOrder
  <2>3. \A i \in 1 .. Len(lines) : lines[i][2] < line[2]
    <3> SUFFICES ASSUME NEW i \in 1 .. Len(lines) PROVE lines[i][2] < line[2]
      OBVIOUS
    <3>1. PICK k \in 1 .. many : lines[i] = <<n, k>>
      BY <2>1
    <3>2. lines[i][2] = k /\ line[2] = many + 1
      BY <3>1
    <3> QED BY <3>2
  <2>4. ASSUME NEW i \in DOMAIN more
        PROVE  \E k \in 1 .. many + 1 : more[i] = <<n, k>>
    <3>1. CASE i \in 1 .. Len(lines)
      BY <1>2, <1>4, <2>1, <3>1
    <3>2. CASE i = Len(lines) + 1
      <4>1. many + 1 \in 1 .. many + 1
        OBVIOUS
      <4> QED BY <1>2, <3>2, <4>1
    <3> QED BY <1>3, <3>1, <3>2
  <2>5. ASSUME NEW i \in DOMAIN more, NEW j \in DOMAIN more, i < j
        PROVE  more[i][2] < more[j][2]
    <3>1. i \in 1 .. Len(lines) /\ more[i] = lines[i]
      BY <1>2, <1>3, <2>5
    <3>2. CASE j \in 1 .. Len(lines)
      <4>1. more[j] = lines[j]
        BY <1>2, <3>2
      <4> QED BY <2>2, <2>5, <3>1, <3>2, <4>1
    <3>3. CASE j = Len(lines) + 1
      <4>1. more[j] = line
        BY <1>2, <3>3
      <4> QED BY <2>3, <3>1, <4>1
    <3> QED BY <1>3, <3>2, <3>3
  <2> QED BY <2>4, <2>5 DEF LinesInOrder
<1>7. ASSUME lines = FirstLines(n, many) PROVE more = FirstLines(n, many + 1)
  <2> DEFINE all == FirstLines(n, many + 1)
  <2>1. lines = [k \in 1 .. many |-> <<n, k>>]
    BY <1>7 DEF FirstLines
  <2>2. Len(lines) = many
    BY <1>3, <2>1
  <2>3. all = [k \in 1 .. many + 1 |-> <<n, k>>] /\ many + 1 \in Nat
    BY DEF FirstLines
  <2>4. all \in [1 .. many + 1 -> Lines] /\ \A k \in 1 .. many + 1 : all[k] = <<n, k>>
    BY <2>3 DEF Lines
  <2> HIDE DEF all
  <2>5. all \in Seq(Lines)
    BY <2>3, <2>4, SeqDef
  <2>6. Len(all) = many + 1
    <3>1. DOMAIN all = 1 .. Len(all) /\ Len(all) \in Nat /\ DOMAIN all = 1 .. many + 1
      BY <2>4, <2>5, LenProperties
    <3> QED BY <2>3, <3>1
  <2>7. ASSUME NEW k \in 1 .. Len(more) PROVE more[k] = all[k]
    <3>1. CASE k \in 1 .. many
      BY <1>2, <2>1, <2>2, <2>4, <3>1
    <3>2. CASE k = many + 1
      BY <1>2, <2>2, <2>4, <3>2
    <3> QED BY <1>2, <2>2, <3>1, <3>2
  <2> QED BY <1>2, <2>2, <2>5, <2>6, <2>7, SeqEqual DEF all
<1> QED BY <1>2, <1>5, <1>6, <1>7 DEF more
-----------------------------------------------------------------------------
(* A step of one thread *)

\* Thread t takes a step with node n, which is not over and on no other thread.
StepOf(t, n) ==
  /\ CallOf[n] = CallOf[t] /\ Inside(CallOf[n]) /\ fate[n] = None
  /\ node[t] \in {None, n} /\ node'[t] \in {None, n}
  /\ \A u \in Threads \ {t} : node[u] # n
  /\ UNCHANGED callVars
  /\ \A u \in Threads \ {t} : /\ node'[u] = node[u] /\ codeStack'[u] = codeStack[u]
                              /\ tracer'[u] = tracer[u] /\ logNode'[u] = logNode[u]
  /\ \A m \in Nodes \ {n} : /\ buffer'[m] = buffer[m] /\ printed'[m] = printed[m]
                            /\ record'[m] = record[m] /\ fate'[m] = fate[m]
  /\ \A m \in Nodes \ {n} : (m \in broken') = (m \in broken)
  /\ \A m \in Nodes \ {n} : (m \in nestedError') = (m \in nestedError)
  /\ \A m \in Nodes \ {n} : (m \in persisted') = (m \in persisted)

\* It leaves alone what holds of the other threads, of the other nodes and of the
\* calls that are over.
LEMMA ThreadFrame ==
  ASSUME IInv, NEW t \in Threads, NEW n \in Nodes, StepOf(t, n),
         TypeOK', ThreadInv(t)', NodeInv(n)'
  PROVE  IInv'
<1>0. None \notin Nodes /\ n # None
  BY InvocationAssumption
<1>1. n \notin broken /\ n \notin persisted
  BY DEF IInv, NodeInv, StepOf
<1>2. UNCHANGED <<callPc, loaded, stdout, prevStdout, overlapped, intruded, lineStatus,
                  lineStored>>
  BY DEF StepOf, callVars, managerVars, lineVars
<1>3. ASSUME NEW u \in Threads \ {t} PROVE ThreadInv(u)'
  <2>1. ThreadInv(u) /\ node[u] # n
    BY DEF IInv, StepOf
  <2>2. /\ node'[u] = node[u] /\ codeStack'[u] = codeStack[u]
        /\ tracer'[u] = tracer[u] /\ logNode'[u] = logNode[u]
    BY DEF StepOf
  <2>3. node[u] \in Nodes \cup {None} /\ logNode[u] \in Nodes \cup {None}
    BY DEF IInv, TypeOK
  <2>4. CASE Idle(u)
    <3>1. LeftClean(u)
      BY <2>1, <2>4 DEF ThreadInv
    <3>2. tracer[u] # NoTracer => fate'[tracer[u].run] \in NoEndRun
      <4>1. SUFFICES ASSUME tracer[u] # NoTracer PROVE fate'[tracer[u].run] \in NoEndRun
        OBVIOUS
      <4>2. tracer[u].run \in Nodes /\ fate[tracer[u].run] \in NoEndRun
        BY <3>1, <4>1 DEF LeftClean
      <4>3. tracer[u].run # n
        BY <4>2 DEF StepOf, None, NoEndRun
      <4> QED BY <4>2, <4>3 DEF StepOf
    <3>3. logNode[u] # None => fate'[logNode[u]] \in NoEndRun \/ logNode[u] \in broken'
      <4>1. SUFFICES ASSUME logNode[u] # None
                     PROVE  fate'[logNode[u]] \in NoEndRun \/ logNode[u] \in broken'
        OBVIOUS
      <4>2. logNode[u] \in Nodes /\ (fate[logNode[u]] \in NoEndRun \/ logNode[u] \in broken)
        BY <2>3, <3>1, <4>1 DEF LeftClean
      <4>3. logNode[u] # n
        BY <1>1, <4>2 DEF StepOf, None, NoEndRun
      <4> QED BY <4>2, <4>3 DEF StepOf
    <3>4. LeftClean(u)'
      BY <2>2, <3>1, <3>2, <3>3 DEF LeftClean
    <3> QED BY <2>2, <2>4, <3>4 DEF ThreadInv, Idle
  <2>5. CASE ~ Idle(u)
    <3> DEFINE m == node[u]
    <3>1. Working(u) /\ m \in Nodes \ {n}
      BY <2>1, <2>3, <2>5 DEF ThreadInv, Idle
    <3>2. /\ buffer'[m] = buffer[m] /\ printed'[m] = printed[m]
          /\ record'[m] = record[m] /\ fate'[m] = fate[m]
          /\ (m \in nestedError') = (m \in nestedError)
      BY <3>1 DEF StepOf
    <3>3. Working(u)'
      BY <1>2, <2>2, <3>1, <3>2 DEF Working, Inside, Prints
    <3> QED BY <2>2, <2>5, <3>3 DEF ThreadInv, Idle
  <2> QED BY <2>4, <2>5
<1>4. \A c \in Calls : Unended(c) \subseteq Unended(c)'
  <2> SUFFICES ASSUME NEW c \in Calls, NEW m \in Unended(c) PROVE m \in Unended(c)'
    OBVIOUS
  <2>1. m \in Nodes /\ CallOf[m] = c /\ fate[m] \in NoEndRun
    BY DEF Unended, NodesOf
  <2>2. m # n
    BY <2>1 DEF StepOf, None, NoEndRun
  <2> QED BY <2>1, <2>2 DEF StepOf, Unended, NodesOf
<1>5. ASSUME NEW m \in Nodes \ {n} PROVE NodeInv(m)'
  <2>1. NodeInv(m)
    BY DEF IInv
  <2>2. /\ buffer'[m] = buffer[m] /\ printed'[m] = printed[m]
        /\ record'[m] = record[m] /\ fate'[m] = fate[m]
    BY DEF StepOf
  <2>3. /\ (m \in broken') = (m \in broken) /\ (m \in nestedError') = (m \in nestedError)
        /\ (m \in persisted') = (m \in persisted)
    BY DEF StepOf
  <2>4. NodeEnded(m) => NodeEnded(m)'
    <3>1. CallOf[m] \in Calls
      BY InvocationAssumption
    <3>2. Unended(CallOf[m]) # {} => Unended(CallOf[m])' # {}
      BY <1>4, <3>1
    <3>3. Prints(record[m].logs, m) => Prints(record[m].logs, m)'
      BY <1>2, <2>2 DEF Prints
    <3> QED BY <2>2, <2>3, <3>2, <3>3 DEF NodeEnded
  <2>5. (\A u \in Threads : node'[u] # m) => \A u \in Threads : node[u] # m
    BY <1>0 DEF StepOf
  <2> QED BY <2>1, <2>2, <2>3, <2>4, <2>5 DEF NodeInv
<1>6. OneThread'
  <2> SUFFICES ASSUME NEW u \in Threads, NEW v \in Threads, u # v, node'[u] # None
               PROVE  node'[u] # node'[v]
    BY DEF OneThread, Idle
  <2>1. CASE u = t
    BY <2>1 DEF StepOf
  <2>2. CASE v = t
    <3>1. node'[u] = node[u] /\ node[u] # n /\ node'[v] \in {None, n}
      BY <2>2 DEF StepOf
    <3> QED BY <3>1
  <2>3. CASE u # t /\ v # t
    BY <2>3 DEF StepOf, IInv, OneThread, Idle
  <2> QED BY <2>1, <2>2, <2>3
<1>7. ASSUME NEW c \in Calls PROVE LineInv(c)'
  <2>1. SUFFICES ASSUME callPc[c] \in {"ended", "leaving", "left"} PROVE LineInv(c)'
    BY <1>2 DEF LineInv
  <2>2. \A m \in NodesOf(c) : m \in Nodes \ {n}
    BY <2>1 DEF NodesOf, StepOf, Inside
  <2>3. \A m \in NodesOf(c) : fate'[m] = fate[m] /\ (m \in broken') = (m \in broken)
    BY <2>2 DEF StepOf
  <2>4. Unended(c)' = Unended(c)
    BY <2>3 DEF Unended, NodesOf
  <2>5. LineInv(c)
    BY DEF IInv
  <2> QED BY <1>2, <2>3, <2>4, <2>5 DEF LineInv, NodesOf
<1>8. WriterInPlace' /\ SavedBefore' /\ Alone'
  BY <1>2 DEF IInv, WriterInPlace, SavedBefore, Alone, Inside
<1>9. \A u \in Threads : ThreadInv(u)'
  BY <1>3
<1>10. \A m \in Nodes : NodeInv(m)'
  BY <1>5
<1> QED BY <1>6, <1>7, <1>8, <1>9, <1>10 DEF IInv

\* A thread with a node is at work on it, alone.
LEMMA AtWork ==
  ASSUME IInv, NEW t \in Threads, ~ Idle(t) \/ Len(codeStack[t]) >= 1
  PROVE  /\ ~ Idle(t) /\ node[t] \in Nodes /\ node[t] # None
         /\ Working(t)
         /\ \A u \in Threads \ {t} : node[u] # node[t]
         /\ codeStack[t] \in Seq(Nat) /\ tracer[t] \in Tracers
<1>1. codeStack[t] \in Seq(Nat) /\ tracer[t] \in Tracers /\ ThreadInv(t)
  BY DEF IInv, TypeOK
<1>2. ~ Idle(t)
  <2>1. codeStack[t] = <<>> => ~ (Len(codeStack[t]) >= 1)
    OBVIOUS
  <2> QED BY <1>1, <2>1 DEF ThreadInv, LeftClean
<1>3. Working(t)
  BY <1>1, <1>2 DEF ThreadInv
<1>4. \A u \in Threads \ {t} : node[u] # node[t]
  BY <1>2 DEF IInv, OneThread
<1> QED BY <1>1, <1>2, <1>3, <1>4 DEF Working, Idle
-----------------------------------------------------------------------------
(* Starting a node *)

\* A node that starts was not run before and is on no thread: it printed nothing.
LEMMA FreshNode ==
  ASSUME IInv, NEW t \in Threads, NEW n \in Nodes, Starts(t, n)
  PROVE  /\ buffer[n] = <<>> /\ printed[n] = 0
         /\ n \notin broken /\ n \notin persisted
         /\ node[t] = None /\ n # None
         /\ CallOf[n] = CallOf[t] /\ Inside(CallOf[n]) /\ fate[n] = None
         /\ \A u \in Threads : node[u] # n
         /\ LeftClean(t)
<1>1. /\ CallOf[n] = CallOf[t] /\ Inside(CallOf[n]) /\ fate[n] = None /\ node[t] = None
      /\ \A u \in Threads : node[u] # n
  BY DEF Starts, Idle
<1>2. NodeInv(n) /\ ThreadInv(t)
  BY DEF IInv
<1>3. buffer[n] = <<>> /\ printed[n] = 0 /\ n \notin broken /\ n \notin persisted
  BY <1>1, <1>2 DEF NodeInv
<1> QED BY <1>1, <1>2, <1>3, InvocationAssumption DEF ThreadInv, Idle

\* A node starts with a new tracer and its own log context.
LEMMA StartNodeStep ==
  ASSUME IInv, NEW t \in Threads, NEW n \in Nodes, StartNode(t, n)
  PROVE  IInv'
<1>1. /\ buffer[n] = <<>> /\ printed[n] = 0 /\ n \notin broken /\ n \notin persisted
      /\ node[t] = None /\ n # None
      /\ CallOf[n] = CallOf[t] /\ Inside(CallOf[n]) /\ fate[n] = None
      /\ \A u \in Threads : node[u] # n
  BY FreshNode DEF StartNode
<1>2. /\ UNCHANGED callVars
      /\ UNCHANGED <<buffer, printed, fate, broken, nestedError, persisted>>
  BY DEF StartNode
<1>3. UNCHANGED <<callPc, loaded, stdout, prevStdout, overlapped, intruded, lineStatus,
                  lineStored>>
  BY <1>2 DEF callVars, managerVars, lineVars
<1> DEFINE tr == Push([NoTracer EXCEPT !.run = n], 0, "TOOL")
<1>4. tr \in Tracers /\ tr.run = n /\ Follows(tr, <<1>>)
  BY FirstPush
<1>5. /\ node' = [node EXCEPT ![t] = n]
      /\ logNode' = [logNode EXCEPT ![t] = n]
      /\ tracer' = [tracer EXCEPT ![t] = tr]
      /\ codeStack' = [codeStack EXCEPT ![t] = <<1>>]
      /\ record' = [record EXCEPT ![n].status = "Running"]
  BY DEF StartNode, LogContext
<1> HIDE DEF tr
<1>6. /\ node \in [Threads -> Nodes \cup {None}] /\ logNode \in [Threads -> Nodes \cup {None}]
      /\ tracer \in [Threads -> Tracers] /\ codeStack \in [Threads -> Seq(Nat)]
      /\ record \in [Nodes -> Records]
  BY DEF IInv, TypeOK
<1>7. record' \in [Nodes -> Records] /\ record'[n].status = "Running"
  <2>1. [record[n] EXCEPT !.status = "Running"] \in Records
    BY <1>6 DEF Records
  <2> QED BY <1>5, <1>6, <2>1 DEF Records
<1>8. <<1>> \in Seq(Nat)
  OBVIOUS
<1>9. TypeOK'
  BY <1>2, <1>3, <1>4, <1>5, <1>6, <1>7, <1>8 DEF IInv, TypeOK
<1>10. node'[t] = n /\ logNode'[t] = n /\ tracer'[t] = tr /\ codeStack'[t] = <<1>>
  BY <1>5, <1>6
<1>11. StepOf(t, n)
  BY <1>1, <1>2, <1>5, <1>6 DEF StepOf
<1>12. Prints(<<>>, n)'
  BY <1>1, <1>2, NothingPrinted DEF Prints
<1>13. Working(t)'
  BY <1>1, <1>2, <1>3, <1>4, <1>7, <1>10, <1>12 DEF Working, Inside
<1>14. ThreadInv(t)'
  BY <1>1, <1>10, <1>13 DEF ThreadInv, Idle
<1>15. NodeInv(n)'
  BY <1>1, <1>2, <1>10 DEF NodeInv
<1> QED BY <1>9, <1>11, <1>14, <1>15, ThreadFrame

\* A node whose end_run is not reached before its tool has run leaves its log context
\* and a tracer of its own, or of a node of its call that has left it.
LEMMA UntracedNode ==
  ASSUME IInv, NEW t \in Threads, NEW n \in Nodes, Starts(t, n),
         UNCHANGED <<callVars, node, codeStack, buffer, printed, broken, nestedError>>,
         NEW left \in Tracers, tracer' = [tracer EXCEPT ![t] = left],
         left # NoTracer => left.run = n \/ left = tracer[t],
         logNode' = [logNode EXCEPT ![t] = n],
         record' = [record EXCEPT ![n].status = "Running"],
         fate' = [fate EXCEPT ![n] = "untraced"],
         persisted' = persisted \cup {n}
  PROVE  IInv'
<1>1. /\ n \notin broken /\ n \notin persisted /\ node[t] = None /\ n # None
      /\ CallOf[n] = CallOf[t] /\ Inside(CallOf[n]) /\ fate[n] = None
      /\ \A u \in Threads : node[u] # n
      /\ buffer[n] = <<>> /\ LeftClean(t)
  BY FreshNode
<1>2. UNCHANGED <<callPc, loaded, stdout, prevStdout, overlapped, intruded, lineStatus,
                  lineStored>>
  BY DEF callVars, managerVars, lineVars
<1>3. /\ logNode \in [Threads -> Nodes \cup {None}] /\ persisted \subseteq Nodes
      /\ tracer \in [Threads -> Tracers] /\ record \in [Nodes -> Records]
      /\ fate \in [Nodes -> {None, "returned", "raised", "refused", "exited", "untraced"}]
  BY DEF IInv, TypeOK
<1>4. record' \in [Nodes -> Records] /\ record'[n].status = "Running"
  <2>1. [record[n] EXCEPT !.status = "Running"] \in Records
    BY <1>3 DEF Records
  <2> QED BY <1>3, <2>1 DEF Records
<1>5. TypeOK'
  BY <1>2, <1>3, <1>4 DEF IInv, TypeOK
<1>6. /\ tracer'[t] = left /\ logNode'[t] = n
      /\ fate'[n] = "untraced" /\ fate'[n] \in NoEndRun
  BY <1>3 DEF NoEndRun
<1>7. StepOf(t, n)
  BY <1>1, <1>3 DEF StepOf
<1>8. LeftClean(t)'
  <2>1. ASSUME left # NoTracer
        PROVE  left.run \in Nodes /\ CallOf[left.run] = CallOf[t] /\ fate'[left.run] \in NoEndRun
    <3>1. CASE left.run = n
      BY <1>1, <1>6, <3>1
    <3>2. CASE left = tracer[t] /\ left.run # n
      BY <1>1, <1>3, <2>1, <3>2 DEF LeftClean
    <3> QED BY <2>1, <3>1, <3>2
  <2>2. codeStack'[t] = <<>>
    BY <1>1 DEF LeftClean
  <2> QED BY <1>6, <2>1, <2>2 DEF LeftClean
<1>9. ThreadInv(t)'
  BY <1>1, <1>8 DEF ThreadInv, Idle
<1>10. NodeEnded(n)'
  BY <1>1, <1>4, <1>6 DEF NodeEnded, Outcomes
<1>11. NodeInv(n)'
  BY <1>6, <1>10 DEF NodeInv, None
<1> QED BY <1>5, <1>7, <1>9, <1>11, ThreadFrame

\* push_tool raises, and the except clause on the empty stack.
LEMMA PushRaisesStep ==
  ASSUME IInv, NEW t \in Threads, NEW n \in Nodes, PushRaises(t, n)
  PROVE  IInv'
<1> DEFINE left == [NoTracer EXCEPT !.run = n]
<1>1. left \in Tracers /\ left.run = n
  BY NoneTyped, EmptySeq DEF NoTracer, Tracers
<1>2. /\ Starts(t, n)
      /\ UNCHANGED <<callVars, node, codeStack, buffer, printed, broken, nestedError>>
      /\ tracer' = [tracer EXCEPT ![t] = left]
      /\ logNode' = [logNode EXCEPT ![t] = n]
      /\ record' = [record EXCEPT ![n].status = "Running"]
      /\ fate' = [fate EXCEPT ![n] = "untraced"]
      /\ persisted' = persisted \cup {n}
  BY DEF PushRaises, LogContext
<1> HIDE DEF left
<1> QED BY <1>1, <1>2, UntracedNode

\* The refused node cannot be written down either.
LEMMA RefusalRaisesStep ==
  ASSUME IInv, NEW t \in Threads, NEW n \in Nodes, RefusalRaises(t, n)
  PROVE  IInv'
<1> DEFINE left == IF tracer[t].stack = <<>> THEN tracer[t] ELSE NoTracer
<1>1. tracer \in [Threads -> Tracers]
  BY DEF IInv, TypeOK
<1>2. left \in Tracers /\ (left # NoTracer => left = tracer[t])
  BY <1>1, NoneTyped
<1>3. /\ Starts(t, n)
      /\ UNCHANGED <<callVars, node, codeStack, buffer, printed, broken, nestedError>>
      /\ tracer' = [tracer EXCEPT ![t] = left]
      /\ logNode' = [logNode EXCEPT ![t] = n]
      /\ record' = [record EXCEPT ![n].status = "Running"]
      /\ fate' = [fate EXCEPT ![n] = "untraced"]
      /\ persisted' = persisted \cup {n}
  BY DEF RefusalRaises
<1> HIDE DEF left
<1> QED BY <1>2, <1>3, UntracedNode

\* A node is refused because a node before it on the thread was left by SystemExit, or
\* its tracing raised.
LEMMA RefusedStep ==
  ASSUME IInv, NEW t \in Threads, NEW n \in Nodes, NEW endRaises \in BOOLEAN,
         StartIsRefused(t, n, endRaises)
  PROVE  IInv'
<1> DEFINE traces == Pop(tracer[t], 0).traces
           status == IF endRaises THEN "Running" ELSE "Failed"
           left == [status |-> status, traces |-> traces, logs |-> <<>>]
<1>1. /\ buffer[n] = <<>> /\ printed[n] = 0 /\ n \notin broken /\ n \notin persisted
      /\ node[t] = None /\ n # None
      /\ CallOf[n] = CallOf[t] /\ Inside(CallOf[n]) /\ fate[n] = None
      /\ \A u \in Threads : node[u] # n
  BY FreshNode DEF StartIsRefused
<1>2. LeftClean(t)
  BY FreshNode DEF StartIsRefused
<1>3. /\ UNCHANGED callVars
      /\ UNCHANGED <<node, codeStack, buffer, printed, nestedError>>
  BY DEF StartIsRefused
<1>4. UNCHANGED <<callPc, loaded, stdout, prevStdout, overlapped, intruded, lineStatus,
                  lineStored>>
  BY <1>3 DEF callVars, managerVars, lineVars
<1>5. /\ tracer[t] # NoTracer
      /\ tracer' = [tracer EXCEPT ![t] = NoTracer]
      /\ logNode' = [logNode EXCEPT ![t] = IF endRaises THEN n ELSE None]
      /\ record' = [record EXCEPT ![n] = left]
      /\ fate' = [fate EXCEPT ![n] = "refused"]
      /\ broken' = IF endRaises THEN broken \cup {n} ELSE broken
      /\ persisted' = persisted \cup {n}
  BY DEF StartIsRefused
<1>6. /\ node \in [Threads -> Nodes \cup {None}] /\ logNode \in [Threads -> Nodes \cup {None}]
      /\ tracer \in [Threads -> Tracers] /\ record \in [Nodes -> Records]
      /\ fate \in [Nodes -> {None, "returned", "raised", "refused", "exited", "untraced"}]
      /\ broken \subseteq Nodes /\ persisted \subseteq Nodes
  BY DEF IInv, TypeOK
<1>7. left \in Records
  <2>1. Pop(tracer[t], 0) \in Tracers
    BY <1>6, PopFacts
  <2>2. traces \in Seq(Traces) /\ <<>> \in Seq(Lines)
    BY <2>1, EmptySeq DEF Tracers
  <2> HIDE DEF traces
  <2> QED BY <2>2 DEF Records
<1>8. left.status = status
  OBVIOUS
<1> HIDE DEF left
<1>9. TypeOK'
  BY <1>3, <1>4, <1>5, <1>6, <1>7, NoneTyped DEF IInv, TypeOK
<1>10. /\ tracer'[t] = NoTracer /\ logNode'[t] = IF endRaises THEN n ELSE None
       /\ record'[n] = left /\ fate'[n] = "refused"
  BY <1>5, <1>6
<1>11. StepOf(t, n)
  BY <1>1, <1>3, <1>5, <1>6 DEF StepOf
<1>12. LeftClean(t)'
  BY <1>2, <1>3, <1>5, <1>10 DEF LeftClean
<1>13. ThreadInv(t)'
  BY <1>1, <1>3, <1>12 DEF ThreadInv, Idle
<1>14. Unended(CallOf[n])' # {}
  <2>1. /\ tracer[t].run \in Nodes /\ CallOf[tracer[t].run] = CallOf[n]
        /\ fate[tracer[t].run] \in NoEndRun
    BY <1>1, <1>2, <1>5 DEF LeftClean
  <2>2. fate'[tracer[t].run] \in NoEndRun
    BY <1>1, <1>5, <1>6, <2>1 DEF None, NoEndRun
  <2> QED BY <2>1, <2>2 DEF Unended, NodesOf
<1>15. NodeEnded(n)'
  <2>1. IF n \in broken' THEN record'[n].status = "Running" ELSE record'[n].status = "Failed"
    BY <1>1, <1>5, <1>8, <1>10
  <2> QED BY <1>1, <1>3, <1>10, <1>14, <2>1 DEF NodeEnded, Outcomes, NoEndRun
<1>16. NodeInv(n)'
  BY <1>5, <1>10, <1>15 DEF NodeInv, None
<1> QED BY <1>9, <1>11, <1>13, <1>16, ThreadFrame
-----------------------------------------------------------------------------
(* The tool's code *)

\* A line goes into the writer, after the node's lines, or past it once another call
\* has put sys.stdout back.
LEMMA PrintStep ==
  ASSUME IInv, NEW t \in Threads, PrintLine(t)
  PROVE  IInv'
<1>0. PICK n \in Nodes : n = node[t]
  BY AtWork DEF PrintLine
<1> DEFINE line == <<n, printed[n] + 1>>
<1>1. /\ ~ Idle(t) /\ n \in Nodes /\ n # None /\ Working(t)
      /\ \A u \in Threads \ {t} : node[u] # n
  BY <1>0, AtWork DEF PrintLine
<1>2. /\ UNCHANGED callVars
      /\ UNCHANGED <<node, codeStack, tracer, logNode, record, fate, broken, nestedError,
                     persisted>>
  BY DEF PrintLine
<1>3. UNCHANGED <<callPc, loaded, stdout, prevStdout, overlapped, intruded, lineStatus,
                  lineStored>>
  BY <1>2 DEF callVars, managerVars, lineVars
<1>4. /\ CallOf[n] = CallOf[t] /\ Inside(CallOf[n]) /\ fate[n] = None /\ logNode[t] = n
      /\ Prints(buffer[n], n)
  BY <1>0, <1>1 DEF Working
<1>5. /\ printed' = [printed EXCEPT ![n] = @ + 1]
      /\ buffer' = IF stdout = "writer" THEN [buffer EXCEPT ![n] = Append(@, line)] ELSE buffer
  BY <1>0, <1>4 DEF PrintLine
<1>6. buffer \in [Nodes -> Seq(Lines)] /\ printed \in [Nodes -> Nat] /\ NodeInv(n)
  BY <1>1 DEF IInv, TypeOK
<1>7. /\ Append(buffer[n], line) \in Seq(Lines)
      /\ LinesInOrder(buffer[n], n, printed[n]) =>
           /\ LinesInOrder(buffer[n], n, printed[n] + 1)
           /\ LinesInOrder(Append(buffer[n], line), n, printed[n] + 1)
      /\ buffer[n] = FirstLines(n, printed[n]) =>
           Append(buffer[n], line) = FirstLines(n, printed[n] + 1)
  BY <1>1, <1>6, NextLine
<1> HIDE DEF line
<1>8. /\ buffer'[n] = IF stdout = "writer" THEN Append(buffer[n], line) ELSE buffer[n]
      /\ printed'[n] = printed[n] + 1
  BY <1>1, <1>5, <1>6
<1>9. TypeOK'
  <2>1. [buffer EXCEPT ![n] = Append(@, line)] \in [Nodes -> Seq(Lines)]
    BY <1>6, <1>7
  <2>2. buffer' \in [Nodes -> Seq(Lines)]
    BY <1>5, <1>6, <2>1
  <2>3. printed' \in [Nodes -> Nat]
    BY <1>5, <1>6
  <2> QED BY <1>2, <1>3, <2>2, <2>3 DEF IInv, TypeOK
<1>10. StepOf(t, n)
  <2>1. \A m \in Nodes \ {n} : buffer'[m] = buffer[m] /\ printed'[m] = printed[m]
    BY <1>5, <1>6
  <2> QED BY <1>0, <1>1, <1>2, <1>4, <2>1 DEF StepOf
<1>11. CallOf[n] \notin intruded => stdout = "writer"
  <2>1. CallOf[n] \in Calls
    BY <1>1, InvocationAssumption
  <2> QED BY <1>4, <2>1 DEF IInv, WriterInPlace
<1>12. Prints(buffer[n], n)'
  <2>1. LinesInOrder(buffer'[n], n, printed'[n])
    BY <1>4, <1>7, <1>8 DEF Prints
  <2>2. CallOf[n] \notin intruded => buffer'[n] = FirstLines(n, printed'[n])
    BY <1>4, <1>7, <1>8, <1>11 DEF Prints
  <2>3. intruded' = intruded
    BY <1>3
  <2> QED BY <2>1, <2>2, <2>3 DEF Prints
<1>13. ThreadInv(t)'
  BY <1>0, <1>1, <1>2, <1>3, <1>12 DEF ThreadInv, Idle, Working, Inside
<1>14. NodeInv(n)'
  <2>1. node'[t] = n
    BY <1>0, <1>2
  <2> QED BY <1>2, <1>4, <1>6, <2>1 DEF NodeInv
<1> QED BY <1>1, <1>9, <1>10, <1>13, <1>14, ThreadFrame

\* The calls a tool makes change only the tracer and the stack of the thread.
LEMMA CodeFrame ==
  ASSUME IInv, NEW t \in Threads, ~ Idle(t),
         UNCHANGED <<callVars, node, logNode, buffer, printed, record, fate, broken, persisted>>,
         tracer' \in [Threads -> Tracers], codeStack' \in [Threads -> Seq(Nat)],
         \A u \in Threads \ {t} : tracer'[u] = tracer[u] /\ codeStack'[u] = codeStack[u],
         nestedError' \subseteq Nodes, nestedError \subseteq nestedError',
         \A m \in Nodes \ {node[t]} : m \in nestedError' => m \in nestedError,
         tracer'[t].run = tracer[t].run,
         Len(codeStack'[t]) >= 1,
         node[t] \notin nestedError' => Follows(tracer'[t], codeStack'[t])
  PROVE  IInv'
<1>0. PICK n \in Nodes : n = node[t]
  BY AtWork
<1>1. /\ n \in Nodes /\ n # None /\ Working(t)
      /\ \A u \in Threads \ {t} : node[u] # n
  BY <1>0, AtWork
<1>2. UNCHANGED <<callPc, loaded, stdout, prevStdout, overlapped, intruded, lineStatus,
                  lineStored>>
  BY DEF callVars, managerVars, lineVars
<1>3. TypeOK'
  BY <1>2 DEF IInv, TypeOK
<1>4. StepOf(t, n)
  BY <1>0, <1>1 DEF StepOf, Working
<1>5. Working(t)'
  BY <1>0, <1>1, <1>2 DEF Working, Inside, Prints
<1>6. ThreadInv(t)'
  BY <1>0, <1>5 DEF ThreadInv, Idle
<1>7. NodeInv(n)'
  <2>1. NodeInv(n) /\ fate[n] = None
    BY <1>0, <1>1 DEF IInv, Working
  <2> QED BY <1>0, <2>1 DEF NodeInv
<1> QED BY <1>1, <1>3, <1>4, <1>6, <1>7, ThreadFrame

\* The number of the next trace.
LEMMA NextTrace ==
  ASSUME NEW tr \in Tracers
  PROVE  Len(tr.traces) + 1 \in Nat
<1>1. tr.traces \in Seq(Traces)
  BY DEF Tracers
<1> QED BY <1>1, LenProperties

\* An injected API is called, and its trace is closed when it is over.
LEMMA ApiStep ==
  ASSUME IInv, NEW t \in Threads, NEW returned \in BOOLEAN, CallApi(t, returned)
  PROVE  IInv'
<1> DEFINE pushed == Push(tracer[t], Caller(t), "LLM")
           new == Len(tracer[t].traces) + 1
           after == AfterApi(pushed, new, returned)
<1>1. /\ ~ Idle(t) /\ Working(t)
      /\ codeStack[t] \in Seq(Nat) /\ tracer[t] \in Tracers
  BY AtWork DEF CallApi, MayCall
<1>2. /\ UNCHANGED <<callVars, node, codeStack, logNode, buffer, printed, record, fate, broken,
                     nestedError, persisted>>
      /\ tracer' = [tracer EXCEPT ![t] = after]
  BY DEF CallApi
<1>3. Len(codeStack[t]) >= 1 /\ Caller(t) = Last(codeStack[t]) /\ Caller(t) \in Nat
  BY <1>1, FrontFacts DEF Working, Caller
<1>4. pushed \in Tracers /\ pushed.run = tracer[t].run /\ new \in Nat
  BY <1>1, <1>3, PushFacts, NextTrace
<1>5. after = Pop(pushed, new)
  BY DEF AfterApi
<1>6. after \in Tracers /\ after.run = tracer[t].run
  <2> HIDE DEF pushed, new, after
  <2> QED BY <1>4, <1>5, PopFacts
<1>7. node[t] \notin nestedError => Follows(after, codeStack[t])
  BY <1>1, <1>3, ApiFollows DEF Working
<1> HIDE DEF after
<1>8. /\ tracer \in [Threads -> Tracers] /\ codeStack \in [Threads -> Seq(Nat)]
      /\ nestedError \subseteq Nodes
  BY DEF IInv, TypeOK
<1>9. /\ tracer' \in [Threads -> Tracers] /\ tracer'[t] = after
      /\ \A u \in Threads \ {t} : tracer'[u] = tracer[u]
  BY <1>2, <1>6, <1>8
<1>10. node[t] \notin nestedError' => Follows(tracer'[t], codeStack'[t])
  BY <1>2, <1>7, <1>9
<1> QED BY <1>1, <1>2, <1>3, <1>6, <1>8, <1>9, <1>10, CodeFrame

\* The tool calls another one, which runs on the same tracer.
LEMMA CallToolStep ==
  ASSUME IInv, NEW t \in Threads, CallTool(t)
  PROVE  IInv'
<1> DEFINE pushed == Push(tracer[t], Caller(t), "TOOL")
           called == Append(codeStack[t], Len(tracer[t].traces) + 1)
<1>1. /\ ~ Idle(t) /\ Working(t)
      /\ codeStack[t] \in Seq(Nat) /\ tracer[t] \in Tracers
  BY AtWork DEF CallTool, MayCall
<1>2. /\ UNCHANGED <<callVars, node, logNode, buffer, printed, record, fate, broken,
                     nestedError, persisted>>
      /\ tracer' = [tracer EXCEPT ![t] = pushed]
      /\ codeStack' = [codeStack EXCEPT ![t] = called]
  BY DEF CallTool
<1>3. Len(codeStack[t]) >= 1 /\ Caller(t) = Last(codeStack[t]) /\ Caller(t) \in Nat
  BY <1>1, FrontFacts DEF Working, Caller
<1>4. pushed \in Tracers /\ pushed.run = tracer[t].run
  BY <1>1, <1>3, PushFacts
<1>5. called \in Seq(Nat) /\ Len(called) = Len(codeStack[t]) + 1
  <2>1. Len(tracer[t].traces) + 1 \in Nat
    BY <1>1, NextTrace
  <2> QED BY <1>1, <2>1, AppendProperties
<1>6. node[t] \notin nestedError => Follows(pushed, called)
  BY <1>1, <1>3, PushFollows DEF Working
<1> HIDE DEF pushed, called
<1>7. Len(codeStack[t]) \in Nat /\ Len(called) >= 1
  <2>1. Len(codeStack[t]) \in Nat
    BY <1>1, LenProperties
  <2> QED BY <1>5, <2>1
<1>8. /\ tracer \in [Threads -> Tracers] /\ codeStack \in [Threads -> Seq(Nat)]
      /\ nestedError \subseteq Nodes
  BY DEF IInv, TypeOK
<1>9. /\ tracer' \in [Threads -> Tracers] /\ tracer'[t] = pushed
      /\ \A u \in Threads \ {t} : tracer'[u] = tracer[u]
  BY <1>2, <1>4, <1>8
<1>10. /\ codeStack' \in [Threads -> Seq(Nat)] /\ codeStack'[t] = called
       /\ \A u \in Threads \ {t} : codeStack'[u] = codeStack[u]
  BY <1>2, <1>5, <1>8
<1>11. node[t] \notin nestedError' => Follows(tracer'[t], codeStack'[t])
  BY <1>2, <1>6, <1>9, <1>10
<1> QED BY <1>1, <1>2, <1>4, <1>7, <1>8, <1>9, <1>10, <1>11, CodeFrame

\* The stack of the code when a called tool is left.
LEMMA ReturnFacts ==
  ASSUME IInv, NEW t \in Threads, Len(codeStack[t]) > 1
  PROVE  /\ ~ Idle(t) /\ node[t] \in Nodes /\ Working(t) /\ tracer[t] \in Tracers
         /\ codeStack[t] \in Seq(Nat)
         /\ Caller(t) = Last(codeStack[t]) /\ Caller(t) \in Nat
         /\ Front(codeStack[t]) \in Seq(Nat) /\ Len(Front(codeStack[t])) >= 1
<1>1. codeStack[t] \in Seq(Nat)
  BY DEF IInv, TypeOK
<1>2. Len(codeStack[t]) \in Nat
  BY <1>1, LenProperties
<1>3. Len(codeStack[t]) >= 1
  BY <1>2
<1>4. /\ Front(codeStack[t]) \in Seq(Nat)
      /\ Len(Front(codeStack[t])) = Len(codeStack[t]) - 1
      /\ Last(codeStack[t]) \in Nat
  BY <1>1, <1>3, FrontFacts
<1>5. Len(Front(codeStack[t])) >= 1
  BY <1>2, <1>4
<1> QED BY <1>1, <1>3, <1>4, <1>5, AtWork DEF Caller

\* The called tool returns: its trace is closed with its outcome.
LEMMA ToolReturnsStep ==
  ASSUME IInv, NEW t \in Threads, CalledToolReturns(t)
  PROVE  IInv'
<1> DEFINE popped == Pop(tracer[t], Caller(t))
           rest == Front(codeStack[t])
<1>1. /\ ~ Idle(t) /\ Working(t) /\ tracer[t] \in Tracers
      /\ codeStack[t] \in Seq(Nat)
      /\ Caller(t) = Last(codeStack[t]) /\ Caller(t) \in Nat
      /\ rest \in Seq(Nat) /\ Len(rest) >= 1
  BY ReturnFacts DEF CalledToolReturns
<1>2. /\ UNCHANGED <<callVars, node, logNode, buffer, printed, record, fate, broken,
                     nestedError, persisted>>
      /\ tracer' = [tracer EXCEPT ![t] = popped]
      /\ codeStack' = [codeStack EXCEPT ![t] = rest]
      /\ Len(codeStack[t]) > 1
  BY DEF CalledToolReturns
<1>3. popped \in Tracers /\ popped.run = tracer[t].run
  BY <1>1, PopFacts
<1>4. node[t] \notin nestedError => Follows(popped, rest)
  BY <1>1, <1>2, ReturnFollows DEF Working
<1> HIDE DEF popped, rest
<1>5. /\ tracer \in [Threads -> Tracers] /\ codeStack \in [Threads -> Seq(Nat)]
      /\ nestedError \subseteq Nodes
  BY DEF IInv, TypeOK
<1>6. /\ tracer' \in [Threads -> Tracers] /\ tracer'[t] = popped
      /\ \A u \in Threads \ {t} : tracer'[u] = tracer[u]
  BY <1>2, <1>3, <1>5
<1>7. /\ codeStack' \in [Threads -> Seq(Nat)] /\ codeStack'[t] = rest
      /\ \A u \in Threads \ {t} : codeStack'[u] = codeStack[u]
  BY <1>1, <1>2, <1>5
<1>8. node[t] \notin nestedError' => Follows(tracer'[t], codeStack'[t])
  BY <1>2, <1>4, <1>6, <1>7
<1> QED BY <1>1, <1>2, <1>3, <1>5, <1>6, <1>7, <1>8, CodeFrame

\* The called tool raises: its trace stays open.
LEMMA ToolRaisesStep ==
  ASSUME IInv, NEW t \in Threads, CalledToolRaises(t)
  PROVE  IInv'
<1> DEFINE rest == Front(codeStack[t])
<1>1. /\ ~ Idle(t) /\ node[t] \in Nodes /\ rest \in Seq(Nat) /\ Len(rest) >= 1
  BY ReturnFacts DEF CalledToolRaises
<1>2. /\ UNCHANGED <<callVars, node, tracer, logNode, buffer, printed, record, fate, broken,
                     persisted>>
      /\ codeStack' = [codeStack EXCEPT ![t] = rest]
      /\ nestedError' = nestedError \cup {node[t]}
  BY DEF CalledToolRaises
<1> HIDE DEF rest
<1>3. /\ tracer \in [Threads -> Tracers] /\ codeStack \in [Threads -> Seq(Nat)]
      /\ nestedError \subseteq Nodes
  BY DEF IInv, TypeOK
<1>4. /\ codeStack' \in [Threads -> Seq(Nat)] /\ codeStack'[t] = rest
      /\ \A u \in Threads \ {t} : codeStack'[u] = codeStack[u]
  BY <1>1, <1>2, <1>3
<1> QED BY <1>1, <1>2, <1>3, <1>4, CodeFrame
-----------------------------------------------------------------------------
(* The end of a node *)

\* A thread whose tool is back, or was left, with the node that it had.
LEMMA EndingNode ==
  ASSUME IInv, NEW t \in Threads, ~ Idle(t) \/ Len(codeStack[t]) = 1,
         NEW n \in Nodes, n = node[t]
  PROVE  /\ ~ Idle(t) /\ n # None /\ tracer[t] \in Tracers
         /\ CallOf[n] = CallOf[t] /\ Inside(CallOf[n])
         /\ fate[n] = None /\ record[n].status = "Running"
         /\ tracer[t].run = n /\ logNode[t] = n
         /\ n \notin broken /\ n \notin persisted
         /\ \A u \in Threads : u # t => node[u] # n
         /\ Len(codeStack[t]) = 1 /\ n \notin nestedError => Tree(Pop(tracer[t], 1).traces)
         /\ Prints(buffer[n], n)
<1>1. /\ ~ Idle(t) /\ n # None /\ Working(t)
      /\ \A u \in Threads \ {t} : node[u] # n
      /\ codeStack[t] \in Seq(Nat) /\ tracer[t] \in Tracers
  BY AtWork
<1>2. fate[n] = None
  BY <1>1 DEF Working
<1>3. n \notin broken /\ n \notin persisted
  BY <1>2 DEF IInv, NodeInv
<1>4. Len(codeStack[t]) = 1 /\ n \notin nestedError => Tree(Pop(tracer[t], 1).traces)
  BY <1>1, LastPop DEF Working
<1> QED BY <1>1, <1>3, <1>4 DEF Working

\* The type of the record of a node that ends.
LEMMA EndedRecord ==
  ASSUME IInv, NEW t \in Threads, NEW n \in Nodes, tracer[t] \in Tracers
  PROVE  /\ Pop(tracer[t], 1).traces \in Seq(Traces)
         /\ buffer[n] \in Seq(Lines) /\ record[n] \in Records /\ record[n].logs \in Seq(Lines)
<1>1. buffer[n] \in Seq(Lines) /\ record[n] \in Records
  BY DEF IInv, TypeOK
<1>2. Pop(tracer[t], 1) \in Tracers
  BY PopFacts
<1>3. Pop(tracer[t], 1).traces \in Seq(Traces)
  BY <1>2 DEF Tracers
<1>4. record[n].logs \in Seq(Lines)
  BY <1>1 DEF Records
<1> QED BY <1>1, <1>3, <1>4

\* What a thread that finished its node leaves alone.
LEMMA FinishedNode ==
  ASSUME IInv, NEW t \in Threads, NEW n \in Nodes, n = node[t], ~ Idle(t),
         Finish(t), UNCHANGED <<callVars, printed, nestedError>>,
         NEW ended \in {"returned", "raised", "exited", "untraced"},
         fate' = [fate EXCEPT ![n] = ended],
         record' \in [Nodes -> Records], \A m \in Nodes \ {n} : record'[m] = record[m],
         buffer' \in [Nodes -> Seq(Lines)], \A m \in Nodes \ {n} : buffer'[m] = buffer[m],
         tracer' \in [Threads -> Tracers], \A u \in Threads \ {t} : tracer'[u] = tracer[u],
         logNode' \in [Threads -> Nodes \cup {None}],
         \A u \in Threads \ {t} : logNode'[u] = logNode[u],
         broken' = broken \/ broken' = broken \cup {n},
         tracer'[t] # NoTracer => tracer'[t].run = n /\ ended \in NoEndRun,
         logNode'[t] # None => logNode'[t] = n /\ (ended \in NoEndRun \/ n \in broken'),
         NodeEnded(n)'
  PROVE  IInv'
<1>1. /\ n # None /\ CallOf[n] = CallOf[t] /\ Inside(CallOf[n]) /\ fate[n] = None
      /\ n \notin broken /\ n \notin persisted
      /\ \A u \in Threads : u # t => node[u] # n
  BY EndingNode
<1>2. UNCHANGED <<callPc, loaded, stdout, prevStdout, overlapped, intruded, lineStatus,
                  lineStored>>
  BY DEF callVars, managerVars, lineVars
<1>3. /\ node' = [node EXCEPT ![t] = None]
      /\ codeStack' = [codeStack EXCEPT ![t] = <<>>]
      /\ persisted' = persisted \cup {n}
  BY DEF Finish
<1>4. /\ node \in [Threads -> Nodes \cup {None}] /\ codeStack \in [Threads -> Seq(Nat)]
      /\ fate \in [Nodes -> {None, "returned", "raised", "refused", "exited", "untraced"}]
      /\ broken \subseteq Nodes /\ persisted \subseteq Nodes
  BY DEF IInv, TypeOK
<1>5. codeStack' \in [Threads -> Seq(Nat)]
  <2>1. <<>> \in Seq(Nat)
    BY EmptySeq
  <2> QED BY <1>3, <1>4, <2>1
<1>6. /\ node' \in [Threads -> Nodes \cup {None}]
      /\ fate' \in [Nodes -> {None, "returned", "raised", "refused", "exited", "untraced"}]
      /\ broken' \subseteq Nodes /\ persisted' \subseteq Nodes
  BY <1>3, <1>4
<1>7. TypeOK'
  BY <1>2, <1>5, <1>6 DEF IInv, TypeOK
<1>8. node'[t] = None /\ codeStack'[t] = <<>> /\ fate'[n] = ended
  BY <1>3, <1>4
<1>9. StepOf(t, n)
  <2>1. \A u \in Threads \ {t} : node'[u] = node[u] /\ codeStack'[u] = codeStack[u]
    BY <1>3, <1>4
  <2>2. \A m \in Nodes \ {n} : fate'[m] = fate[m]
    BY <1>4
  <2>3. \A m \in Nodes \ {n} : /\ (m \in broken') = (m \in broken)
                               /\ (m \in persisted') = (m \in persisted)
    BY <1>3
  <2> QED BY <1>1, <1>8, <2>1, <2>2, <2>3 DEF StepOf
<1>10. LeftClean(t)'
  <2>1. tracer'[t] # NoTracer => /\ tracer'[t].run \in Nodes
                                 /\ CallOf[tracer'[t].run] = CallOf[t]
                                 /\ fate'[tracer'[t].run] \in NoEndRun
    BY <1>1, <1>8
  <2>2. logNode'[t] # None => fate'[logNode'[t]] \in NoEndRun \/ logNode'[t] \in broken'
    BY <1>8
  <2> QED BY <1>8, <2>1, <2>2 DEF LeftClean
<1>11. ThreadInv(t)'
  BY <1>8, <1>10 DEF ThreadInv, Idle
<1>12. NodeInv(n)'
  BY <1>3, <1>8 DEF NodeInv, None
<1> QED BY <1>7, <1>9, <1>11, <1>12, ThreadFrame

\* The tool is over: the record takes the traces and the lines.
LEMMA EndNodeStep ==
  ASSUME IInv, NEW t \in Threads, NEW outcome \in Outcomes, EndNode(t, outcome)
  PROVE  IInv'
<1>0. PICK n \in Nodes : n = node[t]
  <2>1. Len(codeStack[t]) >= 1
    BY DEF EndNode
  <2> QED BY <2>1, AtWork
<1> DEFINE traces == Pop(tracer[t], 1).traces
           left == [status |-> StatusAfter(outcome), traces |-> traces, logs |-> buffer[n]]
<1>1. /\ Len(codeStack[t]) = 1 /\ Finish(t) /\ UNCHANGED <<callVars, printed, broken, nestedError>>
      /\ record' = [record EXCEPT ![n] = left]
      /\ tracer' = [tracer EXCEPT ![t] = NoTracer]
      /\ buffer' = [buffer EXCEPT ![n] = <<>>]
      /\ logNode' = [logNode EXCEPT ![t] = IF @ = n THEN None ELSE @]
      /\ fate' = [fate EXCEPT ![n] = outcome]
  BY <1>0 DEF EndNode, TracerAfter
<1>2. /\ ~ Idle(t) /\ tracer[t] \in Tracers /\ logNode[t] = n /\ n \notin broken
      /\ n \notin nestedError => Tree(traces)
      /\ Prints(buffer[n], n)
  BY <1>0, <1>1, EndingNode
<1>3. traces \in Seq(Traces) /\ buffer[n] \in Seq(Lines)
  BY <1>2, EndedRecord
<1> HIDE DEF traces
<1>4. left \in Records
  BY <1>3 DEF Records, StatusAfter
<1>5. left.status = StatusAfter(outcome) /\ left.traces = traces /\ left.logs = buffer[n]
  OBVIOUS
<1> HIDE DEF left
<1>6. /\ record \in [Nodes -> Records] /\ buffer \in [Nodes -> Seq(Lines)]
      /\ tracer \in [Threads -> Tracers] /\ logNode \in [Threads -> Nodes \cup {None}]
      /\ fate \in [Nodes -> {None, "returned", "raised", "refused", "exited", "untraced"}]
  BY DEF IInv, TypeOK
<1>7. /\ record' \in [Nodes -> Records] /\ record'[n] = left
      /\ \A m \in Nodes \ {n} : record'[m] = record[m]
  BY <1>1, <1>4, <1>6
<1>8. /\ buffer' \in [Nodes -> Seq(Lines)] /\ buffer'[n] = <<>>
      /\ \A m \in Nodes \ {n} : buffer'[m] = buffer[m]
  <2>1. <<>> \in Seq(Lines)
    BY EmptySeq
  <2> QED BY <1>1, <1>6, <2>1
<1>9. /\ tracer' \in [Threads -> Tracers] /\ tracer'[t] = NoTracer
      /\ \A u \in Threads \ {t} : tracer'[u] = tracer[u]
  BY <1>1, <1>6, NoneTyped
<1>10. /\ logNode' \in [Threads -> Nodes \cup {None}] /\ logNode'[t] = None
       /\ \A u \in Threads \ {t} : logNode'[u] = logNode[u]
  BY <1>1, <1>2, <1>6
<1>11. fate'[n] = outcome /\ n \notin broken'
  BY <1>1, <1>2, <1>6
<1>12. Prints(record[n].logs, n)'
  <2>1. record'[n].logs = buffer[n] /\ printed' = printed /\ intruded' = intruded
    BY <1>1, <1>5, <1>7 DEF callVars, managerVars
  <2> QED BY <1>2, <2>1 DEF Prints
<1>13. NodeEnded(n)'
  <2>1. record'[n].status = (IF outcome = "returned" THEN "Completed" ELSE "Failed")
    BY <1>5, <1>7 DEF StatusAfter
  <2>2. outcome \notin NoEndRun /\ outcome # "refused"
    BY DEF Outcomes, NoEndRun
  <2>3. n \notin nestedError' => Tree(record'[n].traces)
    BY <1>1, <1>2, <1>5, <1>7
  <2> QED BY <1>8, <1>11, <1>12, <2>1, <2>2, <2>3 DEF NodeEnded
<1>14. outcome \in {"returned", "raised", "exited", "untraced"}
  BY DEF Outcomes
<1> QED BY <1>0, <1>1, <1>2, <1>7, <1>8, <1>9, <1>10, <1>13, <1>14, FinishedNode

\* end_run raises: the record keeps its status "Running".
LEMMA EndRunStep ==
  ASSUME IInv, NEW t \in Threads, NEW outcome \in Outcomes, NEW stage \in {"metrics", "values"},
         EndRunRaises(t, outcome, stage)
  PROVE  IInv'
<1>0. PICK n \in Nodes : n = node[t]
  <2>1. Len(codeStack[t]) >= 1
    BY DEF EndRunRaises
  <2> QED BY <2>1, AtWork
<1> DEFINE traces == Pop(tracer[t], 1).traces
           logsTaken == stage = "values"
           logs == IF logsTaken THEN buffer[n] ELSE record[n].logs
           left == [record[n] EXCEPT !.traces = traces, !.logs = logs]
<1>1. /\ Len(codeStack[t]) = 1 /\ Finish(t) /\ UNCHANGED <<callVars, printed, nestedError>>
      /\ record' = [record EXCEPT ![n].traces = traces,
                                  ![n].logs = IF logsTaken THEN buffer[n] ELSE @]
      /\ tracer' = [tracer EXCEPT ![t] = NoTracer]
      /\ buffer' = [buffer EXCEPT ![n] = IF logsTaken THEN <<>> ELSE @]
      /\ logNode' = [logNode EXCEPT ![t] = IF logsTaken /\ @ = n THEN None ELSE @]
      /\ fate' = [fate EXCEPT ![n] = outcome]
      /\ broken' = broken \cup {n}
  BY <1>0 DEF EndRunRaises, TracerAfter
<1>2. /\ ~ Idle(t) /\ tracer[t] \in Tracers /\ logNode[t] = n /\ record[n].status = "Running"
      /\ n \notin nestedError => Tree(traces)
  BY <1>0, <1>1, EndingNode
<1>3. traces \in Seq(Traces) /\ buffer[n] \in Seq(Lines) /\ logs \in Seq(Lines)
  BY <1>2, EndedRecord
<1>4. /\ record \in [Nodes -> Records] /\ buffer \in [Nodes -> Seq(Lines)]
      /\ tracer \in [Threads -> Tracers] /\ logNode \in [Threads -> Nodes \cup {None}]
      /\ fate \in [Nodes -> {None, "returned", "raised", "refused", "exited", "untraced"}]
  BY DEF IInv, TypeOK
<1>5. /\ record'[n] = left
      /\ \A m \in Nodes \ {n} : record'[m] = record[m]
      /\ DOMAIN record' = Nodes
      /\ record' = [m \in Nodes |-> record'[m]]
  BY <1>1, <1>4
<1> HIDE DEF traces, logs
<1>6. left \in Records /\ left.status = "Running" /\ left.traces = traces
  <2>1. ASSUME NEW Ss, NEW Ts, NEW Ls, record[n] \in [status : Ss, traces : Ts, logs : Ls],
               traces \in Ts, logs \in Ls
        PROVE  /\ left \in [status : Ss, traces : Ts, logs : Ls]
               /\ left.status = record[n].status /\ left.traces = traces
    BY <2>1
  <2>2. record[n] \in Records
    BY <1>4
  <2> HIDE DEF left
  <2> QED BY <1>2, <1>3, <2>1, <2>2 DEF Records
<1> HIDE DEF left
<1>7. record' \in [Nodes -> Records]
  BY <1>4, <1>5, <1>6
<1>8. /\ buffer' \in [Nodes -> Seq(Lines)]
      /\ \A m \in Nodes \ {n} : buffer'[m] = buffer[m]
  <2>1. <<>> \in Seq(Lines)
    BY EmptySeq
  <2> QED BY <1>1, <1>4, <2>1
<1>9. /\ tracer' \in [Threads -> Tracers] /\ tracer'[t] = NoTracer
      /\ \A u \in Threads \ {t} : tracer'[u] = tracer[u]
  BY <1>1, <1>4, NoneTyped
<1>10. /\ logNode' \in [Threads -> Nodes \cup {None}] /\ logNode'[t] \in {n, None}
       /\ \A u \in Threads \ {t} : logNode'[u] = logNode[u]
  BY <1>1, <1>2, <1>4
<1>11. fate'[n] = outcome /\ n \in broken'
  BY <1>1, <1>4
<1>12. NodeEnded(n)'
  BY <1>1, <1>2, <1>5, <1>6, <1>11 DEF NodeEnded, Outcomes
<1>13. outcome \in {"returned", "raised", "exited", "untraced"}
  BY DEF Outcomes
<1>14. broken' = broken \cup {n}
  BY <1>1
<1> QED
  BY <1>0, <1>1, <1>2, <1>5, <1>7, <1>8, <1>9, <1>10, <1>11, <1>12, <1>13, FinishedNode

\* SystemExit: the tracer and the log context stay with the thread.
LEMMA ExitsStep ==
  ASSUME IInv, NEW t \in Threads, ToolExits(t)
  PROVE  IInv'
<1>0. PICK n \in Nodes : n = node[t]
  BY AtWork DEF ToolExits
<1>1. /\ ~ Idle(t) /\ Finish(t)
      /\ UNCHANGED <<callVars, tracer, logNode, buffer, printed, record, broken, nestedError>>
      /\ fate' = [fate EXCEPT ![n] = "exited"]
  BY <1>0 DEF ToolExits
<1>2. /\ tracer[t].run = n /\ logNode[t] = n /\ n \notin broken
      /\ record[n].status = "Running"
  BY <1>0, <1>1, EndingNode
<1>3. /\ record \in [Nodes -> Records] /\ buffer \in [Nodes -> Seq(Lines)]
      /\ tracer \in [Threads -> Tracers] /\ logNode \in [Threads -> Nodes \cup {None}]
      /\ fate \in [Nodes -> {None, "returned", "raised", "refused", "exited", "untraced"}]
  BY DEF IInv, TypeOK
<1>4. fate'[n] = "exited" /\ fate'[n] \in NoEndRun
  BY <1>1, <1>3 DEF NoEndRun
<1>5. NodeEnded(n)'
  BY <1>1, <1>2, <1>4 DEF NodeEnded, Outcomes
<1>6. "exited" \in NoEndRun
  BY DEF NoEndRun
<1> QED BY <1>0, <1>1, <1>2, <1>3, <1>5, <1>6, FinishedNode

\* The except clause raises before end_run: the tracer stays if its trace is open.
LEMMA TraceRaisesStep ==
  ASSUME IInv, NEW t \in Threads, NEW closed \in BOOLEAN, TraceRaises(t, closed)
  PROVE  IInv'
<1>0. PICK n \in Nodes : n = node[t]
  <2>1. Len(codeStack[t]) >= 1
    BY DEF TraceRaises
  <2> QED BY <2>1, AtWork
<1>1. /\ Len(codeStack[t]) = 1 /\ Finish(t)
      /\ UNCHANGED <<callVars, logNode, buffer, printed, record, broken, nestedError>>
      /\ tracer' = [tracer EXCEPT ![t] = IF closed THEN NoTracer ELSE @]
      /\ fate' = [fate EXCEPT ![n] = "untraced"]
  BY <1>0 DEF TraceRaises, TracerAfter
<1>2. /\ ~ Idle(t) /\ tracer[t].run = n /\ logNode[t] = n /\ n \notin broken
      /\ record[n].status = "Running"
  BY <1>0, <1>1, EndingNode
<1>3. /\ record \in [Nodes -> Records] /\ buffer \in [Nodes -> Seq(Lines)]
      /\ tracer \in [Threads -> Tracers] /\ logNode \in [Threads -> Nodes \cup {None}]
      /\ fate \in [Nodes -> {None, "returned", "raised", "refused", "exited", "untraced"}]
  BY DEF IInv, TypeOK
<1>4. fate'[n] = "untraced" /\ fate'[n] \in NoEndRun
  BY <1>1, <1>3 DEF NoEndRun
<1>5. /\ tracer' \in [Threads -> Tracers] /\ tracer'[t] \in {tracer[t], NoTracer}
      /\ \A u \in Threads \ {t} : tracer'[u] = tracer[u]
  BY <1>1, <1>3, NoneTyped
<1>6. NodeEnded(n)'
  BY <1>1, <1>2, <1>4 DEF NodeEnded, Outcomes
<1>7. tracer'[t] # NoTracer => tracer'[t].run = n
  BY <1>2, <1>5
<1>8. "untraced" \in NoEndRun
  BY DEF NoEndRun
<1> QED BY <1>0, <1>1, <1>2, <1>3, <1>5, <1>6, <1>7, <1>8, FinishedNode
-----------------------------------------------------------------------------
(* The log manager *)

\* A step of a call leaves alone what holds of the threads and of the nodes, if the
\* call only leaves when its threads are done.
LEMMA CallFrame ==
  ASSUME IInv, UNCHANGED nodeVars, intruded \subseteq intruded',
         \A t \in Threads : Inside(CallOf[t]) /\ ~ Idle(t) => Inside(CallOf[t])',
         TypeOK', \A d \in Calls : LineInv(d)', WriterInPlace', SavedBefore', Alone'
  PROVE  IInv'
<1>1. UNCHANGED <<node, codeStack, tracer, logNode, buffer, printed, record, fate, broken,
                  nestedError, persisted>>
  BY DEF nodeVars
<1>2. ASSUME NEW t \in Threads PROVE ThreadInv(t)'
  <2>1. ThreadInv(t)
    BY DEF IInv
  <2>2. CASE Idle(t)
    BY <1>1, <2>1, <2>2 DEF ThreadInv, Idle, LeftClean
  <2>3. CASE ~ Idle(t)
    <3>1. Working(t)
      BY <2>1, <2>3 DEF ThreadInv
    <3>2. Prints(buffer[node[t]], node[t])'
      BY <1>1, <3>1 DEF Working, Prints
    <3>3. Inside(CallOf[node[t]])'
      BY <1>1, <2>3, <3>1 DEF Working
    <3>4. Working(t)'
      BY <1>1, <3>1, <3>2, <3>3 DEF Working
    <3> QED BY <1>1, <2>3, <3>4 DEF ThreadInv, Idle
  <2> QED BY <2>2, <2>3
<1>3. ASSUME NEW n \in Nodes PROVE NodeInv(n)'
  <2>1. NodeInv(n)
    BY DEF IInv
  <2>2. Prints(record[n].logs, n) => Prints(record[n].logs, n)'
    BY <1>1 DEF Prints
  <2>3. NodeEnded(n) => NodeEnded(n)'
    BY <1>1, <2>2 DEF NodeEnded, Unended, NodesOf
  <2> QED BY <1>1, <2>1, <2>3 DEF NodeInv
<1>4. OneThread'
  BY <1>1 DEF IInv, OneThread, Idle
<1> QED BY <1>2, <1>3, <1>4 DEF IInv

\* The end of other calls' lines does not change with a step of call c.
LEMMA OtherLines ==
  ASSUME IInv, NEW c \in Calls, UNCHANGED nodeVars,
         \A d \in Calls \ {c} : /\ callPc'[d] = callPc[d]
                                /\ lineStatus'[d] = lineStatus[d]
                                /\ lineStored'[d] = lineStored[d]
  PROVE  \A d \in Calls \ {c} : LineInv(d)'
<1>1. fate' = fate /\ broken' = broken
  BY DEF nodeVars
<1> SUFFICES ASSUME NEW d \in Calls \ {c} PROVE LineInv(d)'
  OBVIOUS
<1>2. LineInv(d)
  BY DEF IInv
<1> QED BY <1>1, <1>2 DEF LineInv, Unended, NodesOf

\* __enter__ saves what sys.stdout is.
LEMMA EnterSavesStep ==
  ASSUME IInv, NEW c \in Calls, EnterSaves(c)
  PROVE  IInv'
<1>1. /\ callPc[c] = "out" /\ prevStdout' = stdout
      /\ callPc' = [callPc EXCEPT ![c] = "entering"]
      /\ overlapped' = IF OthersInside(c) = {} THEN overlapped
                       ELSE overlapped \cup {c} \cup OthersInside(c)
      /\ UNCHANGED nodeVars /\ UNCHANGED lineVars /\ UNCHANGED <<loaded, stdout, intruded>>
  BY DEF EnterSaves, Saved
<1>2. UNCHANGED <<lineStatus, lineStored>>
  BY <1>1 DEF lineVars
<1>3. callPc \in [Calls -> {"out", "entering", "inside", "ended", "leaving", "left"}]
  BY DEF IInv, TypeOK
<1>4. /\ callPc'[c] = "entering" /\ \A d \in Calls \ {c} : callPc'[d] = callPc[d]
      /\ callPc' \in [Calls -> {"out", "entering", "inside", "ended", "leaving", "left"}]
  BY <1>1, <1>3
<1>5. TypeOK'
  <2>1. OthersInside(c) \subseteq Calls
    BY DEF OthersInside
  <2>2. overlapped' \subseteq Calls
    BY <1>1, <2>1 DEF IInv, TypeOK
  <2> QED BY <1>1, <1>2, <1>4, <2>2 DEF IInv, TypeOK, nodeVars
<1>6. \A d \in Calls : LineInv(d)'
  BY <1>1, <1>2, <1>4, OtherLines DEF LineInv
<1>7. WriterInPlace'
  BY <1>1, <1>4 DEF IInv, WriterInPlace, Inside
<1>8. Alone'
  <2>1. SUFFICES ASSUME overlapped' = {} PROVE Alone'
    BY DEF Alone
  <2>2. OthersInside(c) = {} /\ overlapped = {}
    BY <1>1, <2>1
  <2>3. \A d \in Calls \ {c} : callPc[d] \notin Within
    BY <2>2 DEF OthersInside, Within
  <2>4. \A d \in Calls : callPc[d] \notin Within
    BY <1>1, <2>3 DEF Within
  <2>5. stdout = "original"
    BY <2>2, <2>4 DEF IInv, Alone
  <2>6. \A d \in Calls \ {c} : callPc'[d] \notin Within
    BY <1>4, <2>3
  <2> QED BY <1>1, <1>4, <2>5, <2>6 DEF Alone, Within
<1>9. \A t \in Threads : Inside(CallOf[t]) /\ ~ Idle(t) => Inside(CallOf[t])'
  BY <1>1, <1>3 DEF Inside
<1>10. SavedBefore'
  BY <1>1, <1>4 DEF IInv, TypeOK, SavedBefore, None
<1> QED BY <1>1, <1>5, <1>6, <1>7, <1>8, <1>9, <1>10, CallFrame

\* __enter__ replaces sys.stdout.
LEMMA EnterReplacesStep ==
  ASSUME IInv, NEW c \in Calls, EnterReplaces(c)
  PROVE  IInv'
<1>1. /\ callPc[c] = "entering" /\ stdout' = "writer"
      /\ callPc' = [callPc EXCEPT ![c] = "inside"]
      /\ lineStatus' = [lineStatus EXCEPT ![c] = "Running"]
      /\ lineStored' = [lineStored EXCEPT ![c] = "Running"]
      /\ UNCHANGED nodeVars /\ UNCHANGED <<loaded, prevStdout, overlapped, intruded>>
  BY DEF EnterReplaces
<1>2. /\ callPc \in [Calls -> {"out", "entering", "inside", "ended", "leaving", "left"}]
      /\ lineStatus \in [Calls -> {None, "Running", "Completed", "Failed"}]
      /\ lineStored \in [Calls -> {None, "Running", "Completed", "Failed"}]
  BY DEF IInv, TypeOK
<1>3. /\ callPc'[c] = "inside"
      /\ \A d \in Calls \ {c} : callPc'[d] = callPc[d] /\ lineStatus'[d] = lineStatus[d]
                                /\ lineStored'[d] = lineStored[d]
      /\ callPc' \in [Calls -> {"out", "entering", "inside", "ended", "leaving", "left"}]
  BY <1>1, <1>2
<1>4. TypeOK'
  BY <1>1, <1>2, <1>3 DEF IInv, TypeOK, nodeVars
<1>5. \A d \in Calls : LineInv(d)'
  BY <1>1, <1>3, OtherLines DEF LineInv
<1>6. WriterInPlace'
  BY <1>1 DEF WriterInPlace
<1>7. Alone'
  <2>1. SUFFICES ASSUME overlapped' = {} PROVE Alone'
    BY DEF Alone
  <2>2. \A d \in Calls \ {c} : callPc[d] \notin Within
    BY <1>1, <2>1 DEF IInv, Alone, Within
  <2>3. prevStdout = "original"
    BY <1>1, <2>1 DEF IInv, Alone
  <2>4. \A d \in Calls \ {c} : callPc'[d] \notin Within
    BY <1>3, <2>2
  <2> QED BY <1>1, <1>3, <2>3, <2>4 DEF Alone, Within
<1>8. \A t \in Threads : Inside(CallOf[t]) /\ ~ Idle(t) => Inside(CallOf[t])'
  BY <1>1, <1>2 DEF Inside
<1>9. SavedBefore'
  BY <1>1, <1>3 DEF IInv, SavedBefore
<1> QED BY <1>1, <1>4, <1>5, <1>6, <1>7, <1>8, <1>9, CallFrame

\* The line of the call is over, and none of its threads has a node.
LEMMA LineEndsStep ==
  ASSUME IInv, NEW c \in Calls, NEW status \in {"Running", "Completed", "Failed"},
         LineEnds(c, status)
  PROVE  IInv'
<1>1. /\ Inside(c) /\ TryEnds(c, status) /\ \A t \in Threads : CallOf[t] = c => Idle(t)
      /\ lineStatus' = [lineStatus EXCEPT ![c] = status]
      /\ lineStored' = [lineStored EXCEPT ![c] = StoredAtEnd(c, status)]
      /\ callPc' = [callPc EXCEPT ![c] = "ended"]
      /\ UNCHANGED nodeVars /\ UNCHANGED <<loaded, stdout, prevStdout, overlapped, intruded>>
  BY DEF LineEnds
<1>2. /\ callPc \in [Calls -> {"out", "entering", "inside", "ended", "leaving", "left"}]
      /\ lineStatus \in [Calls -> {None, "Running", "Completed", "Failed"}]
      /\ lineStored \in [Calls -> {None, "Running", "Completed", "Failed"}]
  BY DEF IInv, TypeOK
<1>3. /\ callPc'[c] = "ended"
      /\ \A d \in Calls \ {c} : callPc'[d] = callPc[d] /\ lineStatus'[d] = lineStatus[d]
                                /\ lineStored'[d] = lineStored[d]
      /\ callPc' \in [Calls -> {"out", "entering", "inside", "ended", "leaving", "left"}]
      /\ lineStatus'[c] = status /\ lineStored'[c] = StoredAtEnd(c, status)
  BY <1>1, <1>2
<1>4. TypeOK'
  <2>1. StoredAtEnd(c, status) \in {None, "Running", "Completed", "Failed"}
    BY DEF StoredAtEnd
  <2> QED BY <1>1, <1>2, <1>3, <2>1 DEF IInv, TypeOK, nodeVars
<1>5. LineInv(c)'
  <2>1. fate' = fate /\ broken' = broken
    BY <1>1 DEF nodeVars
  <2>2. Unended(c)' = Unended(c)
    BY <2>1 DEF Unended, NodesOf
  <2>3. Unended(c) = {} => lineStored'[c] = status /\ status # "Running"
    BY <1>1, <1>3 DEF StoredAtEnd, TryEnds, Unended, NoEndRun
  <2>4. Unended(c) # {} => lineStored'[c] = "Running"
    BY <1>3 DEF StoredAtEnd
  <2>5. lineStored'[c] = "Completed" =>
          \A n \in NodesOf(c) : fate[n] = "returned" /\ n \notin broken
    BY <1>1, <2>3, <2>4 DEF TryEnds
  <2>6. NodesOf(c)' = NodesOf(c)
    BY DEF NodesOf
  <2> QED BY <1>3, <2>1, <2>2, <2>3, <2>4, <2>5, <2>6 DEF LineInv
<1>6. \A d \in Calls : LineInv(d)'
  BY <1>1, <1>3, <1>5, OtherLines
<1>7. WriterInPlace'
  BY <1>1, <1>3 DEF IInv, WriterInPlace, Inside
<1>8. Alone'
  <2>1. \A d \in Calls : callPc'[d] \in Within <=> callPc[d] \in Within
    BY <1>1, <1>3 DEF Within, Inside
  <2>2. \A d \in Calls : /\ callPc'[d] = "entering" => callPc[d] = "entering"
                         /\ callPc'[d] = "leaving" => callPc[d] = "leaving"
    BY <1>3
  <2>3. \A d \in Calls : callPc'[d] \in {"entering", "inside", "ended"} =>
          callPc[d] \in {"entering", "inside", "ended"}
    BY <1>1, <1>3 DEF Inside
  <2> QED BY <1>1, <2>1, <2>2, <2>3 DEF IInv, Alone
<1>9. \A t \in Threads : Inside(CallOf[t]) /\ ~ Idle(t) => Inside(CallOf[t])'
  BY <1>1, <1>2 DEF Inside
<1>10. SavedBefore'
  BY <1>1, <1>3 DEF IInv, SavedBefore, Inside
<1> QED BY <1>1, <1>4, <1>6, <1>7, <1>8, <1>9, <1>10, CallFrame

\* __exit__ loads what was saved last, by whichever call.
LEMMA ExitLoadsStep ==
  ASSUME IInv, NEW c \in Calls, ExitLoads(c)
  PROVE  IInv'
<1>1. /\ callPc[c] = "ended" /\ loaded' = [loaded EXCEPT ![c] = prevStdout]
      /\ callPc' = [callPc EXCEPT ![c] = "leaving"]
      /\ UNCHANGED nodeVars /\ UNCHANGED lineVars
      /\ UNCHANGED <<stdout, prevStdout, overlapped, intruded>>
  BY DEF ExitLoads
<1>2. UNCHANGED <<lineStatus, lineStored>>
  BY <1>1 DEF lineVars
<1>3. /\ callPc \in [Calls -> {"out", "entering", "inside", "ended", "leaving", "left"}]
      /\ loaded \in [Calls -> {None, "original", "writer"}]
      /\ prevStdout \in {None, "original", "writer"}
  BY DEF IInv, TypeOK
<1>4. /\ callPc'[c] = "leaving" /\ loaded'[c] = prevStdout
      /\ \A d \in Calls \ {c} : callPc'[d] = callPc[d] /\ loaded'[d] = loaded[d]
      /\ callPc' \in [Calls -> {"out", "entering", "inside", "ended", "leaving", "left"}]
  BY <1>1, <1>3
<1>5. TypeOK'
  BY <1>1, <1>2, <1>3, <1>4 DEF IInv, TypeOK, nodeVars
<1>6. LineInv(c)'
  <2>1. LineInv(c) /\ fate' = fate /\ broken' = broken
    BY <1>1 DEF IInv, nodeVars
  <2> QED BY <1>1, <1>2, <2>1 DEF LineInv, Unended, NodesOf
<1>7. \A d \in Calls : LineInv(d)'
  BY <1>1, <1>2, <1>4, <1>6, OtherLines
<1>8. WriterInPlace'
  BY <1>1, <1>4 DEF IInv, WriterInPlace, Inside
<1>9. Alone'
  <2>1. SUFFICES ASSUME overlapped' = {} PROVE Alone'
    BY DEF Alone
  <2>2. \A d \in Calls \ {c} : callPc[d] \notin Within
    BY <1>1, <2>1 DEF IInv, Alone, Within
  <2>3. prevStdout = "original"
    BY <1>1, <2>1 DEF IInv, Alone
  <2>4. \A d \in Calls \ {c} : callPc'[d] \notin Within
    BY <1>4, <2>2
  <2> QED BY <1>1, <1>4, <2>3, <2>4 DEF Alone, Within
<1>10. \A t \in Threads : Inside(CallOf[t]) /\ ~ Idle(t) => Inside(CallOf[t])'
  BY <1>1, <1>3 DEF Inside
<1>11. SavedBefore'
  BY <1>1, <1>4 DEF IInv, SavedBefore
<1> QED BY <1>1, <1>5, <1>7, <1>8, <1>9, <1>10, <1>11, CallFrame

\* __exit__ stores it, whoever is inside.
LEMMA ExitStoresStep ==
  ASSUME IInv, NEW c \in Calls, ExitStores(c)
  PROVE  IInv'
<1>1. /\ callPc[c] = "leaving" /\ stdout' = loaded[c]
      /\ callPc' = [callPc EXCEPT ![c] = "left"]
      /\ intruded' = intruded \cup OthersInside(c)
      /\ loaded' = [loaded EXCEPT ![c] = None]
      /\ UNCHANGED nodeVars /\ UNCHANGED lineVars /\ UNCHANGED <<prevStdout, overlapped>>
  BY DEF ExitStores
<1>2. UNCHANGED <<lineStatus, lineStored>>
  BY <1>1 DEF lineVars
<1>3. /\ callPc \in [Calls -> {"out", "entering", "inside", "ended", "leaving", "left"}]
      /\ loaded \in [Calls -> {None, "original", "writer"}]
  BY DEF IInv, TypeOK
<1>4. /\ callPc'[c] = "left" /\ \A d \in Calls \ {c} : callPc'[d] = callPc[d]
      /\ callPc' \in [Calls -> {"out", "entering", "inside", "ended", "leaving", "left"}]
  BY <1>1, <1>3
<1>s. /\ \A d \in Calls \ {c} : loaded'[d] = loaded[d]
      /\ loaded' \in [Calls -> {None, "original", "writer"}]
  BY <1>1, <1>3
<1>5. TypeOK'
  <2>1. OthersInside(c) \subseteq Calls
    BY DEF OthersInside
  <2>2. intruded' \subseteq Calls
    BY <1>1, <2>1 DEF IInv, TypeOK
  <2>3. stdout' \in {"original", "writer"}
    BY <1>1, <1>3 DEF IInv, SavedBefore
  <2> QED BY <1>1, <1>2, <1>4, <1>s, <2>2, <2>3 DEF IInv, TypeOK, nodeVars
<1>6. LineInv(c)'
  <2>1. LineInv(c) /\ fate' = fate /\ broken' = broken
    BY <1>1 DEF IInv, nodeVars
  <2> QED BY <1>1, <1>2, <2>1 DEF LineInv, Unended, NodesOf
<1>7. \A d \in Calls : LineInv(d)'
  BY <1>1, <1>2, <1>4, <1>6, OtherLines
<1>8. WriterInPlace'
  <2> SUFFICES ASSUME NEW d \in Calls, Inside(d)', d \notin intruded' PROVE stdout' = "writer"
    BY DEF WriterInPlace
  <2>1. d # c /\ callPc[d] = "inside"
    BY <1>4 DEF Inside
  <2>2. d \in OthersInside(c)
    BY <2>1 DEF OthersInside
  <2> QED BY <1>1, <2>2
<1>9. Alone'
  <2>1. SUFFICES ASSUME overlapped' = {} PROVE Alone'
    BY DEF Alone
  <2>2. \A d \in Calls \ {c} : callPc[d] \notin Within
    BY <1>1, <2>1 DEF IInv, Alone, Within
  <2>3. stdout' = "original"
    BY <1>1, <2>1 DEF IInv, Alone
  <2>4. \A d \in Calls : callPc'[d] \notin Within
    BY <1>4, <2>2 DEF Within
  <2> QED BY <2>3, <2>4 DEF Alone, Within
<1>10. \A t \in Threads : Inside(CallOf[t]) /\ ~ Idle(t) => Inside(CallOf[t])'
  BY <1>1, <1>3 DEF Inside
<1>11. SavedBefore'
  BY <1>1, <1>4 DEF IInv, SavedBefore
<1> QED BY <1>1, <1>5, <1>7, <1>8, <1>9, <1>10, <1>11, CallFrame
-----------------------------------------------------------------------------
(* Theorems *)

\* The invariant holds initially.
LEMMA Initially == Init => IInv
<1> SUFFICES ASSUME Init PROVE IInv
  OBVIOUS
<1>1. <<>> \in Seq(Nat) /\ <<>> \in Seq(Lines)
  BY EmptySeq
<1>2. TypeOK
  BY <1>1, NoneTyped DEF Init, TypeOK
<1>3. \A t \in Threads : ThreadInv(t)
  BY DEF Init, ThreadInv, Idle, LeftClean
<1>4. \A n \in Nodes : NodeInv(n)
  BY DEF Init, NodeInv
<1>5. OneThread /\ WriterInPlace /\ SavedBefore
  BY DEF Init, OneThread, Idle, WriterInPlace, Inside, SavedBefore
<1>6. \A c \in Calls : LineInv(c)
  BY DEF Init, LineInv
<1>7. Alone
  BY DEF Init, Alone, Within
<1> QED BY <1>2, <1>3, <1>4, <1>5, <1>6, <1>7 DEF IInv

\* Every step preserves the invariant.
LEMMA Preserved == IInv /\ [Next]_vars => IInv'
<1> SUFFICES ASSUME IInv, [Next]_vars PROVE IInv'
  OBVIOUS
<1>1. CASE UNCHANGED vars
  <2>1. UNCHANGED nodeVars /\ UNCHANGED <<callPc, loaded, stdout, prevStdout, overlapped, intruded,
                                          lineStatus, lineStored>>
    BY <1>1 DEF vars, callVars, managerVars, lineVars, nodeVars
  <2>2. TypeOK'
    BY <2>1 DEF IInv, TypeOK, nodeVars
  <2>3. \A c \in Calls : LineInv(c)'
    BY <2>1 DEF IInv, LineInv, Unended, NodesOf, nodeVars
  <2>4. WriterInPlace' /\ SavedBefore' /\ Alone'
    BY <2>1 DEF IInv, WriterInPlace, SavedBefore, Alone, Inside
  <2>5. \A t \in Threads : Inside(CallOf[t]) /\ ~ Idle(t) => Inside(CallOf[t])'
    BY <2>1 DEF Inside
  <2> QED BY <2>1, <2>2, <2>3, <2>4, <2>5, CallFrame
<1>2. CASE Next
  <2>1. ASSUME NEW c \in Calls,
               \/ EnterSaves(c) \/ EnterReplaces(c)
               \/ \E status \in {"Running", "Completed", "Failed"} : LineEnds(c, status)
               \/ ExitLoads(c) \/ ExitStores(c)
        PROVE  IInv'
    BY <2>1, EnterSavesStep, EnterReplacesStep, LineEndsStep, ExitLoadsStep, ExitStoresStep
  <2>2. ASSUME NEW t \in Threads, NEW n \in Nodes,
               \/ StartNode(t, n) \/ PushRaises(t, n)
               \/ \E endRaises \in BOOLEAN : StartIsRefused(t, n, endRaises)
               \/ RefusalRaises(t, n)
        PROVE  IInv'
    BY <2>2, StartNodeStep, PushRaisesStep, RefusedStep, RefusalRaisesStep
  <2>3. ASSUME NEW t \in Threads,
               \/ PrintLine(t)
               \/ \E returned \in BOOLEAN : CallApi(t, returned)
               \/ CallTool(t) \/ CalledToolReturns(t) \/ CalledToolRaises(t)
        PROVE  IInv'
    BY <2>3, PrintStep, ApiStep, CallToolStep, ToolReturnsStep, ToolRaisesStep
  <2>4. ASSUME NEW t \in Threads,
               \/ \E outcome \in Outcomes : EndNode(t, outcome)
               \/ \E outcome \in Outcomes, stage \in {"metrics", "values"} :
                    EndRunRaises(t, outcome, stage)
               \/ \E closed \in BOOLEAN : TraceRaises(t, closed)
               \/ ToolExits(t)
        PROVE  IInv'
    BY <2>4, EndNodeStep, EndRunStep, TraceRaisesStep, ExitsStep
  <2> QED BY <1>2, <2>1, <2>2, <2>3, <2>4 DEF Next
<1> QED BY <1>1, <1>2

\* The invariant of the invocation of nodes.
THEOREM Invariance == Spec => []IInv
  BY Initially, Preserved, PTL DEF Spec

\* Every variable keeps its type.
THEOREM TypeCorrect == Spec => []TypeOK
<1>1. IInv => TypeOK
  BY DEF IInv
<1> QED BY <1>1, Invariance, PTL

\* The record of a node that is over tells how its tool ended, and the record of a
\* line that is over how its nodes did.
THEOREM EveryRecordEnds == Spec => []RecordsEnd
<1>1. IInv => RecordsEnd
  <2> SUFFICES ASSUME IInv PROVE RecordsEnd
    OBVIOUS
  <2>1. ASSUME NEW n \in persisted PROVE n \in Nodes /\ fate[n] # None /\ NodeEnded(n)
    BY DEF IInv, TypeOK, NodeInv
  <2>2. NodeRecordsEnd
    BY <2>1 DEF NodeRecordsEnd, NodeEnded
  <2>3. ASSUME NEW n \in Nodes, fate[n] = "returned", n \notin broken
        PROVE  n \in persisted /\ record[n].status = "Completed"
    <3>1. n \in persisted
      BY <2>3 DEF IInv, NodeInv, None
    <3> QED BY <2>1, <2>3, <3>1 DEF NodeEnded, NoEndRun
  <2>4. ASSUME NEW c \in Calls, callPc[c] \in {"ended", "leaving", "left"}
        PROVE  /\ Unended(c) = {} => lineStored[c] = lineStatus[c] /\ lineStatus[c] # "Running"
               /\ lineStored[c] = "Completed" =>
                    \A n \in NodesOf(c) : n \in persisted /\ record[n].status = "Completed"
               /\ Unended(c) # {} => lineStored[c] = "Running"
    <3>1. LineInv(c) /\ NodesOf(c) \subseteq Nodes
      BY DEF IInv, NodesOf
    <3> QED BY <2>3, <2>4, <3>1 DEF LineInv
  <2>5. LineRecordsEnd
    BY <2>4 DEF LineRecordsEnd
  <2> QED BY <2>2, <2>5 DEF RecordsEnd
<1> QED BY <1>1, Invariance, PTL

\* What a persisted node has left, for the theorems about it.
LEMMA PersistedEnded ==
  ASSUME IInv, NEW n \in persisted
  PROVE  n \in Nodes /\ fate[n] # None /\ NodeEnded(n)
  BY DEF IInv, TypeOK, NodeInv

\* A node's logs are lines of its own, whatever runs beside it, and all of them unless
\* another call put sys.stdout back meanwhile.
THEOREM OwnLogs == Spec => []LogsOfOwnNode
<1>1. IInv => LogsOfOwnNode
  BY PersistedEnded DEF LogsOfOwnNode, NodeEnded, Prints
<1> QED BY <1>1, Invariance, PTL

\* A node's traces are the tree of its calls unless one of its called tools raised.
THEOREM TracesAreTree == Spec => []TraceTreeIsCallTree
<1>1. IInv => TraceTreeIsCallTree
  BY PersistedEnded DEF TraceTreeIsCallTree, NodeEnded, Tree
<1> QED BY <1>1, Invariance, PTL

\* A thread takes a tracer or a log context to its next node only from one that was
\* left by SystemExit or whose tracing or end_run raised.
THEOREM CleanThreads == Spec => []ThreadsLeftClean
<1>1. IInv => ThreadsLeftClean
  <2> SUFFICES ASSUME IInv PROVE ThreadsLeftClean
    OBVIOUS
  <2>1. ASSUME NEW t \in Threads, Idle(t) PROVE LeftClean(t)
    BY <2>1 DEF IInv, ThreadInv
  <2>2. ASSUME NEW n \in persisted
        PROVE  buffer[n] # <<>> => fate[n] \in NoEndRun \/ n \in broken
    BY PersistedEnded DEF NodeEnded
  <2>3. ASSUME NEW n \in Nodes, fate[n] = "refused" PROVE Unended(CallOf[n]) # {}
    BY <2>3 DEF IInv, NodeInv, NodeEnded, None
  <2> QED BY <2>1, <2>2, <2>3 DEF ThreadsLeftClean, LeftClean
<1> QED BY <1>1, Invariance, PTL

\* Calls that come one at a time leave sys.stdout as they found it.
THEOREM StdoutRestored == Spec => []StdoutRestoredIfAlone
<1>1. IInv => StdoutRestoredIfAlone
  BY DEF IInv, Alone, StdoutRestoredIfAlone, NobodyInside, Within
<1> QED BY <1>1, Invariance, PTL
=============================================================================
