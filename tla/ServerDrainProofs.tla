-------------------------- MODULE ServerDrainProofs --------------------------
(***************************************************************************)
(* Proofs about the runtime of the server, for any number of connections   *)
(* and requests: the permits of a connection, the answers that precede its *)
(* GOODBYE, and what is left when drain has returned true.                 *)
(***************************************************************************)
EXTENDS ServerDrain, FiniteSetTheorems, SequenceTheorems, TLAPS

\* The parts of the type invariant.
Flags == {ready, draining, drainTx, forceTx, woken, runStale} \subseteq BOOLEAN
Sorts ==
  /\ run \in RunState /\ ctl \in CtlState
  /\ at \in [Conns -> ConnState]
  /\ pend \in [Conns -> Frame \cup {<<>>}]
  /\ local \in [Conns -> BOOLEAN] /\ changed \in [Conns -> BOOLEAN]
  /\ stale \in [Conns -> SUBSET {"drain", "force"}]
  /\ active \in [Conns -> SUBSET Reqs]
  /\ out \in [Conns -> Seq(Frame)] /\ taken \in [Conns -> Nat]
  /\ \A c \in Conns : taken[c] <= Len(out[c])
  /\ writer \in [Conns -> {"none", "up", "dead"}]
  /\ task \in [Reqs -> TaskState]
  /\ aborted \subseteq Reqs

\* The permits of a connection and the tasks that hold them.
Permits == permits \in [Conns -> Nat] /\ PermitsExact

\* What a connection's loop is about to queue.
Pends ==
  \A c \in Conns :
    /\ at[c] = "leave" => pend[c] = Goodbye
    /\ at[c] = "drain" => pend[c] = GoAway
    /\ at[c] = "send" => pend[c] \in {GoAway} \cup {Refusal(r) : r \in Reqs}

\* Both counters count what they stand for.
Entered == {c \in Conns : at[c] \in Looping \cup {"hello", "closing"}}
Running == {r \in Reqs : task[r] \in Counted}
Counters == conns = Cardinality(Entered) /\ reqs = Cardinality(Running)

\* How a connection's table and queue follow its loop.  GOODBYE is the last
\* thing a loop queues, and it only leaves unforced with an empty table.
Has(c, f) == \E i \in DOMAIN out[c] : out[c][i] = f
Stages ==
  \A c \in Conns :
    /\ at[c] \in {"none", "spawned", "hello"} =>
         /\ writer[c] = "none" /\ out[c] = <<>>
         /\ \A r \in Reqs : Owner[r] = c => task[r] = "none"
    /\ at[c] \in {"none", "spawned", "hello", "closing", "closed"} => active[c] = {}
    /\ at[c] = "leave" /\ ~forceTx => active[c] = {}
    /\ Has(c, Goodbye) => at[c] \in {"break", "closing", "closed"}

\* The force signal is sent at most once, by the drain that times out.
Signals == forceTx => ctl = "timed_out"

\* A task stays in the table until its frame is queued or it is aborted, and a
\* refusal is queued before the loop does anything else.
Accounted ==
  \A r \in Reqs :
    LET c == Owner[r] IN
    /\ task[r] \in {"spawned", "counted", "answering", "answered", "panicked"} =>
         r \in active[c] \cup aborted
    /\ writer[c] = "up" /\ r \notin aborted =>
         /\ task[r] \in {"answered", "removed", "notified", "done"} => Has(c, Answer(r))
         /\ task[r] = "refused" =>
              Has(c, Refusal(r)) \/ (at[c] = "send" /\ pend[c] = Refusal(r))

\* Once a drain has found no connection, the ones that open later know that
\* the server drains, and the tasks left are those of closed connections.
Drained ==
  ctl \in {"reqs", "idle_reached"} /\ drainTx =>
    /\ \A c \in Conns : at[c] \in Looping => local[c]
    /\ \A r \in Reqs : task[r] \in Alive => at[Owner[r]] = "closed"

IInv == /\ Flags /\ Sorts /\ Pends /\ Counters /\ Permits /\ Stages /\ Signals /\ Accounted
        /\ AnsweredBeforeGoodbye /\ Drained /\ NoWorkAfterDrain

-----------------------------------------------------------------------------
(* Types                                                                   *)

RunSteps == RunStep \/ RunFails
ControlSteps == DrainMarks \/ DrainStep \/ DrainTimesOut
ConnSteps(c) ==
  \/ Accept(c) \/ Enter(c) \/ TlsFails(c) \/ HelloFails(c) \/ Open(c)
  \/ LoopStep(c) \/ LoopEnds(c) \/ Write(c) \/ WriteFails(c)
TaskSteps(r) == Admit(r) \/ Refuse(r) \/ Cancel(r) \/ TaskStep(r) \/ Panic(r)

\* A request's step moves its own task only, and the loop of its connection only
\* to refuse it.  Only an admission makes a task alive.
LEMMA TaskMoves ==
  ASSUME Sorts, NEW r \in Reqs, TaskSteps(r)
  PROVE  /\ UNCHANGED <<at, pend>> \/ Refuse(r)
         /\ task' \in [Reqs -> TaskState]
         /\ \A s \in Reqs : s # r => task'[s] = task[s]
         /\ \A s \in Reqs : task'[s] \in Alive => Admit(r) \/ task[s] \in Alive
<1> USE Zenon
<1>1. UNCHANGED <<at, pend>> \/ Refuse(r)
  <2>1. CASE Admit(r) \/ Cancel(r) \/ Panic(r)
    BY <2>1 DEF Admit, Cancel, Panic, loops
  <2>2. CASE TaskStep(r)
    BY <2>2 DEF TaskStep, Start, Handle, Send, Remove, Notify, Release, DropAborted, loops
  <2>3. QED
    BY <2>1, <2>2 DEF TaskSteps
<1>2. CASE Admit(r) \/ Cancel(r)
  <2>1. task' = [task EXCEPT ![r] = "spawned"] \/ task' = task
    BY <1>2 DEF Admit, Cancel
  <2>2. task' \in [Reqs -> TaskState] /\ \A s \in Reqs : s # r => task'[s] = task[s]
    BY <2>1 DEF Sorts, TaskState, Alive
  <2>3. Admit(r) \/ task' = task
    BY <1>2 DEF Cancel
  <2>4. QED
    BY <1>1, <2>2, <2>3
<1>3. CASE Refuse(r) \/ Release(r) \/ DropAborted(r) \/ Panic(r)
  <2>1. PICK x \in {"refused", "done", "panicked"} : task' = [task EXCEPT ![r] = x]
    BY <1>3 DEF Refuse, Release, DropAborted, Panic
  <2>2. QED
    BY <1>1, <2>1 DEF Sorts, TaskState, Alive
<1>4. CASE Start(r) \/ Handle(r) \/ Send(r) \/ Remove(r) \/ Notify(r)
  <2>1. PICK x \in Alive : task' = [task EXCEPT ![r] = x]
    BY <1>4 DEF Start, Handle, Send, Remove, Notify, Alive
  <2>2. task[r] \in Alive
    BY <1>4 DEF Start, Handle, Send, Remove, Notify, Alive
  <2>3. QED
    BY <1>1, <2>1, <2>2 DEF Sorts, TaskState
<1>5. QED
  BY <1>2, <1>3, <1>4 DEF TaskSteps, TaskStep

\* No step takes a flag out of the Booleans.
LEMMA FlagsStep ==
  ASSUME Flags, [Next]_vars
  PROVE  Flags'
<1> USE Zenon
<1>1. CASE RunSteps
  BY <1>1 DEF RunSteps, RunStep, RunFails, RunChecks, RunReady, RunListens, RunStops, Flags,
     control, counters
<1>2. CASE ControlSteps
  BY <1>2 DEF ControlSteps, DrainStep, DrainMarks, DrainUnready, DrainSends, DrainConns,
     DrainReqs, DrainRegisters, DrainWakes, DrainTimesOut, Flags, server, counters
<1>3. ASSUME NEW c \in Conns, ConnSteps(c)
      PROVE  Flags'
  <2>1. UNCHANGED <<server, control>> /\ (UNCHANGED woken \/ NotifyWaiters)
    BY <1>3 DEF ConnSteps, Accept, Enter, TlsFails, HelloFails, Open, LoopStep, Queue,
       QueueFails, SeeDrain, SeeChange, CheckEmpty, SeeForce, Epilogue, Close, LoopEnds, Write,
       WriteFails, counters
  <2>2. QED
    BY <2>1 DEF Flags, server, control, NotifyWaiters
<1>4. ASSUME NEW r \in Reqs, TaskSteps(r)
      PROVE  Flags'
  <2>1. UNCHANGED <<server, control>> /\ (UNCHANGED woken \/ NotifyWaiters)
    BY <1>4 DEF TaskSteps, TaskStep, Admit, Refuse, Cancel, Start, Handle, Send, Remove, Notify,
       Release, DropAborted, Panic, counters
  <2>2. QED
    BY <2>1 DEF Flags, server, control, NotifyWaiters
<1>5. CASE UNCHANGED vars
  BY <1>5 DEF vars, server, control, counters, Flags
<1>6. QED
  BY <1>1, <1>2, <1>3, <1>4, <1>5 DEF Next, RunSteps, ControlSteps, ConnSteps, TaskSteps

\* No step breaks the types of the loops, tables, queues and tasks.
LEMMA SortsStep ==
  ASSUME Flags, Sorts, Pends, [Next]_vars
  PROVE  Sorts'
<1> USE Zenon
<1>1. CASE RunSteps
  BY <1>1 DEF RunSteps, RunStep, RunFails, RunChecks, RunReady, RunListens, RunStops, Sorts,
     RunState, control, loops, tables, queues, tasks
<1>2. CASE ControlSteps
  BY <1>2 DEF ControlSteps, DrainStep, DrainMarks, DrainUnready, DrainSends, DrainConns,
     DrainReqs, DrainRegisters, DrainWakes, DrainTimesOut, Sorts, CtlState, server, loops,
     tables, queues, tasks
<1>3. ASSUME NEW c \in Conns, ConnSteps(c)
      PROVE  Sorts'
  <2>0. UNCHANGED <<run, ctl, task>>
    BY <1>3 DEF ConnSteps, Accept, Enter, TlsFails, HelloFails, Open, LoopStep, Queue,
       QueueFails, SeeDrain, SeeChange, CheckEmpty, SeeForce, Epilogue, Close, LoopEnds, Write,
       WriteFails, server, control, tasks
  <2>1. at' \in [Conns -> ConnState]
    <3>1. CASE LoopStep(c)
      BY <3>1 DEF LoopStep, Queue, QueueFails, SeeDrain, SeeChange, CheckEmpty, SeeForce,
         Epilogue, Close, Sorts, ConnState, Looping
    <3>2. CASE Accept(c)
      BY <3>2 DEF Accept, Sorts, ConnState, Looping
    <3>3. CASE Enter(c)
      BY <3>3 DEF Enter, Sorts, ConnState, Looping
    <3>4. CASE TlsFails(c)
      BY <3>4 DEF TlsFails, Sorts, ConnState, Looping
    <3>5. CASE HelloFails(c)
      BY <3>5 DEF HelloFails, Sorts, ConnState, Looping
    <3>6. CASE Open(c)
      BY <3>6 DEF Open, loops, Sorts, ConnState, Looping
    <3>7. CASE LoopEnds(c)
      BY <3>7 DEF LoopEnds, loops, Sorts, ConnState, Looping
    <3>8. CASE Write(c)
      BY <3>8 DEF Write, loops, Sorts, ConnState, Looping
    <3>9. CASE WriteFails(c)
      BY <3>9 DEF WriteFails, loops, Sorts, ConnState, Looping
    <3>10. QED
      BY <1>3, <3>1, <3>2, <3>3, <3>4, <3>5, <3>6, <3>7, <3>8, <3>9 DEF ConnSteps
  <2>2. pend' \in [Conns -> Frame \cup {<<>>}]
    <3>1. GoAway \in Frame /\ Goodbye \in Frame
      BY DEF Frame
    <3>2. QED
      BY <1>3, <3>1, SMTT(30) DEF ConnSteps, Accept, Enter, TlsFails, HelloFails, Open, LoopStep,
         Queue, QueueFails, SeeDrain, SeeChange, CheckEmpty, SeeForce, Epilogue, Close, LoopEnds,
         Write, WriteFails, loops, Sorts
  <2>3. local' \in [Conns -> BOOLEAN] /\ changed' \in [Conns -> BOOLEAN]
    <3>1. \/ UNCHANGED local \/ local' = [local EXCEPT ![c] = drainTx]
          \/ local' = [local EXCEPT ![c] = TRUE]
      BY <1>3 DEF ConnSteps, Accept, Enter, TlsFails, HelloFails, Open, LoopStep, Queue,
         QueueFails, SeeDrain, SeeChange, CheckEmpty, SeeForce, Epilogue, Close, LoopEnds, Write,
         WriteFails, loops
    <3>2. UNCHANGED changed \/ changed' = [changed EXCEPT ![c] = FALSE]
      BY <1>3 DEF ConnSteps, Accept, Enter, TlsFails, HelloFails, Open, LoopStep, Queue,
         QueueFails, SeeDrain, SeeChange, CheckEmpty, SeeForce, Epilogue, Close, LoopEnds, Write,
         WriteFails, loops, tables
    <3>3. drainTx \in BOOLEAN
      BY DEF Flags
    <3>4. QED
      BY <3>1, <3>2, <3>3 DEF Sorts
  <2>4. stale' \in [Conns -> SUBSET {"drain", "force"}]
    <3>1. UNCHANGED stale \/ \E x \in SUBSET {"drain", "force"} : stale' = [stale EXCEPT ![c] = x]
      BY <1>3 DEF ConnSteps, Accept, Enter, TlsFails, HelloFails, Open, LoopStep, Queue,
         QueueFails, SeeDrain, SeeChange, CheckEmpty, SeeForce, Epilogue, Close, LoopEnds, Write,
         WriteFails, loops
    <3>2. QED
      BY <3>1 DEF Sorts
  <2>5. active' \in [Conns -> SUBSET Reqs] /\ aborted' \subseteq Reqs
    BY <1>3 DEF ConnSteps, Accept, Enter, TlsFails, HelloFails, Open, LoopStep, Queue,
       QueueFails, SeeDrain, SeeChange, CheckEmpty, SeeForce, Epilogue, Close, LoopEnds, Write,
       WriteFails, loops, tables, tasks, Sorts
  <2>6. /\ out' \in [Conns -> Seq(Frame)] /\ taken' \in [Conns -> Nat]
        /\ \A d \in Conns : taken'[d] <= Len(out'[d])
        /\ writer' \in [Conns -> {"none", "up", "dead"}]
    <3>1. CASE Queue(c)
      <4>1. pend[c] \in Frame
        BY <3>1 DEF Queue, Pends, Frame
      <4>2. QED
        BY <3>1, <4>1, SMTT(30) DEF Queue, Sorts
    <3>2. CASE Write(c)
      BY <3>2, SMTT(30) DEF Write, Sorts
    <3>3. CASE ~Queue(c) /\ ~Write(c)
      BY <1>3, <3>3 DEF ConnSteps, Accept, Enter, TlsFails, HelloFails, Open, LoopStep,
         QueueFails, SeeDrain, SeeChange, CheckEmpty, SeeForce, Epilogue, Close, LoopEnds,
         WriteFails, queues, Sorts
    <3>4. QED
      BY <3>1, <3>2, <3>3
  <2>7. QED
    BY <2>0, <2>1, <2>2, <2>3, <2>4, <2>5, <2>6 DEF Sorts
<1>4. ASSUME NEW r \in Reqs, TaskSteps(r)
      PROVE  Sorts'
  <2> DEFINE c == Owner[r]
  <2>0. c \in Conns
    BY OwnerType
  <2>1. UNCHANGED <<run, ctl, local, stale, taken, writer>>
    BY <1>4 DEF TaskSteps, TaskStep, Admit, Refuse, Cancel, Start, Handle, Send, Remove, Notify,
       Release, DropAborted, Panic, server, control, loops, queues
  <2>2. (UNCHANGED <<at, pend>> \/ Refuse(r)) /\ task' \in [Reqs -> TaskState]
    BY <1>4, TaskMoves
  <2>3. at' \in [Conns -> ConnState]
    <3>1. UNCHANGED at \/ at' = [at EXCEPT ![c] = "send"]
      BY <2>2 DEF Refuse
    <3>2. at \in [Conns -> ConnState] /\ "send" \in ConnState
      BY DEF Sorts, ConnState, Looping
    <3>3. QED
      BY <3>1, <3>2
  <2>4. pend' \in [Conns -> Frame \cup {<<>>}]
    <3>1. Refusal(r) \in Frame
      BY DEF Frame
    <3>2. UNCHANGED pend \/ pend' = [pend EXCEPT ![c] = Refusal(r)]
      BY <2>2 DEF Refuse
    <3>3. QED
      BY <3>1, <3>2, SMTT(30) DEF Sorts
  <2>5. active' \in [Conns -> SUBSET Reqs] /\ changed' \in [Conns -> BOOLEAN] /\ aborted' \subseteq Reqs
    <3>1. UNCHANGED active \/ \E x \in SUBSET Reqs : active' = [active EXCEPT ![c] = x]
      BY <1>4, <2>0 DEF TaskSteps, TaskStep, Admit, Refuse, Cancel, Start, Handle, Send, Remove,
         Notify, Release, DropAborted, Panic, Sorts, tables
    <3>2. UNCHANGED changed \/ changed' = [changed EXCEPT ![c] = TRUE]
      BY <1>4 DEF TaskSteps, TaskStep, Admit, Refuse, Cancel, Start, Handle, Send, Remove,
         Notify, Release, DropAborted, Panic, tables
    <3>3. aborted' \subseteq aborted \cup {r}
      BY <1>4 DEF TaskSteps, TaskStep, Admit, Refuse, Cancel, Start, Handle, Send, Remove,
         Notify, Release, DropAborted, Panic
    <3>4. active' \in [Conns -> SUBSET Reqs]
      BY <3>1 DEF Sorts
    <3>5. changed' \in [Conns -> BOOLEAN]
      BY <3>2 DEF Sorts
    <3>6. QED
      BY <3>3, <3>4, <3>5 DEF Sorts
  <2>6. /\ out' \in [Conns -> Seq(Frame)]
        /\ \A d \in Conns : taken'[d] <= Len(out'[d])
    <3>1. CASE UNCHANGED out
      BY <2>1, <3>1 DEF Sorts
    <3>2. CASE out' = [out EXCEPT ![c] = Append(@, Answer(r))]
      <4>1. Answer(r) \in Frame
        BY DEF Frame
      <4> HIDE DEF c
      <4>2. QED
        BY <2>0, <2>1, <3>2, <4>1, SMTT(30) DEF Sorts
    <3>3. QED
      BY <1>4, <3>1, <3>2 DEF TaskSteps, TaskStep, Admit, Refuse, Cancel, Start, Handle, Send,
         Remove, Notify, Release, DropAborted, Panic, queues
  <2>7. QED
    BY <2>1, <2>2, <2>3, <2>4, <2>5, <2>6 DEF Sorts
<1>5. CASE UNCHANGED vars
  BY <1>5 DEF vars, server, control, loops, tables, queues, tasks, Sorts
<1>6. QED
  BY <1>1, <1>2, <1>3, <1>4, <1>5 DEF Next, RunSteps, ControlSteps, ConnSteps, TaskSteps

\* Every step that moves a loop to a send sets the frame it sends.
LEMMA PendsStep ==
  ASSUME Sorts, Pends, [Next]_vars
  PROVE  Pends'
<1> USE Zenon
<1>1. CASE UNCHANGED <<at, pend>>
  BY <1>1 DEF Pends
<1>2. ASSUME NEW c \in Conns, ConnSteps(c)
      PROVE  Pends'
  <2>1. \A d \in Conns : d # c => at'[d] = at[d] /\ pend'[d] = pend[d]
    BY <1>2 DEF ConnSteps, Accept, Enter, TlsFails, HelloFails, Open, LoopStep, Queue,
       QueueFails, SeeDrain, SeeChange, CheckEmpty, SeeForce, Epilogue, Close, LoopEnds, Write,
       WriteFails, loops, Sorts
  <2>2. \/ at'[c] = at[c] /\ pend'[c] = pend[c]
        \/ at'[c] \notin {"leave", "drain", "send"}
        \/ at'[c] \in {"drain", "send"} /\ pend'[c] = GoAway
        \/ at'[c] = "leave" /\ pend'[c] = Goodbye
    BY <1>2 DEF ConnSteps, Accept, Enter, TlsFails, HelloFails, Open, LoopStep, Queue,
       QueueFails, SeeDrain, SeeChange, CheckEmpty, SeeForce, Epilogue, Close, LoopEnds, Write,
       WriteFails, loops, Sorts
  <2>3. QED
    BY <2>1, <2>2 DEF Pends
<1>3. ASSUME NEW r \in Reqs, Refuse(r)
      PROVE  Pends'
  <2>1. Owner[r] \in Conns
    BY OwnerType
  <2>2. QED
    BY <1>3, <2>1 DEF Refuse, Pends, Sorts
<1>4. ASSUME NEW r \in Reqs, TaskSteps(r), ~Refuse(r)
      PROVE  UNCHANGED <<at, pend>>
  BY <1>4 DEF TaskSteps, TaskStep, Admit, Cancel, Start, Handle, Send, Remove, Notify, Release,
     DropAborted, Panic, loops
<1>5. CASE RunSteps \/ ControlSteps \/ UNCHANGED vars
  <2>1. UNCHANGED <<at, pend>>
    BY <1>5 DEF RunSteps, RunStep, RunFails, RunChecks, RunReady, RunListens, RunStops,
       ControlSteps, DrainStep, DrainMarks, DrainUnready, DrainSends, DrainConns, DrainReqs,
       DrainRegisters, DrainWakes, DrainTimesOut, loops, vars
  <2>2. QED
    BY <1>1, <2>1
<1>6. QED
  BY <1>1, <1>2, <1>3, <1>4, <1>5 DEF Next, RunSteps, ControlSteps, ConnSteps, TaskSteps
-----------------------------------------------------------------------------
(* The counters and the limit                                              *)

\* A guard is taken and dropped together with the state it counts.
LEMMA CountersStep ==
  ASSUME Sorts, Counters, [Next]_vars
  PROVE  Counters'
<1> USE Zenon
<1>0. IsFiniteSet(Entered) /\ IsFiniteSet(Running)
  BY FinitelyMany, FS_Subset DEF Entered, Running
<1>1. ASSUME NEW c \in Conns, ConnSteps(c)
      PROVE  Counters'
  <2>1. UNCHANGED <<reqs, task>>
    BY <1>1 DEF ConnSteps, Accept, Enter, TlsFails, HelloFails, Open, LoopStep, Queue,
       QueueFails, SeeDrain, SeeChange, CheckEmpty, SeeForce, Epilogue, Close, LoopEnds, Write,
       WriteFails, counters, tasks
  <2>2. CASE Enter(c)
    <3>1. Entered' = Entered \cup {c} /\ c \notin Entered /\ conns' = conns + 1
      BY <2>2 DEF Enter, Entered, Looping, Sorts
    <3>2. QED
      BY <1>0, <2>1, <3>1, FS_AddElement DEF Counters, Running
  <2>3. CASE HelloFails(c) \/ Close(c)
    <3>1. Entered' = Entered \ {c} /\ c \in Entered /\ conns' = conns - 1
      BY <2>3 DEF HelloFails, Close, Entered, Looping, Sorts
    <3>2. QED
      BY <1>0, <2>1, <3>1, FS_RemoveElement DEF Counters, Running
  <2>4. CASE ~Enter(c) /\ ~HelloFails(c) /\ ~Close(c)
    <3>1. UNCHANGED conns
      BY <1>1, <2>4 DEF ConnSteps, Accept, TlsFails, Open, LoopStep, Queue, QueueFails, SeeDrain,
         SeeChange, CheckEmpty, SeeForce, Epilogue, LoopEnds, Write, WriteFails, counters
    <3>2. \A d \in Conns : d # c => at'[d] = at[d]
      BY <1>1, <2>4 DEF ConnSteps, Accept, TlsFails, Open, LoopStep, Queue, QueueFails, SeeDrain,
         SeeChange, CheckEmpty, SeeForce, Epilogue, LoopEnds, Write, WriteFails, loops, Sorts
    <3>3. at'[c] \in Looping \cup {"hello", "closing"} <=> at[c] \in Looping \cup {"hello", "closing"}
      BY <1>1, <2>4 DEF ConnSteps, Accept, TlsFails, Open, LoopStep, Queue, QueueFails, SeeDrain,
         SeeChange, CheckEmpty, SeeForce, Epilogue, LoopEnds, Write, WriteFails, loops, Sorts,
         Looping
    <3>4. Entered' = Entered
      BY <3>2, <3>3 DEF Entered
    <3>5. QED
      BY <2>1, <3>1, <3>4 DEF Counters, Running
  <2>5. QED
    BY <2>2, <2>3, <2>4
<1>2. ASSUME NEW r \in Reqs, TaskSteps(r)
      PROVE  Counters'
  <2>1. conns' = conns /\ Entered' = Entered
    <3>1. UNCHANGED conns
      BY <1>2 DEF TaskSteps, TaskStep, Admit, Refuse, Cancel, Start, Handle, Send, Remove,
         Notify, Release, DropAborted, Panic, counters
    <3>2. UNCHANGED at \/ (at[Owner[r]] = "select" /\ at' = [at EXCEPT ![Owner[r]] = "send"])
      BY <1>2 DEF TaskSteps, TaskStep, Admit, Refuse, Cancel, Start, Handle, Send, Remove,
         Notify, Release, DropAborted, Panic, loops
    <3>3. Entered' = Entered
      BY <3>2, OwnerType DEF Entered, Looping, Sorts
    <3>4. QED
      BY <3>1, <3>3
  <2>2. CASE Start(r)
    <3>1. Running' = Running \cup {r} /\ r \notin Running /\ reqs' = reqs + 1
      BY <2>2 DEF Start, Running, Counted, Alive, Sorts
    <3>2. QED
      BY <1>0, <2>1, <3>1, FS_AddElement DEF Counters
  <2>3. CASE Panic(r) \/ Release(r) \/ (DropAborted(r) /\ task[r] \in Counted)
    <3>1. Running' = Running \ {r} /\ r \in Running /\ reqs' = reqs - 1
      BY <2>3, SMTT(30) DEF Panic, Release, DropAborted, Running, Counted, Alive, Sorts
    <3>2. QED
      BY <1>0, <2>1, <3>1, FS_RemoveElement DEF Counters
  <2>4. CASE ~Start(r) /\ ~Panic(r) /\ ~Release(r) /\ ~(DropAborted(r) /\ task[r] \in Counted)
    <3>1. UNCHANGED reqs
      BY <1>2, <2>4 DEF TaskSteps, TaskStep, Admit, Refuse, Cancel, Handle, Send, Remove, Notify,
         DropAborted, counters
    <3>2. \A s \in Reqs : s # r => task'[s] = task[s]
      BY <1>2, TaskMoves
    <3>3. task'[r] \in Counted <=> task[r] \in Counted
      <4>1. CASE Admit(r) \/ Refuse(r) \/ Cancel(r) \/ DropAborted(r)
        BY <2>4, <4>1, SMTT(30) DEF Admit, Refuse, Cancel, DropAborted, Sorts, Counted, Alive
      <4>2. CASE Handle(r) \/ Send(r) \/ Remove(r) \/ Notify(r)
        BY <4>2 DEF Handle, Send, Remove, Notify, Sorts, Counted, Alive
      <4>3. QED
        BY <1>2, <2>4, <4>1, <4>2 DEF TaskSteps, TaskStep
    <3>4. Running' = Running
      BY <3>2, <3>3 DEF Running
    <3>5. QED
      BY <2>1, <3>1, <3>4 DEF Counters
  <2>5. QED
    BY <2>2, <2>3, <2>4
<1>3. CASE RunSteps \/ ControlSteps \/ UNCHANGED vars
  <2>1. UNCHANGED <<at, task, conns, reqs>>
    BY <1>3 DEF RunSteps, RunStep, RunFails, RunChecks, RunReady, RunListens, RunStops,
       ControlSteps, DrainStep, DrainMarks, DrainUnready, DrainSends, DrainConns, DrainReqs,
       DrainRegisters, DrainWakes, DrainTimesOut, loops, tasks, counters, vars
  <2>2. QED
    BY <2>1 DEF Counters, Entered, Running
<1>4. QED
  BY <1>1, <1>2, <1>3 DEF Next, RunSteps, ControlSteps, ConnSteps, TaskSteps

\* A permit leaves the semaphore when a request is admitted and comes back with
\* the end of its task; no other step moves one or makes or ends a task.
LEMMA PermitsStep ==
  ASSUME Sorts, Permits, [Next]_vars
  PROVE  Permits'
<1> USE Zenon
<1>0. \A c \in Conns : IsFiniteSet(Tasks(c)) /\ Cardinality(Tasks(c)) \in Nat
  BY FinitelyMany, FS_Subset, FS_CardinalityType DEF Tasks
<1>1. ASSUME NEW r \in Reqs, Admit(r)
      PROVE  Permits'
  <2>1. Owner[r] \in Conns
    BY OwnerType
  <2>2. permits' = [permits EXCEPT ![Owner[r]] = @ - 1] /\ permits[Owner[r]] > 0
    BY <1>1 DEF Admit
  <2>3. permits' \in [Conns -> Nat]
    BY <2>1, <2>2, SMTT(30) DEF Permits
  <2>4. ASSUME NEW c \in Conns
        PROVE  permits'[c] + Cardinality(Tasks(c)') = MaxInFlight
    <3>1. CASE c = Owner[r]
      <4>1. Tasks(c)' = Tasks(c) \cup {r} /\ r \notin Tasks(c)
        BY <1>1, <3>1, SMTT(30) DEF Admit, Tasks, Alive, Sorts
      <4>2. Cardinality(Tasks(c) \cup {r}) = Cardinality(Tasks(c)) + 1
        BY <1>0, <4>1, FS_AddElement
      <4>3. permits[c] \in Nat /\ permits[c] + Cardinality(Tasks(c)) = MaxInFlight
        BY DEF Permits, PermitsExact
      <4>4. permits'[c] = permits[c] - 1
        BY <2>2, <3>1 DEF Permits
      <4>5. QED
        BY <1>0, <4>1, <4>2, <4>3, <4>4, SMTT(30)
    <3>2. CASE c # Owner[r]
      <4>1. Tasks(c)' = Tasks(c)
        BY <1>1, <3>2 DEF Admit, Tasks, Sorts
      <4>2. permits'[c] = permits[c]
        BY <2>2, <3>2 DEF Permits
      <4>3. QED
        BY <4>1, <4>2 DEF Permits, PermitsExact
    <3>3. QED
      BY <3>1, <3>2
  <2>5. QED
    BY <2>3, <2>4 DEF Permits, PermitsExact
<1>2. ASSUME NEW r \in Reqs, Release(r) \/ Panic(r) \/ DropAborted(r)
      PROVE  Permits'
  <2>1. Owner[r] \in Conns
    BY OwnerType
  <2>2. permits' = [permits EXCEPT ![Owner[r]] = @ + 1]
    BY <1>2 DEF Release, Panic, DropAborted, GiveBack
  <2>3. permits' \in [Conns -> Nat]
    BY <2>1, <2>2, SMTT(30) DEF Permits
  <2>4. PICK x \in {"done", "panicked"} : task' = [task EXCEPT ![r] = x]
    BY <1>2 DEF Release, Panic, DropAborted
  <2>5. task[r] \in Alive
    BY <1>2 DEF Release, Panic, DropAborted, Alive
  <2>6. ASSUME NEW c \in Conns
        PROVE  permits'[c] + Cardinality(Tasks(c)') = MaxInFlight
    <3>1. CASE c = Owner[r]
      <4>1. Tasks(c)' = Tasks(c) \ {r}
        BY <2>4, <3>1, SMTT(30) DEF Tasks, Alive, Sorts
      <4>2. r \in Tasks(c)
        BY <2>5, <3>1 DEF Tasks
      <4>3. Cardinality(Tasks(c) \ {r}) = Cardinality(Tasks(c)) - 1
        BY <1>0, <4>2, FS_RemoveElement
      <4>4. permits[c] \in Nat /\ permits[c] + Cardinality(Tasks(c)) = MaxInFlight
        BY DEF Permits, PermitsExact
      <4>5. permits'[c] = permits[c] + 1
        BY <2>2, <3>1 DEF Permits
      <4>6. QED
        BY <1>0, <4>1, <4>3, <4>4, <4>5, SMTT(30)
    <3>2. CASE c # Owner[r]
      <4>1. Tasks(c)' = Tasks(c)
        BY <2>4, <3>2 DEF Tasks, Sorts
      <4>2. permits'[c] = permits[c]
        BY <2>2, <3>2 DEF Permits
      <4>3. QED
        BY <4>1, <4>2 DEF Permits, PermitsExact
    <3>3. QED
      BY <3>1, <3>2
  <2>7. QED
    BY <2>3, <2>6 DEF Permits, PermitsExact
<1>3. ASSUME UNCHANGED permits, \A r \in Reqs : task'[r] \in Alive <=> task[r] \in Alive
      PROVE  Permits'
  <2>1. \A c \in Conns : Tasks(c)' = Tasks(c)
    BY <1>3 DEF Tasks
  <2>2. QED
    BY <1>3, <2>1 DEF Permits, PermitsExact
<1>4. ASSUME NEW r \in Reqs,
             Refuse(r) \/ Cancel(r) \/ Start(r) \/ Handle(r) \/ Send(r) \/ Remove(r) \/ Notify(r)
      PROVE  Permits'
  <2>1. UNCHANGED permits
    BY <1>4 DEF Refuse, Cancel, Start, Handle, Send, Remove, Notify
  <2>2. CASE Cancel(r)
    BY <1>3, <2>1, <2>2 DEF Cancel
  <2>3. CASE Refuse(r)
    <3>1. task' = [task EXCEPT ![r] = "refused"] /\ task[r] = "none"
      BY <2>3 DEF Refuse
    <3>2. QED
      BY <1>3, <2>1, <3>1 DEF Sorts, Alive
  <2>4. CASE Start(r) \/ Handle(r) \/ Send(r) \/ Remove(r) \/ Notify(r)
    <3>1. PICK x \in Alive : task' = [task EXCEPT ![r] = x]
      BY <2>4 DEF Start, Handle, Send, Remove, Notify, Alive
    <3>2. task[r] \in Alive
      BY <2>4 DEF Start, Handle, Send, Remove, Notify, Alive
    <3>3. QED
      BY <1>3, <2>1, <3>1, <3>2 DEF Sorts
  <2>5. QED
    BY <1>4, <2>2, <2>3, <2>4
<1>5. ASSUME NEW c \in Conns, ConnSteps(c)
      PROVE  UNCHANGED <<task, permits>>
  BY <1>5 DEF ConnSteps, Accept, Enter, TlsFails, HelloFails, Open, LoopStep, Queue, QueueFails,
     SeeDrain, SeeChange, CheckEmpty, SeeForce, Epilogue, Close, LoopEnds, Write, WriteFails,
     tasks
<1>6. CASE RunSteps \/ ControlSteps \/ UNCHANGED vars
  <2>1. UNCHANGED <<task, permits>>
    BY <1>6 DEF RunSteps, RunStep, RunFails, RunChecks, RunReady, RunListens, RunStops,
       ControlSteps, DrainStep, DrainMarks, DrainUnready, DrainSends, DrainConns, DrainReqs,
       DrainRegisters, DrainWakes, DrainTimesOut, tasks, vars
  <2>2. QED
    BY <1>3, <2>1
<1>7. ASSUME NEW r \in Reqs, TaskSteps(r)
      PROVE  Permits'
  BY <1>1, <1>2, <1>4, <1>7 DEF TaskSteps, TaskStep
<1>8. QED
  BY <1>3, <1>5, <1>6, <1>7 DEF Next, RunSteps, ControlSteps, ConnSteps, TaskSteps

-----------------------------------------------------------------------------
(* Connections and requests                                                *)

\* GOODBYE is none of the frames a loop or a task sends otherwise.
LEMMA Frames ==
  /\ GoAway # Goodbye
  /\ \A r \in Reqs : Answer(r) # Goodbye /\ Refusal(r) # Goodbye
BY Zenon DEF GoAway, Goodbye, Answer, Refusal

\* A frame at the end of a queue moves none of the others.
LEMMA Appended ==
  ASSUME Sorts, NEW c \in Conns, NEW f \in Frame, out' = [out EXCEPT ![c] = Append(@, f)]
  PROVE  /\ \A d \in Conns : d # c => out'[d] = out[d]
         /\ Len(out'[c]) = Len(out[c]) + 1 /\ Len(out[c]) \in Nat
         /\ DOMAIN out[c] = 1 .. Len(out[c]) /\ DOMAIN out'[c] = 1 .. Len(out[c]) + 1
         /\ \A i \in 1 .. Len(out[c]) : out'[c][i] = out[c][i]
         /\ out'[c][Len(out[c]) + 1] = f
<1> USE Zenon
<1>1. out[c] \in Seq(Frame) /\ out'[c] = Append(out[c], f)
  BY DEF Sorts
<1>2. /\ out'[c] \in Seq(Frame) /\ Len(out'[c]) = Len(out[c]) + 1
      /\ \A i \in 1 .. Len(out[c]) : out'[c][i] = out[c][i]
      /\ out'[c][Len(out[c]) + 1] = f
  BY <1>1, AppendProperties, SMTT(30)
<1>3. /\ Len(out[c]) \in Nat /\ DOMAIN out[c] = 1 .. Len(out[c])
      /\ DOMAIN out'[c] = 1 .. Len(out'[c])
  BY <1>1, <1>2, LenProperties
<1>4. \A d \in Conns : d # c => out'[d] = out[d]
  BY DEF Sorts
<1>5. QED
  BY <1>2, <1>3, <1>4

\* It comes after every frame that is there, and is the only one that is new.
LEMMA PositionAppended ==
  ASSUME Sorts, NEW c \in Conns, NEW f \in Frame, out' = [out EXCEPT ![c] = Append(@, f)],
         NEW g \in Frame
  PROVE  /\ \A j \in Position(c, g) : j \in Position(c, g)' /\ j < Len(out[c]) + 1
         /\ \A j \in Position(c, g)' : j \in Position(c, g) \/ (j = Len(out[c]) + 1 /\ g = f)
<1> USE Zenon
<1> DEFINE n == Len(out[c])
<1>0. /\ n \in Nat /\ DOMAIN out[c] = 1 .. n /\ DOMAIN out'[c] = 1 .. n + 1
      /\ \A k \in 1 .. n : out'[c][k] = out[c][k]
      /\ out'[c][n + 1] = f
  BY Appended
<1> HIDE DEF n
<1>1. ASSUME NEW j \in Position(c, g)
      PROVE  j \in Position(c, g)' /\ j < n + 1
  <2>1. j \in 1 .. n /\ out[c][j] = g
    BY <1>0, <1>1 DEF Position
  <2>2. j \in 1 .. n + 1 /\ j < n + 1 /\ out'[c][j] = g
    BY <1>0, <2>1, SMTT(30)
  <2>3. QED
    BY <1>0, <2>2 DEF Position
<1>2. ASSUME NEW j \in Position(c, g)'
      PROVE  j \in Position(c, g) \/ (j = n + 1 /\ g = f)
  <2>1. j \in 1 .. n + 1 /\ out'[c][j] = g
    BY <1>0, <1>2 DEF Position
  <2>2. j \in 1 .. n \/ j = n + 1
    BY <1>0, <2>1, SMTT(30)
  <2>3. QED
    BY <1>0, <2>1, <2>2 DEF Position
<1>3. QED
  BY <1>1, <1>2 DEF n

\* A queued frame adds itself and nothing else to what a queue has.
LEMMA HasAppended ==
  ASSUME Sorts, NEW c \in Conns, NEW f \in Frame, out' = [out EXCEPT ![c] = Append(@, f)]
  PROVE  /\ \A d \in Conns, g \in Frame : Has(d, g) => Has(d, g)'
         /\ \A d \in Conns, g \in Frame : Has(d, g)' => Has(d, g) \/ (d = c /\ g = f)
         /\ Has(c, f)'
<1> USE Zenon
<1> DEFINE n == Len(out[c])
<1>0. /\ \A d \in Conns : d # c => out'[d] = out[d]
      /\ n \in Nat /\ DOMAIN out[c] = 1 .. n /\ DOMAIN out'[c] = 1 .. n + 1
      /\ \A i \in 1 .. n : out'[c][i] = out[c][i]
      /\ out'[c][n + 1] = f
  BY Appended
<1>1. ASSUME NEW d \in Conns, NEW g \in Frame
      PROVE  (Has(d, g) => Has(d, g)') /\ (Has(d, g)' => Has(d, g) \/ (d = c /\ g = f))
  <2>1. CASE d # c
    BY <1>0, <2>1 DEF Has
  <2>2. CASE d = c
    <3> HIDE DEF n
    <3>1. ASSUME NEW i \in DOMAIN out[c], out[c][i] = g
          PROVE  Has(c, g)'
      BY <1>0, <3>1, SMTT(30) DEF Has
    <3>2. ASSUME NEW i \in DOMAIN out'[c], out'[c][i] = g
          PROVE  Has(c, g) \/ g = f
      BY <1>0, <3>2, SMTT(30) DEF Has
    <3>3. QED
      BY <2>2, <3>1, <3>2 DEF Has
  <2>3. QED
    BY <2>1, <2>2
<1>2. Has(c, f)'
  <2> HIDE DEF n
  <2>1. n + 1 \in DOMAIN out'[c]
    BY <1>0, SMTT(30)
  <2>2. QED
    BY <1>0, <2>1 DEF Has
<1>3. QED
  BY <1>1, <1>2

\* What the steps of runtime and controller leave alone.
LEMMA Elsewhere ==
  ASSUME RunSteps \/ ControlSteps \/ UNCHANGED vars
  PROVE  UNCHANGED <<loops, tables, queues, tasks, conns, reqs>>
BY Zenon DEF RunSteps, RunStep, RunFails, RunChecks, RunReady, RunListens, RunStops, ControlSteps,
       DrainStep, DrainMarks, DrainUnready, DrainSends, DrainConns, DrainReqs, DrainRegisters,
       DrainWakes, DrainTimesOut, loops, tables, queues, tasks, counters, vars

\* The signals only go up, and a connection or a task does not send them.
LEMMA SignalsStep ==
  ASSUME Flags, Signals, [Next]_vars
  PROVE  Signals' /\ (forceTx => forceTx')
<1> USE Zenon
<1>1. CASE ControlSteps
  <2>1. forceTx \in BOOLEAN
    BY DEF Flags
  <2>2. CASE DrainTimesOut
    BY <2>1, <2>2 DEF DrainTimesOut, Signals
  <2>3. CASE DrainMarks \/ DrainStep
    <3>1. UNCHANGED forceTx /\ ctl # "timed_out"
      BY <2>3 DEF DrainStep, DrainMarks, DrainUnready, DrainSends, DrainConns, DrainReqs,
         DrainRegisters, DrainWakes
    <3>2. QED
      BY <2>1, <3>1 DEF Signals
  <2>4. QED
    BY <1>1, <2>2, <2>3 DEF ControlSteps
<1>2. CASE UNCHANGED control
  BY <1>2 DEF control, Signals
<1>3. CASE RunSteps \/ UNCHANGED vars
  <2>1. UNCHANGED control
    BY <1>3 DEF RunSteps, RunStep, RunFails, RunChecks, RunReady, RunListens, RunStops, vars
  <2>2. QED
    BY <1>2, <2>1
<1>4. ASSUME NEW c \in Conns, ConnSteps(c)
      PROVE  UNCHANGED control
  BY <1>4 DEF ConnSteps, Accept, Enter, TlsFails, HelloFails, Open, LoopStep, Queue, QueueFails,
     SeeDrain, SeeChange, CheckEmpty, SeeForce, Epilogue, Close, LoopEnds, Write, WriteFails
<1>5. ASSUME NEW r \in Reqs, TaskSteps(r)
      PROVE  UNCHANGED control
  BY <1>5 DEF TaskSteps, TaskStep, Admit, Refuse, Cancel, Start, Handle, Send, Remove, Notify,
     Release, DropAborted, Panic
<1>6. QED
  BY <1>1, <1>2, <1>3, <1>4, <1>5 DEF Next, RunSteps, ControlSteps, ConnSteps, TaskSteps

\* What a step of a connection changes is that connection's own.
LEMMA OneConn ==
  ASSUME Sorts, NEW c \in Conns, ConnSteps(c)
  PROVE  /\ \A d \in Conns : d # c =>
              /\ at'[d] = at[d] /\ pend'[d] = pend[d] /\ local'[d] = local[d]
              /\ active'[d] = active[d] /\ out'[d] = out[d] /\ writer'[d] = writer[d]
         /\ UNCHANGED <<control, task>>
<1> USE Zenon
<1>1. \A d \in Conns : d # c => at'[d] = at[d] /\ pend'[d] = pend[d]
  BY DEF ConnSteps, Accept, Enter, TlsFails, HelloFails, Open, LoopStep, Queue, QueueFails,
     SeeDrain, SeeChange, CheckEmpty, SeeForce, Epilogue, Close, LoopEnds, Write, WriteFails,
     loops, Sorts
<1>2. \A d \in Conns : d # c => local'[d] = local[d] /\ active'[d] = active[d]
  BY DEF ConnSteps, Accept, Enter, TlsFails, HelloFails, Open, LoopStep, Queue, QueueFails,
     SeeDrain, SeeChange, CheckEmpty, SeeForce, Epilogue, Close, LoopEnds, Write, WriteFails,
     loops, tables, Sorts
<1>3. \A d \in Conns : d # c => out'[d] = out[d] /\ writer'[d] = writer[d]
  BY DEF ConnSteps, Accept, Enter, TlsFails, HelloFails, Open, LoopStep, Queue, QueueFails,
     SeeDrain, SeeChange, CheckEmpty, SeeForce, Epilogue, Close, LoopEnds, Write, WriteFails,
     queues, Sorts
<1>4. UNCHANGED <<control, task>>
  BY DEF ConnSteps, Accept, Enter, TlsFails, HelloFails, Open, LoopStep, Queue, QueueFails,
     SeeDrain, SeeChange, CheckEmpty, SeeForce, Epilogue, Close, LoopEnds, Write, WriteFails,
     tasks
<1>5. QED
  BY <1>1, <1>2, <1>3, <1>4

\* Every step keeps table, queue and writer in line with the loop.
LEMMA StagesStep ==
  ASSUME Flags, Sorts, Pends, Signals, Stages, [Next]_vars
  PROVE  Stages'
<1> USE Zenon
<1>0. forceTx => forceTx'
  BY SignalsStep
<1>1. CASE UNCHANGED <<loops, tables, queues, tasks>>
  BY <1>0, <1>1 DEF Stages, Has, loops, tables, queues, tasks
<1>2. ASSUME NEW c \in Conns, ConnSteps(c)
      PROVE  Stages'
  <2>0. /\ \A d \in Conns : d # c =>
              /\ at'[d] = at[d] /\ active'[d] = active[d]
              /\ out'[d] = out[d] /\ writer'[d] = writer[d]
        /\ task' = task
    BY <1>2, OneConn
  <2> SUFFICES /\ at'[c] \in {"none", "spawned", "hello"} =>
                    /\ writer'[c] = "none" /\ out'[c] = <<>>
                    /\ \A r \in Reqs : Owner[r] = c => task'[r] = "none"
               /\ at'[c] \in {"none", "spawned", "hello", "closing", "closed"} => active'[c] = {}
               /\ at'[c] = "leave" /\ ~forceTx' => active'[c] = {}
               /\ Has(c, Goodbye)' => at'[c] \in {"break", "closing", "closed"}
    BY <1>0, <2>0, SMTT(30) DEF Stages, Has
  <2>1. CASE Queue(c)
    <3>1. /\ at[c] \in {"send", "drain", "leave"} /\ at'[c] \in {"select", "check", "break"}
          /\ at[c] # "leave" => at'[c] # "break"
          /\ at[c] = "leave" => at'[c] = "break"
      BY <2>1 DEF Queue, Sorts
    <3>2. pend[c] \in Frame /\ Goodbye \in Frame /\ (at[c] # "leave" => pend[c] # Goodbye)
      BY <3>1, Frames DEF Pends, Frame
    <3>3. Has(c, Goodbye)' => Has(c, Goodbye) \/ pend[c] = Goodbye
      <4>1. out' = [out EXCEPT ![c] = Append(@, pend[c])]
        BY <2>1 DEF Queue
      <4>2. QED
        BY <3>2, <4>1, HasAppended
    <3>4. ~Has(c, Goodbye)
      BY <3>1 DEF Stages
    <3>5. QED
      BY <3>1, <3>2, <3>3, <3>4
  <2>2. CASE ~Queue(c)
    <3>0. out' = out /\ (Has(c, Goodbye)' <=> Has(c, Goodbye))
      BY <1>2, <2>2 DEF ConnSteps, Accept, Enter, TlsFails, HelloFails, Open, LoopStep,
         QueueFails, SeeDrain, SeeChange, CheckEmpty, SeeForce, Epilogue, Close, LoopEnds, Write,
         WriteFails, queues, Has
    <3>1. CASE Accept(c) \/ Enter(c) \/ TlsFails(c) \/ HelloFails(c)
      <4>1. /\ at[c] \in {"none", "spawned", "hello"} /\ at'[c] \in {"spawned", "hello", "closed"}
            /\ UNCHANGED <<active, writer>>
        BY <3>1 DEF Accept, Enter, TlsFails, HelloFails, Sorts, tables, queues
      <4>2. QED
        BY <2>0, <3>0, <4>1 DEF Stages
    <3>2. CASE Open(c)
      <4>1. ~Has(c, Goodbye)
        BY <3>2 DEF Open, Stages
      <4>2. QED
        BY <3>0, <3>2, <4>1 DEF Open, Sorts
    <3>3. CASE QueueFails(c) \/ SeeDrain(c) \/ SeeChange(c) \/ LoopEnds(c)
      BY <3>0, <3>3 DEF QueueFails, SeeDrain, SeeChange, LoopEnds, Stages, Sorts
    <3>4. CASE CheckEmpty(c) \/ SeeForce(c)
      BY <1>0, <3>0, <3>4 DEF CheckEmpty, SeeForce, Stages, Sorts, control, tables
    <3>5. CASE Epilogue(c) \/ Close(c)
      <4>1. at'[c] \in {"closing", "closed"} /\ active'[c] = {}
        BY <3>5 DEF Epilogue, Close, Stages, Sorts, tables
      <4>2. QED
        BY <3>0, <4>1
    <3>6. CASE Write(c) \/ WriteFails(c)
      <4>1. UNCHANGED <<at, active, task>>
        BY <3>6 DEF Write, WriteFails, loops, tables, tasks
      <4>2. at[c] \in {"none", "spawned", "hello"} => writer'[c] = "none"
        BY <3>6 DEF Write, WriteFails, Stages, Sorts
      <4>3. QED
        BY <1>0, <3>0, <4>1, <4>2 DEF Stages
    <3>7. QED
      BY <1>2, <2>2, <3>1, <3>2, <3>3, <3>4, <3>5, <3>6 DEF ConnSteps, LoopStep
  <2>3. QED
    BY <2>1, <2>2
<1>3. ASSUME NEW r \in Reqs, TaskSteps(r)
      PROVE  Stages'
  <2> DEFINE c == Owner[r]
  <2>0. c \in Conns /\ UNCHANGED <<writer, forceTx>>
    BY <1>3, OwnerType DEF TaskSteps, TaskStep, Admit, Refuse, Cancel, Start, Handle, Send,
       Remove, Notify, Release, DropAborted, Panic, control, queues
  <2>1. CASE Send(r)
    <3>1. at' = at /\ active' = active /\ task[r] # "none" /\ \A s \in Reqs : s # r => task'[s] = task[s]
      BY <2>1 DEF Send, loops, tables, Sorts
    <3>2. at[c] \notin {"none", "spawned", "hello"}
      BY <2>0, <3>1 DEF Stages
    <3>3. \A d \in Conns : Has(d, Goodbye)' => Has(d, Goodbye)
      <4>1. CASE UNCHANGED out
        BY <4>1 DEF Has
      <4>2. CASE out' = [out EXCEPT ![c] = Append(@, Answer(r))]
        <5>1. Answer(r) \in Frame /\ Goodbye \in Frame
          BY DEF Frame
        <5> HIDE DEF c
        <5>2. QED
          BY <2>0, <4>2, <5>1, HasAppended, Frames
      <4>3. QED
        BY <2>1, <4>1, <4>2 DEF Send
    <3>4. \A d \in Conns : d # c => out'[d] = out[d]
      BY <2>1 DEF Send, Sorts
    <3>5. QED
      BY <2>0, <3>1, <3>2, <3>3, <3>4, SMTT(30) DEF Stages
  <2>2. CASE ~Send(r)
    <3>1. UNCHANGED out /\ \A s \in Reqs : s # r => task'[s] = task[s]
      BY <1>3, <2>2, SMTT(30) DEF TaskSteps, TaskStep, Admit, Refuse, Cancel, Start, Handle,
         Remove, Notify, Release, DropAborted, Panic, queues, Sorts
    <3>2. CASE Admit(r) \/ Refuse(r)
      <4>1. at[c] = "select" /\ at'[c] \in {"select", "send"} /\ ~Has(c, Goodbye)
            /\ \A d \in Conns : d # c => at'[d] = at[d] /\ active'[d] = active[d]
        <5>1. CASE Admit(r)
          BY <2>0, <5>1 DEF Admit, Stages, Sorts, loops
        <5>2. CASE Refuse(r)
          <6>1. at[c] = "select" /\ at' = [at EXCEPT ![c] = "send"] /\ UNCHANGED active
            BY <5>2 DEF Refuse, tables
          <6>2. ~Has(c, Goodbye)
            BY <2>0, <6>1 DEF Stages
          <6>3. QED
            BY <2>0, <6>1, <6>2 DEF Sorts
        <5>3. QED
          BY <3>2, <5>1, <5>2
      <4> HIDE DEF c
      <4>2. \A s \in Reqs : Owner[s] # c => task'[s] = task[s]
        BY <3>1 DEF c
      <4>3. \A d \in Conns : Has(d, Goodbye)' <=> Has(d, Goodbye)
        BY <3>1 DEF Has
      <4>4. ASSUME NEW d \in Conns, d # c
            PROVE  /\ at'[d] \in {"none", "spawned", "hello"} =>
                        /\ writer'[d] = "none" /\ out'[d] = <<>>
                        /\ \A s \in Reqs : Owner[s] = d => task'[s] = "none"
                   /\ at'[d] \in {"none", "spawned", "hello", "closing", "closed"} => active'[d] = {}
                   /\ at'[d] = "leave" /\ ~forceTx' => active'[d] = {}
                   /\ Has(d, Goodbye)' => at'[d] \in {"break", "closing", "closed"}
        <5>1. at'[d] = at[d] /\ active'[d] = active[d]
          BY <4>1, <4>4
        <5>2. \A s \in Reqs : Owner[s] = d => task'[s] = task[s]
          BY <4>2, <4>4
        <5>3. QED
          BY <2>0, <3>1, <4>3, <5>1, <5>2 DEF Stages
      <4>5. QED
        BY <4>1, <4>3, <4>4 DEF Stages
    <3>3. CASE ~Admit(r) /\ ~Refuse(r)
      <4>1. at' = at /\ \A d \in Conns : active'[d] \subseteq active[d]
        <5>1. at' = at /\ (active' = active \/ active' = [active EXCEPT ![c] = @ \ {r}])
          BY <1>3, <2>2, <3>3 DEF TaskSteps, TaskStep, Cancel, Start, Handle, Remove, Notify,
             Release, DropAborted, Panic, loops, tables
        <5> HIDE DEF c
        <5>2. QED
          BY <2>0, <5>1 DEF Sorts
      <4>2. task[r] = "none" => task'[r] = "none"
        BY <1>3, <2>2, <3>3 DEF TaskSteps, TaskStep, Cancel, Start, Handle, Remove, Notify,
           Release, DropAborted, Panic, Sorts
      <4>3. \A d \in Conns : Has(d, Goodbye)' <=> Has(d, Goodbye)
        BY <3>1 DEF Has
      <4>4. ASSUME NEW d \in Conns
            PROVE  /\ at'[d] \in {"none", "spawned", "hello"} =>
                        /\ writer'[d] = "none" /\ out'[d] = <<>>
                        /\ \A s \in Reqs : Owner[s] = d => task'[s] = "none"
                   /\ at'[d] \in {"none", "spawned", "hello", "closing", "closed"} => active'[d] = {}
                   /\ at'[d] = "leave" /\ ~forceTx' => active'[d] = {}
                   /\ Has(d, Goodbye)' => at'[d] \in {"break", "closing", "closed"}
        BY <2>0, <3>1, <4>1, <4>2, <4>3, <4>4 DEF Stages
      <4>5. QED
        BY <4>4 DEF Stages
    <3>4. QED
      BY <3>2, <3>3
  <2>3. QED
    BY <2>1, <2>2
<1>4. CASE RunSteps \/ ControlSteps \/ UNCHANGED vars
  BY <1>1, <1>4, Elsewhere
<1>5. QED
  BY <1>2, <1>3, <1>4 DEF Next, RunSteps, ControlSteps, ConnSteps, TaskSteps

\* One request of Accounted.
AccountedFor(r) ==
  LET c == Owner[r] IN
  /\ task[r] \in {"spawned", "counted", "answering", "answered", "panicked"} =>
       r \in active[c] \cup aborted
  /\ writer[c] = "up" /\ r \notin aborted =>
       /\ task[r] \in {"answered", "removed", "notified", "done"} => Has(c, Answer(r))
       /\ task[r] = "refused" =>
            Has(c, Refusal(r)) \/ (at[c] = "send" /\ pend[c] = Refusal(r))

\* No step loses sight of an accepted request before its frame is queued.
LEMMA AccountedStep ==
  ASSUME Sorts, Pends, Stages, Accounted, [Next]_vars
  PROVE  Accounted'
<1> USE Zenon
<1>0. \A s \in Reqs : AccountedFor(s) /\ Owner[s] \in Conns
                      /\ Answer(s) \in Frame /\ Refusal(s) \in Frame
  BY OwnerType DEF Accounted, AccountedFor, Frame
<1>1. ASSUME \A s \in Reqs : AccountedFor(s)'
      PROVE  Accounted'
  BY <1>1 DEF Accounted, AccountedFor
<1>2. ASSUME NEW c \in Conns, ConnSteps(c), NEW s \in Reqs
      PROVE  AccountedFor(s)'
  <2>0. /\ \A d \in Conns : d # c =>
              /\ at'[d] = at[d] /\ pend'[d] = pend[d] /\ active'[d] = active[d]
              /\ out'[d] = out[d] /\ writer'[d] = writer[d]
        /\ task' = task
    BY <1>2, OneConn
  <2>1. aborted \subseteq aborted'
    BY <1>2 DEF ConnSteps, Accept, Enter, TlsFails, HelloFails, Open, LoopStep, Queue,
       QueueFails, SeeDrain, SeeChange, CheckEmpty, SeeForce, Epilogue, Close, LoopEnds, Write,
       WriteFails, tasks
  <2>2. CASE Owner[s] # c
    <3> DEFINE d == Owner[s]
    <3>1. /\ at'[d] = at[d] /\ pend'[d] = pend[d] /\ active'[d] = active[d]
          /\ out'[d] = out[d] /\ writer'[d] = writer[d] /\ task'[s] = task[s]
      BY <1>0, <2>0, <2>2
    <3>2. /\ Has(d, Answer(s))' <=> Has(d, Answer(s))
          /\ Has(d, Refusal(s))' <=> Has(d, Refusal(s))
      BY <3>1 DEF Has
    <3>3. AccountedFor(s)
      BY <1>0
    <3>4. QED
      BY <2>1, <3>1, <3>2, <3>3 DEF AccountedFor
  <2>3. CASE Owner[s] = c
    <3>0. AccountedFor(s) /\ Answer(s) \in Frame /\ Refusal(s) \in Frame /\ task'[s] = task[s]
      BY <1>0, <2>0
    <3>1. CASE Queue(c)
      <4>1. pend[c] \in Frame /\ out' = [out EXCEPT ![c] = Append(@, pend[c])]
        BY <3>1 DEF Queue, Pends, Frame
      <4>2. Has(c, Answer(s)) => Has(c, Answer(s))'
        BY <3>0, <4>1, HasAppended
      <4>3. Has(c, Refusal(s)) \/ pend[c] = Refusal(s) => Has(c, Refusal(s))'
        BY <3>0, <4>1, HasAppended
      <4>4. UNCHANGED <<active, aborted, writer>>
        BY <3>1 DEF Queue, tables, tasks
      <4>5. QED
        BY <2>3, <3>0, <4>2, <4>3, <4>4 DEF AccountedFor
    <3>2. CASE ~Queue(c)
      <4>1. out' = out /\ (Has(c, Answer(s))' <=> Has(c, Answer(s)))
            /\ (Has(c, Refusal(s))' <=> Has(c, Refusal(s)))
        <5>1. out' = out
          BY <1>2, <3>2 DEF ConnSteps, Accept, Enter, TlsFails, HelloFails, Open, LoopStep,
             QueueFails, SeeDrain, SeeChange, CheckEmpty, SeeForce, Epilogue, Close, LoopEnds,
             Write, WriteFails, queues
        <5>2. QED
          BY <5>1 DEF Has
      <4>2. active[c] \subseteq active'[c] \cup aborted'
        BY <1>2, <3>2 DEF ConnSteps, Accept, Enter, TlsFails, HelloFails, Open, LoopStep,
           QueueFails, SeeDrain, SeeChange, CheckEmpty, SeeForce, Epilogue, Close, LoopEnds,
           Write, WriteFails, tables, tasks, Sorts
      <4>3. CASE Open(c)
        <5>1. task[s] = "none"
          BY <2>3, <4>3 DEF Open, Stages
        <5>2. QED
          BY <3>0, <5>1 DEF AccountedFor
      <4>4. CASE ~Open(c)
        <5>1. writer'[c] = "up" => writer[c] = "up"
          BY <1>2, <3>2, <4>4 DEF ConnSteps, Accept, Enter, TlsFails, HelloFails, LoopStep,
             QueueFails, SeeDrain, SeeChange, CheckEmpty, SeeForce, Epilogue, Close, LoopEnds,
             Write, WriteFails, queues, Sorts
        <5>2. writer'[c] = "up" /\ at[c] = "send" => at'[c] = "send" /\ pend'[c] = pend[c]
          BY <1>2, <3>2, <4>4 DEF ConnSteps, Accept, Enter, TlsFails, HelloFails, LoopStep,
             QueueFails, SeeDrain, SeeChange, CheckEmpty, SeeForce, Epilogue, Close, LoopEnds,
             Write, WriteFails, loops, queues, Sorts
        <5>3. QED
          BY <2>1, <2>3, <3>0, <4>1, <4>2, <5>1, <5>2 DEF AccountedFor
      <4>5. QED
        BY <4>3, <4>4
    <3>3. QED
      BY <3>1, <3>2
  <2>4. QED
    BY <2>2, <2>3
<1>3. ASSUME NEW r \in Reqs, TaskSteps(r), NEW s \in Reqs
      PROVE  AccountedFor(s)'
  <2> DEFINE c == Owner[r]
             d == Owner[s]
  <2>0. /\ c \in Conns /\ d \in Conns /\ UNCHANGED writer /\ aborted \subseteq aborted'
        /\ AccountedFor(s) /\ Answer(s) \in Frame /\ Refusal(s) \in Frame /\ Answer(r) \in Frame
    BY <1>0, <1>3, OwnerType DEF TaskSteps, TaskStep, Admit, Refuse, Cancel, Start, Handle, Send,
       Remove, Notify, Release, DropAborted, Panic, queues
  <2>1. /\ Has(d, Answer(s)) => Has(d, Answer(s))'
        /\ Has(d, Refusal(s)) => Has(d, Refusal(s))'
        /\ out' # out => Has(c, Answer(r))'
    <3>1. CASE out' = out
      BY <3>1 DEF Has
    <3>2. CASE out' = [out EXCEPT ![c] = Append(@, Answer(r))]
      <4> HIDE DEF c, d
      <4>1. QED
        BY <2>0, <3>2, HasAppended
    <3>3. QED
      BY <1>3, <3>1, <3>2 DEF TaskSteps, TaskStep, Admit, Refuse, Cancel, Start, Handle, Send,
         Remove, Notify, Release, DropAborted, Panic, queues
  <2>2. s # r => task'[s] = task[s]
    BY <1>3 DEF TaskSteps, TaskStep, Admit, Refuse, Cancel, Start, Handle, Send, Remove, Notify,
       Release, DropAborted, Panic, Sorts
  <2>3. at[d] = "send" => at'[d] = "send" /\ pend'[d] = pend[d]
    <3>1. UNCHANGED <<at, pend>> \/ Refuse(r)
      BY <1>3 DEF TaskSteps, TaskStep, Admit, Cancel, Start, Handle, Send, Remove, Notify,
         Release, DropAborted, Panic, loops
    <3>2. CASE Refuse(r)
      BY <3>2, SMTT(30) DEF Refuse, Sorts
    <3>3. QED
      BY <3>1, <3>2
  <2>4. s # r \/ ~Remove(r) => (s \in active[d] => s \in active'[d] \cup aborted')
    <3>1. \/ active' = active \/ active' = [active EXCEPT ![c] = @ \cup {r}]
          \/ (Cancel(r) \/ Remove(r)) /\ active' = [active EXCEPT ![c] = @ \ {r}]
      BY <1>3 DEF TaskSteps, TaskStep, Admit, Refuse, Cancel, Start, Handle, Send, Remove,
         Notify, Release, DropAborted, Panic, tables
    <3>2. Cancel(r) => r \in aborted'
      BY DEF Cancel
    <3> HIDE DEF c, d
    <3>3. active \in [Conns -> SUBSET Reqs]
      BY DEF Sorts
    <3>4. CASE active' = active \/ active' = [active EXCEPT ![c] = @ \cup {r}]
      BY <2>0, <3>3, <3>4
    <3>5. CASE (Cancel(r) \/ Remove(r)) /\ active' = [active EXCEPT ![c] = @ \ {r}]
      BY <2>0, <3>2, <3>3, <3>5
    <3>6. QED
      BY <3>1, <3>4, <3>5
  <2>5. CASE s # r
    BY <2>0, <2>1, <2>2, <2>3, <2>4, <2>5 DEF AccountedFor
  <2>6. CASE s = r
    <3>1. CASE Admit(r)
      BY <2>0, <2>6, <3>1 DEF Admit, AccountedFor, Sorts
    <3>2. CASE Refuse(r)
      BY <2>0, <2>6, <3>2 DEF Refuse, AccountedFor, Sorts
    <3>3. CASE Send(r)
      <4>1. /\ task[r] = "answering" /\ task'[r] = "answered"
            /\ writer[c] = "up" => out' # out
            /\ UNCHANGED <<active, aborted>>
        <5>1. task[r] = "answering" /\ task'[r] = "answered" /\ UNCHANGED <<active, aborted>>
          BY <3>3 DEF Send, Sorts, tables
        <5>2. ASSUME writer[c] = "up"
              PROVE  out' # out
          <6>1. out' = [out EXCEPT ![c] = Append(@, Answer(r))]
            BY <3>3, <5>2 DEF Send
          <6> HIDE DEF c
          <6>2. Len(out'[c]) = Len(out[c]) + 1 /\ Len(out[c]) \in Nat
            BY <2>0, <6>1, Appended
          <6>3. QED
            BY <6>2, SMTT(30)
        <5>3. QED
          BY <5>1, <5>2
      <4>2. QED
        BY <2>0, <2>1, <2>6, <4>1 DEF AccountedFor
    <3>4. CASE Remove(r)
      <4>1. task[r] = "answered" /\ task'[r] = "removed" /\ UNCHANGED aborted
        BY <3>4 DEF Remove, Sorts
      <4>2. QED
        BY <2>0, <2>1, <2>6, <4>1 DEF AccountedFor
    <3>5. CASE Cancel(r)
      <4>1. r \in aborted'
        BY <3>5 DEF Cancel
      <4>2. QED
        BY <2>0, <2>6, <4>1 DEF AccountedFor
    <3>6. CASE DropAborted(r)
      <4>1. r \in aborted'
        BY <2>0, <3>6 DEF DropAborted
      <4>2. QED
        BY <2>0, <2>6, <4>1 DEF AccountedFor
    <3>7. CASE Start(r) \/ Handle(r) \/ Notify(r) \/ Release(r) \/ Panic(r)
      <4>1. \/ task[r] \in {"spawned", "counted"} /\ task'[r] \in {"counted", "answering", "panicked"}
            \/ task[r] \in {"removed", "notified"} /\ task'[r] \in {"notified", "done"}
        BY <3>7 DEF Start, Handle, Notify, Release, Panic, Sorts
      <4>3. UNCHANGED <<active, aborted>>
        BY <3>7 DEF Start, Handle, Notify, Release, Panic, tables
      <4>4. QED
        BY <2>0, <2>1, <2>6, <4>1, <4>3 DEF AccountedFor
    <3>8. QED
      BY <1>3, <3>1, <3>2, <3>3, <3>4, <3>5, <3>6, <3>7 DEF TaskSteps, TaskStep
  <2>7. QED
    BY <2>5, <2>6
<1>4. CASE RunSteps \/ ControlSteps \/ UNCHANGED vars
  <2>1. UNCHANGED <<loops, tables, queues, tasks>>
    BY <1>4, Elsewhere
  <2>2. QED
    BY <1>0, <2>1 DEF Accounted, Has, loops, tables, queues, tasks
<1>5. QED
  BY <1>1, <1>2, <1>3, <1>4 DEF Next, RunSteps, ControlSteps, ConnSteps, TaskSteps

-----------------------------------------------------------------------------
(* Answers before GOODBYE                                                  *)

\* The facts about a step that the order of frames depends on.
LEMMA QueueOnly ==
  ASSUME Sorts, [Next]_vars
  PROVE  /\ aborted \subseteq aborted'
         /\ \/ out' = out
            \/ \E d \in Conns : Queue(d)
            \/ \E s \in Reqs : Send(s) /\ out' = [out EXCEPT ![Owner[s]] = Append(@, Answer(s))]
         /\ \A r \in Reqs : task[r] = "none" /\ task'[r] # "none" => at[Owner[r]] = "select"
<1> USE Zenon
<1>1. ASSUME NEW c \in Conns, ConnSteps(c)
      PROVE  aborted \subseteq aborted' /\ task' = task /\ (out' = out \/ Queue(c))
  BY <1>1 DEF ConnSteps, Accept, Enter, TlsFails, HelloFails, Open, LoopStep, QueueFails,
     SeeDrain, SeeChange, CheckEmpty, SeeForce, Epilogue, Close, LoopEnds, Write, WriteFails,
     queues, tasks, Queue
<1>2. ASSUME NEW s \in Reqs, TaskSteps(s)
      PROVE  /\ aborted \subseteq aborted'
             /\ out' = out \/ (Send(s) /\ out' = [out EXCEPT ![Owner[s]] = Append(@, Answer(s))])
             /\ \A r \in Reqs : task[r] = "none" /\ task'[r] # "none" => at[Owner[r]] = "select"
  <2>1. aborted \subseteq aborted'
    BY <1>2 DEF TaskSteps, TaskStep, Admit, Refuse, Cancel, Start, Handle, Send, Remove, Notify,
       Release, DropAborted, Panic
  <2>2. out' = out \/ (Send(s) /\ out' = [out EXCEPT ![Owner[s]] = Append(@, Answer(s))])
    BY <1>2 DEF TaskSteps, TaskStep, Admit, Refuse, Cancel, Start, Handle, Send, Remove, Notify,
       Release, DropAborted, Panic, queues
  <2>3. \A r \in Reqs : r # s => task'[r] = task[r]
    BY <1>2, SMTT(30) DEF TaskSteps, TaskStep, Admit, Refuse, Cancel, Start, Handle, Send,
       Remove, Notify, Release, DropAborted, Panic, Sorts
  <2>4. task[s] = "none" /\ task'[s] # "none" => at[Owner[s]] = "select"
    BY <1>2 DEF TaskSteps, TaskStep, Admit, Refuse, Cancel, Start, Handle, Send, Remove, Notify,
       Release, DropAborted, Panic, Sorts
  <2>5. QED
    BY <2>1, <2>2, <2>3, <2>4
<1>3. CASE RunSteps \/ ControlSteps \/ UNCHANGED vars
  BY <1>3, Elsewhere DEF queues, tasks
<1>4. QED
  BY <1>1, <1>2, <1>3 DEF Next, RunSteps, ControlSteps, ConnSteps, TaskSteps

\* A GOODBYE is queued with an empty table, when all answers are ahead of it.
LEMMA AnsweredStep ==
  ASSUME Flags, Sorts, Pends, Signals, Stages, Accounted, AnsweredBeforeGoodbye, [Next]_vars
  PROVE  AnsweredBeforeGoodbye'
<1> USE Zenon
<1> SUFFICES ASSUME NEW c \in Conns, ~forceTx', NEW i \in Position(c, Goodbye)', NEW r \in Reqs,
                    Owner[r] = c, task'[r] # "none", r \notin aborted'
             PROVE  \E j \in Position(c, Answer(r))' \cup Position(c, Refusal(r))' : j < i
  BY DEF AnsweredBeforeGoodbye
<1>0. ~forceTx /\ r \notin aborted
  BY SignalsStep, QueueOnly
<1>1. i \in DOMAIN out'[c] /\ out'[c][i] = Goodbye
  BY DEF Position
<1>2. ASSUME i \in Position(c, Goodbye)
      PROVE  \E j \in Position(c, Answer(r)) \cup Position(c, Refusal(r)) : j < i
  <2>1. at[c] \in {"break", "closing", "closed"}
    BY <1>2 DEF Position, Has, Stages
  <2>2. task[r] # "none"
    BY <2>1, QueueOnly
  <2>3. QED
    BY <1>0, <1>2, <2>2 DEF AnsweredBeforeGoodbye
<1>3. ASSUME out'[c] = out[c]
      PROVE  \E j \in Position(c, Answer(r))' \cup Position(c, Refusal(r))' : j < i
  BY <1>1, <1>2, <1>3 DEF Position
<1>4. ASSUME NEW f \in Frame, out' = [out EXCEPT ![c] = Append(@, f)],
             f = Goodbye => Queue(c) /\ at[c] = "leave"
      PROVE  \E j \in Position(c, Answer(r))' \cup Position(c, Refusal(r))' : j < i
  <2>0. Goodbye \in Frame /\ Answer(r) \in Frame /\ Refusal(r) \in Frame
    BY DEF Frame
  <2>1. ASSUME NEW g \in Frame, NEW j \in Position(c, g)
        PROVE  j \in Position(c, g)' /\ j < Len(out[c]) + 1
    BY <1>4, <2>1, PositionAppended
  <2>2. CASE i \in Position(c, Goodbye)
    BY <1>2, <2>0, <2>1, <2>2
  <2>3. CASE i = Len(out[c]) + 1 /\ f = Goodbye
    <3>1. Queue(c) /\ at[c] = "leave"
      BY <1>4, <2>3
    <3>2. active[c] = {} /\ writer[c] = "up" /\ task[r] # "none"
      BY <1>0, <3>1, QueueOnly DEF Queue, Stages
    <3>3. Has(c, Answer(r)) \/ Has(c, Refusal(r))
      <4>1. task[r] \in TaskState
        BY DEF Sorts
      <4>2. task[r] \notin {"spawned", "counted", "answering", "answered", "panicked"}
        BY <1>0, <3>2 DEF Accounted
      <4>3. task[r] \in {"removed", "notified", "done", "refused"}
        BY <3>2, <4>1, <4>2 DEF TaskState, Alive
      <4>4. QED
        BY <1>0, <3>1, <3>2, <4>3 DEF Accounted
    <3>4. PICK j \in Position(c, Answer(r)) \cup Position(c, Refusal(r)) : TRUE
      BY <3>3 DEF Has, Position
    <3>5. QED
      BY <2>0, <2>1, <2>3, <3>4
  <2>4. QED
    BY <1>4, <2>0, <2>2, <2>3, PositionAppended
<1>5. CASE out' = out
  BY <1>3, <1>5
<1>6. ASSUME NEW d \in Conns, Queue(d)
      PROVE  \E j \in Position(c, Answer(r))' \cup Position(c, Refusal(r))' : j < i
  <2>1. /\ pend[d] \in Frame /\ out' = [out EXCEPT ![d] = Append(@, pend[d])]
        /\ pend[d] = Goodbye => at[d] = "leave"
    BY <1>6, Frames DEF Queue, Pends, Frame
  <2>2. CASE d = c
    BY <1>4, <1>6, <2>1, <2>2
  <2>3. CASE d # c
    BY <1>3, <2>1, <2>3 DEF Sorts
  <2>4. QED
    BY <2>2, <2>3
<1>7. ASSUME NEW s \in Reqs, out' = [out EXCEPT ![Owner[s]] = Append(@, Answer(s))]
      PROVE  \E j \in Position(c, Answer(r))' \cup Position(c, Refusal(r))' : j < i
  <2>1. Answer(s) \in Frame /\ Answer(s) # Goodbye
    BY Frames DEF Frame
  <2>2. CASE Owner[s] = c
    BY <1>4, <1>7, <2>1, <2>2
  <2>3. CASE Owner[s] # c
    BY <1>3, <1>7, <2>3 DEF Sorts
  <2>4. QED
    BY <2>2, <2>3
<1>8. QED
  BY <1>5, <1>6, <1>7, QueueOnly

-----------------------------------------------------------------------------
(* After a drain                                                           *)

\* What opens or runs after drain found no connection is told so or is over.
LEMMA DrainedStep ==
  ASSUME Flags, Sorts, Counters, Stages, Drained, [Next]_vars
  PROVE  Drained'
<1> USE Zenon
<1>0. drainTx \in BOOLEAN
  BY DEF Flags
<1>1. ASSUME NEW c \in Conns, ConnSteps(c)
      PROVE  Drained'
  <2>0. /\ \A d \in Conns : d # c => at'[d] = at[d] /\ local'[d] = local[d]
        /\ task' = task /\ ctl' = ctl /\ drainTx' = drainTx
    BY <1>1, OneConn DEF control
  <2> SUFFICES ASSUME ctl \in {"reqs", "idle_reached"}, drainTx
               PROVE  /\ at'[c] \in Looping => local'[c]
                      /\ at[c] = "closed" => at'[c] = "closed"
    BY <2>0, OwnerType DEF Drained
  <2>1. at[c] = "closed" => at'[c] = "closed"
    BY <1>1 DEF ConnSteps, Accept, Enter, TlsFails, HelloFails, Open, LoopStep, Queue,
       QueueFails, SeeDrain, SeeChange, CheckEmpty, SeeForce, Epilogue, Close, LoopEnds, Write,
       WriteFails, loops, Sorts
  <2>2. \/ at'[c] \notin Looping
        \/ at[c] \in Looping /\ (local'[c] = local[c] \/ local'[c] = TRUE)
        \/ local'[c] = drainTx
    BY <1>1 DEF ConnSteps, Accept, Enter, TlsFails, HelloFails, Open, LoopStep, Queue,
       QueueFails, SeeDrain, SeeChange, CheckEmpty, SeeForce, Epilogue, Close, LoopEnds, Write,
       WriteFails, loops, Looping, Sorts
  <2>3. QED
    BY <2>1, <2>2 DEF Drained
<1>2. ASSUME NEW r \in Reqs, TaskSteps(r)
      PROVE  Drained'
  <2>0. UNCHANGED <<ctl, drainTx, local>>
    BY <1>2 DEF TaskSteps, TaskStep, Admit, Refuse, Cancel, Start, Handle, Send, Remove, Notify,
       Release, DropAborted, Panic, control, loops
  <2> SUFFICES ASSUME ctl \in {"reqs", "idle_reached"}, drainTx
               PROVE  /\ \A c \in Conns : at'[c] \in Looping => local[c]
                      /\ \A s \in Reqs : task'[s] \in Alive => at'[Owner[s]] = "closed"
    BY <2>0 DEF Drained
  <2>1. Owner[r] \in Conns /\ ~Admit(r)
    BY OwnerType DEF Admit, Drained, Looping
  <2>2. \A s \in Reqs : task'[s] \in Alive => task[s] \in Alive
    BY <1>2, <2>1, TaskMoves
  <2>3. UNCHANGED at \/ (at[Owner[r]] = "select" /\ at' = [at EXCEPT ![Owner[r]] = "send"])
    BY <1>2 DEF TaskSteps, TaskStep, Admit, Refuse, Cancel, Start, Handle, Send, Remove, Notify,
       Release, DropAborted, Panic, loops
  <2>4. \A c \in Conns : /\ at'[c] \in Looping => at[c] \in Looping
                         /\ at[c] = "closed" => at'[c] = "closed"
    BY <2>1, <2>3 DEF Looping, Sorts
  <2>5. QED
    BY <2>2, <2>4, OwnerType DEF Drained
<1>3. CASE DrainConns
  <2>0. UNCHANGED <<at, local, task, drainTx>>
    BY <1>3 DEF DrainConns, loops, tasks
  <2>1. CASE conns = 0
    <3>1. Entered = {}
      <4>1. IsFiniteSet(Entered)
        BY FinitelyMany, FS_Subset DEF Entered
      <4>2. QED
        BY <2>1, <4>1, FS_EmptySet DEF Counters
    <3>2. \A c \in Conns : at[c] \in {"none", "spawned", "closed"}
      BY <3>1 DEF Entered, Sorts, ConnState
    <3>3. \A r \in Reqs : task[r] \in Alive => at[Owner[r]] = "closed"
      BY <3>2, OwnerType DEF Stages, Alive
    <3>4. QED
      BY <2>0, <3>2, <3>3 DEF Drained, Looping
  <2>2. CASE conns # 0
    BY <1>3, <2>2 DEF DrainConns, Drained
  <2>3. QED
    BY <2>1, <2>2
<1>4. CASE ControlSteps /\ ~DrainConns
  <2>1. UNCHANGED <<at, local, task>>
    BY <1>4, Elsewhere DEF loops, tasks
  <2>2. \/ ctl' \notin {"reqs", "idle_reached"}
        \/ ctl = "reqs" /\ drainTx' = drainTx
    BY <1>4 DEF ControlSteps, DrainStep, DrainMarks, DrainUnready, DrainSends, DrainReqs,
       DrainRegisters, DrainWakes, DrainTimesOut
  <2>3. QED
    BY <2>1, <2>2 DEF Drained
<1>5. CASE RunSteps \/ UNCHANGED vars
  <2>1. UNCHANGED <<at, local, task, ctl, drainTx>>
    BY <1>5 DEF RunSteps, RunStep, RunFails, RunChecks, RunReady, RunListens, RunStops, vars,
       control, loops, tasks
  <2>2. QED
    BY <2>1 DEF Drained
<1>6. QED
  BY <1>1, <1>2, <1>3, <1>4, <1>5 DEF Next, RunSteps, ControlSteps, ConnSteps, TaskSteps

\* Neither the return of drain nor a step after it leaves a task at work.
LEMMA NoWorkStep ==
  ASSUME Sorts, Counters, Stages, Accounted, Drained, NoWorkAfterDrain, [Next]_vars
  PROVE  NoWorkAfterDrain'
<1> USE Zenon
<1>0. aborted \subseteq aborted'
  BY QueueOnly
<1>1. CASE DrainReqs
  <2>0. UNCHANGED <<task, aborted, drainTx>> /\ ctl = "reqs"
    BY <1>1 DEF DrainReqs, tasks
  <2>1. CASE reqs = 0 /\ drainTx
    <3>1. Running = {}
      <4>1. IsFiniteSet(Running)
        BY FinitelyMany, FS_Subset DEF Running
      <4>2. QED
        BY <2>1, <4>1, FS_EmptySet DEF Counters
    <3>2. ASSUME NEW r \in Reqs, task[r] \in Alive
          PROVE  r \in aborted
      <4>1. task[r] = "spawned"
        BY <3>1, <3>2 DEF Running, Counted
      <4>2. Owner[r] \in Conns /\ at[Owner[r]] = "closed"
        BY <2>0, <2>1, <3>2, OwnerType DEF Drained
      <4>3. active[Owner[r]] = {}
        BY <4>2 DEF Stages
      <4>4. QED
        BY <4>1, <4>3 DEF Accounted
    <3>3. QED
      BY <2>0, <3>2 DEF NoWorkAfterDrain
  <2>2. CASE reqs # 0
    BY <1>1, <2>2 DEF DrainReqs, NoWorkAfterDrain
  <2>3. QED
    BY <2>0, <2>1, <2>2 DEF NoWorkAfterDrain
<1>2. ASSUME ~DrainReqs, ctl' = "idle_reached", drainTx'
      PROVE  ctl = "idle_reached" /\ drainTx
  <2>1. CASE RunSteps \/ UNCHANGED vars
    BY <1>2, <2>1 DEF RunSteps, RunStep, RunFails, RunChecks, RunReady, RunListens, RunStops,
       vars, control
  <2>2. CASE ControlSteps
    BY <1>2, <2>2 DEF ControlSteps, DrainStep, DrainMarks, DrainUnready, DrainSends, DrainConns,
       DrainRegisters, DrainWakes, DrainTimesOut
  <2>3. ASSUME NEW c \in Conns, ConnSteps(c)
        PROVE  UNCHANGED <<ctl, drainTx>>
    BY <2>3, OneConn DEF control
  <2>4. ASSUME NEW r \in Reqs, TaskSteps(r)
        PROVE  UNCHANGED <<ctl, drainTx>>
    BY <2>4 DEF TaskSteps, TaskStep, Admit, Refuse, Cancel, Start, Handle, Send, Remove, Notify,
       Release, DropAborted, Panic, control
  <2>5. QED
    BY <1>2, <2>1, <2>2, <2>3, <2>4 DEF Next, RunSteps, ControlSteps, ConnSteps, TaskSteps
<1>3. ASSUME ctl = "idle_reached", drainTx
      PROVE  \A s \in Reqs : task'[s] \in Alive => task[s] \in Alive
  <2>1. ASSUME NEW r \in Reqs, TaskSteps(r)
        PROVE  \A s \in Reqs : task'[s] \in Alive => task[s] \in Alive
    <3>1. ~Admit(r)
      BY <1>3, OwnerType DEF Admit, Drained, Looping
    <3>2. QED
      BY <2>1, <3>1, TaskMoves
  <2>2. ASSUME NEW c \in Conns, ConnSteps(c)
        PROVE  UNCHANGED task
    BY <2>2, OneConn
  <2>3. CASE RunSteps \/ ControlSteps \/ UNCHANGED vars
    BY <2>3, Elsewhere DEF tasks
  <2>4. QED
    BY <2>1, <2>2, <2>3 DEF Next, RunSteps, ControlSteps, ConnSteps, TaskSteps
<1>4. CASE ~DrainReqs
  BY <1>0, <1>2, <1>3, <1>4 DEF NoWorkAfterDrain
<1>5. QED
  BY <1>1, <1>4

-----------------------------------------------------------------------------
(* The invariant and what follows                                          *)

\* The invariant holds before the server runs.
LEMMA InitHolds == Init => IInv
<1> USE Zenon
<1> SUFFICES ASSUME Init
             PROVE  IInv
  OBVIOUS
<1>1. Flags
  BY DEF Init, Flags
<1>2. Sorts
  BY SMTT(30) DEF Init, Sorts, RunState, CtlState, ConnState, TaskState, Alive
<1>3. Pends /\ Stages /\ Signals /\ Drained
  BY OwnerType, SMTT(30) DEF Init, Pends, Stages, Signals, Drained, Has, Alive
<1>4. Counters
  <2>1. Entered = {} /\ Running = {}
    BY DEF Init, Entered, Running, Looping, Counted, Alive
  <2>2. QED
    BY <2>1, FS_EmptySet DEF Init, Counters
<1>5. Permits
  <2>1. \A c \in Conns : Tasks(c) = {}
    BY DEF Init, Tasks, Alive
  <2>2. permits \in [Conns -> Nat] /\ \A c \in Conns : permits[c] = MaxInFlight
    <3>1. permits = [c \in Conns |-> MaxInFlight] /\ MaxInFlight \in Nat
      BY LimitsPositive DEF Init
    <3>2. QED
      BY <3>1
  <2>3. Cardinality({}) = 0
    BY FS_EmptySet
  <2>4. MaxInFlight + 0 = MaxInFlight
    BY LimitsPositive, SMTT(30)
  <2>5. QED
    BY <2>1, <2>2, <2>3, <2>4 DEF Permits, PermitsExact
<1>6. Accounted /\ AnsweredBeforeGoodbye /\ NoWorkAfterDrain
  BY DEF Init, Accounted, AnsweredBeforeGoodbye, NoWorkAfterDrain, Position
<1>7. QED
  BY <1>1, <1>2, <1>3, <1>4, <1>5, <1>6 DEF IInv

\* Every step keeps the invariant.
LEMMA StepHolds == IInv /\ [Next]_vars => IInv'
BY FlagsStep, SortsStep, PendsStep, CountersStep, PermitsStep, StagesStep, SignalsStep, AccountedStep,
   AnsweredStep, DrainedStep, NoWorkStep, Zenon DEF IInv

\* The inductive invariant of the server's runtime holds.
THEOREM Invariant == Spec => []IInv
BY InitHolds, StepHolds, PTL DEF Spec

\* The runtime's variables keep their types; active_connections and
\* active_requests never wrap below zero, for they count what is there.
THEOREM TypeCorrect == Spec => []TypeOK
<1>1. IInv => TypeOK
  <2> USE Zenon
  <2> SUFFICES ASSUME IInv
               PROVE  TypeOK
    OBVIOUS
  <2>1. conns \in 0 .. Cardinality(Conns) /\ reqs \in 0 .. Cardinality(Reqs)
    <3>1. /\ IsFiniteSet(Conns) /\ IsFiniteSet(Reqs)
          /\ Entered \in SUBSET Conns /\ Running \in SUBSET Reqs
      BY FinitelyMany DEF Entered, Running
    <3>2. /\ IsFiniteSet(Entered) /\ Cardinality(Entered) <= Cardinality(Conns)
          /\ IsFiniteSet(Running) /\ Cardinality(Running) <= Cardinality(Reqs)
      BY <3>1, FS_Subset
    <3>3. /\ Cardinality(Entered) \in Nat /\ Cardinality(Conns) \in Nat
          /\ Cardinality(Running) \in Nat /\ Cardinality(Reqs) \in Nat
      BY <3>1, <3>2, FS_CardinalityType
    <3>4. QED
      BY <3>2, <3>3, SMTT(30) DEF IInv, Counters
  <2>2. \A c \in Conns : taken[c] \in 0 .. Len(out[c])
    BY SMTT(30) DEF IInv, Sorts
  <2>3. permits \in [Conns -> 0 .. MaxInFlight]
    <3>1. \A c \in Conns : Cardinality(Tasks(c)) \in Nat
      BY FinitelyMany, FS_Subset, FS_CardinalityType DEF Tasks
    <3>2. /\ permits \in [Conns -> Nat]
          /\ \A c \in Conns : permits[c] + Cardinality(Tasks(c)) = MaxInFlight
      BY DEF IInv, Permits, PermitsExact
    <3>3. ASSUME NEW c \in Conns
          PROVE  permits[c] \in 0 .. MaxInFlight
      <4>1. permits[c] \in Nat /\ permits[c] + Cardinality(Tasks(c)) = MaxInFlight
        BY <3>2
      <4>2. QED
        BY <3>1, <4>1, LimitsPositive, SMTT(30)
    <3>4. QED
      BY <3>2, <3>3
  <2>4. QED
    BY <2>1, <2>2, <2>3 DEF IInv, Sorts, Flags, TypeOK
<1>2. QED
  BY <1>1, Invariant, PTL

\* Every permit of a connection is free or held by a task that runs, so CANCEL,
\* panics and closing connections neither leak capacity nor lend it twice.
THEOREM PermitsKept == Spec => []PermitsExact
<1>1. IInv => PermitsExact
  BY Zenon DEF IInv, Permits
<1>2. QED
  BY <1>1, Invariant, PTL

\* An unforced GOODBYE follows the answer or refusal of every request taken.
THEOREM AnswersFirst == Spec => []AnsweredBeforeGoodbye
<1>1. IInv => AnsweredBeforeGoodbye
  BY Zenon DEF IInv
<1>2. QED
  BY <1>1, Invariant, PTL

\* A drain that has returned true leaves only tasks that are aborted.
THEOREM DrainedForGood == Spec => []NoWorkAfterDrain
<1>1. IInv => NoWorkAfterDrain
  BY Zenon DEF IInv
<1>2. QED
  BY <1>1, Invariant, PTL

=============================================================================
