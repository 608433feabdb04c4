----------------------- MODULE IngestionBufferProofs -----------------------
(***************************************************************************)
(* Theorems about IngestionBuffer, for every set of commands, workers and  *)
(* callers, every queue size and every number of attempts.  TypeOK is not  *)
(* inductive: that task_done never drives the join counter below zero      *)
(* rests on JoinCounter, and that a retry stays within MaxAttempts on what *)
(* a worker in its backoff holds.  IInv is the strengthening.              *)
(***************************************************************************)
EXTENDS IngestionBuffer, FiniteSetTheorems, SequenceTheorems, TLAPS

\* What a worker holds while it posts or sleeps before a retry.
HeldInv ==
  \A w \in Workers :
    /\ state[w] \in {"posting", "backoff"} =>
         item[w] \in Commands /\ attempt[w] \in 1..MaxAttempts
    /\ state[w] = "backoff" => attempt[w] < MaxAttempts

\* Commands with no outcome have been offered, so what a flush is owed cannot
\* come back; a flush that was released is owed nothing that is unsettled.
OwedInv ==
  /\ Unsettled \subseteq offered
  /\ \A f \in Flushers :
       /\ owed[f] \subseteq offered
       /\ call[f] \in {"ready", "true"} => owed[f] \cap Unsettled = {}

\* How far a close has come, and what that says of the workers and the client.
CloseInv ==
  /\ cancelling => closed
  /\ \A w \in Workers : state[w] = "stopped" => cancelling
  /\ \A k \in Closers :
       /\ call[k] # "none" => closed
       /\ call[k] = "ready" => unfinished = 0
       /\ call[k] \in {"gathering", "done"} => cancelling
       /\ call[k] = "done" =>
            /\ client = "none"
            /\ \A w \in Workers : state[w] \in {"absent", "stopped"}

\* A close without a time-out cancels nobody who holds a command.
DrainInv ==
  ~closeTimed =>
    /\ submitted = delivered + failed + unfinished
    /\ cancelling => unfinished = 0

IInv == TypeOK /\ JoinCounter /\ HeldInv /\ Accounting /\ OwedInv /\ CloseInv /\ DrainInv

-----------------------------------------------------------------------------
(* Sets of workers that an action changes by one element. *)

LEMMA WorkersFinite ==
  /\ IsFiniteSet(Holding) /\ Cardinality(Holding) \in Nat
  /\ IsFiniteSet(Stopped) /\ Cardinality(Stopped) \in Nat
<1>1. Holding \in SUBSET Workers /\ Stopped \in SUBSET Workers
  BY DEF Holding, Stopped
<1>2. QED
  BY <1>1, BufferAssumption, FS_Subset, FS_CardinalityType

LEMMA OneMore ==
  ASSUME NEW S, NEW T, NEW x, IsFiniteSet(S), x \notin S, T = S \cup {x}
  PROVE  Cardinality(T) = Cardinality(S) + 1
BY FS_AddElement

LEMMA OneLess ==
  ASSUME NEW S, NEW T, NEW x, IsFiniteSet(S), x \in S, T = S \ {x}
  PROVE  Cardinality(T) = Cardinality(S) - 1 /\ Cardinality(S) \in Nat \ {0}
<1>1. Cardinality(T) = Cardinality(S) - 1
  BY FS_RemoveElement
<1>2. Cardinality(S) \in Nat /\ Cardinality(S) # 0
  BY FS_CardinalityType, FS_EmptySet
<1>3. QED
  BY <1>1, <1>2

(* A worker that holds a command keeps the join counter above zero.          *)
LEMMA HolderCounts ==
  ASSUME TypeOK, JoinCounter, NEW w \in Holding
  PROVE  unfinished \in Nat \ {0}
<1>1. Cardinality(Holding) \in Nat \ {0}
  BY WorkersFinite, OneLess
<1>2. Len(queue) \in Nat
  BY LenProperties DEF TypeOK
<1>3. QED
  BY <1>1, <1>2 DEF JoinCounter

(* An empty queue and no holder is what a sum of zero means.                 *)
LEMMA ZeroSum ==
  ASSUME NEW q \in Seq(Commands), NEW H \in SUBSET Workers,
         Len(q) + Cardinality(H) = 0
  PROVE  q = <<>> /\ Len(q) = 0 /\ H = {}
<1>1. IsFiniteSet(H) /\ Cardinality(H) \in Nat
  BY BufferAssumption, FS_Subset, FS_CardinalityType
<1>2. Len(q) \in Nat
  BY LenProperties
<1>3. Len(q) = 0 /\ Cardinality(H) = 0
  BY <1>1, <1>2
<1>4. QED
  BY <1>1, <1>3, FS_EmptySet, EmptySeq

-----------------------------------------------------------------------------
(* The type invariant is preserved: the queue stays within its bound, every  *)
(* counter, worker and caller in its range.                                  *)
LEMMA TypeStep ==
  ASSUME TypeOK, JoinCounter, HeldInv, [Next]_vars
  PROVE  TypeOK'
<1> USE BufferAssumption DEF TypeOK, Callers
<1>1. ASSUME NEW c \in Commands, SubmitClosed(c) \/ SubmitFull(c) PROVE TypeOK'
  <2>1. CASE SubmitClosed(c)
    BY <2>1 DEF SubmitClosed, taskVars, callVars, netVars
  <2>2. CASE SubmitFull(c)
    BY <2>2 DEF SubmitFull, taskVars, callVars, netVars
  <2>3. QED
    BY <1>1, <2>1, <2>2
<1>2. ASSUME NEW c \in Commands, Submit(c) PROVE TypeOK'
  <2>1. /\ queue' \in Seq(Commands)
        /\ Len(queue') = Len(queue) + 1 /\ Len(queue) \in Nat
    BY <1>2, AppendProperties, LenProperties DEF Submit
  <2>2. Len(queue') <= MaxQueueSize /\ maxDepth' \in 0..MaxQueueSize
    BY <1>2, <2>1 DEF Submit
  <2>3. state' \in [Workers -> {"absent", "idle", "posting", "backoff", "stopped"}]
    BY <1>2 DEF Submit, EnsureStarted
  <2>4. QED
    BY <1>2, <2>1, <2>2, <2>3 DEF Submit, callVars, netVars
<1>3. ASSUME NEW w \in Workers, Take(w) PROVE TypeOK'
  <2>1. /\ Head(queue) \in Commands
        /\ Tail(queue) \in Seq(Commands)
        /\ Len(Tail(queue)) = Len(queue) - 1 /\ Len(queue) \in Nat
    BY <1>3, HeadTailProperties, LenProperties DEF Take
  <2>2. queue' \in Seq(Commands) /\ Len(queue') <= MaxQueueSize
    BY <1>3, <2>1 DEF Take
  <2>3. wire' \subseteq Commands \X (1..MaxAttempts)
    BY <1>3, <2>1 DEF Take, Post
  <2>4. /\ state' \in [Workers -> {"absent", "idle", "posting", "backoff", "stopped"}]
        /\ item' \in [Workers -> Commands \cup {NoCommand}]
        /\ attempt' \in [Workers -> 0..MaxAttempts]
    BY <1>3, <2>1 DEF Take
  <2>5. QED
    BY <1>3, <2>2, <2>3, <2>4 DEF Take, Post, callVars, counterVars
<1>4. ASSUME NEW w \in Workers, Delivered(w) \/ LastPostFails(w) PROVE TypeOK'
  <2>1. unfinished' \in Nat
    <3>1. w \in Holding
      BY <1>4 DEF Delivered, LastPostFails, Holding
    <3>2. unfinished \in Nat \ {0}
      BY <3>1, HolderCounts
    <3>3. unfinished' = unfinished - 1
      BY <1>4 DEF Delivered, LastPostFails, Release, TaskDone
    <3>4. QED
      BY <3>2, <3>3
  <2>2. CASE Delivered(w)
    BY <2>1, <2>2 DEF Delivered, Release, TaskDone, netVars
  <2>3. CASE LastPostFails(w)
    BY <2>1, <2>3 DEF LastPostFails, Release, TaskDone, netVars
  <2>4. QED
    BY <1>4, <2>2, <2>3
<1>5. ASSUME NEW w \in Workers, PostFails(w) PROVE TypeOK'
  BY <1>5 DEF PostFails, callVars, netVars
<1>6. ASSUME NEW w \in Workers, Retry(w) PROVE TypeOK'
  <2>1. item[w] \in Commands /\ attempt[w] + 1 \in 1..MaxAttempts
    BY <1>6 DEF Retry, HeldInv
  <2>2. wire' \subseteq Commands \X (1..MaxAttempts)
    BY <1>6, <2>1 DEF Retry, Post
  <2>3. QED
    BY <1>6, <2>1, <2>2 DEF Retry, Post, callVars, counterVars
<1>7. ASSUME NEW w \in Workers, WorkerCancelled(w) PROVE TypeOK'
  <2>1. unfinished' \in Nat /\ call' \in [Callers ->
          {"none", "waiting", "ready", "true", "false", "gathering", "done"}]
    <3>1. CASE w \in Holding
      BY <1>7, <3>1, HolderCounts DEF WorkerCancelled, TaskDone
    <3>2. CASE w \notin Holding
      BY <1>7, <3>2 DEF WorkerCancelled
    <3>3. QED
      BY <3>1, <3>2
  <2>2. QED
    BY <1>7, <2>1 DEF WorkerCancelled, counterVars, netVars
<1>8. ASSUME NEW m \in wire, ServerReceives(m) PROVE TypeOK'
  BY <1>8 DEF ServerReceives, taskVars, callVars, counterVars
<1>9. ASSUME NEW f \in Flushers,
             \/ \E hasTimeout \in BOOLEAN : FlushCall(f, hasTimeout)
             \/ FlushReturns(f) \/ FlushTimesOut(f)
      PROVE TypeOK'
  <2>1. Unsettled \subseteq Commands
    BY ElementOfSeq DEF Unsettled, Holding, HeldInv
  <2>2. ASSUME NEW hasTimeout \in BOOLEAN, FlushCall(f, hasTimeout) PROVE TypeOK'
    BY <2>1, <2>2 DEF FlushCall, taskVars, counterVars, netVars
  <2>3. CASE FlushReturns(f)
    BY <2>3 DEF FlushReturns, taskVars, counterVars, netVars
  <2>4. CASE FlushTimesOut(f)
    BY <2>4 DEF FlushTimesOut, taskVars, counterVars, netVars
  <2>5. QED
    BY <1>9, <2>2, <2>3, <2>4
<1>10. ASSUME NEW k \in Closers, CloseCall(k) \/ CloseCancels(k) \/ CloseDone(k)
       PROVE TypeOK'
  BY <1>10 DEF CloseCall, CloseCancels, CloseDone, taskVars, counterVars, netVars
<1>11. CASE UNCHANGED vars
  BY <1>11 DEF vars, taskVars, callVars, counterVars, netVars
<1>12. QED
  BY <1>1, <1>2, <1>3, <1>4, <1>5, <1>6, <1>7, <1>8, <1>9, <1>10, <1>11
  DEF Next, WorkerStep

-----------------------------------------------------------------------------
(* How each action changes the set of workers that hold a command and the    *)
(* set of stopped ones.                                                      *)
LEMMA HoldingStep ==
  ASSUME TypeOK
  PROVE  /\ \A c \in Commands : Submit(c) => Holding' = Holding /\ Stopped' = Stopped
         /\ \A w \in Workers :
              /\ Take(w) => /\ w \notin Holding /\ Holding' = Holding \cup {w}
                            /\ Stopped' = Stopped
              /\ Delivered(w) \/ LastPostFails(w) =>
                   /\ w \in Holding /\ Holding' = Holding \ {w}
                   /\ Stopped' = Stopped
              /\ PostFails(w) \/ Retry(w) => Holding' = Holding /\ Stopped' = Stopped
              /\ WorkerCancelled(w) =>
                   /\ Holding' = Holding \ {w}
                   /\ w \notin Stopped /\ Stopped' = Stopped \cup {w}
<1> USE DEF TypeOK, Holding, Stopped
<1>1. ASSUME NEW c \in Commands, Submit(c)
      PROVE Holding' = Holding /\ Stopped' = Stopped
  BY <1>1 DEF Submit, EnsureStarted
<1>2. ASSUME NEW w \in Workers
      PROVE /\ Take(w) => /\ w \notin Holding /\ Holding' = Holding \cup {w}
                          /\ Stopped' = Stopped
            /\ Delivered(w) \/ LastPostFails(w) =>
                 w \in Holding /\ Holding' = Holding \ {w} /\ Stopped' = Stopped
            /\ PostFails(w) \/ Retry(w) => Holding' = Holding /\ Stopped' = Stopped
            /\ WorkerCancelled(w) =>
                 /\ Holding' = Holding \ {w}
                 /\ w \notin Stopped /\ Stopped' = Stopped \cup {w}
  <2>1. CASE Take(w)
    BY <2>1 DEF Take, Delivered, LastPostFails, PostFails, Retry, WorkerCancelled
  <2>2. CASE Delivered(w) \/ LastPostFails(w)
    BY <2>2 DEF Take, Delivered, LastPostFails, Release, PostFails, Retry, WorkerCancelled
  <2>3. CASE PostFails(w) \/ Retry(w)
    BY <2>3 DEF Take, Delivered, LastPostFails, PostFails, Retry, WorkerCancelled
  <2>4. CASE WorkerCancelled(w)
    BY <2>4 DEF Take, Delivered, LastPostFails, PostFails, Retry, WorkerCancelled
  <2>5. QED
    BY <2>1, <2>2, <2>3, <2>4
<1>3. QED
  BY <1>1, <1>2

(* The join counter keeps counting the queued and the held commands.         *)
LEMMA JoinStep ==
  ASSUME TypeOK, JoinCounter, [Next]_vars
  PROVE  JoinCounter'
<1> USE DEF JoinCounter
<1>0. /\ Len(queue) \in Nat /\ unfinished \in Nat
      /\ IsFiniteSet(Holding) /\ Cardinality(Holding) \in Nat
  BY WorkersFinite, LenProperties DEF TypeOK
<1>1. ASSUME NEW c \in Commands, Submit(c) PROVE JoinCounter'
  <2>1. Len(queue') = Len(queue) + 1
    BY <1>1, AppendProperties DEF Submit, TypeOK
  <2>2. QED
    BY <1>0, <1>1, <2>1, HoldingStep DEF Submit
<1>2. ASSUME NEW w \in Workers, Take(w) PROVE JoinCounter'
  <2>1. Len(queue') = Len(queue) - 1
    BY <1>2, HeadTailProperties DEF Take, TypeOK
  <2>2. w \notin Holding /\ Holding' = Holding \cup {w}
    BY <1>2, HoldingStep
  <2>3. Cardinality(Holding') = Cardinality(Holding) + 1
    BY <1>0, <2>2, OneMore
  <2>4. QED
    BY <1>0, <1>2, <2>1, <2>3 DEF Take
<1>3. ASSUME NEW w \in Workers, Delivered(w) \/ LastPostFails(w) PROVE JoinCounter'
  <2>1. w \in Holding /\ Holding' = Holding \ {w}
    BY <1>3, HoldingStep
  <2>2. Cardinality(Holding') = Cardinality(Holding) - 1
    BY <1>0, <2>1, OneLess
  <2>3. queue' = queue /\ unfinished' = unfinished - 1
    BY <1>3 DEF Delivered, LastPostFails, Release, TaskDone
  <2>4. QED
    BY <1>0, <2>2, <2>3
<1>4. ASSUME NEW w \in Workers, PostFails(w) \/ Retry(w) PROVE JoinCounter'
  <2>1. queue' = queue /\ unfinished' = unfinished
    BY <1>4 DEF PostFails, Retry
  <2>2. QED
    BY <1>4, <2>1, HoldingStep
<1>5. ASSUME NEW w \in Workers, WorkerCancelled(w) PROVE JoinCounter'
  <2>1. Holding' = Holding \ {w} /\ queue' = queue
    BY <1>5, HoldingStep DEF WorkerCancelled
  <2>2. CASE w \in Holding
    <3>1. Cardinality(Holding') = Cardinality(Holding) - 1
      BY <1>0, <2>1, <2>2, OneLess
    <3>2. unfinished' = unfinished - 1
      BY <1>5, <2>2 DEF WorkerCancelled, TaskDone
    <3>3. QED
      BY <1>0, <2>1, <3>1, <3>2
  <2>3. CASE w \notin Holding
    <3>1. Holding' = Holding /\ unfinished' = unfinished
      BY <1>5, <2>1, <2>3 DEF WorkerCancelled
    <3>2. QED
      BY <2>1, <3>1
  <2>4. QED
    BY <2>2, <2>3
<1>6. ASSUME UNCHANGED taskVars PROVE JoinCounter'
  <2>1. queue' = queue /\ unfinished' = unfinished /\ state' = state
    BY <1>6 DEF taskVars
  <2>2. Holding' = Holding
    BY <2>1 DEF Holding
  <2>3. QED
    BY <2>1, <2>2
<1>7. QED
  BY <1>1, <1>2, <1>3, <1>4, <1>5, <1>6
  DEF Next, WorkerStep, SubmitClosed, SubmitFull, ServerReceives, FlushCall,
      FlushReturns, FlushTimesOut, CloseCall, CloseCancels, CloseDone, vars

(* What a worker holds stays a command with an attempt left to count.        *)
LEMMA HeldStep ==
  ASSUME TypeOK, HeldInv, [Next]_vars
  PROVE  HeldInv'
<1> USE BufferAssumption DEF HeldInv, TypeOK
<1>1. ASSUME NEW c \in Commands, Submit(c) PROVE HeldInv'
  BY <1>1 DEF Submit, EnsureStarted
<1>2. ASSUME NEW w \in Workers, Take(w) PROVE HeldInv'
  BY <1>2, HeadTailProperties DEF Take
<1>3. ASSUME NEW w \in Workers, Delivered(w) \/ LastPostFails(w) PROVE HeldInv'
  BY <1>3 DEF Delivered, LastPostFails, Release
<1>4. ASSUME NEW w \in Workers, PostFails(w) PROVE HeldInv'
  BY <1>4 DEF PostFails
<1>5. ASSUME NEW w \in Workers, Retry(w) PROVE HeldInv'
  BY <1>5 DEF Retry
<1>6. ASSUME NEW w \in Workers, WorkerCancelled(w) PROVE HeldInv'
  BY <1>6 DEF WorkerCancelled
<1>7. ASSUME UNCHANGED taskVars PROVE HeldInv'
  BY <1>7 DEF taskVars
<1>8. QED
  BY <1>1, <1>2, <1>3, <1>4, <1>5, <1>6, <1>7
  DEF Next, WorkerStep, SubmitClosed, SubmitFull, ServerReceives, FlushCall,
      FlushReturns, FlushTimesOut, CloseCall, CloseCancels, CloseDone, vars

(* No submission and no accepted command goes uncounted, but for what a      *)
(* stopped worker took with it.                                              *)
LEMMA AccountingStep ==
  ASSUME TypeOK, JoinCounter, Accounting, [Next]_vars
  PROVE  Accounting'
<1> USE DEF Accounting
<1>0. /\ submitted \in Nat /\ delivered \in Nat /\ failed \in Nat
      /\ unfinished \in Nat /\ droppedFull \in Nat
      /\ IsFiniteSet(Stopped) /\ Cardinality(Stopped) \in Nat
  BY WorkersFinite DEF TypeOK
<1>1. ASSUME NEW c \in Commands, c \notin offered, offered' = offered \cup {c}
      PROVE Cardinality(offered') = Cardinality(offered) + 1
  <2>1. IsFiniteSet(offered)
    BY BufferAssumption, FS_Subset DEF TypeOK
  <2>2. QED
    BY <1>1, <2>1, OneMore
<1>2. ASSUME NEW c \in Commands, SubmitClosed(c) \/ SubmitFull(c) PROVE Accounting'
  <2>1. /\ c \notin offered /\ offered' = offered \cup {c}
        /\ droppedFull' = droppedFull + 1 /\ submitted' = submitted
        /\ delivered' = delivered /\ failed' = failed
        /\ unfinished' = unfinished /\ state' = state
    BY <1>2 DEF SubmitClosed, SubmitFull, taskVars
  <2>2. Stopped' = Stopped
    BY <2>1 DEF Stopped
  <2>3. Cardinality(offered') = Cardinality(offered) + 1
    BY <1>1, <2>1
  <2>4. QED
    BY <1>0, <2>1, <2>2, <2>3
<1>3. ASSUME NEW c \in Commands, Submit(c) PROVE Accounting'
  <2>1. /\ c \notin offered /\ offered' = offered \cup {c}
        /\ droppedFull' = droppedFull /\ submitted' = submitted + 1
        /\ delivered' = delivered /\ failed' = failed
        /\ unfinished' = unfinished + 1
    BY <1>3 DEF Submit
  <2>2. Stopped' = Stopped
    BY <1>3, HoldingStep
  <2>3. Cardinality(offered') = Cardinality(offered) + 1
    BY <1>1, <2>1
  <2>4. QED
    BY <1>0, <2>1, <2>2, <2>3
<1>4. ASSUME NEW w \in Workers, Delivered(w) \/ LastPostFails(w) PROVE Accounting'
  <2>1. unfinished \in Nat \ {0} /\ Stopped' = Stopped
    BY <1>4, HoldingStep, HolderCounts
  <2>2. /\ \/ delivered' = delivered + 1 /\ failed' = failed
           \/ delivered' = delivered /\ failed' = failed + 1
        /\ unfinished' = unfinished - 1
        /\ submitted' = submitted /\ droppedFull' = droppedFull
        /\ offered' = offered
    BY <1>0, <1>4 DEF Delivered, LastPostFails, Release, TaskDone
  <2>3. QED
    BY <1>0, <2>1, <2>2
<1>5. ASSUME NEW w \in Workers, WorkerCancelled(w) PROVE Accounting'
  <2>1. /\ delivered' = delivered /\ failed' = failed
        /\ submitted' = submitted /\ droppedFull' = droppedFull
        /\ offered' = offered
    BY <1>5 DEF WorkerCancelled, counterVars
  <2>2. Cardinality(Stopped') = Cardinality(Stopped) + 1
    BY <1>0, <1>5, HoldingStep, OneMore
  <2>3. CASE w \in Holding
    <3>1. unfinished' = unfinished - 1 /\ unfinished \in Nat \ {0}
      BY <1>5, <2>3, HolderCounts DEF WorkerCancelled, TaskDone
    <3>2. QED
      BY <1>0, <2>1, <2>2, <3>1
  <2>4. CASE w \notin Holding
    <3>1. unfinished' = unfinished
      BY <1>5, <2>4 DEF WorkerCancelled
    <3>2. QED
      BY <1>0, <2>1, <2>2, <3>1
  <2>5. QED
    BY <2>3, <2>4
<1>6. ASSUME /\ delivered' = delivered /\ failed' = failed
             /\ submitted' = submitted /\ droppedFull' = droppedFull
             /\ offered' = offered /\ unfinished' = unfinished
             /\ Stopped' = Stopped
      PROVE Accounting'
  BY <1>6
<1>7. ASSUME NEW w \in Workers, Take(w) \/ PostFails(w) \/ Retry(w) PROVE Accounting'
  <2>1. Stopped' = Stopped
    BY <1>7, HoldingStep
  <2>2. QED
    BY <1>6, <1>7, <2>1 DEF Take, PostFails, Retry, counterVars
<1>8. ASSUME UNCHANGED <<taskVars, counterVars, offered>> PROVE Accounting'
  <2>1. Stopped' = Stopped
    BY <1>8 DEF taskVars, Stopped
  <2>2. QED
    BY <1>6, <1>8, <2>1 DEF taskVars, counterVars
<1>9. QED
  BY <1>2, <1>3, <1>4, <1>5, <1>7, <1>8
  DEF Next, WorkerStep, ServerReceives, FlushCall, FlushReturns, FlushTimesOut,
      CloseCall, CloseCancels, CloseDone, vars

(* A closed or cancelled state is never left, a finished close has nothing   *)
(* behind it that could post again.                                          *)
LEMMA CloseStep ==
  ASSUME TypeOK, JoinCounter, CloseInv, [Next]_vars
  PROVE  CloseInv'
<1> USE BufferAssumption DEF CloseInv, TypeOK, Callers
<1>1. ASSUME NEW c \in Commands, SubmitClosed(c) \/ SubmitFull(c) PROVE CloseInv'
  BY <1>1 DEF SubmitClosed, SubmitFull, taskVars, callVars, netVars
<1>2. ASSUME NEW c \in Commands, Submit(c) PROVE CloseInv'
  BY <1>2 DEF Submit, EnsureStarted, callVars, netVars
<1>3. ASSUME NEW w \in Workers, Take(w) \/ Retry(w) PROVE CloseInv'
  BY <1>3 DEF Take, Retry, Post, callVars
<1>4. ASSUME NEW w \in Workers, Delivered(w) \/ LastPostFails(w) PROVE CloseInv'
  <2>1. unfinished \in Nat \ {0}
    BY <1>4, HoldingStep, HolderCounts
  <2>2. /\ ~cancelling /\ closed' = closed /\ cancelling' = cancelling
        /\ client' = client
        /\ unfinished' = unfinished - 1
        /\ state' = [state EXCEPT ![w] = "idle"]
        /\ call' = [c \in Callers |->
              IF unfinished = 1 /\ call[c] = "waiting" THEN "ready" ELSE call[c]]
    BY <1>4 DEF Delivered, LastPostFails, Release, TaskDone, netVars
  <2>3. QED
    BY <2>1, <2>2
<1>5. ASSUME NEW w \in Workers, PostFails(w) PROVE CloseInv'
  BY <1>5 DEF PostFails, callVars, netVars
<1>6. ASSUME NEW w \in Workers, WorkerCancelled(w) PROVE CloseInv'
  <2>1. /\ cancelling /\ closed' = closed /\ cancelling' = cancelling
        /\ client' = client
        /\ state' = [state EXCEPT ![w] = "stopped"]
    BY <1>6 DEF WorkerCancelled, netVars
  <2>2. CASE w \in Holding
    <3>1. unfinished \in Nat \ {0}
      BY <2>2, HolderCounts
    <3>2. /\ unfinished' = unfinished - 1
          /\ call' = [c \in Callers |->
                IF unfinished = 1 /\ call[c] = "waiting" THEN "ready" ELSE call[c]]
      BY <1>6, <2>2 DEF WorkerCancelled, TaskDone
    <3>3. QED
      BY <2>1, <3>1, <3>2
  <2>3. CASE w \notin Holding
    BY <1>6, <2>1, <2>3 DEF WorkerCancelled
  <2>4. QED
    BY <2>2, <2>3
<1>7. ASSUME NEW m \in wire, ServerReceives(m) PROVE CloseInv'
  BY <1>7 DEF ServerReceives, taskVars, callVars
<1>8. ASSUME NEW f \in Flushers, NEW hasTimeout \in BOOLEAN,
             FlushCall(f, hasTimeout) \/ FlushReturns(f) \/ FlushTimesOut(f)
      PROVE CloseInv'
  BY <1>8 DEF FlushCall, FlushReturns, FlushTimesOut, taskVars, netVars
<1>9. ASSUME NEW k \in Closers, CloseCall(k) PROVE CloseInv'
  BY <1>9 DEF CloseCall, taskVars, netVars
<1>10. ASSUME NEW k \in Closers, CloseCancels(k) PROVE CloseInv'
  BY <1>10 DEF CloseCancels, taskVars, netVars
<1>11. ASSUME NEW k \in Closers, CloseDone(k) PROVE CloseInv'
  BY <1>11 DEF CloseDone, taskVars
<1>12. CASE UNCHANGED vars
  BY <1>12 DEF vars, taskVars, callVars, netVars
<1>13. QED
  BY <1>1, <1>2, <1>3, <1>4, <1>5, <1>6, <1>7, <1>8, <1>9, <1>10, <1>11, <1>12
  DEF Next, WorkerStep

(* Only a submission adds an unsettled command.                              *)
LEMMA UnsettledStep ==
  ASSUME TypeOK, [Next]_vars
  PROVE  \/ Unsettled' \subseteq Unsettled /\ offered \subseteq offered'
         \/ \E c \in Commands : Submit(c) /\ Unsettled' \subseteq Unsettled \cup {c}
<1> DEFINE Goal == \/ Unsettled' \subseteq Unsettled /\ offered \subseteq offered'
                   \/ \E c \in Commands :
                        Submit(c) /\ Unsettled' \subseteq Unsettled \cup {c}
<1>1. ASSUME NEW c \in Commands, Submit(c) PROVE Goal
  <2>1. /\ Len(queue) \in Nat /\ Len(queue') = Len(queue) + 1
        /\ \A i \in 1..Len(queue) : queue'[i] = queue[i]
        /\ queue'[Len(queue) + 1] = c
    BY <1>1, AppendProperties, LenProperties DEF Submit, TypeOK
  <2>2. {queue'[i] : i \in 1..Len(queue')}
          \subseteq {queue[i] : i \in 1..Len(queue)} \cup {c}
    BY <2>1
  <2>3. {item'[w] : w \in Holding'} = {item[w] : w \in Holding}
    BY <1>1, HoldingStep DEF Submit
  <2>4. QED
    BY <1>1, <2>2, <2>3 DEF Unsettled
<1>2. ASSUME NEW w \in Workers, Take(w) PROVE Goal
  <2>1. /\ Len(queue) \in Nat \ {0} /\ Len(queue') = Len(queue) - 1
        /\ \A i \in 1..Len(queue') : queue'[i] = queue[i + 1]
        /\ Head(queue) = queue[1]
    BY <1>2, HeadTailProperties, LenProperties, EmptySeq DEF Take, TypeOK
  <2>2. {queue'[i] : i \in 1..Len(queue')} \cup {Head(queue)}
          \subseteq {queue[i] : i \in 1..Len(queue)}
    BY <2>1
  <2>3. Holding' = Holding \cup {w}
    BY <1>2, HoldingStep
  <2>4. {item'[v] : v \in Holding'}
          \subseteq {item[v] : v \in Holding} \cup {Head(queue)}
    <3>1. \A v \in Holding' : v # w => v \in Holding /\ item'[v] = item[v]
      BY <1>2, <2>3 DEF Take, TypeOK
    <3>2. item'[w] = Head(queue)
      BY <1>2 DEF Take, TypeOK
    <3>3. QED
      BY <3>1, <3>2
  <2>5. offered' = offered
    BY <1>2 DEF Take
  <2>6. QED
    BY <2>2, <2>4, <2>5 DEF Unsettled
<1>3. ASSUME NEW w \in Workers,
             Delivered(w) \/ LastPostFails(w) \/ WorkerCancelled(w)
      PROVE Goal
  <2>1. Holding' = Holding \ {w}
    BY <1>3, HoldingStep
  <2>2. \A v \in Workers \ {w} : item'[v] = item[v]
    BY <1>3 DEF Delivered, LastPostFails, Release, WorkerCancelled, TypeOK
  <2>3. {item'[v] : v \in Holding'} \subseteq {item[v] : v \in Holding}
    BY <2>1, <2>2 DEF Holding
  <2>4. queue' = queue /\ offered' = offered
    BY <1>3 DEF Delivered, LastPostFails, WorkerCancelled
  <2>5. QED
    BY <2>3, <2>4 DEF Unsettled
<1>4. ASSUME NEW w \in Workers, PostFails(w) \/ Retry(w) PROVE Goal
  <2>1. queue' = queue /\ offered' = offered /\ item' = item
    BY <1>4 DEF PostFails, Retry
  <2>2. QED
    BY <1>4, <2>1, HoldingStep DEF Unsettled
<1>5. ASSUME UNCHANGED taskVars, offered \subseteq offered' PROVE Goal
  BY <1>5 DEF taskVars, Unsettled, Holding
<1>6. QED
  BY <1>1, <1>2, <1>3, <1>4, <1>5
  DEF Next, WorkerStep, SubmitClosed, SubmitFull, ServerReceives, FlushCall,
      FlushReturns, FlushTimesOut, CloseCall, CloseCancels, CloseDone, vars

(* What a flush is owed never becomes unsettled again, and a join is         *)
(* released only when nothing is.                                            *)
LEMMA OwedStep ==
  ASSUME TypeOK, JoinCounter, JoinCounter', TypeOK', OwedInv, [Next]_vars
  PROVE  OwedInv'
<1>1. Unsettled' \subseteq offered' /\ offered \subseteq offered'
  <2>1. CASE Unsettled' \subseteq Unsettled /\ offered \subseteq offered'
    BY <2>1 DEF OwedInv
  <2>2. ASSUME NEW c \in Commands, Submit(c), Unsettled' \subseteq Unsettled \cup {c}
        PROVE  Unsettled' \subseteq offered' /\ offered \subseteq offered'
    BY <2>2 DEF OwedInv, Submit
  <2>3. QED
    BY <2>1, <2>2, UnsettledStep
<1>2. ASSUME NEW f \in Flushers
      PROVE  /\ owed'[f] \subseteq offered'
             /\ call'[f] \in {"ready", "true"} => owed'[f] \cap Unsettled' = {}
  <2>1. CASE owed' = owed /\ call'[f] \in {"ready", "true"}
                         /\ call[f] \in {"ready", "true"}
    <3>1. ASSUME NEW c \in Commands, Submit(c), Unsettled' \subseteq Unsettled \cup {c}
          PROVE  owed[f] \cap Unsettled' = {}
      BY <2>1, <3>1 DEF OwedInv, Submit
    <3>2. owed[f] \cap Unsettled' = {}
      BY <2>1, <3>1, UnsettledStep DEF OwedInv
    <3>3. QED
      BY <1>1, <2>1, <3>2 DEF OwedInv
  <2>2. CASE owed' = owed /\ call'[f] \notin {"ready", "true"}
    BY <1>1, <2>2 DEF OwedInv
  <2>3. CASE owed' = owed /\ unfinished' = 0
    <3>1. Len(queue') = 0 /\ Holding' = {}
      <4>1. Holding' \in SUBSET Workers
        BY DEF Holding
      <4>2. queue' \in Seq(Commands)
        BY DEF TypeOK
      <4>3. QED
        BY <2>3, <4>1, <4>2, ZeroSum DEF JoinCounter
    <3>2. Unsettled' = {}
      BY <3>1 DEF Unsettled
    <3>3. QED
      BY <1>1, <2>3, <3>2 DEF OwedInv
  <2>4. CASE \E g \in Flushers, hasTimeout \in BOOLEAN : FlushCall(g, hasTimeout)
    <3>1. PICK g \in Flushers : \E hasTimeout \in BOOLEAN : FlushCall(g, hasTimeout)
      BY <2>4
    <3>2. /\ call' = [call EXCEPT ![g] = IF unfinished = 0 THEN "true" ELSE "waiting"]
          /\ owed' = [owed EXCEPT ![g] = Unsettled]
          /\ offered' = offered /\ queue' = queue /\ item' = item /\ state' = state
      BY <3>1 DEF FlushCall, taskVars
    <3>3. Unsettled' = Unsettled
      BY <3>2 DEF Unsettled, Holding
    <3>4. CASE f = g
      <4>1. owed'[f] = Unsettled
        BY <3>2, <3>4 DEF TypeOK
      <4>2. unfinished = 0 => Unsettled = {}
        <5>1. Holding \in SUBSET Workers /\ queue \in Seq(Commands)
          BY DEF Holding, TypeOK
        <5>2. unfinished = 0 => Len(queue) = 0 /\ Holding = {}
          BY <5>1, ZeroSum DEF JoinCounter
        <5>3. QED
          BY <5>2 DEF Unsettled
      <4>3. call'[f] \in {"ready", "true"} => unfinished = 0
        BY <3>2, <3>4 DEF TypeOK, Callers
      <4>4. QED
        BY <3>2, <3>3, <4>1, <4>2, <4>3 DEF OwedInv
    <3>5. CASE f # g
      BY <3>2, <3>3, <3>5 DEF OwedInv, TypeOK, Callers
    <3>6. QED
      BY <3>4, <3>5
  <2>5. \/ \E g \in Flushers, hasTimeout \in BOOLEAN : FlushCall(g, hasTimeout)
        \/ /\ owed' = owed
           /\ \/ call'[f] \notin {"ready", "true"}
              \/ call[f] \in {"ready", "true"}
              \/ unfinished' = 0
    <3>1. ASSUME NEW w \in Workers, WorkerStep(w)
          PROVE  /\ owed' = owed
                 /\ \/ call'[f] \notin {"ready", "true"}
                    \/ call[f] \in {"ready", "true"}
                    \/ unfinished' = 0
      <4>1. CASE Take(w) \/ PostFails(w) \/ Retry(w)
        BY <4>1 DEF Take, PostFails, Retry, callVars
      <4>2. CASE Delivered(w) \/ LastPostFails(w)
        BY <4>2 DEF Delivered, LastPostFails, Release, TaskDone, TypeOK, Callers
      <4>3. CASE WorkerCancelled(w)
        BY <4>3 DEF WorkerCancelled, TaskDone, TypeOK, Callers
      <4>4. QED
        BY <3>1, <4>1, <4>2, <4>3 DEF WorkerStep
    <3>2. ASSUME NEW k \in Closers, CloseCall(k) \/ CloseCancels(k) \/ CloseDone(k)
          PROVE  owed' = owed /\ call'[f] = call[f]
      <4>1. f # k
        BY BufferAssumption
      <4>2. QED
        BY <3>2, <4>1 DEF CloseCall, CloseCancels, CloseDone, TypeOK, Callers
    <3>3. ASSUME NEW g \in Flushers, FlushReturns(g) \/ FlushTimesOut(g)
          PROVE  /\ owed' = owed
                 /\ \/ call'[f] \notin {"ready", "true"}
                    \/ call[f] \in {"ready", "true"}
      BY <3>3 DEF FlushReturns, FlushTimesOut, TypeOK, Callers
    <3>4. ASSUME NEW c \in Commands, SubmitClosed(c) \/ SubmitFull(c) \/ Submit(c)
          PROVE  owed' = owed /\ call' = call
      BY <3>4 DEF SubmitClosed, SubmitFull, Submit, callVars
    <3>5. ASSUME NEW m \in wire, ServerReceives(m)
          PROVE  owed' = owed /\ call' = call
      BY <3>5 DEF ServerReceives, callVars
    <3>6. CASE UNCHANGED vars
      BY <3>6 DEF vars, callVars
    <3>7. QED
      BY <3>1, <3>2, <3>3, <3>4, <3>5, <3>6 DEF Next
  <2>6. QED
    BY <2>1, <2>2, <2>3, <2>4, <2>5
<1>3. QED
  BY <1>1, <1>2 DEF OwedInv

(* With no shutdown time-out nothing is lost: cancelled workers hold nothing. *)
LEMMA DrainStep ==
  ASSUME TypeOK, JoinCounter, CloseInv, DrainInv, [Next]_vars, ~closeTimed
  PROVE  /\ submitted' = delivered' + failed' + unfinished'
         /\ cancelling' => unfinished' = 0
<1> DEFINE Goal == /\ submitted' = delivered' + failed' + unfinished'
                   /\ cancelling' => unfinished' = 0
<1>0. /\ submitted = delivered + failed + unfinished
      /\ cancelling => unfinished = 0
      /\ submitted \in Nat /\ delivered \in Nat /\ failed \in Nat /\ unfinished \in Nat
  BY DEF DrainInv, TypeOK
<1>1. ASSUME NEW c \in Commands, Submit(c) PROVE Goal
  <2>1. ~cancelling
    BY <1>1 DEF Submit, CloseInv
  <2>2. QED
    BY <1>0, <1>1, <2>1 DEF Submit, callVars
<1>2. ASSUME NEW w \in Workers, Delivered(w) \/ LastPostFails(w) PROVE Goal
  <2>1. unfinished \in Nat \ {0}
    BY <1>2, HoldingStep, HolderCounts
  <2>2. /\ \/ delivered' = delivered + 1 /\ failed' = failed
           \/ delivered' = delivered /\ failed' = failed + 1
        /\ unfinished' = unfinished - 1
        /\ submitted' = submitted /\ ~cancelling /\ cancelling' = cancelling
    BY <1>2 DEF Delivered, LastPostFails, Release, TaskDone
  <2>3. QED
    BY <1>0, <2>1, <2>2
<1>3. ASSUME NEW w \in Workers, WorkerCancelled(w) PROVE Goal
  <2>1. w \notin Holding
    BY <1>0, <1>3, HolderCounts DEF WorkerCancelled
  <2>2. QED
    BY <1>0, <1>3, <2>1 DEF WorkerCancelled, counterVars
<1>4. ASSUME NEW k \in Closers, CloseCall(k) \/ CloseCancels(k) \/ CloseDone(k)
      PROVE  Goal
  <2>1. /\ UNCHANGED <<submitted, delivered, failed, unfinished>>
        /\ cancelling' => cancelling \/ unfinished = 0
    BY <1>4 DEF CloseCall, CloseCancels, CloseDone, CloseInv, taskVars, counterVars
  <2>2. QED
    BY <1>0, <2>1
<1>5. ASSUME UNCHANGED <<submitted, delivered, failed, unfinished, cancelling>>
      PROVE  Goal
  BY <1>0, <1>5
<1>6. ASSUME NEW w \in Workers, Take(w) \/ PostFails(w) \/ Retry(w) PROVE Goal
  BY <1>5, <1>6 DEF Take, PostFails, Retry, callVars, counterVars
<1>7. QED
  BY <1>1, <1>2, <1>3, <1>4, <1>5, <1>6
  DEF Next, WorkerStep, SubmitClosed, SubmitFull, ServerReceives, FlushCall,
      FlushReturns, FlushTimesOut, vars, taskVars, callVars, counterVars

-----------------------------------------------------------------------------
LEMMA InitInv == Init => IInv
<1> SUFFICES ASSUME Init PROVE IInv
  OBVIOUS
<1> USE BufferAssumption DEF Init
<1>1. Holding = {} /\ Stopped = {} /\ Len(queue) = 0 /\ queue \in Seq(Commands)
  BY EmptySeq DEF Holding, Stopped
<1>2. Cardinality(Holding) = 0 /\ Cardinality(Stopped) = 0 /\ Cardinality(offered) = 0
  BY <1>1, FS_EmptySet
<1>3. TypeOK
  <2>1. 0 \in 0..MaxAttempts /\ 0 \in 0..MaxQueueSize /\ Len(queue) <= MaxQueueSize
    BY <1>1
  <2>2. /\ attempt \in [Workers -> 0..MaxAttempts]
        /\ state \in [Workers -> {"absent", "idle", "posting", "backoff", "stopped"}]
        /\ item \in [Workers -> Commands \cup {NoCommand}]
    BY <2>1
  <2>3. /\ call \in [Callers ->
             {"none", "waiting", "ready", "true", "false", "gathering", "done"}]
        /\ timed \in [Flushers -> BOOLEAN] /\ owed \in [Flushers -> SUBSET Commands]
    OBVIOUS
  <2>4. closed \in BOOLEAN /\ cancelling \in BOOLEAN
    OBVIOUS
  <2>5. QED
    BY <1>1, <2>1, <2>2, <2>3, <2>4 DEF TypeOK
<1>4. JoinCounter /\ Accounting
  BY <1>1, <1>2 DEF JoinCounter, Accounting
<1>5. HeldInv /\ OwedInv
  BY <1>1 DEF HeldInv, OwedInv, Unsettled, Callers
<1>6. CloseInv /\ DrainInv
  BY DEF CloseInv, DrainInv, Callers
<1>7. QED
  BY <1>3, <1>4, <1>5, <1>6 DEF IInv

LEMMA NextInv == IInv /\ [Next]_vars => IInv'
<1> SUFFICES ASSUME IInv, [Next]_vars PROVE IInv'
  OBVIOUS
<1>1. TypeOK /\ JoinCounter /\ HeldInv /\ Accounting /\ OwedInv /\ CloseInv /\ DrainInv
  BY DEF IInv
<1>2. TypeOK' /\ JoinCounter' /\ HeldInv' /\ Accounting' /\ CloseInv'
  BY <1>1, TypeStep, JoinStep, HeldStep, AccountingStep, CloseStep
<1>3. OwedInv'
  BY <1>1, <1>2, OwedStep
<1>4. DrainInv'
  <2>1. closeTimed' = closeTimed
    BY DEF Next, WorkerStep, Submit, SubmitClosed, SubmitFull, Take, Delivered,
      PostFails, LastPostFails, Retry, WorkerCancelled, ServerReceives, FlushCall,
      FlushReturns, FlushTimesOut, CloseCall, CloseCancels, CloseDone, vars,
      callVars
  <2>2. QED
    BY <1>1, <2>1, DrainStep DEF DrainInv
<1>5. QED
  BY <1>2, <1>3, <1>4 DEF IInv

(* The strengthened invariant holds in every reachable state.                *)
THEOREM Invariance == Spec => []IInv
BY InitInv, NextInv, PTL DEF Spec

(* Every variable keeps its type; the queue never exceeds MaxQueueSize and   *)
(* no command is attempted more than MaxAttempts times.                      *)
THEOREM TypeCorrect == Spec => []TypeOK
<1>1. IInv => TypeOK
  BY DEF IInv
<1>2. QED
  BY <1>1, Invariance, PTL

(* The counter that flush and aclose wait on is the number of accepted       *)
(* commands still queued or held by a worker; every submission is counted,   *)
(* and no accepted command misses an outcome but at most one per cancelled   *)
(* worker.                                                                   *)
THEOREM AccountingHolds == Spec => []BooksBalance
<1>1. IInv => BooksBalance
  BY DEF IInv, BooksBalance
<1>2. QED
  BY <1>1, Invariance, PTL

(* A flush that returned True settled all that was accepted before it.       *)
THEOREM FlushIsSound == Spec => []FlushSettles
<1>1. IInv => FlushSettles
  BY DEF IInv, OwedInv, FlushSettles
<1>2. QED
  BY <1>1, Invariance, PTL

(* A returned aclose leaves no worker alive and no HTTP client open.         *)
THEOREM CloseIsFinal == Spec => []CloseQuiesces
<1>1. IInv => CloseQuiesces
  BY DEF IInv, CloseInv, CloseQuiesces, Holding, Callers
<1>2. QED
  BY <1>1, Invariance, PTL

(* Without a shutdown time-out, closing loses no accepted command.           *)
THEOREM DrainingCloseIsLossless == Spec => []DrainingCloseLosesNothing
<1>1. IInv => DrainingCloseLosesNothing
  BY DEF IInv, DrainInv, DrainingCloseLosesNothing
<1>2. QED
  BY <1>1, Invariance, PTL

-----------------------------------------------------------------------------
(* The buffer implements BestEffortDelivery: every step is an abstract step  *)
(* or changes nothing a caller can count.                                    *)
THEOREM BufferImplementsBestEffort == Spec => ImplementsBestEffort
<1>1. Init => Abstract!Init
  BY DEF Init, Abstract!Init
<1>2. ASSUME IInv, [Next]_vars PROVE [Abstract!Next]_(Abstract!vars)
  <2> USE DEF Abstract!vars
  <2>0. /\ TypeOK /\ JoinCounter /\ CloseInv
        /\ submitted \in Nat /\ delivered \in Nat /\ failed \in Nat
        /\ unfinished \in Nat /\ droppedFull \in Nat
    BY <1>2 DEF IInv, TypeOK
  <2>1. ASSUME NEW c \in Commands, SubmitClosed(c) \/ SubmitFull(c)
        PROVE  Abstract!Refuse
    BY <2>1 DEF SubmitClosed, SubmitFull, taskVars, callVars, Abstract!Refuse
  <2>2. ASSUME NEW c \in Commands, Submit(c) PROVE Abstract!Accept
    BY <2>0, <2>2 DEF Submit, callVars, Abstract!Accept
  <2>3. ASSUME NEW w \in Workers, Delivered(w) PROVE Abstract!Deliver
    <3>1. unfinished \in Nat \ {0}
      BY <2>0, <2>3, HoldingStep, HolderCounts
    <3>2. QED
      BY <2>0, <2>3, <3>1 DEF Delivered, Release, TaskDone, Abstract!Deliver
  <2>4. ASSUME NEW w \in Workers, LastPostFails(w) PROVE Abstract!GiveUp
    <3>1. unfinished \in Nat \ {0}
      BY <2>0, <2>4, HoldingStep, HolderCounts
    <3>2. QED
      BY <2>0, <2>4, <3>1 DEF LastPostFails, Release, TaskDone, Abstract!GiveUp
  <2>5. ASSUME NEW w \in Workers, WorkerCancelled(w), w \in Holding
        PROVE  Abstract!Discard
    <3>1. unfinished \in Nat \ {0} /\ closed
      BY <2>0, <2>5, HolderCounts DEF CloseInv, WorkerCancelled
    <3>2. unfinished' = unfinished - 1
      BY <2>5 DEF WorkerCancelled, TaskDone
    <3>3. QED
      BY <2>0, <2>5, <3>1, <3>2 DEF WorkerCancelled, counterVars, Abstract!Discard
  <2>6. ASSUME NEW k \in Closers, CloseCall(k) PROVE Abstract!Close
    BY <2>6 DEF CloseCall, taskVars, counterVars, Abstract!Close
  <2>7. ASSUME UNCHANGED <<closed, unfinished, counterVars>>
        PROVE  UNCHANGED Abstract!vars
    BY <2>7 DEF counterVars
  <2>8. ASSUME NEW w \in Workers, Take(w) \/ Retry(w) PROVE UNCHANGED Abstract!vars
    BY <2>7, <2>8 DEF Take, Retry, callVars
  <2>9. ASSUME NEW w \in Workers, PostFails(w) PROVE UNCHANGED Abstract!vars
    BY <2>9 DEF PostFails, callVars
  <2>10. ASSUME NEW w \in Workers, WorkerCancelled(w), w \notin Holding
         PROVE  UNCHANGED Abstract!vars
    BY <2>7, <2>10 DEF WorkerCancelled
  <2>11. ASSUME NEW k \in Closers, CloseCancels(k) \/ CloseDone(k)
         PROVE  UNCHANGED Abstract!vars
    BY <2>7, <2>11 DEF CloseCancels, CloseDone, taskVars
  <2>12. ASSUME NEW f \in Flushers,
                \/ \E hasTimeout \in BOOLEAN : FlushCall(f, hasTimeout)
                \/ FlushReturns(f) \/ FlushTimesOut(f)
         PROVE  UNCHANGED Abstract!vars
    BY <2>7, <2>12 DEF FlushCall, FlushReturns, FlushTimesOut, taskVars
  <2>13. ASSUME NEW m \in wire, ServerReceives(m) PROVE UNCHANGED Abstract!vars
    BY <2>7, <2>13 DEF ServerReceives, taskVars, callVars
  <2>14. CASE UNCHANGED vars
    BY <2>7, <2>14 DEF vars, taskVars, callVars
  <2>15. QED
    BY <1>2, <2>1, <2>2, <2>3, <2>4, <2>5, <2>6, <2>8, <2>9, <2>10, <2>11, <2>12,
       <2>13, <2>14
    DEF Next, WorkerStep, Abstract!Next
<1>3. QED
  BY <1>1, <1>2, Invariance, PTL DEF Spec, ImplementsBestEffort, Abstract!Spec

-----------------------------------------------------------------------------
(* The buffer's counters match the wire, for every set of commands and     *)
(* workers and every number of attempts.                                   *)
(*                                                                         *)
(* CountersMatchTheWire counts messages, so the invariant must say that a  *)
(* post is a new message each time: a queued command has no message yet    *)
(* and a worker's command none beyond its current attempt (Fresh), which   *)
(* needs that no command is in two places (Apart).  DeliveredWereReceived  *)
(* is not inductive, since a command heard but unsettled may be counted    *)
(* once more; HeardCounts leaves those out.                                *)

Queued == {queue[i] : i \in 1..Len(queue)}

Held == {item[w] : w \in Holding}

Heard == {c \in Commands : \E n \in 1..MaxAttempts : <<c, n>> \in received}

\* A command is queued once or held by one worker.
Apart ==
  /\ \A i, j \in 1..Len(queue) : queue[i] = queue[j] => i = j
  /\ \A w \in Holding : item[w] \notin Queued
  /\ \A u, w \in Holding : item[u] = item[w] => u = w

\* No message of a command that was not offered or is queued, and none ahead of
\* the worker that holds the command.
Fresh ==
  /\ wire \cap received = {}
  /\ IsFiniteSet(wire) /\ IsFiniteSet(received)
  /\ \A m \in wire \cup received :
       /\ m[1] \in offered /\ m[1] \notin Queued
       /\ \A w \in Holding : m[1] = item[w] => m[2] <= attempt[w]

\* Each delivered command was heard and is settled.
HeardCounts == delivered <= Cardinality(Heard \ Unsettled)

WireInv == Apart /\ Fresh /\ HeardCounts /\ RetryAccounting

-----------------------------------------------------------------------------
(* What the actions do to the sets the counters are compared with.           *)

LEMMA Places == Unsettled = Queued \cup Held
  BY DEF Unsettled, Queued, Held

LEMMA SubmitQueues ==
  ASSUME TypeOK, NEW c \in Commands, Submit(c)
  PROVE  /\ Len(queue') = Len(queue) + 1
         /\ \A i \in 1..Len(queue) : queue'[i] = queue[i]
         /\ queue'[Len(queue) + 1] = c
         /\ Queued' = Queued \cup {c}
<1>1. /\ Len(queue) \in Nat /\ Len(queue') = Len(queue) + 1
      /\ \A i \in 1..Len(queue) : queue'[i] = queue[i]
      /\ queue'[Len(queue) + 1] = c
  BY AppendProperties, LenProperties DEF Submit, TypeOK
<1>2. 1..Len(queue') = 1..Len(queue) \cup {Len(queue) + 1}
  BY <1>1
<1>3. QED
  BY <1>1, <1>2 DEF Queued

LEMMA TakeUnqueues ==
  ASSUME TypeOK, Apart, NEW w \in Workers, Take(w)
  PROVE  /\ Len(queue') = Len(queue) - 1 /\ Len(queue) \in Nat \ {0}
         /\ \A i \in 1..Len(queue') : queue'[i] = queue[i + 1]
         /\ Head(queue) = queue[1] /\ Head(queue) \in Queued
         /\ Queued' = Queued \ {Head(queue)}
<1>1. /\ Len(queue) \in Nat /\ Len(queue) # 0
      /\ Len(queue') = Len(queue) - 1
      /\ \A i \in 1..Len(queue') : queue'[i] = queue[i + 1]
      /\ Head(queue) = queue[1]
  BY HeadTailProperties, LenProperties, EmptySeq DEF Take, TypeOK
<1>2. Head(queue) \in Queued
  BY <1>1 DEF Queued
<1>3. Queued' \subseteq Queued \ {Head(queue)}
  BY <1>1 DEF Queued, Apart
<1>4. Queued \ {Head(queue)} \subseteq Queued'
  <2> SUFFICES ASSUME NEW i \in 1..Len(queue), queue[i] # Head(queue)
               PROVE  queue[i] \in Queued'
    BY DEF Queued
  <2>1. i - 1 \in 1..Len(queue') /\ (i - 1) + 1 = i
    BY <1>1
  <2>2. QED
    BY <1>1, <2>1 DEF Queued
<1>5. QED
  BY <1>1, <1>2, <1>3, <1>4

(* Sets of messages and commands are finite.                                 *)
LEMMA WireFinite ==
  ASSUME TypeOK, Fresh
  PROVE  /\ Cardinality(wire) \in Nat /\ Cardinality(received) \in Nat
         /\ IsFiniteSet(BackingOff) /\ Cardinality(BackingOff) \in Nat
         /\ IsFiniteSet(Stopped) /\ Cardinality(Stopped) \in Nat
         /\ Len(queue) \in Nat /\ submitted \in Nat /\ retried \in Nat /\ delivered \in Nat
<1>1. BackingOff \in SUBSET Workers
  BY DEF BackingOff
<1>2. QED
  BY <1>1, BufferAssumption, WorkersFinite, FS_Subset, FS_CardinalityType, LenProperties
  DEF TypeOK, Fresh

LEMMA HeardFinite ==
  ASSUME NEW S \in SUBSET Commands
  PROVE  IsFiniteSet(S) /\ Cardinality(S) \in Nat
  BY BufferAssumption, FS_Subset, FS_CardinalityType

LEMMA MoreIsMore ==
  ASSUME NEW S \in SUBSET Commands, NEW T \in SUBSET Commands, S \subseteq T
  PROVE  Cardinality(S) <= Cardinality(T)
  BY HeardFinite, FS_Subset

(* Nothing that is counted here moves in the steps of a caller.              *)
LEMMA CallersApart ==
  ASSUME WireInv,
         UNCHANGED <<queue, state, item, attempt, wire, received, submitted, delivered, retried>>,
         offered \subseteq offered'
  PROVE  WireInv'
<1>1. Holding' = Holding /\ Queued' = Queued /\ Heard' = Heard /\ Unsettled' = Unsettled
      /\ BackingOff' = BackingOff /\ Stopped' = Stopped
  BY DEF Holding, Queued, Heard, Unsettled, BackingOff, Stopped
<1>2. Apart'
  BY <1>1 DEF WireInv, Apart
<1>3. Fresh'
  BY <1>1 DEF WireInv, Fresh
<1>4. HeardCounts' /\ RetryAccounting'
  BY <1>1 DEF WireInv, HeardCounts, RetryAccounting
<1>5. QED
  BY <1>2, <1>3, <1>4 DEF WireInv

-----------------------------------------------------------------------------
(* A new command gets a place of its own, a taken one leaves the queue for   *)
(* the worker, and a worker that is done frees its place.                    *)
LEMMA ApartStep ==
  ASSUME TypeOK, HeldInv, OwedInv, Apart
  PROVE  /\ \A c \in Commands : Submit(c) => Apart'
         /\ \A w \in Workers :
              Take(w) \/ Delivered(w) \/ LastPostFails(w) \/ PostFails(w) \/ Retry(w)
                \/ WorkerCancelled(w) => Apart'
<1>1. ASSUME NEW c \in Commands, Submit(c) PROVE Apart'
  <2>1. c \notin Queued /\ c \notin Held
    BY <1>1, Places DEF Submit, OwedInv
  <2>2. Holding' = Holding /\ item' = item
    BY <1>1, HoldingStep DEF Submit
  <2>3. /\ Len(queue) \in Nat /\ Len(queue') = Len(queue) + 1
        /\ \A i \in 1..Len(queue) : queue'[i] = queue[i] /\ queue[i] # c
        /\ queue'[Len(queue) + 1] = c
    BY <1>1, <2>1, SubmitQueues, LenProperties DEF TypeOK, Queued
  <2>4. \A i, j \in 1..Len(queue') : queue'[i] = queue'[j] => i = j
    <3> SUFFICES ASSUME NEW i \in 1..Len(queue'), NEW j \in 1..Len(queue'),
                        queue'[i] = queue'[j]
                 PROVE  i = j
      OBVIOUS
    <3>1. \A k \in 1..Len(queue') : k \in 1..Len(queue) \/ k = Len(queue) + 1
      BY <2>3
    <3>2. CASE i \in 1..Len(queue) /\ j \in 1..Len(queue)
      BY <3>2, <2>3 DEF Apart
    <3>3. CASE ~(i \in 1..Len(queue) /\ j \in 1..Len(queue))
      BY <3>1, <3>3, <2>3
    <3>4. QED
      BY <3>2, <3>3
  <2>5. \A w \in Holding' : item'[w] \notin Queued'
    BY <1>1, <2>1, <2>2, SubmitQueues DEF Apart, Held
  <2>6. QED
    BY <2>2, <2>4, <2>5 DEF Apart
<1>2. ASSUME NEW w \in Workers, Take(w) PROVE Apart'
  <2> DEFINE c == Head(queue)
  <2>1. /\ Len(queue') = Len(queue) - 1 /\ Len(queue) \in Nat \ {0}
        /\ \A i \in 1..Len(queue') : queue'[i] = queue[i + 1]
        /\ c \in Queued /\ Queued' = Queued \ {c}
    BY <1>2, TakeUnqueues
  <2>2. /\ w \notin Holding /\ Holding' = Holding \cup {w}
        /\ item'[w] = c /\ \A u \in Workers \ {w} : item'[u] = item[u]
    BY <1>2, HoldingStep DEF Take, TypeOK
  <2>3. \A i, j \in 1..Len(queue') : queue'[i] = queue'[j] => i = j
    <3> SUFFICES ASSUME NEW i \in 1..Len(queue'), NEW j \in 1..Len(queue'),
                        queue'[i] = queue'[j]
                 PROVE  i = j
      OBVIOUS
    <3>1. i + 1 \in 1..Len(queue) /\ j + 1 \in 1..Len(queue)
      BY <2>1
    <3>2. i + 1 = j + 1
      BY <2>1, <3>1 DEF Apart
    <3>3. QED
      BY <3>2
  <2>4. \A u \in Holding' : item'[u] \notin Queued'
    BY <2>1, <2>2 DEF Apart, Holding
  <2>5. \A u, v \in Holding' : item'[u] = item'[v] => u = v
    BY <2>1, <2>2 DEF Apart, Holding
  <2>6. QED
    BY <2>3, <2>4, <2>5 DEF Apart
<1>3. ASSUME NEW w \in Workers,
             Delivered(w) \/ LastPostFails(w) \/ PostFails(w) \/ Retry(w) \/ WorkerCancelled(w)
      PROVE Apart'
  <2>1. /\ queue' = queue /\ Holding' \subseteq Holding
        /\ \A u \in Holding' : item'[u] = item[u]
    <3>1. CASE Delivered(w) \/ LastPostFails(w)
      BY <3>1, HoldingStep DEF Delivered, LastPostFails, Release, TypeOK, Holding
    <3>2. CASE PostFails(w) \/ Retry(w)
      BY <3>2, HoldingStep DEF PostFails, Retry
    <3>3. CASE WorkerCancelled(w)
      BY <3>3, HoldingStep DEF WorkerCancelled, TypeOK, Holding
    <3>4. QED
      BY <1>3, <3>1, <3>2, <3>3
  <2>2. Queued' = Queued
    BY <2>1 DEF Queued
  <2>3. QED
    BY <2>1, <2>2 DEF Apart
<1>4. QED
  BY <1>1, <1>2, <1>3

(* A post of a taken command, or of the next attempt, is a message that was  *)
(* never on the wire.                                                        *)
LEMMA FreshStep ==
  ASSUME TypeOK, HeldInv, OwedInv, Apart, Fresh
  PROVE  /\ \A c \in Commands : Submit(c) => Fresh'
         /\ \A w \in Workers :
              /\ Take(w) => /\ Fresh' /\ <<Head(queue), 1>> \notin wire \cup received
                            /\ wire' = wire \cup {<<Head(queue), 1>>} /\ received' = received
              /\ Retry(w) => /\ Fresh'
                             /\ <<item[w], attempt[w] + 1>> \notin wire \cup received
                             /\ wire' = wire \cup {<<item[w], attempt[w] + 1>>}
                             /\ received' = received
              /\ Delivered(w) \/ LastPostFails(w) \/ PostFails(w) \/ WorkerCancelled(w) =>
                   Fresh' /\ wire' = wire /\ received' = received
         /\ \A m \in wire : ServerReceives(m) => Fresh'
<1>1. ASSUME NEW c \in Commands, Submit(c) PROVE Fresh'
  <2>1. /\ Holding' = Holding /\ item' = item /\ attempt' = attempt
        /\ wire' = wire /\ received' = received
        /\ offered \subseteq offered' /\ c \notin offered
    BY <1>1, HoldingStep DEF Submit, netVars
  <2>2. Queued' = Queued \cup {c}
    BY <1>1, SubmitQueues
  <2>3. QED
    BY <2>1, <2>2 DEF Fresh
<1>2. ASSUME NEW w \in Workers, Take(w)
      PROVE  /\ Fresh' /\ <<Head(queue), 1>> \notin wire \cup received
             /\ wire' = wire \cup {<<Head(queue), 1>>} /\ received' = received
  <2> DEFINE c == Head(queue)
  <2> DEFINE m == <<c, 1>>
  <2>1. c \in Queued /\ Queued' = Queued \ {c}
    BY <1>2, TakeUnqueues
  <2>2. m \notin wire \cup received /\ m[1] = c /\ m[2] = 1
    BY <2>1 DEF Fresh
  <2>3. wire' = wire \cup {m} /\ received' = received /\ offered' = offered
    BY <1>2 DEF Take, Post
  <2>4. /\ Holding' = Holding \cup {w} /\ item'[w] = c /\ attempt'[w] = 1
        /\ \A u \in Holding : item'[u] = item[u] /\ attempt'[u] = attempt[u] /\ item[u] # c
    BY <1>2, <2>1, HoldingStep DEF Take, TypeOK, Apart, Holding
  <2>5. c \in offered
    BY <2>1, Places DEF OwedInv
  <2>6. wire' \cap received' = {} /\ IsFiniteSet(wire') /\ IsFiniteSet(received')
    BY <2>2, <2>3, FS_AddElement DEF Fresh
  <2>7. ASSUME NEW n \in wire \cup received
        PROVE  /\ n[1] \in offered' /\ n[1] \notin Queued'
               /\ \A u \in Holding' : n[1] = item'[u] => n[2] <= attempt'[u]
    BY <2>1, <2>3, <2>4 DEF Fresh
  <2>8. /\ m[1] \in offered' /\ m[1] \notin Queued'
        /\ \A u \in Holding' : m[1] = item'[u] => m[2] <= attempt'[u]
    BY <2>1, <2>2, <2>3, <2>4, <2>5
  <2>9. QED
    <3> HIDE DEF m
    <3> QED
      BY <2>2, <2>3, <2>6, <2>7, <2>8 DEF Fresh, m
<1>3. ASSUME NEW w \in Workers, Retry(w)
      PROVE  /\ Fresh' /\ <<item[w], attempt[w] + 1>> \notin wire \cup received
             /\ wire' = wire \cup {<<item[w], attempt[w] + 1>>} /\ received' = received
  <2> DEFINE m == <<item[w], attempt[w] + 1>>
  <2>1. w \in Holding /\ attempt[w] \in Nat /\ item[w] \in Queued \cup Held
    BY <1>3 DEF Retry, Holding, HeldInv, Held
  <2>2. m \notin wire \cup received /\ m[1] = item[w] /\ m[2] = attempt[w] + 1
    BY <2>1 DEF Fresh
  <2>3. /\ wire' = wire \cup {m} /\ received' = received /\ offered' = offered
        /\ queue' = queue /\ item' = item
    BY <1>3 DEF Retry, Post
  <2>4. /\ Holding' = Holding /\ attempt'[w] = attempt[w] + 1
        /\ \A u \in Holding \ {w} : attempt'[u] = attempt[u] /\ item[u] # item[w]
    BY <1>3, <2>1, HoldingStep DEF Retry, TypeOK, Apart, Holding
  <2>5. item[w] \in offered /\ item[w] \notin Queued
    BY <2>1, Places DEF OwedInv, Apart
  <2>6. wire' \cap received' = {} /\ IsFiniteSet(wire') /\ IsFiniteSet(received')
    BY <2>2, <2>3, FS_AddElement DEF Fresh
  <2>7. Queued' = Queued
    BY <2>3 DEF Queued
  <2>8. ASSUME NEW n \in wire \cup received, NEW u \in Holding', n[1] = item'[u]
        PROVE  n[2] <= attempt'[u]
    <3>1. n[2] <= attempt[u] /\ u \in Workers /\ attempt[u] \in Nat
      BY <2>3, <2>4, <2>8 DEF Fresh, Holding, TypeOK
    <3>2. n \in Commands \X (1..MaxAttempts)
      BY DEF TypeOK
    <3>3. n[2] \in Nat
      BY <3>2, BufferAssumption
    <3>4. CASE u = w
      BY <3>1, <3>3, <3>4, <2>4
    <3>5. CASE u # w
      BY <3>1, <3>5, <2>4
    <3>6. QED
      BY <3>4, <3>5
  <2>9. \A u \in Holding' : m[1] = item'[u] => m[2] <= attempt'[u]
    BY <2>1, <2>2, <2>3, <2>4
  <2>10. QED
    <3> HIDE DEF m
    <3> QED
      BY <2>2, <2>3, <2>5, <2>6, <2>7, <2>8, <2>9 DEF Fresh, m
<1>4. ASSUME NEW w \in Workers,
             Delivered(w) \/ LastPostFails(w) \/ PostFails(w) \/ WorkerCancelled(w)
      PROVE  Fresh' /\ wire' = wire /\ received' = received
  <2>1. /\ queue' = queue /\ wire' = wire /\ received' = received /\ offered' = offered
        /\ Holding' \subseteq Holding
        /\ \A u \in Holding' : item'[u] = item[u] /\ attempt'[u] = attempt[u]
    <3>1. CASE Delivered(w) \/ LastPostFails(w)
      BY <3>1, HoldingStep DEF Delivered, LastPostFails, Release, TypeOK, Holding, netVars
    <3>2. CASE PostFails(w)
      BY <3>2, HoldingStep DEF PostFails, netVars
    <3>3. CASE WorkerCancelled(w)
      BY <3>3, HoldingStep DEF WorkerCancelled, TypeOK, Holding, netVars
    <3>4. QED
      BY <1>4, <3>1, <3>2, <3>3
  <2>2. Queued' = Queued
    BY <2>1 DEF Queued
  <2>3. QED
    BY <2>1, <2>2 DEF Fresh
<1>5. ASSUME NEW m \in wire, ServerReceives(m) PROVE Fresh'
  <2>1. /\ wire' = wire \ {m} /\ received' = received \cup {m} /\ offered' = offered
        /\ queue' = queue /\ item' = item /\ attempt' = attempt /\ state' = state
    BY <1>5 DEF ServerReceives, taskVars
  <2>2. Queued' = Queued /\ Holding' = Holding
    BY <2>1 DEF Queued, Holding
  <2>3. /\ wire' \cap received' = {} /\ IsFiniteSet(wire') /\ IsFiniteSet(received')
        /\ wire' \cup received' = wire \cup received
    BY <2>1, FS_AddElement, FS_RemoveElement DEF Fresh
  <2>4. QED
    BY <2>1, <2>2, <2>3 DEF Fresh
<1>6. QED
  BY <1>1, <1>2, <1>3, <1>4, <1>5

-----------------------------------------------------------------------------
(* How each action changes the sets that RetryAccounting counts.             *)
LEMMA BackingOffStep ==
  ASSUME TypeOK
  PROVE  /\ \A c \in Commands : Submit(c) => BackingOff' = BackingOff
         /\ \A w \in Workers :
              /\ Take(w) \/ Delivered(w) \/ LastPostFails(w) => BackingOff' = BackingOff
              /\ PostFails(w) => w \notin BackingOff /\ BackingOff' = BackingOff \cup {w}
              /\ Retry(w) => w \in BackingOff /\ BackingOff' = BackingOff \ {w}
              /\ WorkerCancelled(w) => BackingOff' = BackingOff \ {w}
<1> USE DEF TypeOK, BackingOff
<1>1. ASSUME NEW c \in Commands, Submit(c) PROVE BackingOff' = BackingOff
  BY <1>1 DEF Submit, EnsureStarted
<1>2. ASSUME NEW w \in Workers
      PROVE  /\ Take(w) \/ Delivered(w) \/ LastPostFails(w) => BackingOff' = BackingOff
             /\ PostFails(w) => w \notin BackingOff /\ BackingOff' = BackingOff \cup {w}
             /\ Retry(w) => w \in BackingOff /\ BackingOff' = BackingOff \ {w}
             /\ WorkerCancelled(w) => BackingOff' = BackingOff \ {w}
  <2>1. Take(w) \/ Delivered(w) \/ LastPostFails(w) => BackingOff' = BackingOff
    BY DEF Take, Delivered, LastPostFails, Release
  <2>2. PostFails(w) => w \notin BackingOff /\ BackingOff' = BackingOff \cup {w}
    BY DEF PostFails
  <2>3. Retry(w) => w \in BackingOff /\ BackingOff' = BackingOff \ {w}
    BY DEF Retry
  <2>4. WorkerCancelled(w) => BackingOff' = BackingOff \ {w}
    BY DEF WorkerCancelled
  <2>5. QED
    BY <2>1, <2>2, <2>3, <2>4
<1>3. QED
  BY <1>1, <1>2

(* Posts and promises grow together.                                         *)
LEMMA RetryStep ==
  ASSUME TypeOK, HeldInv, OwedInv, Apart, Fresh, RetryAccounting
  PROVE  /\ \A c \in Commands : Submit(c) => RetryAccounting'
         /\ \A w \in Workers : WorkerStep(w) => RetryAccounting'
         /\ \A m \in wire : ServerReceives(m) => RetryAccounting'
<1> DEFINE posts == Cardinality(wire) + Cardinality(received)
<1>1. /\ Cardinality(wire) \in Nat /\ Cardinality(received) \in Nat
      /\ IsFiniteSet(wire) /\ IsFiniteSet(received)
      /\ IsFiniteSet(BackingOff) /\ Cardinality(BackingOff) \in Nat
      /\ IsFiniteSet(Stopped) /\ Cardinality(Stopped) \in Nat
      /\ Len(queue) \in Nat /\ submitted \in Nat /\ retried \in Nat
  BY WireFinite DEF Fresh
<1>2. /\ posts + Cardinality(BackingOff) <= (submitted - Len(queue)) + retried
      /\ (submitted - Len(queue)) + retried
           <= posts + Cardinality(BackingOff) + Cardinality(Stopped)
  BY DEF RetryAccounting
<1>3. ASSUME NEW c \in Commands, Submit(c) PROVE RetryAccounting'
  <2>1. /\ wire' = wire /\ received' = received /\ retried' = retried
        /\ submitted' = submitted + 1 /\ Len(queue') = Len(queue) + 1
        /\ BackingOff' = BackingOff /\ Stopped' = Stopped
    BY <1>3, SubmitQueues, BackingOffStep, HoldingStep DEF Submit, netVars
  <2>2. QED
    BY <1>1, <1>2, <2>1 DEF RetryAccounting
<1>4. ASSUME NEW w \in Workers, Take(w) PROVE RetryAccounting'
  <2>1. /\ received' = received /\ retried' = retried /\ submitted' = submitted
        /\ Len(queue') = Len(queue) - 1
        /\ BackingOff' = BackingOff /\ Stopped' = Stopped
    BY <1>4, TakeUnqueues, BackingOffStep, HoldingStep DEF Take, Post, counterVars
  <2>2. Cardinality(wire') = Cardinality(wire) + 1
    BY <1>1, <1>4, FreshStep, OneMore
  <2>3. QED
    BY <1>1, <1>2, <2>1, <2>2 DEF RetryAccounting
<1>5. ASSUME NEW w \in Workers, Delivered(w) \/ LastPostFails(w) PROVE RetryAccounting'
  <2>1. /\ wire' = wire /\ received' = received /\ retried' = retried
        /\ submitted' = submitted /\ queue' = queue
        /\ BackingOff' = BackingOff /\ Stopped' = Stopped
    BY <1>5, BackingOffStep, HoldingStep DEF Delivered, LastPostFails, netVars
  <2>2. QED
    BY <1>2, <2>1 DEF RetryAccounting
<1>6. ASSUME NEW w \in Workers, PostFails(w) PROVE RetryAccounting'
  <2>1. /\ wire' = wire /\ received' = received /\ retried' = retried + 1
        /\ submitted' = submitted /\ queue' = queue /\ Stopped' = Stopped
    BY <1>6, HoldingStep DEF PostFails, netVars
  <2>2. Cardinality(BackingOff') = Cardinality(BackingOff) + 1
    BY <1>1, <1>6, BackingOffStep, OneMore
  <2>3. QED
    BY <1>1, <1>2, <2>1, <2>2 DEF RetryAccounting
<1>7. ASSUME NEW w \in Workers, Retry(w) PROVE RetryAccounting'
  <2>1. /\ received' = received /\ retried' = retried
        /\ submitted' = submitted /\ queue' = queue /\ Stopped' = Stopped
    BY <1>7, HoldingStep DEF Retry, Post, counterVars
  <2>2. Cardinality(wire') = Cardinality(wire) + 1
    BY <1>1, <1>7, FreshStep, OneMore
  <2>3. Cardinality(BackingOff') = Cardinality(BackingOff) - 1
    BY <1>1, <1>7, BackingOffStep, OneLess
  <2>4. QED
    BY <1>1, <1>2, <2>1, <2>2, <2>3 DEF RetryAccounting
<1>8. ASSUME NEW w \in Workers, WorkerCancelled(w) PROVE RetryAccounting'
  <2>1. /\ wire' = wire /\ received' = received /\ retried' = retried
        /\ submitted' = submitted /\ queue' = queue
    BY <1>8 DEF WorkerCancelled, netVars, counterVars
  <2>2. Cardinality(Stopped') = Cardinality(Stopped) + 1
    BY <1>1, <1>8, HoldingStep, OneMore
  <2>3. Cardinality(BackingOff') \in {Cardinality(BackingOff), Cardinality(BackingOff) - 1}
    BY <1>1, <1>8, BackingOffStep, FS_RemoveElement
  <2>4. QED
    BY <1>1, <1>2, <2>1, <2>2, <2>3 DEF RetryAccounting
<1>9. ASSUME NEW m \in wire, ServerReceives(m) PROVE RetryAccounting'
  <2>1. /\ wire' = wire \ {m} /\ received' = received \cup {m} /\ m \notin received
        /\ retried' = retried /\ submitted' = submitted /\ queue' = queue
        /\ BackingOff' = BackingOff /\ Stopped' = Stopped
    BY <1>9 DEF ServerReceives, taskVars, counterVars, Fresh, BackingOff, Stopped
  <2>2. /\ Cardinality(wire') = Cardinality(wire) - 1
        /\ Cardinality(received') = Cardinality(received) + 1
    BY <1>1, <2>1, OneMore, OneLess
  <2>3. QED
    BY <1>1, <1>2, <2>1, <2>2 DEF RetryAccounting
<1>10. QED
  BY <1>3, <1>4, <1>5, <1>6, <1>7, <1>8, <1>9 DEF WorkerStep

-----------------------------------------------------------------------------
(* Only Submit adds to the commands without an outcome.                      *)
LEMMA UnsettledShrinks ==
  ASSUME TypeOK, NEW w \in Workers, WorkerStep(w)
  PROVE  Unsettled' \subseteq Unsettled
<1>1. ~ \E c \in Commands : Submit(c)
  BY DEF WorkerStep, Take, Delivered, PostFails, LastPostFails, Retry, WorkerCancelled, Submit
<1>2. Next
  BY DEF Next
<1>3. QED
  BY <1>1, <1>2, UnsettledStep

(* A delivered command is settled for the first time; no other step          *)
(* unsettles a command the server has heard of.                              *)
LEMMA HeardStep ==
  ASSUME TypeOK, HeldInv, OwedInv, Apart, Fresh, HeardCounts
  PROVE  /\ \A c \in Commands : Submit(c) => HeardCounts'
         /\ \A w \in Workers : WorkerStep(w) => HeardCounts'
         /\ \A m \in wire : ServerReceives(m) => HeardCounts'
<1>1. /\ Heard \ Unsettled \in SUBSET Commands
      /\ (Heard \ Unsettled)' \in SUBSET Commands
      /\ delivered \in Nat /\ Cardinality(Heard \ Unsettled) \in Nat
      /\ delivered <= Cardinality(Heard \ Unsettled)
      /\ Cardinality((Heard \ Unsettled)') \in Nat
  BY HeardFinite DEF Heard, HeardCounts, TypeOK
<1>2. ASSUME delivered' = delivered, Heard \ Unsettled \subseteq (Heard \ Unsettled)'
      PROVE  HeardCounts'
  <2>1. Cardinality(Heard \ Unsettled) <= Cardinality((Heard \ Unsettled)')
    BY <1>1, <1>2, MoreIsMore
  <2>2. QED
    BY <1>1, <1>2, <2>1 DEF HeardCounts
<1>3. ASSUME NEW c \in Commands, Submit(c) PROVE HeardCounts'
  <2>1. Heard' = Heard /\ delivered' = delivered /\ c \notin offered
    BY <1>3 DEF Submit, netVars, Heard
  <2>2. c \notin Heard
    <3>1. \A n \in 1..MaxAttempts : <<c, n>> \in received => <<c, n>>[1] \in offered
      BY DEF Fresh
    <3>2. \A n \in 1..MaxAttempts : <<c, n>>[1] = c
      OBVIOUS
    <3>3. QED
      BY <2>1, <3>1, <3>2 DEF Heard
  <2>3. Unsettled' = Unsettled \cup {c}
    <3>1. Queued' = Queued \cup {c} /\ Held' = Held
      BY <1>3, SubmitQueues, HoldingStep DEF Submit, Held
    <3>2. QED
      BY <3>1 DEF Unsettled, Queued, Held
  <2>4. QED
    BY <1>2, <2>1, <2>2, <2>3
<1>4. ASSUME NEW w \in Workers, Take(w) \/ PostFails(w) \/ Retry(w) PROVE HeardCounts'
  <2>1. Heard' = Heard /\ delivered' = delivered
    BY <1>4 DEF Take, PostFails, Retry, Post, counterVars, netVars, Heard
  <2>2. Unsettled' \subseteq Unsettled
    BY <1>4, UnsettledShrinks DEF WorkerStep
  <2>3. QED
    BY <1>2, <2>1, <2>2
<1>5. ASSUME NEW w \in Workers, LastPostFails(w) \/ WorkerCancelled(w) PROVE HeardCounts'
  <2>1. Heard' = Heard /\ delivered' = delivered
    BY <1>5 DEF LastPostFails, WorkerCancelled, counterVars, netVars, Heard
  <2>2. Unsettled' \subseteq Unsettled
    BY <1>5, UnsettledShrinks DEF WorkerStep
  <2>3. QED
    BY <1>2, <2>1, <2>2
<1>6. ASSUME NEW w \in Workers, Delivered(w) PROVE HeardCounts'
  <2> DEFINE c == item[w]
  <2>1. /\ Heard' = Heard /\ delivered' = delivered + 1
        /\ w \in Holding /\ c \in Commands /\ attempt[w] \in 1..MaxAttempts
        /\ <<c, attempt[w]>> \in received
    BY <1>6 DEF Delivered, netVars, Heard, HeldInv, Holding
  <2>2. c \in Heard /\ c \in Unsettled
    BY <2>1 DEF Heard, Unsettled
  <2>3. Unsettled' = Unsettled \ {c}
    <3>1. /\ queue' = queue /\ Holding' = Holding \ {w}
          /\ \A u \in Holding \ {w} : item'[u] = item[u] /\ item[u] # c
      BY <1>6, <2>1, HoldingStep DEF Delivered, Release, TypeOK, Apart, Holding
    <3>2. Queued' = Queued /\ c \notin Queued
      BY <2>1, <3>1 DEF Queued, Apart
    <3>3. Held' = Held \ {c}
      BY <3>1 DEF Held
    <3>4. Unsettled' = Queued' \cup Held'
      BY DEF Unsettled, Queued, Held
    <3>5. QED
      BY <3>2, <3>3, <3>4, Places
  <2>4. (Heard \ Unsettled)' = (Heard \ Unsettled) \cup {c} /\ c \notin Heard \ Unsettled
    BY <2>1, <2>2, <2>3
  <2>5. Cardinality((Heard \ Unsettled)') = Cardinality(Heard \ Unsettled) + 1
    BY <1>1, <2>4, HeardFinite, OneMore
  <2>6. QED
    BY <1>1, <2>1, <2>5 DEF HeardCounts
<1>7. ASSUME NEW m \in wire, ServerReceives(m) PROVE HeardCounts'
  <2>1. Heard \subseteq Heard' /\ delivered' = delivered
    BY <1>7 DEF ServerReceives, counterVars, Heard
  <2>2. Unsettled' = Unsettled
    BY <1>7 DEF ServerReceives, taskVars, Unsettled, Holding
  <2>3. QED
    BY <1>2, <2>1, <2>2
<1>8. QED
  BY <1>3, <1>4, <1>5, <1>6, <1>7 DEF WorkerStep

-----------------------------------------------------------------------------
LEMMA WireStep ==
  ASSUME IInv, WireInv, [Next]_vars
  PROVE  WireInv'
<1> USE DEF IInv
<1>1. TypeOK /\ HeldInv /\ OwedInv /\ Apart /\ Fresh /\ HeardCounts /\ RetryAccounting
  BY DEF WireInv
<1>2. ASSUME NEW c \in Commands, Submit(c) PROVE WireInv'
  BY <1>1, <1>2, ApartStep, FreshStep, HeardStep, RetryStep DEF WireInv
<1>3. ASSUME NEW w \in Workers, WorkerStep(w) PROVE WireInv'
  <2>1. Apart' /\ Fresh'
    BY <1>1, <1>3, ApartStep, FreshStep DEF WorkerStep
  <2>2. HeardCounts' /\ RetryAccounting'
    BY <1>1, <1>3, HeardStep, RetryStep
  <2>3. QED
    BY <2>1, <2>2 DEF WireInv
<1>4. ASSUME NEW m \in wire, ServerReceives(m) PROVE WireInv'
  <2>1. Apart'
    BY <1>1, <1>4 DEF ServerReceives, taskVars, Apart, Holding, Queued
  <2>2. QED
    BY <1>1, <1>4, <2>1, FreshStep, HeardStep, RetryStep DEF WireInv
<1>5. ASSUME NEW c \in Commands, SubmitClosed(c) \/ SubmitFull(c) PROVE WireInv'
  <2>1. /\ UNCHANGED <<queue, state, item, attempt, wire, received, submitted, delivered, retried>>
        /\ offered \subseteq offered'
    BY <1>5 DEF SubmitClosed, SubmitFull, taskVars, netVars
  <2>2. QED
    BY <1>1, <2>1, CallersApart DEF WireInv
<1>6. ASSUME NEW f \in Flushers,
             (\E hasTimeout \in BOOLEAN : FlushCall(f, hasTimeout))
               \/ FlushReturns(f) \/ FlushTimesOut(f)
      PROVE WireInv'
  <2>1. /\ UNCHANGED <<queue, state, item, attempt, wire, received, submitted, delivered, retried>>
        /\ offered \subseteq offered'
    BY <1>6 DEF FlushCall, FlushReturns, FlushTimesOut, taskVars, netVars, counterVars
  <2>2. QED
    BY <1>1, <2>1, CallersApart DEF WireInv
<1>7. ASSUME NEW k \in Closers, CloseCall(k) \/ CloseCancels(k) \/ CloseDone(k) PROVE WireInv'
  <2>1. /\ UNCHANGED <<queue, state, item, attempt, wire, received, submitted, delivered, retried>>
        /\ offered \subseteq offered'
    BY <1>7 DEF CloseCall, CloseCancels, CloseDone, taskVars, netVars, counterVars
  <2>2. QED
    BY <1>1, <2>1, CallersApart DEF WireInv
<1>8. CASE UNCHANGED vars
  <2>1. /\ UNCHANGED <<queue, state, item, attempt, wire, received, submitted, delivered, retried>>
        /\ offered \subseteq offered'
    BY <1>8 DEF vars, taskVars, netVars, counterVars
  <2>2. QED
    BY <1>1, <2>1, CallersApart DEF WireInv
<1>9. QED
  BY <1>2, <1>3, <1>4, <1>5, <1>6, <1>7, <1>8 DEF Next

LEMMA WireInit == Init => WireInv
<1> SUFFICES ASSUME Init PROVE WireInv
  OBVIOUS
<1>1. /\ Len(queue) = 0 /\ Holding = {} /\ Queued = {} /\ Heard = {} /\ Stopped = {} /\ BackingOff = {}
  BY EmptySeq DEF Init, Holding, Queued, Heard, Stopped, BackingOff
<1>2. /\ wire = {} /\ received = {} /\ submitted = 0 /\ retried = 0 /\ delivered = 0
  BY DEF Init
<1>3. Apart /\ Fresh
  BY <1>1, <1>2, FS_EmptySet DEF Apart, Fresh
<1>4. HeardCounts /\ RetryAccounting
  BY <1>1, <1>2, FS_EmptySet DEF HeardCounts, RetryAccounting
<1>5. QED
  BY <1>3, <1>4 DEF WireInv

(* The counters of the buffer tell the truth about the network: the server   *)
(* has processed at least as many commands as are counted as delivered, and  *)
(* the posts are the commands taken and the retries counted, but for those   *)
(* asleep before a retry or cancelled in that sleep.                         *)
THEOREM CountersAreTrue == Spec => []CountersMatchTheWire
<1>1. IInv /\ WireInv => CountersMatchTheWire
  <2> SUFFICES ASSUME IInv, WireInv PROVE DeliveredWereReceived
    BY DEF CountersMatchTheWire, WireInv
  <2>1. /\ Heard \in SUBSET Commands /\ Heard \ Unsettled \in SUBSET Commands
        /\ delivered <= Cardinality(Heard \ Unsettled) /\ delivered \in Nat
    BY DEF Heard, WireInv, HeardCounts, IInv, TypeOK
  <2>2. Cardinality(Heard \ Unsettled) <= Cardinality(Heard)
    BY <2>1, MoreIsMore
  <2>3. delivered <= Cardinality(Heard)
    BY <2>1, <2>2, HeardFinite
  <2>4. QED
    BY <2>3 DEF DeliveredWereReceived, Heard
<1>2. IInv /\ WireInv /\ [Next]_vars => WireInv'
  BY WireStep
<1>3. QED
  BY <1>1, <1>2, WireInit, Invariance, PTL DEF Spec

=============================================================================
