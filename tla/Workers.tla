-------------------------------- MODULE Workers --------------------------------
(***************************************************************************)
(* Workers of quickjs-libc.c: the main thread and the threads it starts    *)
(* exchange messages over two pipes per worker, "down" to the worker and   *)
(* "up" from it.  A pipe is a queue behind a mutex, with a waker (an       *)
(* operating system pipe) that select can wait for; it is counted by       *)
(* reference from both threads.  Messages may carry a shared array buffer, *)
(* which is counted by reference too.                                      *)
(*                                                                         *)
(* A thread runs script code, posts, or is in js_os_poll; script code is   *)
(* arbitrary and bounded by MaxPosts.  Timers and descriptors are in       *)
(* EventLoop.                                                              *)
(***************************************************************************)
EXTENDS Integers, Sequences, FiniteSets, FiniteSetsExt, SequencesExt

CONSTANTS
  WorkerIds, Main,
  Sabs,        \* shared array buffers
  NoSab,       \* of a message without one
  MaxPosts     \* bound: messages a thread posts

ASSUME WorkersAssumption == Main \notin WorkerIds /\ NoSab \notin Sabs /\ MaxPosts \in Nat

Threads == WorkerIds \cup {Main}
Pipes == WorkerIds \X {"down", "up"}
Messages == [id : 1 .. MaxPosts, sab : Sabs \cup {NoSab}]

VARIABLES
  pc,          \* what each thread does
  ctor,        \* how far js_worker_ctor got for each worker
  refCount,    \* ref_count of each pipe; 0 when it is not there
  queue, waker, mutex,   \* of each pipe
  object,      \* object[t]: the workers t has a Worker object for
  ports,       \* ports[t]: port_list
  readable,    \* readable[t]: ports that select found readable
  current,     \* current[t]: the message t posts or has taken, and its pipe
  sabCount,    \* ref_count of each shared array buffer
  sabObjects,  \* sabObjects[t][b]: the objects of t that refer to b
  posted, received   \* history: messages posted to and taken from each pipe

pipeState == <<refCount, queue, waker, mutex>>
sabState == <<sabCount, sabObjects>>
history == <<posted, received>>
workerVars == <<pc, ctor, pipeState, object, ports, readable, current, sabState, history>>

(* The pipes of t's Worker object for w: a worker's own parent object has
   them the other way round. *)
SendPipe(t, w) == IF t = Main THEN <<w, "down">> ELSE <<w, "up">>
RecvPipe(t, w) == IF t = Main THEN <<w, "up">> ELSE <<w, "down">>
PipesOf(w) == {<<w, "down">>, <<w, "up">>}

WorkersInit ==
  /\ pc = [t \in Threads |-> IF t = Main THEN "script" ELSE "none"]
  /\ ctor = [w \in WorkerIds |-> "none"]
  /\ refCount = [p \in Pipes |-> 0]
  /\ queue = [p \in Pipes |-> <<>>]
  /\ waker = [p \in Pipes |-> 0]
  /\ mutex = [p \in Pipes |-> FALSE]
  /\ object = [t \in Threads |-> {}]
  /\ ports = [t \in Threads |-> <<>>]
  /\ readable = [t \in Threads |-> {}]
  /\ current = [t \in Threads |-> <<>>]
  /\ sabCount = [b \in Sabs |-> 0]
  /\ sabObjects = [t \in Threads |-> [b \in Sabs |-> 0]]
  /\ posted = [p \in Pipes |-> 0]
  /\ received = [p \in Pipes |-> 0]

-----------------------------------------------------------------------------
(* Reference counts. *)

Added(counts, n) == [x \in DOMAIN counts |-> counts[x] + n[x]]
Carrying(s, b) == Cardinality({i \in DOMAIN s : s[i].sab = b})

(* js_dup_message_pipe of the pipes n counts, n[p] times each. *)
DupPipes(n) == refCount' = Added(refCount, n) /\ UNCHANGED <<queue, sabCount>>

(***************************************************************************)
(* js_free_message_pipe, n[p] times each: the last one frees the messages  *)
(* still queued and what they carry.  The slip forgets what they carry.    *)
(***************************************************************************)
Gone(n) == {p \in Pipes : n[p] > 0 /\ refCount[p] = n[p]}
(* The queued messages with the buffer b that go with their pipes. *)
Dropped(n, b) ==
  {x \in Gone(n) \X (1 .. MaxPosts) :
     x[2] \in DOMAIN queue[x[1]] /\ queue[x[1]][x[2]].sab = b}
FreePipesOnly(n) ==
  /\ refCount' = [p \in Pipes |-> refCount[p] - n[p]]
  /\ queue' = [p \in Pipes |-> IF p \in Gone(n) THEN <<>> ELSE queue[p]]
  /\ UNCHANGED sabCount
FreePipes(n) ==
  /\ refCount' = [p \in Pipes |-> refCount[p] - n[p]]
  /\ queue' = [p \in Pipes |-> IF p \in Gone(n) THEN <<>> ELSE queue[p]]
  /\ sabCount' = [b \in Sabs |-> sabCount[b] - Cardinality(Dropped(n, b))]

Once(S) == [p \in Pipes |-> IF p \in S THEN 1 ELSE 0]
Twice(S, T) == [p \in Pipes |-> (IF p \in S THEN 1 ELSE 0) + (IF p \in T THEN 1 ELSE 0)]

-----------------------------------------------------------------------------
(* js_worker_ctor: the pipes, the object, the thread; each may fail. *)

Without(s, w) ==
  IF \E i \in DOMAIN s : s[i] = w THEN RemoveAt(s, CHOOSE i \in DOMAIN s : s[i] = w) ELSE s
HasPort(t, w) == \E i \in DOMAIN ports[t] : ports[t][i] = w

CtorPipes(w) ==
  /\ pc[Main] = "script" /\ ctor[w] = "none" /\ \A v \in WorkerIds : ctor[v] # "pipes"
  /\ ctor' = [ctor EXCEPT ![w] = "pipes"]
  /\ DupPipes(Once(PipesOf(w)))
  /\ pc' = [pc EXCEPT ![Main] = "ctor"]
  /\ UNCHANGED <<waker, mutex, object, ports, readable, current, sabObjects, history>>

CtorObject(w) ==
  /\ pc[Main] = "ctor" /\ ctor[w] = "pipes"
  /\ ctor' = [ctor EXCEPT ![w] = "object"]
  /\ DupPipes(Once(PipesOf(w)))
  /\ object' = [object EXCEPT ![Main] = @ \cup {w}]
  /\ UNCHANGED <<pc, waker, mutex, ports, readable, current, sabObjects, history>>

CtorThread(w) ==
  /\ pc[Main] = "ctor" /\ ctor[w] = "object"
  /\ ctor' = [ctor EXCEPT ![w] = "started"]
  /\ pc' = [pc EXCEPT ![Main] = "script", ![w] = "created"]
  /\ UNCHANGED <<pipeState, object, ports, readable, current, sabState, history>>

(* Memory or a thread is not to be had: the references of args are given
   back, and those of the object if there is one. *)
CtorFail(w) ==
  /\ pc[Main] = "ctor" /\ ctor[w] \in {"pipes", "object"}
  /\ ctor' = [ctor EXCEPT ![w] = "failed"]
  /\ FreePipes(Twice(PipesOf(w), IF ctor[w] = "object" THEN PipesOf(w) ELSE {}))
  /\ object' = [object EXCEPT ![Main] = @ \ {w}]
  /\ pc' = [pc EXCEPT ![Main] = "script"]
  /\ UNCHANGED <<waker, mutex, ports, readable, current, sabObjects, history>>

(* worker_func up to its script, which imports os: js_os_init makes the
   parent object. The thread keeps the references of args. *)
WorkerStarts(w) ==
  /\ pc[w] = "created"
  /\ pc' = [pc EXCEPT ![w] = "script"]
  /\ object' = [object EXCEPT ![w] = {w}]
  /\ DupPipes(Once(PipesOf(w)))
  /\ UNCHANGED <<ctor, waker, mutex, ports, readable, current, sabObjects, history>>

-----------------------------------------------------------------------------
(* What scripts do. *)

SetOnmessage(t, w) ==
  /\ pc[t] = "script" /\ w \in object[t] /\ ~HasPort(t, w)
  /\ ports' = [ports EXCEPT ![t] = Append(@, w)]
  /\ DupPipes(Once({RecvPipe(t, w)}))
  /\ UNCHANGED <<pc, ctor, waker, mutex, object, readable, current, sabObjects, history>>

(* onmessage = null: js_free_port.  The slip unlinks the port only. *)
FreePortUnlinks(t, w) ==
  /\ ports' = [ports EXCEPT ![t] = Without(@, w)]
  /\ UNCHANGED <<refCount, queue, sabCount>>
FreePort(t, w) ==
  /\ ports' = [ports EXCEPT ![t] = Without(@, w)]
  /\ FreePipes(Once({RecvPipe(t, w)}))
ClearOnmessage(t, w) ==
  /\ pc[t] = "script" /\ w \in object[t] /\ HasPort(t, w)
  /\ FreePort(t, w)
  /\ UNCHANGED <<pc, ctor, waker, mutex, object, readable, current, sabObjects, history>>

(* The last reference to a Worker object goes: js_worker_finalizer. *)
DropObject(t, w) ==
  /\ pc[t] = "script" /\ w \in object[t]
  /\ object' = [object EXCEPT ![t] = @ \ {w}]
  /\ ports' = [ports EXCEPT ![t] = Without(@, w)]
  /\ FreePipes(Twice(PipesOf(w), IF HasPort(t, w) THEN {RecvPipe(t, w)} ELSE {}))
  /\ UNCHANGED <<pc, ctor, waker, mutex, readable, current, sabObjects, history>>

(* js_sab_alloc and js_sab_free; a buffer that is gone is not made again. *)
NewSab(t, b) ==
  /\ pc[t] = "script" /\ t = Main /\ sabCount[b] = 0
  /\ sabCount' = [sabCount EXCEPT ![b] = 1]
  /\ sabObjects' = [sabObjects EXCEPT ![t][b] = 1]
  /\ UNCHANGED <<pc, ctor, pipeState, object, ports, readable, current, history>>
DropSab(t, b) ==
  /\ pc[t] = "script" /\ sabObjects[t][b] > 0
  /\ sabCount' = [sabCount EXCEPT ![b] = @ - 1]
  /\ sabObjects' = [sabObjects EXCEPT ![t][b] = @ - 1]
  /\ UNCHANGED <<pc, ctor, pipeState, object, ports, readable, current, history>>

(***************************************************************************)
(* js_worker_postMessage: the buffer gets a reference for the message;     *)
(* then, behind the mutex, the waker is signalled if the queue is empty,   *)
(* and the message queued.  select in the other thread may see the signal  *)
(* before the message.                                                     *)
(***************************************************************************)
NeverWakes(p) == FALSE   \* a slip: nobody is woken
WakesReader(p) == queue[p] = <<>>
PostSignal(t, w, b) ==
  LET p == SendPipe(t, w) IN
  /\ pc[t] = "script" /\ w \in object[t] /\ posted[p] < MaxPosts
  /\ b # NoSab => sabObjects[t][b] > 0
  /\ ~mutex[p]
  /\ mutex' = [mutex EXCEPT ![p] = TRUE]
  /\ sabCount' = [x \in Sabs |-> IF x = b THEN sabCount[x] + 1 ELSE sabCount[x]]
  /\ waker' = [waker EXCEPT ![p] = IF WakesReader(p) THEN @ + 1 ELSE @]
  /\ posted' = [posted EXCEPT ![p] = @ + 1]
  /\ current' = [current EXCEPT ![t] = <<[id |-> posted[p] + 1, sab |-> b, pipe |-> p]>>]
  /\ pc' = [pc EXCEPT ![t] = "posting"]
  /\ UNCHANGED <<ctor, refCount, queue, object, ports, readable, sabObjects, received>>

(* The message in t's hands, and the end of the queue it joins; the slip
   puts it in front. *)
MessageOf(t) == [id |-> current[t][1].id, sab |-> current[t][1].sab]
EnqueuedFirst(q, m) == <<m>> \o q
Enqueued(q, m) == Append(q, m)
PostAppend(t) ==
  /\ pc[t] = "posting"
  /\ LET p == current[t][1].pipe IN
     /\ queue' = [queue EXCEPT ![p] = Enqueued(@, MessageOf(t))]
     /\ mutex' = [mutex EXCEPT ![p] = FALSE]
  /\ current' = [current EXCEPT ![t] = <<>>]
  /\ pc' = [pc EXCEPT ![t] = "script"]
  /\ UNCHANGED <<ctor, refCount, waker, object, ports, readable, sabState, history>>

(* The script, or the handler it was called for, returns to js_std_loop. *)
HandlerReturns(t) ==
  /\ pc[t] = "script"
  /\ pc' = [pc EXCEPT ![t] = "poll"]
  /\ UNCHANGED <<ctor, pipeState, object, ports, readable, current, sabState, history>>

-----------------------------------------------------------------------------
(* js_os_poll and handle_posted_message. *)

(* No port: nothing can happen any more, and js_std_loop ends. *)
ThreadLoopEnds(t) ==
  /\ pc[t] = "poll" /\ ports[t] = <<>>
  /\ pc' = [pc EXCEPT ![t] = "exiting"]
  /\ UNCHANGED <<ctor, pipeState, object, ports, readable, current, sabState, history>>

(* select blocks until a waker is readable. *)
Select(t) ==
  LET found == {i \in DOMAIN ports[t] : waker[RecvPipe(t, ports[t][i])] > 0} IN
  /\ pc[t] = "poll" /\ found # {}
  /\ readable' = [readable EXCEPT ![t] = found]
  /\ pc' = [pc EXCEPT ![t] = "selected"]
  /\ UNCHANGED <<ctor, pipeState, object, ports, current, sabState, history>>

(* The ports are tried in the order of port_list.  The queue of a readable
   port is never empty: only this thread takes from it, and WakerAgrees; the
   code's answer to an empty one is left out. *)
FirstReadable(t) == CHOOSE i \in readable[t] : \A j \in readable[t] : i <= j

(***************************************************************************)
(* A message is taken behind the mutex, and the waker drained when it was  *)
(* the last one: at most 16 bytes, and the read blocks when there are      *)
(* none.  The slip drains it after every message.                          *)
(***************************************************************************)
DrainsAlways(q) == TRUE
Drains(q) == Len(q) = 1
(* What read leaves in the waker; the slip takes all 16 for read. *)
LeftAfterReadWhole(n) == n - 16
LeftAfterRead(n) == IF n > 16 THEN n - 16 ELSE 0
Take(t) ==
  LET p == RecvPipe(t, ports[t][FirstReadable(t)])
      m == Head(queue[p])
  IN
  /\ pc[t] = "selected" /\ readable[t] # {}
  /\ ~mutex[p] /\ queue[p] # <<>>
  /\ queue' = [queue EXCEPT ![p] = Tail(@)]
  /\ Drains(queue[p]) => waker[p] > 0
  /\ waker' = [waker EXCEPT ![p] = IF Drains(queue[p]) THEN LeftAfterRead(@) ELSE @]
  /\ current' = [current EXCEPT ![t] = <<[id |-> m.id, sab |-> m.sab, pipe |-> p]>>]
  /\ received' = [received EXCEPT ![p] = m.id]
  /\ readable' = [readable EXCEPT ![t] = {}]
  /\ pc' = [pc EXCEPT ![t] = "taken"]
  /\ UNCHANGED <<ctor, refCount, mutex, object, ports, sabState, posted>>

(* JS_ReadObject makes an object for the buffer, with a reference of its
   own; then js_free_message gives the reference of the message back. *)
ReadMessage(t) ==
  /\ pc[t] = "taken"
  /\ LET b == current[t][1].sab IN
     /\ sabCount' = [x \in Sabs |-> IF x = b THEN sabCount[x] + 1 ELSE sabCount[x]]
     /\ sabObjects' = [sabObjects EXCEPT ![t] = [x \in Sabs |-> IF x = b THEN @[x] + 1 ELSE @[x]]]
  /\ pc' = [pc EXCEPT ![t] = "read"]
  /\ UNCHANGED <<ctor, pipeState, object, ports, readable, current, history>>

(* js_free_message; the slip keeps the reference of the message. *)
FreeMessageKeeps(b) == UNCHANGED sabCount
FreeMessage(b) == sabCount' = [x \in Sabs |-> IF x = b THEN sabCount[x] - 1 ELSE sabCount[x]]

(* The handler is called, or, when the message could not be read, the error
   is printed and the thread goes on; the slip ends it. *)
AfterReadErrorEnds(t) == "exiting"
AfterReadError(t) == "poll"
CallOnmessage(t) ==
  /\ pc[t] = "read"
  /\ FreeMessage(current[t][1].sab)
  /\ current' = [current EXCEPT ![t] = <<>>]
  /\ pc' = [pc EXCEPT ![t] = "script"]
  /\ UNCHANGED <<ctor, pipeState, object, ports, readable, sabObjects, history>>
ReadFails(t) ==
  /\ pc[t] = "taken"
  /\ FreeMessage(current[t][1].sab)
  /\ current' = [current EXCEPT ![t] = <<>>]
  /\ pc' = [pc EXCEPT ![t] = AfterReadError(t)]
  /\ UNCHANGED <<ctor, pipeState, object, ports, readable, sabObjects, history>>

-----------------------------------------------------------------------------
(* The end of a worker: js_std_free_handlers, then JS_FreeRuntime with the
   finalizers of what the script left.  Main ends the process. *)
FreeHandlers(w) ==
  /\ pc[w] = "exiting" /\ w # Main
  /\ FreePipes(Once(PipesOf(w)))
  /\ pc' = [pc EXCEPT ![w] = "freeing"]
  /\ UNCHANGED <<ctor, waker, mutex, object, ports, readable, current, sabObjects, history>>

FreeRuntime(w) ==
  /\ pc[w] = "freeing"
  /\ object' = [object EXCEPT ![w] = {}]
  /\ sabObjects' = [sabObjects EXCEPT ![w] = [b \in Sabs |-> 0]]
  /\ LET n == Once(IF w \in object[w] THEN PipesOf(w) ELSE {}) IN
     /\ refCount' = [p \in Pipes |-> refCount[p] - n[p]]
     /\ queue' = [p \in Pipes |-> IF p \in Gone(n) THEN <<>> ELSE queue[p]]
     /\ sabCount' = [b \in Sabs |-> sabCount[b] - sabObjects[w][b] - Cardinality(Dropped(n, b))]
  /\ pc' = [pc EXCEPT ![w] = "ended"]
  /\ UNCHANGED <<ctor, waker, mutex, ports, readable, current, history>>

-----------------------------------------------------------------------------
(* js_std_loop and what it calls, which go on by themselves. *)
ThreadStep(t) ==
  \/ PostAppend(t) \/ HandlerReturns(t) \/ ThreadLoopEnds(t) \/ Select(t)
  \/ Take(t) \/ ReadMessage(t) \/ CallOnmessage(t)
ThreadNext(t) == pc[Main] # "exiting" /\ ThreadStep(t)
WorkersNext ==
  /\ pc[Main] # "exiting"
  /\ \/ \E w \in WorkerIds : CtorPipes(w) \/ CtorObject(w) \/ CtorThread(w) \/ CtorFail(w)
     \/ \E w \in WorkerIds : WorkerStarts(w) \/ FreeHandlers(w) \/ FreeRuntime(w)
     \/ \E t \in Threads, w \in WorkerIds : SetOnmessage(t, w) \/ ClearOnmessage(t, w) \/ DropObject(t, w)
     \/ \E t \in Threads, b \in Sabs : NewSab(t, b) \/ DropSab(t, b)
     \/ \E t \in Threads, w \in WorkerIds, b \in Sabs \cup {NoSab} : PostSignal(t, w, b)
     \/ \E t \in Threads : ThreadStep(t) \/ ReadFails(t)

(* Every thread runs, and scripts return to the loop. *)
WorkersSpec ==
  /\ WorkersInit /\ [][WorkersNext]_workerVars
  /\ \A t \in Threads : WF_workerVars(ThreadNext(t))

-----------------------------------------------------------------------------
WorkersTypeOK ==
  /\ pc \in [Threads -> {"none", "ctor", "created", "script", "posting", "poll", "selected",
                         "taken", "read", "exiting", "freeing", "ended"}]
  /\ refCount \in [Pipes -> 0 .. 5]
  /\ \A p \in Pipes : queue[p] \in Seq(Messages)
  /\ waker \in [Pipes -> Nat] /\ mutex \in [Pipes -> BOOLEAN]
  /\ sabCount \in [Sabs -> Nat]

(***************************************************************************)
(* The count of a pipe is the number of those that hold it (the args or    *)
(* thread state of its worker, the Worker objects of both sides and their  *)
(* ports), so it is freed when the last of them lets go and not before.    *)
(***************************************************************************)
PipeHolders(p) ==
  LET w == p[1] IN
  (IF ctor[w] \in {"pipes", "object", "started"} /\ pc[w] \notin {"freeing", "ended"} THEN 1 ELSE 0)
  + Cardinality({t \in {Main, w} : w \in object[t]})
  + Cardinality({t \in {Main, w} : HasPort(t, w) /\ RecvPipe(t, w) = p})
PipesCounted == \A p \in Pipes : refCount[p] = PipeHolders(p)

(***************************************************************************)
(* A shared buffer is counted once for each object in a thread and each    *)
(* message on its way, also when messages are dropped with their pipe.     *)
(***************************************************************************)
InHand(b) == {t \in Threads : current[t] # <<>> /\ current[t][1].sab = b}
SabsCounted ==
  \A b \in Sabs :
    sabCount[b] = MapThenSumSet(LAMBDA t : sabObjects[t][b], Threads)
                + MapThenSumSet(LAMBDA p : Carrying(queue[p], b), Pipes)
                + Cardinality(InHand(b))

(***************************************************************************)
(* Outside the critical sections the waker holds one byte when messages    *)
(* are queued and none otherwise: no receiver sleeps over a message, and   *)
(* none blocks on draining an empty waker with the mutex held.             *)
(***************************************************************************)
WakerAgrees ==
  \A p \in Pipes : refCount[p] > 0 /\ ~mutex[p] => waker[p] = (IF queue[p] = <<>> THEN 0 ELSE 1)

(***************************************************************************)
(* The messages of a pipe arrive in the order they were posted, none twice *)
(* and none left out, as long as the pipe is there.                        *)
(***************************************************************************)
InOrder ==
  \A p \in Pipes :
    refCount[p] > 0 => [i \in DOMAIN queue[p] |-> queue[p][i].id]
                     = [i \in 1 .. posted[p] - received[p] - (IF mutex[p] THEN 1 ELSE 0)
                          |-> received[p] + i]

(***************************************************************************)
(* A message for a thread that listens is received, unless the thread      *)
(* stops listening or main ends the process.                               *)
(***************************************************************************)
Arrives ==
  \A t \in Threads : \A w \in WorkerIds :
    (HasPort(t, w) /\ queue[RecvPipe(t, w)] # <<>>)
      ~> (queue[RecvPipe(t, w)] = <<>> \/ ~HasPort(t, w) \/ pc[Main] = "exiting")

(***************************************************************************)
(* Whatever the order in which the threads post, read, close their ports   *)
(* and end: the reference counts of pipes and of shared buffers are the    *)
(* numbers of their holders, so nothing is freed early or twice, and the   *)
(* waker of a pipe is readable exactly when a message waits.               *)
(***************************************************************************)
PortsSound ==
  /\ WorkersTypeOK
  /\ PipesCounted
  /\ SabsCounted
  /\ WakerAgrees
=============================================================================
