---------------------------- MODULE BatchConsumer ----------------------------
(***************************************************************************)
(* The time-series writer's path from a RabbitMQ queue to a ClickHouse     *)
(* table.  Each replica of the service runs one consumer of the queue: a    *)
(* thread that collects messages into a batch, writes the batch and acks it *)
(* up to its last tag, and the main thread, whose signal handler stops the  *)
(* consumer and flushes what is left.  The broker is external: what it does *)
(* with acks, nacks and lost channels is modelled as the consumer relies on *)
(* it.  A message is its position in the order of publication; rows are     *)
(* counted, not stored.                                                     *)
(*                                                                          *)
(* A definition commented "Slip" is not part of the model: it is a wrong     *)
(* version of the one after it, which some property must reject.            *)
(***************************************************************************)
EXTENDS Naturals, Sequences, FiniteSets

CONSTANTS
    Consumers,    \* the replicas of the writer that read this queue
    Messages,     \* bound: messages are 1 .. Messages
    Kinds,        \* the kinds of message that are published
    BatchSize,    \* settings.batch_size
    Prefetch,     \* settings.prefetch_count
    Faults,       \* the kinds of failure the environment may inject
    MaxFaults,    \* bound: failures injected in one behaviour
    MaxTag        \* bound: deliveries on one channel

MessageKinds ==
    { "event",       \* one row
      "deleted",     \* belongs to an analysis marked as deleted
      "garbage",     \* not JSON
      "odd",         \* JSON, but handling it raises before it is batched
      "poison" }     \* enters the batch, and the row builder raises on it

FaultKinds ==
    { "drop",        \* the connection is lost
      "write",       \* ClickHouse refuses the insert
      "unknown",     \* ClickHouse inserts, and the client sees an error
      "stop",        \* SIGTERM
      "crash" }      \* the process dies

ASSUME ConstantsAssumption ==
    /\ Messages \in Nat
    /\ Kinds \subseteq MessageKinds
    /\ BatchSize \in Nat \ {0}
    /\ Prefetch \in Nat /\ Prefetch >= BatchSize
    /\ Faults \subseteq FaultKinds
    /\ MaxFaults \in Nat
    /\ MaxTag \in Nat

VARIABLES
    kind,         \* what has been published, in order
    ready,        \* messages waiting in the queue
    redelivered,  \* messages that carry the redelivered flag
    rejected,     \* messages discarded or dead-lettered
    open,         \* the broker still holds the consumer's channel
    nextTag,      \* the next delivery tag of that channel
    unacked,      \* deliveries outstanding on that channel
    connected,    \* the consumer holds a connection it believes open
    running,      \* self.running
    buffer,       \* deliveries the generator has not yielded yet
    batch,        \* self.batch, zipped with self.batch_tags
    pc,           \* where the consumer's two threads are
    kept,         \* history: batch entries kept over a reconnect
    rows,         \* rows stored per message
    misacked,     \* history: a tag of an earlier channel was acked
    faults        \* failures injected so far

queue  == <<kind, ready, redelivered, rejected>>
link   == <<open, nextTag, unacked>>
client == <<connected, running, buffer, batch, kept, pc>>
vars   == <<queue, link, client, rows, misacked, faults>>

Threads == {"loop", "main"}
Places  == { "connect", "consume", "backoff", "done",   \* the consuming thread
             "serve", "join", "exit",                   \* the main thread
             "flush", "ack", "nack", "dead" }           \* both

Fresh == [loop |-> "connect", main |-> "serve"]
Dead  == [loop |-> "dead",    main |-> "dead"]

Init ==
    /\ kind = <<>>
    /\ ready = {} /\ redelivered = {} /\ rejected = {}
    /\ open = [c \in Consumers |-> FALSE]
    /\ nextTag = [c \in Consumers |-> 1]
    /\ unacked = [c \in Consumers |-> {}]
    /\ connected = [c \in Consumers |-> FALSE]
    /\ running = [c \in Consumers |-> TRUE]
    /\ buffer = [c \in Consumers |-> <<>>]
    /\ batch = [c \in Consumers |-> <<>>]
    /\ kept = [c \in Consumers |-> 0]
    /\ pc = [c \in Consumers |-> Fresh]
    /\ rows = [m \in 1 .. Messages |-> 0]
    /\ misacked = FALSE
    /\ faults = 0

Go(c, t, place) == pc' = [pc EXCEPT ![c][t] = place]

Inject(fault) ==
    /\ fault \in Faults
    /\ faults < MaxFaults
    /\ faults' = faults + 1

-----------------------------------------------------------------------------
(* The broker.                                                              *)

MessagesOf(deliveries) == {d.msg : d \in deliveries}
Published == DOMAIN kind

Publish ==
    /\ Len(kind) < Messages
    /\ \E k \in Kinds : kind' = Append(kind, k)
    /\ ready' = ready \cup {Len(kind) + 1}
    /\ UNCHANGED <<redelivered, rejected, link, client, rows, misacked, faults>>

\* basic_qos: fewer than prefetch_count deliveries are unacked.
HasRoom(c) == Cardinality(unacked[c]) < Prefetch

\* The oldest ready message goes to the consumer.
Deliver(c) ==
    /\ open[c]
    /\ HasRoom(c)
    /\ nextTag[c] <= MaxTag
    /\ \E m \in ready :
          /\ \A n \in ready : m <= n
          /\ LET d == [tag |-> nextTag[c], msg |-> m]
             IN  /\ unacked' = [unacked EXCEPT ![c] = @ \cup {d}]
                 /\ buffer' = [buffer EXCEPT ![c] = Append(@, d)]
          /\ ready' = ready \ {m}
    /\ nextTag' = [nextTag EXCEPT ![c] = @ + 1]
    /\ UNCHANGED <<kind, redelivered, rejected, open, connected, running, batch, kept, pc,
                   rows, misacked, faults>>

\* The broker forgets these deliveries: they are done with.
Settle(c, deliveries) ==
    /\ unacked' = [unacked EXCEPT ![c] = @ \ deliveries]
    /\ UNCHANGED <<ready, redelivered, open, nextTag>>

\* They go back to their place in the queue, flagged.
Requeue(c, deliveries) ==
    /\ unacked' = [unacked EXCEPT ![c] = @ \ deliveries]
    /\ ready' = ready \cup MessagesOf(deliveries)
    /\ redelivered' = redelivered \cup MessagesOf(deliveries)
    /\ UNCHANGED <<open, nextTag>>

\* The next channel numbers its deliveries from 1.
LoseChannel(c) ==
    /\ open' = [open EXCEPT ![c] = FALSE]
    /\ nextTag' = [nextTag EXCEPT ![c] = 1]
    /\ unacked' = [unacked EXCEPT ![c] = {}]
    /\ ready' = ready \cup MessagesOf(unacked[c])
    /\ redelivered' = redelivered \cup MessagesOf(unacked[c])

Drop(c) ==
    /\ Inject("drop")
    /\ open[c]
    /\ LoseChannel(c)
    /\ UNCHANGED <<kind, rejected, client, rows, misacked>>

-----------------------------------------------------------------------------
(* The consuming thread.                                                    *)

\* The batch is as it was, its tags those of the channel that was lost.
Connect(c) ==
    /\ pc[c].loop = "connect"
    /\ open' = [open EXCEPT ![c] = TRUE]
    /\ connected' = [connected EXCEPT ![c] = TRUE]
    /\ kept' = [kept EXCEPT ![c] = Len(batch[c])]
    /\ Go(c, "loop", "consume")
    /\ UNCHANGED <<queue, nextTag, unacked, running, buffer, batch, rows, misacked, faults>>

IsFull(b) == Len(b) >= BatchSize

\* The generator yields the next delivery and the loop is still running.
Receiving(c, k) ==
    /\ pc[c].loop = "consume"
    /\ running[c]
    /\ buffer[c] # <<>>
    /\ kind[Head(buffer[c]).msg] \in k
    /\ buffer' = [buffer EXCEPT ![c] = Tail(@)]

\* Append to the batch.  _should_flush is asked only now; whether
\* batch_timeout has passed by then is the clock's choice.  A deleted
\* analysis gets here when the cache cannot be asked.
Collect(c) ==
    /\ Receiving(c, {"event", "poison", "deleted"})
    /\ batch' = [batch EXCEPT ![c] = Append(@, Head(buffer[c]))]
    /\ \/ Go(c, "loop", "flush")
       \/ ~IsFull(batch'[c]) /\ UNCHANGED pc
    /\ UNCHANGED <<queue, link, connected, running, kept, rows, misacked, faults>>

\* One delivery is answered at once.  On a lost channel the answer is lost.
Answering(c, k) ==
    /\ Receiving(c, k)
    /\ UNCHANGED <<kind, connected, running, batch, kept, pc,
                   rows, misacked, faults>>

Skip(c) ==
    /\ Answering(c, {"deleted"})
    /\ Settle(c, {Head(buffer[c])})
    /\ UNCHANGED rejected

\* Not JSON, or raised when it was delivered before: dead-lettered or discarded.
Reject(c) ==
    /\ Answering(c, {"garbage", "odd"})
    /\ LET d == Head(buffer[c])
       IN  /\ kind[d.msg] = "odd" => d.msg \in redelivered
           /\ Settle(c, {d})
           /\ rejected' = rejected \cup MessagesOf({d} \cap unacked[c])

RequeueOnce(c) ==
    /\ Answering(c, {"odd"})
    /\ LET d == Head(buffer[c])
       IN  /\ d.msg \notin redelivered
           /\ Requeue(c, {d} \cap unacked[c])
    /\ UNCHANGED rejected

\* The loop ends at the first delivery after running was cleared.
Break(c) ==
    /\ pc[c].loop = "consume"
    /\ ~running[c]
    /\ buffer[c] # <<>>
    /\ Go(c, "loop", "done")
    /\ UNCHANGED <<queue, link, connected, running, buffer, batch, kept, rows, misacked, faults>>

\* The loop's outer handler: the connection is gone, the batch stays.
Disconnected(c, t) ==
    /\ connected' = [connected EXCEPT ![c] = FALSE]
    /\ buffer' = [buffer EXCEPT ![c] = <<>>]
    /\ Go(c, t, IF t = "loop" THEN "backoff" ELSE "exit")
    /\ UNCHANGED <<queue, link, running, batch, kept, rows, misacked, faults>>

\* The generator raises.
NoticeLoss(c) ==
    /\ pc[c].loop = "consume"
    /\ ~open[c]
    /\ Disconnected(c, "loop")

\* Slip: a lost connection ends the loop.
RetryNever(c) ==
    /\ pc[c].loop = "backoff"
    /\ Go(c, "loop", "done")
    /\ UNCHANGED <<queue, link, connected, running, buffer, batch, kept, rows, misacked, faults>>

Retry(c) ==
    /\ pc[c].loop = "backoff"
    /\ Go(c, "loop", IF running[c] THEN "connect" ELSE "done")
    /\ UNCHANGED <<queue, link, connected, running, buffer, batch, kept, rows, misacked, faults>>

-----------------------------------------------------------------------------
(* _flush_batch, in the loop or in stop().                                  *)

After(t) == IF t = "loop" THEN "consume" ELSE "exit"

\* A message is in the batch more than once when it was redelivered to a
\* consumer that had kept its batch over a reconnect.
Occurrences(b, m) == Cardinality({i \in DOMAIN b : b[i].msg = m})
Store(b) == rows' = [m \in DOMAIN rows |-> rows[m] + Occurrences(b, m)]

Poisoned(b) == \E i \in DOMAIN b : kind[b[i].msg] = "poison"

NothingToFlush(c, t) ==
    /\ pc[c][t] = "flush"
    /\ batch[c] = <<>>
    /\ Go(c, t, After(t))
    /\ UNCHANGED <<queue, link, connected, running, buffer, batch, kept, rows, misacked, faults>>

Writing(c, t) ==
    /\ pc[c][t] = "flush"
    /\ batch[c] # <<>>
    /\ UNCHANGED <<queue, link, connected, running, buffer, batch, kept, misacked>>

Write(c, t) ==
    /\ Writing(c, t)
    /\ ~Poisoned(batch[c])
    /\ Store(batch[c])
    /\ Go(c, t, "ack")
    /\ UNCHANGED faults

WriteRaises(c, t) ==
    /\ Writing(c, t)
    /\ Poisoned(batch[c])
    /\ Go(c, t, "nack")
    /\ UNCHANGED <<rows, faults>>

\* Slip: the error is logged and not raised, and the batch is acked.
WriteFailsSwallowed(c, t) ==
    /\ Writing(c, t)
    /\ ~Poisoned(batch[c])
    /\ \/ Inject("write") /\ UNCHANGED rows
       \/ Inject("unknown") /\ Store(batch[c])
    /\ Go(c, t, "ack")

WriteFails(c, t) ==
    /\ Writing(c, t)
    /\ ~Poisoned(batch[c])
    /\ \/ Inject("write") /\ UNCHANGED rows
       \/ Inject("unknown") /\ Store(batch[c])
    /\ Go(c, t, "nack")

\* multiple=True: everything outstanding up to and including the tag.
Covered(c, tag) == {d \in unacked[c] : d.tag <= tag}

\* A tag that is not outstanding makes the broker close the channel.
Known(c, tag) == \E d \in unacked[c] : d.tag = tag

\* The other thread may have flushed and cleared the batch in the meantime.
LastTag(c) == batch[c][Len(batch[c])].tag
Stale(c)   == kept[c] = Len(batch[c])

\* Slip: the batch is not cleared.
ForgetNothing(b) == b

Forget(b) == <<>>

\* The tail of both branches: the batch is cleared.
Flushed(c, t) ==
    /\ batch' = [batch EXCEPT ![c] = Forget(@)]
    /\ kept' = [kept EXCEPT ![c] = 0]
    /\ Go(c, t, After(t))
    /\ UNCHANGED <<kind, rejected, connected, running, buffer, rows, faults>>

\* The answer reaches the broker and names an outstanding delivery.
Answered(c) == batch[c] # <<>> /\ open[c] /\ Known(c, LastTag(c))

NotAnswered(c) ==
    IF batch[c] = <<>> \/ ~open[c] THEN UNCHANGED <<ready, redelivered, link>>
    ELSE LoseChannel(c)

Ack(c, t) ==
    /\ pc[c][t] = "ack"
    /\ IF Answered(c) THEN Settle(c, Covered(c, LastTag(c))) ELSE NotAnswered(c)
    /\ misacked' = (misacked \/ (Answered(c) /\ Stale(c)))
    /\ Flushed(c, t)

Nack(c, t) ==
    /\ pc[c][t] = "nack"
    /\ IF Answered(c) THEN Requeue(c, Covered(c, LastTag(c))) ELSE NotAnswered(c)
    /\ Flushed(c, t)
    /\ UNCHANGED misacked

\* The connection is known to be lost: ack raises, the nack in its handler
\* raises too, and neither clears the batch.
AnswerRaises(c, t) ==
    /\ pc[c][t] \in {"ack", "nack"}
    /\ batch[c] # <<>>
    /\ ~open[c]
    /\ Disconnected(c, t)

-----------------------------------------------------------------------------
(* The main thread and the process.                                         *)

\* Slip: running stays set, the join is all there is.
StopJoinOnly(c) ==
    /\ pc[c].main = "serve"
    /\ Inject("stop")
    /\ Go(c, "main", "join")
    /\ UNCHANGED <<queue, link, connected, running, buffer, batch, kept, rows, misacked>>

Stop(c) ==
    /\ pc[c].main = "serve"
    /\ Inject("stop")
    /\ running' = [running EXCEPT ![c] = FALSE]
    /\ Go(c, "main", "join")
    /\ UNCHANGED <<queue, link, connected, buffer, batch, kept, rows, misacked>>

\* join(timeout=15): the loop has ended, or is still blocked or writing.
Joined(c) ==
    /\ pc[c].main = "join"
    /\ Go(c, "main", IF connected[c] THEN "flush" ELSE "exit")
    /\ UNCHANGED <<queue, link, connected, running, buffer, batch, kept, rows, misacked, faults>>

Terminate(c) ==
    /\ LoseChannel(c)
    /\ connected' = [connected EXCEPT ![c] = FALSE]
    /\ running' = [running EXCEPT ![c] = FALSE]
    /\ buffer' = [buffer EXCEPT ![c] = <<>>]
    /\ batch' = [batch EXCEPT ![c] = <<>>]
    /\ kept' = [kept EXCEPT ![c] = 0]
    /\ pc' = [pc EXCEPT ![c] = Dead]
    /\ UNCHANGED <<kind, rejected, rows, misacked>>

Exit(c) ==
    /\ pc[c].main = "exit"
    /\ Terminate(c)
    /\ UNCHANGED faults

Crash(c) ==
    /\ pc[c] # Dead
    /\ Inject("crash")
    /\ Terminate(c)

\* The Deployment starts a new pod.
Restart(c) ==
    /\ pc[c] = Dead
    /\ running' = [running EXCEPT ![c] = TRUE]
    /\ pc' = [pc EXCEPT ![c] = Fresh]
    /\ UNCHANGED <<queue, link, connected, buffer, batch, kept, rows, misacked, faults>>

-----------------------------------------------------------------------------

Flushing(c, t) == NothingToFlush(c, t) \/ Write(c, t) \/ WriteRaises(c, t)
Replying(c, t) == Ack(c, t) \/ Nack(c, t) \/ AnswerRaises(c, t)

Handling(c) == Collect(c) \/ Skip(c) \/ Reject(c) \/ RequeueOnce(c)

Loop(c) == Connect(c) \/ Handling(c) \/ Break(c) \/ NoticeLoss(c) \/ Retry(c)

Failure(c) == Drop(c) \/ Stop(c) \/ Crash(c) \/ \E t \in Threads : WriteFails(c, t)

Next ==
    \/ Publish
    \/ \E c \in Consumers :
          \/ Deliver(c) \/ Loop(c) \/ Joined(c) \/ Exit(c) \/ Restart(c)
          \/ \E t \in Threads : Flushing(c, t) \/ Replying(c, t)
          \/ Failure(c)

\* The broker delivers, threads run, a pod is replaced; nothing has to be
\* published and nothing has to fail.
Fairness ==
    \A c \in Consumers :
        /\ WF_vars(Deliver(c))
        /\ WF_vars(Loop(c))
        /\ WF_vars(Joined(c) \/ Exit(c) \/ Restart(c))
        /\ \A t \in Threads : WF_vars(Flushing(c, t) \/ Replying(c, t))

Spec == Init /\ [][Next]_vars /\ Fairness

-----------------------------------------------------------------------------
(* Properties.                                                              *)

Delivery == [tag : Nat, msg : 1 .. Messages]

\* TypeOK: every variable has its type, and once stop() has been called the
\* consuming thread is told to end, which keeps it from adding to a batch that
\* the main thread is flushing.
TypeOK ==
    /\ kind \in Seq(Kinds) /\ Len(kind) <= Messages
    /\ ready \subseteq Published
    /\ redelivered \subseteq Published
    /\ rejected \subseteq Published
    /\ open \in [Consumers -> BOOLEAN]
    /\ nextTag \in [Consumers -> Nat]
    /\ unacked \in [Consumers -> SUBSET Delivery]
    /\ \A c \in Consumers : MessagesOf(unacked[c]) \subseteq Published
    /\ connected \in [Consumers -> BOOLEAN]
    /\ running \in [Consumers -> BOOLEAN]
    /\ buffer \in [Consumers -> Seq(Delivery)]
    /\ batch \in [Consumers -> Seq(Delivery)]
    /\ kept \in [Consumers -> Nat]
    /\ pc \in [Consumers -> [Threads -> Places]]
    /\ rows \in [1 .. Messages -> Nat]
    /\ misacked \in BOOLEAN
    /\ faults \in 0 .. MaxFaults
    /\ \A c \in Consumers : pc[c].main # "serve" => ~running[c]

Waiting(m) == m \in ready \/ \E c \in Consumers : m \in MessagesOf(unacked[c])

\* NothingLost: a published message is with the broker, has a row, or was
\* dropped for a reason the code gives it (its analysis is deleted, it cannot
\* be handled), whatever connections, inserts and processes do.  The one door:
\* stop() flushed a batch kept over a reconnect before the new channel added to
\* it, and the broker took the old tag for one of the new channel's.
NothingLost ==
    \/ misacked
    \/ \A m \in Published :
          \/ Waiting(m)
          \/ rows[m] > 0
          \/ kind[m] = "deleted"
          \/ kind[m] \in {"garbage", "odd"} /\ m \in rejected

\* CopiesBounded: at-least-once has a price, and it is this one.  A failure
\* between the insert and the ack keeps the batch and brings its messages back
\* a second time, so n failures in a row store up to 1 + 2 + ... + (n + 1)
\* copies of a row, and never more.
CopiesBounded ==
    \A m \in 1 .. Messages : rows[m] <= ((faults + 1) * (faults + 2)) \div 2

Batched(c) == {batch[c][i].msg : i \in DOMAIN batch[c]}

\* Nothing is ready, and what is unacked is only waiting for its batch to be
\* flushed.
Drained ==
    /\ ready = {}
    /\ \A c \in Consumers : MessagesOf(unacked[c]) \subseteq Batched(c)

\* QueueDrains: the queue is emptied into batches for good, unless a message
\* keeps the insert from ever succeeding.  Prefetch >= BatchSize is needed: a
\* batch that prefetch keeps below batch_size is flushed by no later delivery.
QueueDrains == <>[](Drained \/ \E m \in Published : kind[m] = "poison")
=============================================================================
