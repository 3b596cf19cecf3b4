------------------------- MODULE BatchConsumer_proofs -------------------------
(***************************************************************************)
(* Proofs about BatchConsumer, for every set of consumers, every batch size *)
(* and prefetch, every kind of message and of failure, and every bound.     *)
(***************************************************************************)
EXTENDS BatchConsumer, FiniteSetTheorems, FunctionTheorems, TLAPS

\* How often a message is in a batch is a number, positive when it is there.
LEMMA OccurrencesCount ==
    ASSUME NEW b \in Seq(Delivery), NEW m
    PROVE  /\ Occurrences(b, m) \in Nat
           /\ \A i \in DOMAIN b : b[i].msg = m => Occurrences(b, m) > 0
<1> DEFINE At == {i \in DOMAIN b : b[i].msg = m}
<1>1. IsFiniteSet(At)
    <2>1. IsFiniteSet(1 .. Len(b))
        BY FS_Interval
    <2>. QED BY <2>1, FS_Subset
<1>2. Cardinality(At) \in Nat
    BY <1>1, FS_CardinalityType
<1>3. At # {} => Cardinality(At) # 0
    BY <1>1, FS_EmptySet
<1>4. Occurrences(b, m) = Cardinality(At)
    BY DEF Occurrences
<1>5. ASSUME NEW i \in DOMAIN b, b[i].msg = m  PROVE At # {}
    BY <1>5
<1>. HIDE DEF At
<1>. QED BY <1>2, <1>3, <1>4, <1>5


-----------------------------------------------------------------------------
(* The variables keep their types.                                          *)

LEMMA PlacesKnown ==
    /\ Fresh \in [Threads -> Places] /\ Fresh.main = "serve"
    /\ Dead \in [Threads -> Places]
BY DEF Fresh, Dead, Threads, Places

LEMMA TypeStart == Init => TypeOK
<1>. SUFFICES ASSUME Init PROVE TypeOK
    OBVIOUS
<1>1. pc \in [Consumers -> [Threads -> Places]] /\ \A c \in Consumers : pc[c].main = "serve"
    BY PlacesKnown DEF Init
<1>2. kind \in Seq(Kinds) /\ Len(kind) <= Messages /\ Published = {}
    BY ConstantsAssumption DEF Init, Published
<1>3. \A c \in Consumers : MessagesOf(unacked[c]) \subseteq Published
    BY <1>2 DEF Init, MessagesOf
<1>4. buffer \in [Consumers -> Seq(Delivery)] /\ batch \in [Consumers -> Seq(Delivery)]
    BY DEF Init
<1>5. /\ unacked \in [Consumers -> SUBSET Delivery]
      /\ rows \in [1 .. Messages -> Nat]
      /\ faults \in 0 .. MaxFaults
    BY ConstantsAssumption DEF Init
<1>6. \A c \in Consumers : pc[c].main # "serve" => ~running[c]
    BY <1>1
<1>. QED
    BY <1>1, <1>2, <1>3, <1>4, <1>5, <1>6 DEF Init, TypeOK

LEMMA PublishedRange ==
    ASSUME TypeOK
    PROVE  Published = 1 .. Len(kind) /\ Published \subseteq 1 .. Messages
BY ConstantsAssumption DEF TypeOK, Published

LEMMA PublishType == ASSUME TypeOK, Publish  PROVE TypeOK'
<1>1. kind' \in Seq(Kinds) /\ Len(kind') = Len(kind) + 1
    BY DEF TypeOK, Publish
<1>2. Published' = Published \cup {Len(kind) + 1} /\ Len(kind') <= Messages
    BY <1>1, ConstantsAssumption DEF TypeOK, Publish, Published
<1>. QED
    BY <1>1, <1>2
    DEF TypeOK, Publish, MessagesOf, Delivery, link, client

LEMMA DeliverType == ASSUME TypeOK, NEW c \in Consumers, Deliver(c)  PROVE TypeOK'
<1>1. PICK m \in ready :
        LET d == [tag |-> nextTag[c], msg |-> m]
        IN  /\ unacked' = [unacked EXCEPT ![c] = @ \cup {d}]
            /\ buffer' = [buffer EXCEPT ![c] = Append(@, d)]
            /\ ready' = ready \ {m}
    BY DEF Deliver
<1> DEFINE d == [tag |-> nextTag[c], msg |-> m]
<1>2. m \in Published /\ d \in Delivery /\ d.msg = m
    <2>1. m \in Published /\ m \in 1 .. Messages
        BY PublishedRange DEF TypeOK
    <2>2. nextTag[c] \in Nat
        BY DEF TypeOK
    <2>. QED BY <2>1, <2>2 DEF Delivery
<1>. HIDE DEF d
<1>3. buffer' \in [Consumers -> Seq(Delivery)]
    BY <1>1, <1>2 DEF TypeOK, d
<1>4. unacked' \in [Consumers -> SUBSET Delivery]
    BY <1>1, <1>2 DEF TypeOK, d
<1>5. \A x \in Consumers : MessagesOf(unacked'[x]) \subseteq Published
    BY <1>1, <1>2 DEF TypeOK, d, MessagesOf
<1>6. ready' \subseteq Published /\ nextTag' \in [Consumers -> Nat]
    BY <1>1 DEF TypeOK, Deliver
<1>. QED
    BY <1>3, <1>4, <1>5, <1>6 DEF TypeOK, Deliver, Published

\* What TypeOK says of the broker, without the queue's content.
BrokerTyped ==
    /\ ready \subseteq Published
    /\ redelivered \subseteq Published
    /\ open \in [Consumers -> BOOLEAN]
    /\ nextTag \in [Consumers -> Nat]
    /\ unacked \in [Consumers -> SUBSET Delivery]
    /\ \A c \in Consumers : MessagesOf(unacked[c]) \subseteq Published

\* The answers of a consumer and the loss of its channel leave it so.
LEMMA LoseChannelTyped ==
    ASSUME TypeOK, NEW c \in Consumers, LoseChannel(c), UNCHANGED kind
    PROVE  BrokerTyped'
<1>1. Published' = Published
    BY DEF Published
<1>2. MessagesOf(unacked[c]) \subseteq Published
    BY DEF TypeOK
<1>3. \A x \in Consumers : MessagesOf(unacked'[x]) \subseteq Published
    BY DEF TypeOK, LoseChannel, MessagesOf
<1>. QED
    BY <1>1, <1>2, <1>3 DEF TypeOK, BrokerTyped, LoseChannel

LEMMA SettleTyped ==
    ASSUME TypeOK, NEW c \in Consumers, NEW D, Settle(c, D), UNCHANGED kind
    PROVE  BrokerTyped'
<1>1. Published' = Published
    BY DEF Published
<1>2. \A x \in Consumers : MessagesOf(unacked'[x]) \subseteq Published
    BY DEF TypeOK, Settle, MessagesOf
<1>. QED
    BY <1>1, <1>2 DEF TypeOK, BrokerTyped, Settle

LEMMA RequeueTyped ==
    ASSUME TypeOK, NEW c \in Consumers, NEW D \in SUBSET unacked[c],
           Requeue(c, D), UNCHANGED kind
    PROVE  BrokerTyped'
<1>1. Published' = Published
    BY DEF Published
<1>2. MessagesOf(D) \subseteq Published
    BY DEF TypeOK, MessagesOf
<1>3. \A x \in Consumers : MessagesOf(unacked'[x]) \subseteq Published
    BY DEF TypeOK, Requeue, MessagesOf
<1>. QED
    BY <1>1, <1>2, <1>3 DEF TypeOK, BrokerTyped, Requeue

LEMMA UntouchedTyped ==
    ASSUME TypeOK, UNCHANGED <<kind, ready, redelivered, link>>
    PROVE  BrokerTyped'
BY DEF TypeOK, BrokerTyped, link, Published, MessagesOf

\* A thread moves to another place.
LEMMA GoTyped ==
    ASSUME TypeOK, NEW c \in Consumers, NEW t \in Threads, NEW place \in Places,
           Go(c, t, place), UNCHANGED running,
           t = "loop" \/ pc[c].main # "serve"
    PROVE  /\ pc' \in [Consumers -> [Threads -> Places]]
           /\ \A x \in Consumers : pc'[x].main # "serve" => ~running'[x]
<1>1. pc' \in [Consumers -> [Threads -> Places]]
    BY DEF TypeOK, Go
<1>2. \A x \in Consumers : pc'[x].main # "serve" => pc[x].main # "serve"
    <2>1. CASE t = "loop"
        BY <2>1 DEF TypeOK, Go, Threads
    <2>2. CASE pc[c].main # "serve"
        BY <2>2 DEF TypeOK, Go, Threads
    <2>. QED BY <2>1, <2>2
<1>. QED BY <1>1, <1>2 DEF TypeOK

LEMMA InjectTyped ==
    ASSUME TypeOK, NEW fault, Inject(fault)
    PROVE  faults' \in 0 .. MaxFaults
BY ConstantsAssumption DEF TypeOK, Inject

LEMMA ConnectType == ASSUME TypeOK, NEW c \in Consumers, Connect(c)  PROVE TypeOK'
<1>1. Published' = Published /\ \A x : MessagesOf(x)' = MessagesOf(x)
    BY DEF Connect, queue, Published
<1>2. /\ pc' \in [Consumers -> [Threads -> Places]]
      /\ \A x \in Consumers : pc'[x].main # "serve" => ~running'[x]
    BY GoTyped DEF Connect, Threads, Places
<1>3. kept' \in [Consumers -> Nat]
    BY DEF TypeOK, Connect
<1>. QED
    BY <1>1, <1>2, <1>3 DEF TypeOK, Connect, queue, MessagesOf

\* Taking the head of the client's buffer.
LEMMA ReceivingTyped ==
    ASSUME TypeOK, NEW c \in Consumers, NEW K, Receiving(c, K)
    PROVE  /\ buffer' \in [Consumers -> Seq(Delivery)]
           /\ Head(buffer[c]) \in Delivery
BY DEF TypeOK, Receiving

LEMMA CollectType == ASSUME TypeOK, NEW c \in Consumers, Collect(c)  PROVE TypeOK'
<1>1. BrokerTyped'
    BY UntouchedTyped DEF Collect, queue
<1>2. /\ buffer' \in [Consumers -> Seq(Delivery)]
      /\ Head(buffer[c]) \in Delivery
    BY ReceivingTyped DEF Collect
<1>3. batch' \in [Consumers -> Seq(Delivery)]
    BY <1>2 DEF TypeOK, Collect
<1>4. /\ pc' \in [Consumers -> [Threads -> Places]]
      /\ \A x \in Consumers : pc'[x].main # "serve" => ~running'[x]
    <2>1. CASE Go(c, "loop", "flush")
        BY <2>1, GoTyped DEF Collect, Threads, Places
    <2>2. CASE UNCHANGED pc
        BY <2>2 DEF TypeOK, Collect
    <2>. QED BY <2>1, <2>2 DEF Collect
<1>. QED
    BY <1>1, <1>2, <1>3, <1>4 DEF TypeOK, BrokerTyped, Collect, queue, Published


\* One delivery answered at once: only the broker and the buffer change.
LEMMA AnsweringType ==
    ASSUME TypeOK, NEW c \in Consumers, NEW K, Answering(c, K),
           BrokerTyped', rejected' \subseteq Published
    PROVE  TypeOK'
<1>1. buffer' \in [Consumers -> Seq(Delivery)]
    BY ReceivingTyped DEF Answering
<1>2. Published' = Published
    BY DEF Answering, Published
<1>. QED
    BY <1>1, <1>2 DEF TypeOK, BrokerTyped, Answering

LEMMA HandlingType == ASSUME TypeOK, NEW c \in Consumers, Handling(c)  PROVE TypeOK'
<1>1. CASE Collect(c)
    BY <1>1, CollectType
<1>2. CASE Skip(c)
    <2>1. BrokerTyped'
        BY <1>2, SettleTyped DEF Skip, Answering
    <2>. QED
        BY <1>2, <2>1, AnsweringType DEF Skip, TypeOK
<1>3. CASE Reject(c)
    <2>1. BrokerTyped'
        BY <1>3, SettleTyped DEF Reject, Answering
    <2>2. MessagesOf({Head(buffer[c])} \cap unacked[c]) \subseteq Published
        BY DEF TypeOK, MessagesOf
    <2>3. rejected' \subseteq Published
        BY <1>3, <2>2 DEF Reject, TypeOK
    <2>. QED
        BY <1>3, <2>1, <2>3, AnsweringType DEF Reject
<1>4. CASE RequeueOnce(c)
    <2>1. BrokerTyped'
        BY <1>4, RequeueTyped DEF RequeueOnce, Answering
    <2>. QED
        BY <1>4, <2>1, AnsweringType DEF RequeueOnce, TypeOK
<1>. QED BY <1>1, <1>2, <1>3, <1>4 DEF Handling

\* Nothing but the consumer's own flags and places change.
LEMMA LocalType ==
    ASSUME TypeOK, UNCHANGED <<queue, link, misacked>>,
           connected' \in [Consumers -> BOOLEAN],
           running' \in [Consumers -> BOOLEAN],
           buffer' \in [Consumers -> Seq(Delivery)],
           UNCHANGED <<batch, kept>>,
           pc' \in [Consumers -> [Threads -> Places]],
           \A x \in Consumers : pc'[x].main # "serve" => ~running'[x],
           rows' \in [1 .. Messages -> Nat],
           faults' \in 0 .. MaxFaults
    PROVE  TypeOK'
<1>1. BrokerTyped'
    BY UntouchedTyped DEF queue
<1>2. Published' = Published
    BY DEF queue, Published
<1>. QED
    BY <1>1, <1>2 DEF TypeOK, BrokerTyped, queue

LEMMA DisconnectedType ==
    ASSUME TypeOK, NEW c \in Consumers, NEW t \in Threads, Disconnected(c, t),
           pc[c][t] # "serve"
    PROVE  TypeOK'
<1>1. /\ pc' \in [Consumers -> [Threads -> Places]]
      /\ \A x \in Consumers : pc'[x].main # "serve" => ~running'[x]
    BY GoTyped DEF Disconnected, Threads, Places
<1>2. buffer' \in [Consumers -> Seq(Delivery)] /\ connected' \in [Consumers -> BOOLEAN]
    BY DEF TypeOK, Disconnected
<1>. QED
    BY <1>1, <1>2, LocalType DEF TypeOK, Disconnected

LEMMA LoopType == ASSUME TypeOK, NEW c \in Consumers, Loop(c)  PROVE TypeOK'
<1>1. CASE Connect(c)
    BY <1>1, ConnectType
<1>2. CASE Handling(c)
    BY <1>2, HandlingType
<1>3. CASE Break(c)
    <2>1. /\ pc' \in [Consumers -> [Threads -> Places]]
          /\ \A x \in Consumers : pc'[x].main # "serve" => ~running'[x]
        BY <1>3, GoTyped DEF Break, Threads, Places
    <2>. QED
        BY <1>3, <2>1, LocalType DEF Break, TypeOK
<1>4. CASE NoticeLoss(c)
    BY <1>4, DisconnectedType DEF NoticeLoss, Threads
<1>5. CASE Retry(c)
    <2>1. /\ pc' \in [Consumers -> [Threads -> Places]]
          /\ \A x \in Consumers : pc'[x].main # "serve" => ~running'[x]
        BY <1>5, GoTyped DEF Retry, Threads, Places
    <2>. QED
        BY <1>5, <2>1, LocalType DEF Retry, TypeOK
<1>. QED BY <1>1, <1>2, <1>3, <1>4, <1>5 DEF Loop

\* Storing a batch adds a number to every row count.
LEMMA StoreTyped ==
    ASSUME TypeOK, NEW c \in Consumers, Store(batch[c])
    PROVE  /\ rows' \in [1 .. Messages -> Nat]
           /\ \A m \in 1 .. Messages : rows'[m] >= rows[m]
           /\ \A i \in DOMAIN batch[c] : rows'[batch[c][i].msg] > 0
<1>1. batch[c] \in Seq(Delivery) /\ rows \in [1 .. Messages -> Nat]
    BY DEF TypeOK
<1>2. \A m : Occurrences(batch[c], m) \in Nat
    BY <1>1, OccurrencesCount
<1>3. rows' = [m \in 1 .. Messages |-> rows[m] + Occurrences(batch[c], m)]
    BY <1>1 DEF Store
<1>4. ASSUME NEW i \in DOMAIN batch[c]  PROVE rows'[batch[c][i].msg] > 0
    <2>1. batch[c][i].msg \in 1 .. Messages
        <3>1. batch[c][i] \in Delivery
            BY <1>1
        <3>. QED BY <3>1 DEF Delivery
    <2>2. Occurrences(batch[c], batch[c][i].msg) > 0
        BY <1>1, OccurrencesCount
    <2>3. rows[batch[c][i].msg] \in Nat
        BY <1>1, <2>1
    <2>. QED BY <1>2, <1>3, <2>1, <2>2, <2>3
<1>. QED BY <1>1, <1>2, <1>3, <1>4


LEMMA AfterPlace == \A t \in Threads : After(t) \in Places
BY DEF After, Threads, Places

LEMMA FlushingType ==
    ASSUME TypeOK, NEW c \in Consumers, NEW t \in Threads,
           Flushing(c, t) \/ WriteFails(c, t)
    PROVE  TypeOK'
<1>1. CASE NothingToFlush(c, t)
    <2>1. /\ pc' \in [Consumers -> [Threads -> Places]]
          /\ \A x \in Consumers : pc'[x].main # "serve" => ~running'[x]
        BY <1>1, GoTyped, AfterPlace DEF NothingToFlush, Threads
    <2>. QED
        BY <1>1, <2>1, LocalType DEF NothingToFlush, TypeOK
<1>2. ASSUME Writing(c, t), NEW place \in {"ack", "nack"}, Go(c, t, place),
             Store(batch[c]) \/ UNCHANGED rows, faults' \in 0 .. MaxFaults
      PROVE  TypeOK'
    <2>1. /\ pc' \in [Consumers -> [Threads -> Places]]
          /\ \A x \in Consumers : pc'[x].main # "serve" => ~running'[x]
        BY <1>2, GoTyped DEF Writing, Threads, Places
    <2>2. rows' \in [1 .. Messages -> Nat]
        BY <1>2, StoreTyped DEF TypeOK
    <2>. QED
        BY <1>2, <2>1, <2>2, LocalType DEF Writing, TypeOK
<1>3. CASE Write(c, t)
    BY <1>2, <1>3 DEF Write, TypeOK
<1>4. CASE WriteRaises(c, t)
    BY <1>2, <1>4 DEF WriteRaises, TypeOK
<1>5. CASE WriteFails(c, t)
    BY <1>2, <1>5, InjectTyped DEF WriteFails
<1>. QED BY <1>1, <1>3, <1>4, <1>5 DEF Flushing

LEMMA FlushedType ==
    ASSUME TypeOK, NEW c \in Consumers, NEW t \in Threads, pc[c][t] # "serve",
           Flushed(c, t), BrokerTyped', misacked' \in BOOLEAN
    PROVE  TypeOK'
<1>1. /\ pc' \in [Consumers -> [Threads -> Places]]
      /\ \A x \in Consumers : pc'[x].main # "serve" => ~running'[x]
    BY GoTyped, AfterPlace DEF Flushed, Threads
<1>2. /\ batch' \in [Consumers -> Seq(Delivery)]
      /\ kept' \in [Consumers -> Nat]
    BY DEF Flushed, Forget, TypeOK
<1>3. Published' = Published
    BY DEF Flushed, Published
<1>. QED
    BY <1>1, <1>2, <1>3 DEF TypeOK, BrokerTyped, Flushed

LEMMA ReplyingType ==
    ASSUME TypeOK, NEW c \in Consumers, NEW t \in Threads, Replying(c, t)
    PROVE  TypeOK'
<1>1. ASSUME NotAnswered(c), UNCHANGED kind  PROVE BrokerTyped'
    BY <1>1, LoseChannelTyped, UntouchedTyped DEF NotAnswered
<1>2. CASE Ack(c, t)
    <2>1. UNCHANGED kind
        BY <1>2 DEF Ack, Flushed
    <2>2. BrokerTyped'
        BY <1>1, <1>2, <2>1, SettleTyped DEF Ack
    <2>. QED
        BY <1>2, <2>2, FlushedType DEF Ack, TypeOK
<1>3. CASE Nack(c, t)
    <2>1. UNCHANGED kind /\ Covered(c, LastTag(c)) \in SUBSET unacked[c]
        BY <1>3 DEF Nack, Flushed, Covered
    <2>2. BrokerTyped'
        BY <1>1, <1>3, <2>1, RequeueTyped DEF Nack
    <2>. QED
        BY <1>3, <2>2, FlushedType DEF Nack, TypeOK
<1>4. CASE AnswerRaises(c, t)
    BY <1>4, DisconnectedType DEF AnswerRaises
<1>. QED BY <1>2, <1>3, <1>4 DEF Replying

LEMMA TerminateType ==
    ASSUME TypeOK, NEW c \in Consumers, Terminate(c), faults' \in 0 .. MaxFaults
    PROVE  TypeOK'
<1>1. BrokerTyped' /\ Published' = Published
    BY LoseChannelTyped DEF Terminate, Published
<1>2. /\ pc' \in [Consumers -> [Threads -> Places]]
      /\ \A x \in Consumers : pc'[x].main # "serve" => ~running'[x]
    BY PlacesKnown DEF TypeOK, Terminate
<1>3. /\ buffer' \in [Consumers -> Seq(Delivery)]
      /\ batch' \in [Consumers -> Seq(Delivery)]
      /\ kept' \in [Consumers -> Nat]
    BY DEF TypeOK, Terminate
<1>. QED
    BY <1>1, <1>2, <1>3 DEF TypeOK, BrokerTyped, Terminate

\* The main thread and the pod.
LEMMA ProcessType ==
    ASSUME TypeOK, NEW c \in Consumers,
           Stop(c) \/ Joined(c) \/ Exit(c) \/ Crash(c) \/ Restart(c)
    PROVE  TypeOK'
<1>1. CASE Stop(c)
    <2>1. /\ pc' \in [Consumers -> [Threads -> Places]]
          /\ running' \in [Consumers -> BOOLEAN]
          /\ \A x \in Consumers : pc'[x].main # "serve" => ~running'[x]
        BY <1>1 DEF TypeOK, Stop, Go, Threads, Places
    <2>. QED
        BY <1>1, <2>1, InjectTyped, LocalType DEF Stop, TypeOK
<1>2. CASE Joined(c)
    <2>1. /\ pc' \in [Consumers -> [Threads -> Places]]
          /\ \A x \in Consumers : pc'[x].main # "serve" => ~running'[x]
        BY <1>2, GoTyped DEF Joined, Threads, Places
    <2>. QED
        BY <1>2, <2>1, LocalType DEF Joined, TypeOK
<1>3. CASE Exit(c)
    BY <1>3, TerminateType DEF Exit, TypeOK
<1>4. CASE Crash(c)
    BY <1>4, InjectTyped, TerminateType DEF Crash
<1>5. CASE Restart(c)
    <2>1. /\ pc' \in [Consumers -> [Threads -> Places]]
          /\ running' \in [Consumers -> BOOLEAN]
          /\ \A x \in Consumers : pc'[x].main # "serve" => ~running'[x]
        BY <1>5, PlacesKnown DEF TypeOK, Restart
    <2>. QED
        BY <1>5, <2>1, LocalType DEF Restart, TypeOK
<1>. QED BY <1>1, <1>2, <1>3, <1>4, <1>5

LEMMA DropType == ASSUME TypeOK, NEW c \in Consumers, Drop(c)  PROVE TypeOK'
<1>1. BrokerTyped' /\ Published' = Published
    BY LoseChannelTyped DEF Drop, Published
<1>2. faults' \in 0 .. MaxFaults
    BY InjectTyped DEF Drop
<1>. QED
    BY <1>1, <1>2 DEF TypeOK, BrokerTyped, Drop, client

LEMMA TypeStep == TypeOK /\ [Next]_vars => TypeOK'
<1>. SUFFICES ASSUME TypeOK, [Next]_vars  PROVE TypeOK'
    OBVIOUS
<1>1. CASE Publish
    BY <1>1, PublishType
<1>2. ASSUME NEW c \in Consumers,
             Deliver(c) \/ Loop(c) \/ Joined(c) \/ Exit(c) \/ Restart(c)
      PROVE  TypeOK'
    BY <1>2, DeliverType, LoopType, ProcessType
<1>3. ASSUME NEW c \in Consumers, NEW t \in Threads, Flushing(c, t) \/ Replying(c, t)
      PROVE  TypeOK'
    BY <1>3, FlushingType, ReplyingType
<1>4. ASSUME NEW c \in Consumers, Failure(c)  PROVE TypeOK'
    BY <1>4, DropType, ProcessType, FlushingType DEF Failure
<1>5. CASE UNCHANGED vars
    <2>1. BrokerTyped' /\ Published' = Published
        BY <1>5, UntouchedTyped DEF vars, queue, Published
    <2>. QED
        BY <1>5, <2>1 DEF TypeOK, BrokerTyped, vars, queue, client
<1>. QED BY <1>1, <1>2, <1>3, <1>4, <1>5 DEF Next

\* TypeCorrect: in every reachable state the variables have their types, and a
\* consumer whose stop() was called has been told to end.
THEOREM TypeCorrect == Spec => []TypeOK
<1>. QED BY TypeStart, TypeStep, PTL DEF Spec

-----------------------------------------------------------------------------
(* No message is settled without a row.                                    *)

\* A lost channel has nothing outstanding, an open one has a thread behind it.
ClosedIsEmpty == \A c \in Consumers : ~open[c] => unacked[c] = {}
OpenIsUsed ==
    \A c \in Consumers :
        open[c] => pc[c].loop \in {"consume", "flush", "ack", "nack", "done"}

\* A thread that has no connection has nothing buffered.
BufferedIsConnected ==
    \A c \in Consumers :
        pc[c].loop \in {"connect", "backoff", "dead"} => buffer[c] = <<>>

\* The part of the batch that was collected on the channel now open.
Recent(c) == {i \in DOMAIN batch[c] : i > kept[c]}
KeptBounded == \A c \in Consumers : kept[c] <= Len(batch[c])

\* Whatever the channel has outstanding is in the client's buffer or batch.
Placed(c) ==
    \A d \in unacked[c] :
        \/ \E j \in DOMAIN buffer[c] : d = buffer[c][j]
        \/ \E i \in Recent(c) : d = batch[c][i]

\* Tags grow from the batch over the buffer to the next delivery.
Increasing(c) ==
    /\ \A j \in DOMAIN buffer[c] : buffer[c][j].tag < nextTag[c]
    /\ \A i \in Recent(c) : batch[c][i].tag < nextTag[c]
    /\ \A j, k \in DOMAIN buffer[c] : j < k => buffer[c][j].tag < buffer[c][k].tag
    /\ \A i, k \in Recent(c) : i < k => batch[c][i].tag < batch[c][k].tag
    /\ \A i \in Recent(c), j \in DOMAIN buffer[c] : batch[c][i].tag < buffer[c][j].tag

InOrder == \A c \in Consumers : open[c] => Placed(c) /\ Increasing(c)

\* A batch about to be acked has its rows.
Stored ==
    \A c \in Consumers, t \in Threads :
        pc[c][t] = "ack" => \A i \in DOMAIN batch[c] : rows[batch[c][i].msg] > 0

-----------------------------------------------------------------------------
(* The link between a consumer and its channel.                             *)

Linked == ClosedIsEmpty /\ OpenIsUsed /\ BufferedIsConnected /\ KeptBounded

LEMMA LinkStart == Init => Linked
BY DEF Init, Linked, ClosedIsEmpty, OpenIsUsed, BufferedIsConnected, KeptBounded

\* The parts of Linked that belong to one consumer.
LinkedAt(x) ==
    /\ ~open[x] => unacked[x] = {}
    /\ open[x] => pc[x].loop \in {"consume", "flush", "ack", "nack", "done"}
    /\ pc[x].loop \in {"connect", "backoff", "dead"} => buffer[x] = <<>>
    /\ kept[x] <= Len(batch[x])

LEMMA LinkedParts == Linked <=> \A x \in Consumers : LinkedAt(x)
BY DEF Linked, LinkedAt, ClosedIsEmpty, OpenIsUsed, BufferedIsConnected, KeptBounded

\* A consumer's deliveries, and its own state but for where its threads are.
Still(x) ==
    /\ open'[x] = open[x] /\ nextTag'[x] = nextTag[x] /\ unacked'[x] = unacked[x]
    /\ buffer'[x] = buffer[x] /\ batch'[x] = batch[x] /\ kept'[x] = kept[x]
SameAt(x) == Still(x) /\ running'[x] = running[x] /\ connected'[x] = connected[x]

LEMMA OthersSame ==
    ASSUME TypeOK, NEW c \in Consumers, NEW t \in Threads,
           \/ Deliver(c) \/ Loop(c) \/ Joined(c) \/ Exit(c) \/ Restart(c)
           \/ Flushing(c, t) \/ Replying(c, t)
           \/ Drop(c) \/ Stop(c) \/ Crash(c) \/ WriteFails(c, t),
           NEW x \in Consumers, x # c
    PROVE  SameAt(x) /\ pc'[x] = pc[x]
<1>. USE DEF SameAt, Still, TypeOK, Go
<1>1. ASSUME LoseChannel(c)
      PROVE  open'[x] = open[x] /\ nextTag'[x] = nextTag[x] /\ unacked'[x] = unacked[x]
    BY <1>1 DEF LoseChannel
<1>2. ASSUME NEW D, Settle(c, D) \/ Requeue(c, D)
      PROVE  open'[x] = open[x] /\ nextTag'[x] = nextTag[x] /\ unacked'[x] = unacked[x]
    BY <1>2 DEF Settle, Requeue
<1>3. CASE Deliver(c)
    BY <1>3 DEF Deliver
<1>4. CASE Connect(c)
    BY <1>4 DEF Connect
<1>5. CASE Collect(c)
    BY <1>5 DEF Collect, Receiving, link
<1>6. CASE Skip(c) \/ Reject(c) \/ RequeueOnce(c)
    BY <1>2, <1>6 DEF Skip, Reject, RequeueOnce, Answering, Receiving
<1>7. ASSUME NEW u \in Threads, Disconnected(c, u)  PROVE SameAt(x) /\ pc'[x] = pc[x]
    BY <1>7 DEF Disconnected, link
<1>8. CASE Break(c) \/ NoticeLoss(c) \/ Retry(c)
    BY <1>7, <1>8 DEF Break, NoticeLoss, Retry, link, Threads
<1>9. CASE Flushing(c, t) \/ WriteFails(c, t)
    BY <1>9 DEF Flushing, NothingToFlush, Write, WriteRaises, WriteFails, Writing, link
<1>10. CASE Ack(c, t) \/ Nack(c, t)
    BY <1>1, <1>2, <1>10 DEF Ack, Nack, NotAnswered, Flushed, link
<1>11. CASE AnswerRaises(c, t)
    BY <1>7, <1>11 DEF AnswerRaises
<1>12. CASE Joined(c) \/ Restart(c) \/ Stop(c)
    BY <1>12 DEF Joined, Restart, Stop, link
<1>13. CASE Exit(c) \/ Crash(c)
    BY <1>1, <1>13 DEF Exit, Crash, Terminate
<1>14. CASE Drop(c)
    BY <1>1, <1>14 DEF Drop, client
<1>. QED
    BY <1>3, <1>4, <1>5, <1>6, <1>8, <1>9, <1>10, <1>11, <1>12, <1>13, <1>14
    DEF Loop, Handling, Replying

\* What a consumer does keeps its own link in order.
LEMMA LinkOwnStep ==
    ASSUME TypeOK, NEW c \in Consumers, NEW t \in Threads, LinkedAt(c),
           \/ Deliver(c) \/ Loop(c) \/ Joined(c) \/ Exit(c) \/ Restart(c)
           \/ Flushing(c, t) \/ Replying(c, t)
           \/ Drop(c) \/ Stop(c) \/ Crash(c) \/ WriteFails(c, t)
    PROVE  LinkedAt(c)'
<1>. USE DEF LinkedAt, TypeOK, Go, Threads
<1>1. ASSUME LoseChannel(c)  PROVE ~open'[c] /\ unacked'[c] = {}
    BY <1>1 DEF LoseChannel
<1>2. ASSUME NEW D, Settle(c, D) \/ Requeue(c, D)
      PROVE  open'[c] = open[c] /\ unacked'[c] \subseteq unacked[c]
    BY <1>2 DEF Settle, Requeue
<1>3. CASE Deliver(c)
    BY <1>3 DEF Deliver
<1>4. CASE Connect(c)
    BY <1>4 DEF Connect
<1>5. CASE Collect(c)
    <2>1. Len(batch'[c]) = Len(batch[c]) + 1
        BY <1>5, ReceivingTyped DEF Collect
    <2>. QED BY <1>5, <2>1 DEF Collect, Receiving, link
<1>6. CASE Skip(c) \/ Reject(c) \/ RequeueOnce(c)
    <2>1. UNCHANGED <<batch, kept, pc>> /\ pc[c].loop = "consume"
        BY <1>6 DEF Skip, Reject, RequeueOnce, Answering, Receiving
    <2>2. open'[c] = open[c] /\ unacked'[c] \subseteq unacked[c]
        BY <1>2, <1>6 DEF Skip, Reject, RequeueOnce
    <2>. QED BY <2>1, <2>2
<1>7. ASSUME NEW u \in Threads, Disconnected(c, u), ~open[c]  PROVE LinkedAt(c)'
    BY <1>7 DEF Disconnected, link
<1>8. CASE Break(c) \/ NoticeLoss(c) \/ Retry(c)
    BY <1>7, <1>8 DEF Break, NoticeLoss, Retry, link
<1>9. CASE Flushing(c, t) \/ WriteFails(c, t)
    BY <1>9 DEF Flushing, NothingToFlush, Write, WriteRaises, WriteFails, Writing, link, After
<1>10. CASE Ack(c, t) \/ Nack(c, t)
    <2>1. /\ kept'[c] = 0 /\ batch'[c] = <<>> /\ buffer'[c] = buffer[c]
          /\ pc' = [pc EXCEPT ![c][t] = After(t)] /\ pc[c][t] \in {"ack", "nack"}
        BY <1>10 DEF Ack, Nack, Flushed, Forget
    <2>2. /\ ~open'[c] => unacked'[c] = {}
          /\ open'[c] => open[c]
        BY <1>1, <1>2, <1>10 DEF Ack, Nack, NotAnswered, link
    <2>. QED BY <2>1, <2>2 DEF After
<1>11. CASE AnswerRaises(c, t)
    BY <1>7, <1>11 DEF AnswerRaises
<1>12. CASE Joined(c) \/ Restart(c) \/ Stop(c)
    BY <1>12 DEF Joined, Restart, Stop, link, Fresh, Dead
<1>13. CASE Exit(c) \/ Crash(c)
    BY <1>1, <1>13 DEF Exit, Crash, Terminate
<1>14. CASE Drop(c)
    BY <1>1, <1>14 DEF Drop, client
<1>. QED
    BY <1>3, <1>4, <1>5, <1>6, <1>8, <1>9, <1>10, <1>11, <1>12, <1>13, <1>14
    DEF Loop, Handling, Replying

\* What one consumer's step is, and that the others keep their state.
OwnStep(c, t) ==
    \/ Deliver(c) \/ Loop(c) \/ Joined(c) \/ Exit(c) \/ Restart(c)
    \/ Flushing(c, t) \/ Replying(c, t)
    \/ Drop(c) \/ Stop(c) \/ Crash(c) \/ WriteFails(c, t)

Quiet == Publish \/ UNCHANGED vars

LEMMA StepKinds ==
    [Next]_vars => Quiet \/ \E c \in Consumers, t \in Threads : OwnStep(c, t)
<1>1. "loop" \in Threads
    BY DEF Threads
<1>. QED BY <1>1 DEF Next, Failure, OwnStep, Quiet

LEMMA QuietSame ==
    ASSUME TypeOK, Quiet, NEW x \in Consumers
    PROVE  SameAt(x) /\ pc'[x] = pc[x]
BY DEF Quiet, Publish, SameAt, Still, link, client, vars

LEMMA LinkStep == TypeOK /\ Linked /\ [Next]_vars => Linked'
<1>. SUFFICES ASSUME TypeOK, Linked, [Next]_vars  PROVE Linked'
    OBVIOUS
<1>1. \A x \in Consumers : LinkedAt(x)
    BY LinkedParts
<1>2. ASSUME NEW x \in Consumers, SameAt(x), pc'[x] = pc[x]  PROVE LinkedAt(x)'
    BY <1>1, <1>2 DEF LinkedAt, SameAt, Still
<1>3. ASSUME NEW c \in Consumers, NEW t \in Threads, OwnStep(c, t),
             NEW x \in Consumers
      PROVE  LinkedAt(x)'
    <2>1. CASE x = c
        BY <1>1, <1>3, <2>1, LinkOwnStep DEF OwnStep
    <2>2. CASE x # c
        BY <1>2, <1>3, <2>2, OthersSame DEF OwnStep
    <2>. QED BY <2>1, <2>2
<1>4. \A x \in Consumers : LinkedAt(x)'
    BY <1>2, <1>3, StepKinds, QuietSame
<1>. QED BY <1>4 DEF Linked, LinkedAt, ClosedIsEmpty, OpenIsUsed, BufferedIsConnected, KeptBounded

-----------------------------------------------------------------------------
(* Where deliveries are, and in which order.                                *)

InOrderAt(x) == open[x] => Placed(x) /\ Increasing(x)

LEMMA DeliveriesTyped ==
    ASSUME TypeOK, NEW c \in Consumers
    PROVE  /\ buffer[c] \in Seq(Delivery) /\ batch[c] \in Seq(Delivery)
           /\ kept[c] \in Nat /\ nextTag[c] \in Nat
           /\ \A d \in unacked[c] : d.tag \in Nat
           /\ \A j \in DOMAIN buffer[c] : buffer[c][j].tag \in Nat
           /\ \A i \in DOMAIN batch[c] : batch[c][i].tag \in Nat
<1>1. /\ buffer[c] \in Seq(Delivery) /\ batch[c] \in Seq(Delivery)
      /\ kept[c] \in Nat /\ nextTag[c] \in Nat /\ unacked[c] \subseteq Delivery
    BY DEF TypeOK
<1>2. /\ \A j \in DOMAIN buffer[c] : buffer[c][j] \in Delivery
      /\ \A i \in DOMAIN batch[c] : batch[c][i] \in Delivery
    BY <1>1
<1>3. \A d \in Delivery : d.tag \in Nat
    BY DEF Delivery
<1>. QED BY <1>1, <1>2, <1>3

\* A channel starts with nothing outstanding and nothing recent.
LEMMA OrderConnect ==
    ASSUME TypeOK, NEW c \in Consumers, LinkedAt(c), Connect(c)
    PROVE  InOrderAt(c)'
<1>1. unacked'[c] = {} /\ buffer'[c] = <<>>
    BY DEF Connect, LinkedAt
<1>2. kept'[c] = Len(batch'[c]) /\ batch'[c] \in Seq(Delivery)
    BY DEF Connect, TypeOK
<1>3. Recent(c)' = {}
    BY <1>2 DEF Recent
<1>. QED BY <1>1, <1>3 DEF InOrderAt, Placed, Increasing

\* A delivery gets the greatest tag and the last place in the buffer.
LEMMA OrderDeliver ==
    ASSUME TypeOK, NEW c \in Consumers, InOrderAt(c), Deliver(c)
    PROVE  InOrderAt(c)'
<1>1. PICK d : /\ d.tag = nextTag[c]
               /\ unacked'[c] = unacked[c] \cup {d}
               /\ buffer'[c] = Append(buffer[c], d)
    BY DEF Deliver, TypeOK
<1>2. /\ nextTag'[c] = nextTag[c] + 1 /\ open[c]
      /\ batch'[c] = batch[c] /\ Recent(c)' = Recent(c)
    BY DEF Deliver, TypeOK, Recent
<1>3. Placed(c) /\ Increasing(c)
    BY <1>2 DEF InOrderAt
<1>4. /\ DOMAIN buffer'[c] = 1 .. Len(buffer[c]) + 1
      /\ DOMAIN buffer[c] = 1 .. Len(buffer[c]) /\ Len(buffer[c]) \in Nat
      /\ \A j \in DOMAIN buffer[c] : buffer'[c][j] = buffer[c][j]
      /\ buffer'[c][Len(buffer[c]) + 1] = d
    BY <1>1, DeliveriesTyped
<1>5. Placed(c)'
    BY <1>1, <1>2, <1>3, <1>4 DEF Placed
<1>6. Increasing(c)'
    <2>. DEFINE n == nextTag'[c]
    <2>1. n = nextTag[c] + 1 /\ nextTag[c] \in Nat
        BY <1>2, DeliveriesTyped
    <2>2. \A j \in DOMAIN buffer[c] : buffer[c][j].tag < n
        BY <1>3, <2>1, DeliveriesTyped DEF Increasing
    <2>3. \A i \in Recent(c) : batch[c][i].tag < n
        BY <1>3, <2>1, DeliveriesTyped DEF Increasing, Recent
    <2>. HIDE DEF n
    <2>4. /\ \A j \in DOMAIN buffer'[c] : buffer'[c][j].tag < n
          /\ \A i \in Recent(c)' : batch'[c][i].tag < n
        BY <1>1, <1>2, <1>4, <2>1, <2>2, <2>3
    <2>5. \A j, k \in DOMAIN buffer'[c] : j < k => buffer'[c][j].tag < buffer'[c][k].tag
        BY <1>1, <1>3, <1>4, DeliveriesTyped DEF Increasing
    <2>6. \A i, k \in Recent(c)' : i < k => batch'[c][i].tag < batch'[c][k].tag
        BY <1>2, <1>3 DEF Increasing
    <2>7. \A i \in Recent(c)', j \in DOMAIN buffer'[c] : batch'[c][i].tag < buffer'[c][j].tag
        BY <1>1, <1>2, <1>3, <1>4 DEF Increasing
    <2>. QED BY <2>4, <2>5, <2>6, <2>7 DEF Increasing, n
<1>. QED BY <1>5, <1>6 DEF InOrderAt

\* The head of the buffer, and what is left of it.
LEMMA TailOf ==
    ASSUME NEW q \in Seq(Delivery), q # <<>>
    PROVE  /\ Tail(q) \in Seq(Delivery) /\ Len(q) \in Nat
           /\ DOMAIN q = 1 .. Len(q) /\ DOMAIN Tail(q) = 1 .. Len(q) - 1
           /\ \A j \in DOMAIN Tail(q) : j + 1 \in DOMAIN q /\ Tail(q)[j] = q[j + 1]
           /\ 1 \in DOMAIN q /\ q[1] = Head(q)
           /\ \A k \in DOMAIN q : k # 1 => k - 1 \in DOMAIN Tail(q) /\ Tail(q)[k - 1] = q[k]
OBVIOUS

\* A delivery that is answered at once leaves the buffer and the channel.
LEMMA OrderAnswering ==
    ASSUME TypeOK, NEW c \in Consumers, InOrderAt(c),
           Skip(c) \/ Reject(c) \/ RequeueOnce(c)
    PROVE  InOrderAt(c)'
<1>1. /\ buffer[c] # <<>> /\ buffer'[c] = Tail(buffer[c])
      /\ batch'[c] = batch[c] /\ Recent(c)' = Recent(c)
    BY DEF Skip, Reject, RequeueOnce, Answering, Receiving, TypeOK, Recent
<1>2. /\ open'[c] = open[c] /\ nextTag'[c] = nextTag[c]
      /\ unacked'[c] \subseteq unacked[c] /\ Head(buffer[c]) \notin unacked'[c]
    BY DEF Skip, Reject, RequeueOnce, Settle, Requeue, TypeOK
<1>3. SUFFICES ASSUME open[c]  PROVE Placed(c)' /\ Increasing(c)'
    BY <1>2 DEF InOrderAt
<1>4. Placed(c) /\ Increasing(c)
    BY <1>3 DEF InOrderAt
<1>5. Placed(c)'
    <2>. DEFINE q == buffer[c]
    <2>1. /\ 1 \in DOMAIN q /\ q[1] = Head(q)
          /\ \A k \in DOMAIN q : k # 1 => k - 1 \in DOMAIN Tail(q) /\ Tail(q)[k - 1] = q[k]
        BY <1>1, TailOf, DeliveriesTyped
    <2>2. /\ \A d \in unacked[c] : \/ \E j \in DOMAIN q : d = q[j]
                                  \/ \E i \in Recent(c) : d = batch[c][i]
          /\ buffer'[c] = Tail(q) /\ q[1] \notin unacked'[c]
        BY <1>1, <1>2, <1>4, <2>1 DEF Placed
    <2>. HIDE DEF q
    <2>3. \A d \in unacked'[c] : \/ \E j \in DOMAIN Tail(q) : d = Tail(q)[j]
                               \/ \E i \in Recent(c) : d = batch[c][i]
        BY <1>2, <2>1, <2>2
    <2>. QED BY <1>1, <2>2, <2>3 DEF Placed
<1>6. Increasing(c)'
    <2>. DEFINE q == buffer[c]
    <2>1. /\ buffer'[c] = Tail(q)
          /\ DOMAIN q = 1 .. Len(q) /\ DOMAIN Tail(q) = 1 .. Len(q) - 1 /\ Len(q) \in Nat
          /\ \A j \in DOMAIN Tail(q) : j + 1 \in DOMAIN q /\ Tail(q)[j] = q[j + 1]
        BY <1>1, TailOf, DeliveriesTyped
    <2>. HIDE DEF q
    <2>2. /\ \A j \in DOMAIN q : q[j].tag < nextTag[c]
          /\ \A j, k \in DOMAIN q : j < k => q[j].tag < q[k].tag
          /\ \A i \in Recent(c), j \in DOMAIN q : batch[c][i].tag < q[j].tag
        BY <1>4 DEF Increasing, q
    <2>3. \A j \in DOMAIN Tail(q) : Tail(q)[j].tag < nextTag[c]
        BY <2>1, <2>2
    <2>4. \A j, k \in DOMAIN Tail(q) : j < k => Tail(q)[j].tag < Tail(q)[k].tag
        <3>1. \A j, k \in DOMAIN Tail(q) : j < k => j + 1 < k + 1
            BY <2>1
        <3>. QED BY <2>1, <2>2, <3>1
    <2>5. \A i \in Recent(c), j \in DOMAIN Tail(q) : batch[c][i].tag < Tail(q)[j].tag
        BY <2>1, <2>2
    <2>6. /\ \A i \in Recent(c) : batch[c][i].tag < nextTag[c]
          /\ \A i, k \in Recent(c) : i < k => batch[c][i].tag < batch[c][k].tag
        BY <1>4 DEF Increasing
    <2>. QED BY <1>1, <1>2, <2>1, <2>3, <2>4, <2>5, <2>6 DEF Increasing
<1>. QED BY <1>5, <1>6

\* The head of the buffer becomes the last entry of the batch.
LEMMA OrderCollect ==
    ASSUME TypeOK, NEW c \in Consumers, InOrderAt(c), LinkedAt(c), Collect(c)
    PROVE  InOrderAt(c)'
<1>. DEFINE q == buffer[c]
            b == batch[c]
            n == Len(batch[c]) + 1
<1>1. /\ q # <<>> /\ buffer'[c] = Tail(q)
      /\ batch'[c] = Append(b, Head(q)) /\ kept'[c] = kept[c]
      /\ open'[c] = open[c] /\ nextTag'[c] = nextTag[c] /\ unacked'[c] = unacked[c]
    BY DEF Collect, Receiving, TypeOK, link
<1>2. SUFFICES ASSUME open[c]  PROVE Placed(c)' /\ Increasing(c)'
    BY <1>1 DEF InOrderAt
<1>3. Placed(c) /\ Increasing(c)
    BY <1>2 DEF InOrderAt
<1>4. /\ DOMAIN q = 1 .. Len(q) /\ DOMAIN Tail(q) = 1 .. Len(q) - 1 /\ Len(q) \in Nat
      /\ \A j \in DOMAIN Tail(q) : j + 1 \in DOMAIN q /\ Tail(q)[j] = q[j + 1]
      /\ 1 \in DOMAIN q /\ q[1] = Head(q)
      /\ \A k \in DOMAIN q : k # 1 => k - 1 \in DOMAIN Tail(q) /\ Tail(q)[k - 1] = q[k]
    BY <1>1, TailOf, DeliveriesTyped
<1>5. /\ DOMAIN b = 1 .. n - 1 /\ DOMAIN batch'[c] = 1 .. n
      /\ n \in Nat /\ kept[c] \in Nat /\ kept[c] < n
      /\ \A i \in DOMAIN b : batch'[c][i] = b[i]
      /\ batch'[c][n] = q[1]
    BY <1>1, <1>4, DeliveriesTyped DEF LinkedAt
<1>6. /\ Recent(c) = {i \in DOMAIN b : i > kept[c]}
      /\ Recent(c)' = {i \in DOMAIN batch'[c] : i > kept[c]}
    BY <1>1 DEF Recent
<1>. HIDE DEF q, b, n
<1>7. /\ Recent(c)' = Recent(c) \cup {n}
      /\ \A i \in Recent(c) : batch'[c][i] = b[i] /\ i < n /\ i \in Nat
    BY <1>5, <1>6
<1>8. Placed(c)'
    <2>1. \A d \in unacked[c] : \/ \E j \in DOMAIN q : d = q[j]
                               \/ \E i \in Recent(c) : d = b[i]
        BY <1>3 DEF Placed, q, b
    <2>2. ASSUME NEW j \in DOMAIN q
          PROVE  \/ \E k \in DOMAIN Tail(q) : q[j] = Tail(q)[k]
                 \/ q[j] = batch'[c][n]
        BY <1>4, <1>5
    <2>3. \A d \in unacked[c] : \/ \E j \in DOMAIN Tail(q) : d = Tail(q)[j]
                               \/ \E i \in Recent(c)' : d = batch'[c][i]
        BY <1>7, <2>1, <2>2
    <2>. QED BY <1>1, <2>3 DEF Placed
<1>9. Increasing(c)'
    <2>1. /\ \A j \in DOMAIN q : q[j].tag < nextTag[c]
          /\ \A i \in Recent(c) : b[i].tag < nextTag[c]
          /\ \A j, k \in DOMAIN q : j < k => q[j].tag < q[k].tag
          /\ \A i, k \in Recent(c) : i < k => b[i].tag < b[k].tag
          /\ \A i \in Recent(c), j \in DOMAIN q : b[i].tag < q[j].tag
        BY <1>3 DEF Increasing, q, b
    <2>2. \A j \in DOMAIN Tail(q) : Tail(q)[j].tag < nextTag[c]
        BY <1>4, <2>1
    <2>3. \A j, k \in DOMAIN Tail(q) : j < k => Tail(q)[j].tag < Tail(q)[k].tag
        <3>1. \A j, k \in DOMAIN Tail(q) : j < k => j + 1 < k + 1
            BY <1>4
        <3>. QED BY <1>4, <2>1, <3>1
    <2>4. \A i \in Recent(c)' : batch'[c][i].tag < nextTag[c]
        BY <1>4, <1>5, <1>7, <2>1
    <2>5. \A i, k \in Recent(c)' : i < k => batch'[c][i].tag < batch'[c][k].tag
        <3>1. ~(n < n) /\ \A i \in Recent(c) : ~(n < i)
            BY <1>5, <1>7
        <3>2. \A i \in Recent(c) : batch'[c][i].tag < batch'[c][n].tag
            BY <1>4, <1>5, <1>7, <2>1
        <3>3. \A i, k \in Recent(c) : i < k => batch'[c][i].tag < batch'[c][k].tag
            BY <1>7, <2>1
        <3>4. SUFFICES ASSUME NEW i \in Recent(c)', NEW k \in Recent(c)', i < k
                       PROVE  batch'[c][i].tag < batch'[c][k].tag
            OBVIOUS
        <3>5. CASE i = n
            BY <1>7, <3>1, <3>4, <3>5
        <3>6. CASE i \in Recent(c)
            BY <1>7, <3>2, <3>3, <3>4, <3>6
        <3>. QED BY <1>7, <3>5, <3>6
    <2>6. \A i \in Recent(c)', j \in DOMAIN Tail(q) : batch'[c][i].tag < Tail(q)[j].tag
        <3>1. \A j \in DOMAIN Tail(q) : 1 < j + 1
            BY <1>4
        <3>2. \A j \in DOMAIN Tail(q) : batch'[c][n].tag < Tail(q)[j].tag
            BY <1>4, <1>5, <2>1, <3>1
        <3>3. \A i \in Recent(c), j \in DOMAIN Tail(q) : batch'[c][i].tag < Tail(q)[j].tag
            BY <1>4, <1>7, <2>1
        <3>. QED BY <1>7, <3>2, <3>3
    <2>. QED BY <1>1, <2>2, <2>3, <2>4, <2>5, <2>6 DEF Increasing
<1>. QED BY <1>8, <1>9

\* An answered batch takes with it everything up to its last tag, and that is
\* everything recent: what stays outstanding is in the buffer.
LEMMA RecentIsCovered ==
    ASSUME TypeOK, NEW c \in Consumers, LinkedAt(c), Increasing(c), batch[c] # <<>>,
           NEW i \in Recent(c)
    PROVE  batch[c][i].tag <= LastTag(c)
<1>1. /\ Len(batch[c]) \in DOMAIN batch[c] /\ i \in DOMAIN batch[c]
      /\ i \in Nat /\ Len(batch[c]) \in Nat /\ i <= Len(batch[c]) /\ i > kept[c]
      /\ Len(batch[c]) \in Recent(c)
    BY DeliveriesTyped DEF Recent
<1>2. batch[c][i].tag \in Nat /\ batch[c][Len(batch[c])].tag \in Nat
    BY <1>1, DeliveriesTyped
<1>3. i < Len(batch[c]) => batch[c][i].tag < batch[c][Len(batch[c])].tag
    BY <1>1 DEF Increasing
<1>. QED BY <1>1, <1>2, <1>3 DEF LastTag

LEMMA OrderReplying ==
    ASSUME TypeOK, NEW c \in Consumers, NEW t \in Threads, LinkedAt(c), InOrderAt(c),
           Ack(c, t) \/ Nack(c, t)
    PROVE  InOrderAt(c)'
<1>1. /\ batch'[c] = <<>> /\ kept'[c] = 0 /\ buffer'[c] = buffer[c]
    BY DEF Ack, Nack, Flushed, Forget, TypeOK
<1>2. Recent(c)' = {}
    BY <1>1 DEF Recent
<1>3. CASE Answered(c)
    <2>1. /\ open[c] /\ batch[c] # <<>>
          /\ open'[c] = open[c] /\ nextTag'[c] = nextTag[c]
          /\ unacked'[c] = unacked[c] \ Covered(c, LastTag(c))
        BY <1>3 DEF Ack, Nack, Answered, Settle, Requeue, TypeOK
    <2>2. Placed(c) /\ Increasing(c)
        BY <2>1 DEF InOrderAt
    <2>3. \A d \in unacked'[c] : d \in unacked[c] /\ ~(d.tag <= LastTag(c))
        BY <2>1 DEF Covered
    <2>4. \A d \in unacked'[c] : \E j \in DOMAIN buffer[c] : d = buffer[c][j]
        BY <2>1, <2>2, <2>3, RecentIsCovered DEF Placed
    <2>5. Placed(c)'
        BY <1>1, <2>4 DEF Placed
    <2>6. Increasing(c)'
        BY <1>1, <1>2, <2>1, <2>2 DEF Increasing
    <2>. QED BY <2>5, <2>6 DEF InOrderAt
<1>4. CASE ~Answered(c)
    <2>1. NotAnswered(c)
        BY <1>4 DEF Ack, Nack
    <2>2. CASE ~(batch[c] = <<>> \/ ~open[c])
        BY <2>1, <2>2 DEF NotAnswered, LoseChannel, InOrderAt, TypeOK
    <2>3. CASE batch[c] = <<>> \/ ~open[c]
        <3>1. open' = open /\ nextTag' = nextTag /\ unacked' = unacked
            BY <2>1, <2>3 DEF NotAnswered, link
        <3>2. SUFFICES ASSUME open[c]  PROVE Placed(c)' /\ Increasing(c)'
            BY <3>1 DEF InOrderAt
        <3>3. Placed(c) /\ Increasing(c) /\ Recent(c) = {}
            BY <2>3, <3>2 DEF InOrderAt, Recent
        <3>4. Placed(c)'
            BY <1>1, <3>1, <3>3 DEF Placed
        <3>5. Increasing(c)'
            BY <1>1, <1>2, <3>1, <3>3 DEF Increasing
        <3>. QED BY <3>4, <3>5
    <2>. QED BY <2>2, <2>3
<1>. QED BY <1>3, <1>4

\* Everything else leaves the consumer's deliveries alone or closes its channel.
LEMMA OrderElse ==
    ASSUME TypeOK, NEW c \in Consumers, NEW t \in Threads,
           \/ Break(c) \/ NoticeLoss(c) \/ Retry(c) \/ Joined(c) \/ Restart(c) \/ Stop(c)
           \/ Exit(c) \/ Crash(c) \/ Drop(c) \/ AnswerRaises(c, t)
           \/ Flushing(c, t) \/ WriteFails(c, t)
    PROVE  Still(c) \/ ~open'[c]
<1>. USE DEF TypeOK, Go, link
<1>1. LoseChannel(c) => ~open'[c]
    BY DEF LoseChannel
<1>2. CASE Break(c) \/ Retry(c) \/ Joined(c) \/ Restart(c) \/ Stop(c)
    BY <1>2 DEF Break, Retry, Joined, Restart, Stop, Still
<1>3. CASE NoticeLoss(c) \/ AnswerRaises(c, t)
    BY <1>3 DEF NoticeLoss, AnswerRaises, Disconnected
<1>4. CASE Exit(c) \/ Crash(c) \/ Drop(c)
    BY <1>1, <1>4 DEF Exit, Crash, Drop, Terminate
<1>5. CASE Flushing(c, t) \/ WriteFails(c, t)
    BY <1>5 DEF Flushing, NothingToFlush, Write, WriteRaises, WriteFails, Writing, Still
<1>. QED BY <1>2, <1>3, <1>4, <1>5

LEMMA SameOrder ==
    ASSUME NEW x \in Consumers, InOrderAt(x), Still(x)  PROVE InOrderAt(x)'
<1>1. Recent(x)' = Recent(x)
    BY DEF Still, Recent
<1>2. Placed(x) => Placed(x)'
    BY <1>1 DEF Still, Placed
<1>3. Increasing(x) => Increasing(x)'
    BY <1>1 DEF Still, Increasing
<1>. QED BY <1>2, <1>3 DEF InOrderAt, Still

LEMMA OrderOwnStep ==
    ASSUME TypeOK, NEW c \in Consumers, NEW t \in Threads, LinkedAt(c), InOrderAt(c),
           OwnStep(c, t)
    PROVE  InOrderAt(c)'
<1>1. CASE Deliver(c)
    BY <1>1, OrderDeliver
<1>2. CASE Connect(c)
    BY <1>2, OrderConnect
<1>3. CASE Collect(c)
    BY <1>3, OrderCollect
<1>4. CASE Skip(c) \/ Reject(c) \/ RequeueOnce(c)
    BY <1>4, OrderAnswering
<1>5. CASE Ack(c, t) \/ Nack(c, t)
    BY <1>5, OrderReplying
<1>6. CASE \/ Break(c) \/ NoticeLoss(c) \/ Retry(c) \/ Joined(c) \/ Restart(c) \/ Stop(c)
           \/ Exit(c) \/ Crash(c) \/ Drop(c) \/ AnswerRaises(c, t)
           \/ Flushing(c, t) \/ WriteFails(c, t)
    <2>1. Still(c) \/ ~open'[c]
        BY <1>6, OrderElse
    <2>2. ~open'[c] => InOrderAt(c)'
        BY DEF InOrderAt
    <2>. QED BY <2>1, <2>2, SameOrder
<1>. QED BY <1>1, <1>2, <1>3, <1>4, <1>5, <1>6 DEF OwnStep, Loop, Handling, Replying

LEMMA OrderStep == TypeOK /\ Linked /\ InOrder /\ [Next]_vars => InOrder'
<1>. SUFFICES ASSUME TypeOK, Linked, InOrder, [Next]_vars  PROVE InOrder'
    OBVIOUS
<1>1. \A x \in Consumers : LinkedAt(x) /\ InOrderAt(x)
    BY LinkedParts DEF InOrder, InOrderAt
<1>2. ASSUME NEW c \in Consumers, NEW t \in Threads, OwnStep(c, t),
             NEW x \in Consumers
      PROVE  InOrderAt(x)'
    <2>1. CASE x = c
        BY <1>1, <1>2, <2>1, OrderOwnStep
    <2>2. CASE x # c
        BY <1>1, <1>2, <2>2, OthersSame, SameOrder DEF OwnStep, SameAt
    <2>. QED BY <2>1, <2>2
<1>3. \A x \in Consumers : InOrderAt(x)'
    BY <1>1, <1>2, StepKinds, QuietSame, SameOrder DEF SameAt
<1>. QED BY <1>3 DEF InOrder, InOrderAt

-----------------------------------------------------------------------------
(* Rows are stored before the batch is acked.                               *)

StoredAt(x) ==
    \A t \in Threads :
        pc[x][t] = "ack" => \A i \in DOMAIN batch[x] : rows[batch[x][i].msg] > 0

\* A consumer's step publishes nothing, and takes back no row, no rejection and
\* no answer.
LEMMA Growth ==
    ASSUME TypeOK, NEW c \in Consumers, NEW t \in Threads, OwnStep(c, t)
    PROVE  /\ kind' = kind /\ rejected \subseteq rejected' /\ (misacked => misacked')
           /\ \A m \in 1 .. Messages : rows'[m] >= rows[m]
<1>. USE DEF queue, client
<1>1. /\ rows \in [1 .. Messages -> Nat]
      /\ Store(batch[c]) => \A m \in 1 .. Messages : rows'[m] >= rows[m]
    BY StoreTyped DEF TypeOK
<1>2. rows' = rows => \A m \in 1 .. Messages : rows'[m] >= rows[m]
    BY <1>1
<1>3. CASE Deliver(c) \/ Drop(c) \/ Connect(c) \/ Joined(c) \/ Restart(c) \/ Stop(c)
    BY <1>2, <1>3 DEF Deliver, Drop, Connect, Joined, Restart, Stop
<1>4. CASE Handling(c)
    BY <1>2, <1>4 DEF Handling, Collect, Skip, Reject, RequeueOnce, Answering
<1>5. CASE Break(c) \/ NoticeLoss(c) \/ Retry(c) \/ AnswerRaises(c, t)
    BY <1>2, <1>5 DEF Break, NoticeLoss, Retry, AnswerRaises, Disconnected
<1>6. CASE Exit(c) \/ Crash(c)
    BY <1>2, <1>6 DEF Exit, Crash, Terminate
<1>7. CASE Flushing(c, t) \/ WriteFails(c, t)
    BY <1>1, <1>2, <1>7 DEF Flushing, NothingToFlush, Write, WriteRaises, WriteFails, Writing
<1>8. CASE Ack(c, t) \/ Nack(c, t)
    <2>1. UNCHANGED <<kind, rejected, rows>>
        BY <1>8 DEF Ack, Nack, Flushed
    <2>2. misacked => misacked'
        BY <1>8 DEF Ack, Nack
    <2>. QED BY <1>2, <2>1, <2>2
<1>. QED
    BY <1>3, <1>4, <1>5, <1>6, <1>7, <1>8 DEF OwnStep, Loop, Replying

LEMMA RowsKept ==
    ASSUME TypeOK, NEW x \in Consumers, StoredAt(x), batch'[x] = batch[x],
           \A u \in Threads : pc'[x][u] = "ack" => pc[x][u] = "ack",
           \A m \in 1 .. Messages : rows'[m] >= rows[m], TypeOK'
    PROVE  StoredAt(x)'
<1>1. ASSUME NEW i \in DOMAIN batch[x]  PROVE batch[x][i].msg \in 1 .. Messages
    <2>1. batch[x] \in Seq(Delivery)
        BY DEF TypeOK
    <2>2. batch[x][i] \in Delivery
        BY <2>1
    <2>. QED BY <2>2 DEF Delivery
<1>2. \A m \in 1 .. Messages : rows[m] > 0 => rows'[m] > 0
    <2>1. \A m \in 1 .. Messages : rows[m] \in Nat /\ rows'[m] \in Nat
        BY DEF TypeOK
    <2>. QED BY <2>1
<1>. QED BY <1>1, <1>2 DEF StoredAt

LEMMA StoredOwnStep ==
    ASSUME TypeOK, TypeOK', NEW c \in Consumers, NEW t \in Threads, StoredAt(c),
           OwnStep(c, t)
    PROVE  StoredAt(c)'
<1>1. CASE Write(c, t)
    <2>1. Store(batch[c]) /\ batch'[c] = batch[c]
        BY <1>1 DEF Write, Writing
    <2>. QED BY <2>1, StoreTyped DEF StoredAt
<1>2. CASE Collect(c)
    <2>1. pc[c].main = "serve" /\ pc[c].loop = "consume"
        BY <1>2 DEF TypeOK, Collect, Receiving
    <2>2. pc'[c].main = "serve" /\ pc'[c].loop \in {"consume", "flush"}
        BY <1>2, <2>1 DEF TypeOK, Collect, Go, Threads
    <2>. QED BY <2>2 DEF StoredAt, Threads
<1>3. CASE Ack(c, t) \/ Nack(c, t) \/ Exit(c) \/ Crash(c)
    <2>1. batch'[c] = <<>>
        BY <1>3 DEF Ack, Nack, Exit, Crash, Flushed, Forget, Terminate, TypeOK
    <2>. QED BY <2>1 DEF StoredAt
<1>4. CASE \/ Deliver(c) \/ Connect(c) \/ Skip(c) \/ Reject(c) \/ RequeueOnce(c) \/ Break(c)
           \/ NoticeLoss(c) \/ Retry(c) \/ Joined(c) \/ Restart(c) \/ Stop(c) \/ Drop(c)
           \/ AnswerRaises(c, t) \/ NothingToFlush(c, t) \/ WriteRaises(c, t)
           \/ WriteFails(c, t)
    <2>. DEFINE NotAhead == \A u \in Threads : pc'[c][u] = "ack" => pc[c][u] = "ack"
    <2>1. ASSUME NEW u \in Threads, NEW place, place # "ack", Go(c, u, place)
          PROVE  NotAhead
        BY <2>1 DEF Go, TypeOK
    <2>2. pc' = pc => NotAhead
        OBVIOUS
    <2>3. {"loop", "main"} = Threads
        BY DEF Threads
    <2>. HIDE DEF NotAhead
    <2>4. ASSUME Deliver(c) \/ Skip(c) \/ Reject(c) \/ RequeueOnce(c) \/ Drop(c)
          PROVE  batch' = batch /\ NotAhead
        BY <2>2, <2>4 DEF Deliver, Skip, Reject, RequeueOnce, Answering, Drop, client
    <2>5. ASSUME Connect(c) \/ Break(c) \/ Retry(c) \/ Joined(c) \/ Stop(c)
          PROVE  batch' = batch /\ NotAhead
        BY <2>1, <2>3, <2>5 DEF Connect, Break, Retry, Joined, Stop
    <2>6. ASSUME Restart(c)  PROVE batch' = batch /\ NotAhead
        <3>1. pc'[c] = Fresh
            BY <2>6 DEF Restart, TypeOK
        <3>. QED BY <2>6, <3>1 DEF Restart, NotAhead, Fresh, Threads
    <2>7. ASSUME NoticeLoss(c) \/ AnswerRaises(c, t)  PROVE batch' = batch /\ NotAhead
        BY <2>1, <2>3, <2>7 DEF NoticeLoss, AnswerRaises, Disconnected
    <2>8. ASSUME NothingToFlush(c, t) \/ WriteRaises(c, t) \/ WriteFails(c, t)
          PROVE  batch' = batch /\ NotAhead
        BY <2>1, <2>8 DEF NothingToFlush, WriteRaises, WriteFails, Writing, After
    <2>9. batch' = batch /\ NotAhead
        BY <1>4, <2>4, <2>5, <2>6, <2>7, <2>8
    <2>. QED BY <2>9, Growth, RowsKept DEF NotAhead
<1>. QED
    BY <1>1, <1>2, <1>3, <1>4 DEF OwnStep, Loop, Handling, Flushing, Replying

LEMMA StoredStep == TypeOK /\ TypeOK' /\ Stored /\ [Next]_vars => Stored'
<1>. SUFFICES ASSUME TypeOK, TypeOK', Stored, [Next]_vars  PROVE Stored'
    OBVIOUS
<1>1. \A x \in Consumers : StoredAt(x)
    BY DEF Stored, StoredAt
<1>2. ASSUME NEW x \in Consumers, SameAt(x), pc'[x] = pc[x],
             \A m \in 1 .. Messages : rows'[m] >= rows[m]
      PROVE  StoredAt(x)'
    BY <1>1, <1>2, RowsKept DEF SameAt, Still
<1>3. ASSUME NEW c \in Consumers, NEW t \in Threads, OwnStep(c, t), NEW x \in Consumers
      PROVE  StoredAt(x)'
    <2>1. CASE x = c
        BY <1>1, <1>3, <2>1, StoredOwnStep
    <2>2. CASE x # c
        <3>1. SameAt(x) /\ pc'[x] = pc[x]
            BY <1>3, <2>2, OthersSame DEF OwnStep
        <3>. QED BY <1>2, <1>3, <3>1, Growth
    <2>. QED BY <2>1, <2>2
<1>4. CASE Quiet
    <2>1. rows' = rows /\ rows \in [1 .. Messages -> Nat]
        BY <1>4 DEF Quiet, Publish, vars, TypeOK
    <2>2. \A m \in 1 .. Messages : rows'[m] >= rows[m]
        BY <2>1
    <2>3. \A x \in Consumers : StoredAt(x)'
        BY <1>2, <1>4, <2>2, QuietSame
    <2>. QED BY <2>3 DEF Stored, StoredAt
<1>5. CASE \E c \in Consumers, t \in Threads : OwnStep(c, t)
    <2>1. \A x \in Consumers : StoredAt(x)'
        BY <1>3, <1>5
    <2>. QED BY <2>1 DEF Stored, StoredAt
<1>. QED BY <1>4, <1>5, StepKinds

-----------------------------------------------------------------------------
(* What is no longer waiting has its row, or was dropped for a reason.       *)

Accounted(m) ==
    \/ rows[m] > 0
    \/ kind[m] = "deleted"
    \/ kind[m] \in {"garbage", "odd"} /\ m \in rejected

\* A lost channel, and a nack, put back what they take.
LEMMA PutBack ==
    ASSUME TypeOK, NEW c \in Consumers, NEW m,
           \/ LoseChannel(c)
           \/ \E D \in SUBSET unacked[c] : Requeue(c, D),
           \/ m \in ready
           \/ m \in MessagesOf(unacked[c])
    PROVE  m \in ready' \/ m \in MessagesOf(unacked'[c])
<1>1. CASE LoseChannel(c)
    BY <1>1 DEF LoseChannel
<1>2. ASSUME NEW D \in SUBSET unacked[c], Requeue(c, D)
      PROVE  m \in ready' \/ m \in MessagesOf(unacked'[c])
    BY <1>2 DEF Requeue, MessagesOf, TypeOK
<1>. QED BY <1>1, <1>2

\* An ack with no old tag takes rows that are stored.
LEMMA AckedIsStored ==
    ASSUME TypeOK, NEW c \in Consumers, NEW t \in Threads,
           LinkedAt(c), InOrderAt(c), StoredAt(c),
           pc[c][t] = "ack", Answered(c), ~Stale(c),
           NEW d \in Covered(c, LastTag(c))
    PROVE  rows[d.msg] > 0
<1>1. /\ d \in unacked[c] /\ d.tag <= LastTag(c) /\ d.tag \in Nat
      /\ batch[c] # <<>> /\ Placed(c) /\ Increasing(c)
    BY DeliveriesTyped DEF Covered, Answered, InOrderAt
<1>2. Len(batch[c]) \in Recent(c) /\ LastTag(c) \in Nat
    <2>1. Len(batch[c]) \in DOMAIN batch[c]
        BY <1>1, DeliveriesTyped
    <2>2. kept[c] < Len(batch[c])
        BY DeliveriesTyped DEF LinkedAt, Stale
    <2>. QED BY <2>1, <2>2, DeliveriesTyped DEF Recent, LastTag
<1>3. \A j \in DOMAIN buffer[c] : LastTag(c) < buffer[c][j].tag /\ buffer[c][j].tag \in Nat
    BY <1>1, <1>2, DeliveriesTyped DEF Increasing, LastTag
<1>4. PICK i \in Recent(c) : d = batch[c][i]
    BY <1>1, <1>2, <1>3 DEF Placed
<1>. QED BY <1>4 DEF Recent, StoredAt

\* A consumer's step forgets a delivery only if it is accounted for.
LEMMA AnsweredFor ==
    ASSUME TypeOK, NEW c \in Consumers, NEW t \in Threads, OwnStep(c, t),
           LinkedAt(c), InOrderAt(c), StoredAt(c), ~misacked', NEW m,
           m \in ready \/ m \in MessagesOf(unacked[c])
    PROVE  \/ m \in ready' \/ m \in MessagesOf(unacked'[c])
           \/ Accounted(m)'
<1>. DEFINE Stays == m \in ready' \/ m \in MessagesOf(unacked'[c])
<1>1. UNCHANGED <<ready, unacked>> => Stays
    OBVIOUS
<1>2. ASSUME NEW D, Settle(c, D), \A d \in D \cap unacked[c] : Accounted(d.msg)'
      PROVE  Stays \/ Accounted(m)'
    BY <1>2 DEF Settle, MessagesOf, TypeOK
<1>3. ASSUME LoseChannel(c) \/ \E D \in SUBSET unacked[c] : Requeue(c, D)  PROVE Stays
    BY <1>3, PutBack
<1>4. CASE Deliver(c)
    BY <1>4 DEF Deliver, MessagesOf, TypeOK
<1>5. CASE Skip(c)
    BY <1>2, <1>5 DEF Skip, Answering, Receiving, Accounted
<1>6. CASE Reject(c)
    <2>1. PICK d : /\ kind[d.msg] \in {"garbage", "odd"} /\ kind' = kind
                   /\ Settle(c, {d}) /\ rejected' = rejected \cup MessagesOf({d} \cap unacked[c])
        BY <1>6 DEF Reject, Answering, Receiving
    <2>2. \A e \in {d} \cap unacked[c] : Accounted(e.msg)'
        BY <2>1 DEF Accounted, MessagesOf
    <2>. QED BY <1>2, <2>1, <2>2
<1>7. CASE RequeueOnce(c)
    BY <1>3, <1>7 DEF RequeueOnce
<1>8. ASSUME Ack(c, t) \/ Nack(c, t), ~Answered(c)  PROVE Stays
    <2>1. NotAnswered(c)
        BY <1>8 DEF Ack, Nack
    <2>. QED BY <1>1, <1>3, <2>1 DEF NotAnswered, link
<1>9. ASSUME Ack(c, t), Answered(c)  PROVE Stays \/ Accounted(m)'
    <2>1. pc[c][t] = "ack" /\ ~Stale(c)
        BY <1>9 DEF Ack
    <2>2. Settle(c, Covered(c, LastTag(c))) /\ rows' = rows
        BY <1>9 DEF Ack, Flushed
    <2>3. \A d \in Covered(c, LastTag(c)) : rows[d.msg] > 0
        BY <1>9, <2>1, AckedIsStored
    <2>. QED BY <1>2, <2>2, <2>3 DEF Accounted
<1>10. ASSUME Nack(c, t), Answered(c)  PROVE Stays
    <2>1. Covered(c, LastTag(c)) \in SUBSET unacked[c]
        BY DEF Covered
    <2>. QED BY <1>3, <1>10, <2>1 DEF Nack
<1>11. ASSUME Exit(c) \/ Crash(c) \/ Drop(c)  PROVE Stays
    BY <1>3, <1>11 DEF Exit, Crash, Drop, Terminate
<1>12. ASSUME \/ Connect(c) \/ Collect(c) \/ Break(c) \/ NoticeLoss(c) \/ Retry(c)
              \/ Joined(c) \/ Restart(c) \/ Stop(c) \/ AnswerRaises(c, t)
              \/ Flushing(c, t) \/ WriteFails(c, t)
       PROVE  Stays
    <2>1. UNCHANGED <<ready, unacked>>
        BY <1>12 DEF Connect, Collect, Break, NoticeLoss, Retry, Joined, Restart, Stop,
                     AnswerRaises, Disconnected, Flushing, NothingToFlush, Write,
                     WriteRaises, WriteFails, Writing, queue, link
    <2>. QED BY <1>1, <2>1
<1>. QED
    BY <1>4, <1>5, <1>6, <1>7, <1>8, <1>9, <1>10, <1>11, <1>12
    DEF OwnStep, Loop, Handling, Replying

LEMMA LostStep ==
    ASSUME TypeOK, TypeOK', Linked, InOrder, Stored, NothingLost, [Next]_vars
    PROVE  NothingLost'
<1>1. \A x \in Consumers : LinkedAt(x) /\ InOrderAt(x) /\ StoredAt(x)
    BY LinkedParts DEF InOrder, InOrderAt, Stored, StoredAt
<1>2. SUFFICES ASSUME ~misacked', NEW m \in Published'
               PROVE  Waiting(m)' \/ Accounted(m)'
    BY DEF NothingLost, Accounted
<1>3. CASE Quiet
    <2>1. CASE Publish
        <3>1. /\ ~misacked /\ rows' = rows /\ rejected' = rejected /\ unacked' = unacked
              /\ ready' = ready \cup {Len(kind) + 1}
            BY <1>2, <2>1 DEF Publish, link
        <3>2. /\ m \in Published \/ m = Len(kind) + 1
              /\ m \in Published => kind'[m] = kind[m]
            <4>1. PICK k \in Kinds : kind' = Append(kind, k)
                BY <2>1 DEF Publish
            <4>2. kind \in Seq(Kinds) /\ m \in DOMAIN kind'
                BY <1>2 DEF TypeOK, Published
            <4>. QED BY <4>1, <4>2 DEF Published
        <3>3. m \in Published => Waiting(m) \/ Accounted(m)
            BY <3>1 DEF NothingLost, Accounted
        <3>. QED BY <3>1, <3>2, <3>3 DEF Waiting, Accounted
    <2>2. CASE UNCHANGED vars
        <3>1. /\ ~misacked /\ rows' = rows /\ rejected' = rejected /\ unacked' = unacked
              /\ ready' = ready /\ kind' = kind /\ m \in Published
            BY <1>2, <2>2 DEF vars, queue, link, Published
        <3>2. Waiting(m) \/ Accounted(m)
            BY <3>1 DEF NothingLost, Accounted
        <3>. QED BY <3>1, <3>2 DEF Waiting, Accounted
    <2>. QED BY <1>3, <2>1, <2>2 DEF Quiet
<1>4. ASSUME NEW c \in Consumers, NEW t \in Threads, OwnStep(c, t)
      PROVE  Waiting(m)' \/ Accounted(m)'
    <2>1. /\ kind' = kind /\ rejected \subseteq rejected' /\ ~misacked
          /\ \A n \in 1 .. Messages : rows'[n] >= rows[n]
        BY <1>2, <1>4, Growth
    <2>2. m \in Published /\ m \in 1 .. Messages
        BY <1>2, <2>1, PublishedRange DEF Published
    <2>3. CASE Accounted(m)
        <3>1. rows[m] \in Nat /\ rows'[m] \in Nat /\ rows'[m] >= rows[m]
            BY <2>1, <2>2 DEF TypeOK
        <3>2. rows[m] > 0 => rows'[m] > 0
            BY <3>1
        <3>. QED BY <2>1, <2>3, <3>2 DEF Accounted
    <2>4. CASE \E x \in Consumers : x # c /\ m \in MessagesOf(unacked[x])
        <3>1. PICK x \in Consumers : x # c /\ m \in MessagesOf(unacked[x])
            BY <2>4
        <3>2. unacked'[x] = unacked[x]
            BY <1>4, <3>1, OthersSame DEF OwnStep, SameAt, Still
        <3>. QED BY <3>1, <3>2 DEF Waiting, MessagesOf
    <2>5. CASE m \in ready \/ m \in MessagesOf(unacked[c])
        <3>1. \/ m \in ready' \/ m \in MessagesOf(unacked'[c])
              \/ Accounted(m)'
            BY <1>1, <1>2, <1>4, <2>5, AnsweredFor
        <3>. QED BY <3>1 DEF Waiting, MessagesOf
    <2>6. Waiting(m) \/ Accounted(m)
        BY <2>1, <2>2 DEF NothingLost, Accounted
    <2>. QED BY <2>3, <2>4, <2>5, <2>6 DEF Waiting
<1>. QED BY <1>3, <1>4, StepKinds

-----------------------------------------------------------------------------

LEMMA DeliveriesStart == Init => InOrder /\ Stored /\ NothingLost
<1>. SUFFICES ASSUME Init  PROVE InOrder /\ Stored /\ NothingLost
    OBVIOUS
<1>1. InOrder
    BY DEF Init, InOrder
<1>2. Stored
    BY DEF Init, Stored, Fresh, Threads
<1>3. NothingLost
    BY DEF Init, NothingLost, Published
<1>. QED BY <1>1, <1>2, <1>3

\* NothingIsLost: whatever connections, inserts and processes do, a published
\* message waits at the broker, has a row or was dropped for a reason, unless
\* stop() acked with a tag of a channel that was gone.
THEOREM NothingIsLost == Spec => []NothingLost
<1>. DEFINE Inv == TypeOK /\ Linked /\ InOrder /\ Stored /\ NothingLost
<1>1. Init => Inv
    BY TypeStart, LinkStart, DeliveriesStart
<1>2. Inv /\ [Next]_vars => Inv'
    <2>. SUFFICES ASSUME Inv, [Next]_vars  PROVE Inv'
        OBVIOUS
    <2>1. TypeOK'
        BY TypeStep
    <2>2. Linked' /\ InOrder'
        BY LinkStep, OrderStep
    <2>3. Stored'
        BY <2>1, StoredStep
    <2>4. NothingLost'
        BY <2>1, LostStep
    <2>. QED BY <2>1, <2>2, <2>3, <2>4
<1>. QED BY <1>1, <1>2, PTL DEF Spec

-----------------------------------------------------------------------------
(* How often a message is in a batch or a buffer.                           *)

LEMMA OccursFinite ==
    ASSUME NEW q \in Seq(Delivery), NEW m
    PROVE  IsFiniteSet({i \in DOMAIN q : q[i].msg = m})
<1>1. IsFiniteSet(1 .. Len(q))
    BY FS_Interval
<1>. QED BY <1>1, FS_Subset

LEMMA OccursNowhere == \A m : Occurrences(<<>>, m) = 0
BY FS_EmptySet DEF Occurrences

LEMMA OccursAppend ==
    ASSUME NEW q \in Seq(Delivery), NEW d \in Delivery, NEW m
    PROVE  Occurrences(Append(q, d), m) = Occurrences(q, m) + IF d.msg = m THEN 1 ELSE 0
<1>. DEFINE At(r) == {i \in DOMAIN r : r[i].msg = m}
<1>1. IsFiniteSet(At(q)) /\ Cardinality(At(q)) \in Nat
    BY OccursFinite, FS_CardinalityType
<1>2. Len(q) + 1 \notin At(q)
    OBVIOUS
<1>3. /\ Occurrences(q, m) = Cardinality(At(q))
      /\ Occurrences(Append(q, d), m) = Cardinality(At(Append(q, d)))
    BY DEF Occurrences
<1>4. At(Append(q, d)) = IF d.msg = m THEN At(q) \cup {Len(q) + 1} ELSE At(q)
    OBVIOUS
<1>5. Cardinality(At(q) \cup {Len(q) + 1}) = Cardinality(At(q)) + 1
    BY <1>1, <1>2, FS_AddElement
<1>. HIDE DEF At
<1>. QED BY <1>1, <1>3, <1>4, <1>5

LEMMA OccursTail ==
    ASSUME NEW q \in Seq(Delivery), q # <<>>, NEW m
    PROVE  Occurrences(q, m) = Occurrences(Tail(q), m) + IF Head(q).msg = m THEN 1 ELSE 0
<1>. DEFINE At(r) == {i \in DOMAIN r : r[i].msg = m}
            S == At(q) \ {1}
            f == [i \in At(Tail(q)) |-> i + 1]
<1>1. /\ Tail(q) \in Seq(Delivery) /\ Len(q) \in Nat
      /\ DOMAIN q = 1 .. Len(q) /\ DOMAIN Tail(q) = 1 .. Len(q) - 1
      /\ \A j \in DOMAIN Tail(q) : j + 1 \in DOMAIN q /\ Tail(q)[j] = q[j + 1]
      /\ 1 \in DOMAIN q /\ q[1] = Head(q)
      /\ \A k \in DOMAIN q : k # 1 => k - 1 \in DOMAIN Tail(q) /\ Tail(q)[k - 1] = q[k]
    BY TailOf
<1>2. /\ IsFiniteSet(At(q)) /\ Cardinality(At(q)) \in Nat
      /\ IsFiniteSet(At(Tail(q))) /\ Cardinality(At(Tail(q))) \in Nat
    BY <1>1, OccursFinite, FS_CardinalityType
<1>3. f \in Bijection(At(Tail(q)), S)
    <2>1. \A i \in At(Tail(q)) : i \in Nat /\ i + 1 \in S
        BY <1>1
    <2>2. \A k \in S : k - 1 \in At(Tail(q)) /\ k \in Nat
        BY <1>1
    <2>. HIDE DEF S, At
    <2>3. f \in [At(Tail(q)) -> S]
        BY <2>1
    <2>4. \A i, j \in At(Tail(q)) : f[i] = f[j] => i = j
        BY <2>1
    <2>5. \A k \in S : f[k - 1] = k
        BY <2>2
    <2>6. \A k \in S : \E i \in At(Tail(q)) : f[i] = k
        BY <2>2, <2>5
    <2>. HIDE DEF f
    <2>. QED BY <2>3, <2>4, <2>6, Fun_IsBij
<1>4. Cardinality(S) = Cardinality(At(Tail(q)))
    <2>1. ExistsBijection(At(Tail(q)), S)
        BY <1>3 DEF ExistsBijection
    <2>. QED BY <1>2, <2>1, FS_Bijection
<1>5. Cardinality(At(q)) = Cardinality(S) + IF 1 \in At(q) THEN 1 ELSE 0
    <2>. HIDE DEF At
    <2>1. Cardinality(S) = IF 1 \in At(q) THEN Cardinality(At(q)) - 1 ELSE Cardinality(At(q))
        BY <1>2, FS_RemoveElement
    <2>. HIDE DEF S
    <2>. QED BY <1>2, <2>1
<1>6. 1 \in At(q) <=> Head(q).msg = m
    BY <1>1
<1>7. /\ Occurrences(q, m) = Cardinality(At(q))
      /\ Occurrences(Tail(q), m) = Cardinality(At(Tail(q)))
    BY DEF Occurrences
<1>. HIDE DEF At, S, f
<1>. QED BY <1>2, <1>4, <1>5, <1>6, <1>7

-----------------------------------------------------------------------------
(* A message is held once.                                                  *)

\* Among the queue and all channels, a message is in one place.
HeldOnce ==
    /\ \A x \in Consumers : \A d \in unacked[x] : d.msg \notin ready
    /\ \A x, y \in Consumers : \A d \in unacked[x], e \in unacked[y] :
          d.msg = e.msg => x = y /\ d = e

\* Some deliveries end, and some of their messages go back to the queue.
Returned(c) ==
    \E D \in SUBSET unacked[c] : \E E \in SUBSET D :
        /\ unacked' = [unacked EXCEPT ![c] = @ \ D]
        /\ ready' = ready \cup MessagesOf(E)

Handed(c) ==
    \E d : /\ d.msg \in ready /\ d.tag = nextTag[c]
           /\ unacked' = [unacked EXCEPT ![c] = @ \cup {d}]
           /\ buffer' = [buffer EXCEPT ![c] = Append(@, d)]
           /\ ready' = ready \ {d.msg}
           /\ d \in Delivery

LEMMA DeliverHands == ASSUME TypeOK, NEW c \in Consumers, Deliver(c)  PROVE Handed(c)
<1>1. PICK m \in ready :
          LET d == [tag |-> nextTag[c], msg |-> m]
          IN  /\ unacked' = [unacked EXCEPT ![c] = @ \cup {d}]
              /\ buffer' = [buffer EXCEPT ![c] = Append(@, d)]
              /\ ready' = ready \ {m}
    BY DEF Deliver
<1>2. m \in 1 .. Messages /\ nextTag[c] \in Nat
    BY <1>1, PublishedRange DEF TypeOK
<1>. DEFINE d == [tag |-> nextTag[c], msg |-> m]
<1>3. d \in Delivery /\ d.tag = nextTag[c] /\ d.msg = m
    BY <1>2 DEF Delivery
<1>4. /\ unacked' = [unacked EXCEPT ![c] = @ \cup {d}]
      /\ buffer' = [buffer EXCEPT ![c] = Append(@, d)]
      /\ ready' = ready \ {m}
    BY <1>1
<1>. HIDE DEF d
<1>. QED BY <1>1, <1>3, <1>4 DEF Handed

LEMMA BrokerSteps ==
    ASSUME TypeOK, NEW c \in Consumers, NEW t \in Threads, OwnStep(c, t)
    PROVE  Returned(c) \/ Handed(c)
<1>1. CASE Deliver(c)
    BY <1>1, DeliverHands
<1>2. ASSUME ready' = ready, unacked' = unacked  PROVE Returned(c)
    <2>1. /\ unacked' = [unacked EXCEPT ![c] = @ \ {}] /\ ready' = ready \cup MessagesOf({})
          /\ {} \in SUBSET unacked[c] /\ {} \in SUBSET {}
        BY <1>2 DEF TypeOK, MessagesOf
    <2>. QED BY <2>1 DEF Returned
<1>3. ASSUME NEW D, Settle(c, D)  PROVE Returned(c)
    <2>1. /\ unacked' = [unacked EXCEPT ![c] = @ \ (D \cap unacked[c])]
          /\ ready' = ready \cup MessagesOf({})
          /\ D \cap unacked[c] \in SUBSET unacked[c] /\ {} \in SUBSET (D \cap unacked[c])
        BY <1>3 DEF Settle, MessagesOf, TypeOK
    <2>. QED BY <2>1 DEF Returned
<1>4. ASSUME NEW D \in SUBSET unacked[c], Requeue(c, D)  PROVE Returned(c)
    BY <1>4 DEF Requeue, Returned
<1>5. ASSUME LoseChannel(c)  PROVE Returned(c)
    <2>1. unacked' = [unacked EXCEPT ![c] = @ \ unacked[c]]
        BY <1>5 DEF LoseChannel, TypeOK
    <2>. QED BY <1>5, <2>1 DEF LoseChannel, Returned
<1>6. CASE Skip(c) \/ Reject(c) \/ RequeueOnce(c)
    BY <1>3, <1>4, <1>6 DEF Skip, Reject, RequeueOnce
<1>7. CASE Ack(c, t) \/ Nack(c, t)
    <2>1. Covered(c, LastTag(c)) \in SUBSET unacked[c]
        BY DEF Covered
    <2>2. CASE Answered(c)
        BY <1>3, <1>4, <1>7, <2>1, <2>2 DEF Ack, Nack
    <2>3. CASE ~Answered(c)
        BY <1>2, <1>5, <1>7, <2>3 DEF Ack, Nack, NotAnswered, link
    <2>. QED BY <2>2, <2>3
<1>8. CASE Exit(c) \/ Crash(c) \/ Drop(c)
    BY <1>5, <1>8 DEF Exit, Crash, Drop, Terminate
<1>9. CASE \/ Connect(c) \/ Collect(c) \/ Break(c) \/ NoticeLoss(c) \/ Retry(c)
           \/ Joined(c) \/ Restart(c) \/ Stop(c) \/ AnswerRaises(c, t)
           \/ Flushing(c, t) \/ WriteFails(c, t)
    <2>1. ready' = ready /\ unacked' = unacked
        BY <1>9 DEF Connect, Collect, Break, NoticeLoss, Retry, Joined, Restart, Stop,
                    AnswerRaises, Disconnected, Flushing, NothingToFlush, Write,
                    WriteRaises, WriteFails, Writing, queue, link
    <2>. QED BY <1>2, <2>1
<1>. QED
    BY <1>1, <1>6, <1>7, <1>8, <1>9 DEF OwnStep, Loop, Handling, Replying

LEMMA HeldOnceStep == TypeOK /\ HeldOnce /\ [Next]_vars => HeldOnce'
<1>. SUFFICES ASSUME TypeOK, HeldOnce, [Next]_vars  PROVE HeldOnce'
    OBVIOUS
<1>1. CASE Quiet
    <2>1. CASE UNCHANGED vars
        BY <2>1 DEF vars, queue, link, HeldOnce
    <2>2. CASE Publish
        <3>1. unacked' = unacked /\ ready' = ready \cup {Len(kind) + 1}
            BY <2>2 DEF Publish, link
        <3>2. \A x \in Consumers : \A d \in unacked[x] : d.msg # Len(kind) + 1
            <4>1. \A x \in Consumers : \A d \in unacked[x] : d.msg \in Published
                BY DEF TypeOK, MessagesOf
            <4>2. Published = 1 .. Len(kind) /\ Len(kind) \in Nat
                BY PublishedRange DEF TypeOK
            <4>. QED BY <4>1, <4>2
        <3>. QED BY <3>1, <3>2 DEF HeldOnce
    <2>. QED BY <1>1, <2>1, <2>2 DEF Quiet
<1>2. ASSUME NEW c \in Consumers, NEW t \in Threads, OwnStep(c, t)  PROVE HeldOnce'
    <2>1. CASE Returned(c)
        <3>1. PICK D \in SUBSET unacked[c] : \E E \in SUBSET D :
                  /\ unacked' = [unacked EXCEPT ![c] = @ \ D]
                  /\ ready' = ready \cup MessagesOf(E)
            BY <2>1 DEF Returned
        <3>. PICK E \in SUBSET D : ready' = ready \cup MessagesOf(E)
            BY <3>1
        <3>2. /\ unacked'[c] = unacked[c] \ D
              /\ \A x \in Consumers : unacked'[x] \subseteq unacked[x]
            BY <3>1 DEF TypeOK
        <3>3. \A x \in Consumers : \A d \in unacked'[x] : d.msg \notin MessagesOf(E)
            BY <3>2 DEF MessagesOf, HeldOnce
        <3>. QED BY <3>1, <3>2, <3>3 DEF HeldOnce
    <2>2. CASE Handed(c)
        <3>1. PICK d : /\ d.msg \in ready /\ ready' = ready \ {d.msg}
                       /\ unacked' = [unacked EXCEPT ![c] = @ \cup {d}]
            BY <2>2 DEF Handed
        <3>2. /\ unacked'[c] = unacked[c] \cup {d}
              /\ \A x \in Consumers : x # c => unacked'[x] = unacked[x]
            BY <3>1 DEF TypeOK
        <3>3. \A x \in Consumers : \A e \in unacked[x] : e.msg # d.msg
            BY <3>1 DEF HeldOnce
        <3>. QED BY <3>1, <3>2, <3>3 DEF HeldOnce
    <2>. QED BY <1>2, <2>1, <2>2, BrokerSteps
<1>. QED BY <1>1, <1>2, StepKinds

-----------------------------------------------------------------------------
(* What a consumer holds of an open channel.                                *)

LiveAt(x) ==
    /\ open[x] => connected[x]
    /\ ~connected[x] => buffer[x] = <<>>
    /\ running[x] <=> pc[x].main = "serve"
    /\ pc[x].loop = "dead" => batch[x] = <<>>
    /\ open[x] /\ running[x] => \A j \in DOMAIN buffer[x] : buffer[x][j] \in unacked[x]
    /\ open[x] => \A i \in Recent(x) : batch[x][i] \in unacked[x]
    /\ open[x] /\ running[x] /\ pc[x].loop \in {"flush", "ack", "nack"} =>
          Len(batch[x]) \in Recent(x)
    /\ open[x] /\ pc[x].main = "exit" => Recent(x) = {}

Live == \A x \in Consumers : LiveAt(x)

\* While it runs, only the loop is at work.
LEMMA LoopOnly ==
    ASSUME TypeOK, NEW c \in Consumers, NEW t \in Threads, LiveAt(c), running[c],
           pc[c][t] \in {"flush", "ack", "nack"}
    PROVE  t = "loop"
BY DEF LiveAt, Threads

\* An open channel knows the last tag of a batch the running loop flushes, and
\* of any batch with a recent entry.
LEMMA LastIsKnown ==
    ASSUME TypeOK, NEW c \in Consumers, LinkedAt(c), LiveAt(c), open[c],
           Recent(c) # {} \/ (running[c] /\ pc[c].loop \in {"flush", "ack", "nack"})
    PROVE  Answered(c) /\ Len(batch[c]) \in Recent(c)
<1>1. PICK i : i \in Recent(c)
    BY DEF LiveAt
<1>2. /\ i \in DOMAIN batch[c] /\ i > kept[c] /\ batch[c] \in Seq(Delivery) /\ kept[c] \in Nat
    BY <1>1, DeliveriesTyped DEF Recent
<1>3. Len(batch[c]) \in DOMAIN batch[c] /\ Len(batch[c]) > kept[c] /\ batch[c] # <<>>
    BY <1>2
<1>4. Len(batch[c]) \in Recent(c)
    BY <1>3 DEF Recent
<1>5. batch[c][Len(batch[c])] \in unacked[c]
    BY <1>4 DEF LiveAt
<1>. QED BY <1>3, <1>4, <1>5 DEF Answered, Known, LastTag

\* An answer leaves the deliveries that are still buffered outstanding.
LEMMA BufferIsAhead ==
    ASSUME TypeOK, NEW c \in Consumers, LinkedAt(c), InOrderAt(c), LiveAt(c), open[c],
           Len(batch[c]) \in Recent(c), NEW j \in DOMAIN buffer[c]
    PROVE  buffer[c][j] \notin Covered(c, LastTag(c))
<1>1. batch[c][Len(batch[c])].tag < buffer[c][j].tag
    BY DEF InOrderAt, Increasing
<1>2. batch[c][Len(batch[c])].tag \in Nat /\ buffer[c][j].tag \in Nat
    BY DeliveriesTyped DEF Recent
<1>. QED BY <1>1, <1>2 DEF Covered, LastTag

LEMMA LiveAnswering ==
    ASSUME TypeOK, NEW c \in Consumers, InOrderAt(c), LiveAt(c),
           Skip(c) \/ Reject(c) \/ RequeueOnce(c)
    PROVE  LiveAt(c)'
<1>. DEFINE q == buffer[c]
<1>1. /\ q # <<>> /\ buffer'[c] = Tail(q) /\ running[c] /\ pc[c].loop = "consume"
      /\ batch'[c] = batch[c] /\ Recent(c)' = Recent(c)
      /\ UNCHANGED <<pc, running, connected>>
    BY DEF Skip, Reject, RequeueOnce, Answering, Receiving, TypeOK, Recent
<1>2. open'[c] = open[c] /\ unacked'[c] = unacked[c] \ {Head(q)}
    BY DEF Skip, Reject, RequeueOnce, Settle, Requeue, TypeOK
<1>3. /\ q \in Seq(Delivery) /\ Len(q) \in Nat
      /\ DOMAIN q = 1 .. Len(q) /\ DOMAIN Tail(q) = 1 .. Len(q) - 1
      /\ \A j \in DOMAIN Tail(q) : j + 1 \in DOMAIN q /\ Tail(q)[j] = q[j + 1]
      /\ 1 \in DOMAIN q /\ q[1] = Head(q)
    BY <1>1, TailOf, DeliveriesTyped
<1>4. SUFFICES ASSUME open[c]
               PROVE  /\ \A j \in DOMAIN Tail(q) : Tail(q)[j] \in unacked'[c]
                      /\ \A i \in Recent(c) : batch[c][i] \in unacked'[c]
    BY <1>1, <1>2 DEF LiveAt
<1>5. Increasing(c)
    BY <1>4 DEF InOrderAt
<1>6. ASSUME NEW j \in DOMAIN Tail(q)  PROVE Tail(q)[j] \in unacked'[c]
    <2>1. q[1].tag < q[j + 1].tag /\ q[1].tag \in Nat
        BY <1>3, <1>5, DeliveriesTyped DEF Increasing
    <2>2. Tail(q)[j] # Head(q)
        BY <1>3, <2>1
    <2>3. q[j + 1] \in unacked[c]
        BY <1>1, <1>3, <1>4 DEF LiveAt
    <2>. QED BY <1>2, <1>3, <2>2, <2>3
<1>7. ASSUME NEW i \in Recent(c)  PROVE batch[c][i] \in unacked'[c]
    <2>1. batch[c][i].tag < q[1].tag /\ q[1].tag \in Nat
        BY <1>3, <1>5, DeliveriesTyped DEF Increasing
    <2>2. batch[c][i] # Head(q)
        BY <1>3, <2>1
    <2>. QED BY <1>2, <1>4, <2>2 DEF LiveAt
<1>. QED BY <1>6, <1>7

LEMMA LiveCollect ==
    ASSUME TypeOK, NEW c \in Consumers, LinkedAt(c), LiveAt(c), Collect(c)
    PROVE  LiveAt(c)'
<1>. DEFINE q == buffer[c]
            b == batch[c]
            n == Len(b) + 1
<1>1. /\ q # <<>> /\ buffer'[c] = Tail(q) /\ running[c] /\ pc[c].loop = "consume"
      /\ batch'[c] = Append(b, Head(q)) /\ kept'[c] = kept[c]
      /\ UNCHANGED <<open, unacked, running, connected>>
      /\ pc'[c].main = pc[c].main /\ pc'[c].loop \in {"consume", "flush"}
    BY DEF Collect, Receiving, TypeOK, link, Go, Threads
<1>2. /\ DOMAIN Tail(q) = 1 .. Len(q) - 1
      /\ \A j \in DOMAIN Tail(q) : j + 1 \in DOMAIN q /\ Tail(q)[j] = q[j + 1]
      /\ 1 \in DOMAIN q /\ q[1] = Head(q)
    BY <1>1, TailOf, DeliveriesTyped
<1>3. /\ DOMAIN b = 1 .. n - 1 /\ DOMAIN batch'[c] = 1 .. n /\ Len(batch'[c]) = n
      /\ n \in Nat /\ kept[c] \in Nat /\ kept[c] < n
      /\ \A i \in DOMAIN b : batch'[c][i] = b[i]
      /\ batch'[c][n] = q[1]
    BY <1>1, <1>2, DeliveriesTyped DEF LinkedAt
<1>4. /\ Recent(c) = {i \in DOMAIN b : i > kept[c]}
      /\ Recent(c)' = {i \in DOMAIN batch'[c] : i > kept[c]}
    BY <1>1 DEF Recent
<1>5. pc[c].main = "serve" /\ (open[c] => \A j \in DOMAIN q : q[j] \in unacked[c])
    BY <1>1 DEF LiveAt
<1>6. open[c] => \A i \in Recent(c) : b[i] \in unacked[c]
    BY DEF LiveAt
<1>. HIDE DEF q, b, n
<1>7. Recent(c)' = Recent(c) \cup {n} /\ \A i \in Recent(c) : batch'[c][i] = b[i]
    BY <1>3, <1>4
<1>8. open[c] => /\ \A j \in DOMAIN Tail(q) : Tail(q)[j] \in unacked[c]
                 /\ \A i \in Recent(c)' : batch'[c][i] \in unacked[c]
    BY <1>2, <1>3, <1>5, <1>6, <1>7
<1>9. connected[c]
    BY <1>1 DEF LiveAt, q
<1>. QED BY <1>1, <1>3, <1>5, <1>7, <1>8, <1>9 DEF LiveAt

LEMMA LiveReplying ==
    ASSUME TypeOK, NEW c \in Consumers, NEW t \in Threads, LinkedAt(c), InOrderAt(c),
           LiveAt(c), Ack(c, t) \/ Nack(c, t)
    PROVE  LiveAt(c)'
<1>1. /\ batch'[c] = <<>> /\ kept'[c] = 0 /\ buffer'[c] = buffer[c]
      /\ UNCHANGED <<running, connected>> /\ pc[c][t] \in {"ack", "nack"}
      /\ pc' = [pc EXCEPT ![c][t] = After(t)]
    BY DEF Ack, Nack, Flushed, Forget, TypeOK, Go
<1>2. Recent(c)' = {}
    BY <1>1 DEF Recent
<1>3. /\ running[c] => t = "loop"
      /\ pc'[c].main = "serve" <=> pc[c].main = "serve"
      /\ pc'[c].loop = "dead" <=> pc[c].loop = "dead"
      /\ t = "loop" => pc'[c].loop = "consume"
    BY <1>1, LoopOnly DEF TypeOK, Threads, After
<1>4. open'[c] => open[c]
    BY DEF Ack, Nack, Settle, Requeue, NotAnswered, LoseChannel, TypeOK, link
<1>5. ASSUME open'[c], running[c], NEW j \in DOMAIN buffer[c]
      PROVE  buffer[c][j] \in unacked'[c]
    <2>1. Answered(c) /\ Len(batch[c]) \in Recent(c)
        BY <1>1, <1>3, <1>4, <1>5, LastIsKnown
    <2>2. unacked'[c] = unacked[c] \ Covered(c, LastTag(c))
        BY <2>1 DEF Ack, Nack, Settle, Requeue, TypeOK
    <2>3. buffer[c][j] \in unacked[c]
        BY <1>4, <1>5 DEF LiveAt
    <2>. QED BY <1>4, <1>5, <2>1, <2>2, <2>3, BufferIsAhead
<1>6. running'[c] = running[c] /\ connected'[c] = connected[c]
    BY <1>1
<1>. QED BY <1>1, <1>2, <1>3, <1>4, <1>5, <1>6 DEF LiveAt

LEMMA LiveOwnStep ==
    ASSUME TypeOK, NEW c \in Consumers, NEW t \in Threads, LinkedAt(c), InOrderAt(c),
           LiveAt(c), OwnStep(c, t)
    PROVE  LiveAt(c)'
<1>1. CASE Deliver(c)
    <2>1. PICK d : unacked'[c] = unacked[c] \cup {d} /\ buffer'[c] = Append(buffer[c], d)
        BY <1>1 DEF Deliver, TypeOK
    <2>2. /\ UNCHANGED <<open, pc, running, connected, batch, kept>> /\ open[c]
          /\ Recent(c)' = Recent(c)
        BY <1>1 DEF Deliver, Recent
    <2>3. \A j \in DOMAIN buffer'[c] : \/ j \in DOMAIN buffer[c] /\ buffer'[c][j] = buffer[c][j]
                                       \/ buffer'[c][j] = d
        BY <2>1, DeliveriesTyped
    <2>. QED BY <2>1, <2>2, <2>3 DEF LiveAt
<1>2. CASE Connect(c)
    <2>1. /\ buffer'[c] = <<>> /\ kept'[c] = Len(batch'[c]) /\ batch'[c] = batch[c]
          /\ running'[c] = running[c] /\ connected'[c] = TRUE
          /\ pc'[c].loop = "consume" /\ pc'[c].main = pc[c].main
        BY <1>2 DEF Connect, LinkedAt, TypeOK, Go, Threads
    <2>2. Recent(c)' = {}
        BY <2>1, DeliveriesTyped DEF Recent
    <2>. QED BY <2>1, <2>2 DEF LiveAt
<1>3. CASE Collect(c)
    BY <1>3, LiveCollect
<1>4. CASE Skip(c) \/ Reject(c) \/ RequeueOnce(c)
    BY <1>4, LiveAnswering
<1>5. CASE Ack(c, t) \/ Nack(c, t)
    BY <1>5, LiveReplying
<1>6. ASSUME Still(c), running'[c] = running[c], connected'[c] = connected[c],
             pc'[c].main = "serve" <=> pc[c].main = "serve",
             pc'[c].loop = "dead" => pc[c].loop = "dead",
             running[c] /\ open[c] /\ pc'[c].loop \in {"flush", "ack", "nack"} =>
                 pc[c].loop \in {"flush", "ack", "nack"},
             open[c] /\ pc'[c].main = "exit" => pc[c].main = "exit" \/ batch[c] = <<>>
      PROVE  LiveAt(c)'
    <2>1. Recent(c)' = Recent(c) /\ (batch[c] = <<>> => Recent(c) = {})
        BY <1>6 DEF Still, Recent
    <2>. QED BY <1>6, <2>1 DEF LiveAt, Still
<1>7. CASE Break(c) \/ Retry(c)
    BY <1>6, <1>7 DEF Break, Retry, Still, TypeOK, Go, Threads, link
<1>8. CASE NothingToFlush(c, t) \/ Write(c, t) \/ WriteRaises(c, t) \/ WriteFails(c, t)
    <2>1. Still(c) /\ running'[c] = running[c] /\ connected'[c] = connected[c]
        BY <1>8 DEF NothingToFlush, Write, WriteRaises, WriteFails, Writing, Still, link
    <2>2. /\ pc[c][t] = "flush"
          /\ \/ pc' = [pc EXCEPT ![c][t] = After(t)] /\ batch[c] = <<>>
             \/ pc' = [pc EXCEPT ![c][t] = "ack"]
             \/ pc' = [pc EXCEPT ![c][t] = "nack"]
        BY <1>8 DEF NothingToFlush, Write, WriteRaises, WriteFails, Writing, Go
    <2>3. running[c] => t = "loop"
        BY <2>2, LoopOnly
    <2>4. /\ pc'[c].main = "serve" <=> pc[c].main = "serve"
          /\ pc'[c].loop = "dead" => pc[c].loop = "dead"
          /\ pc'[c].main = "exit" => pc[c].main = "exit" \/ batch[c] = <<>>
          /\ running[c] /\ pc'[c].loop \in {"flush", "ack", "nack"} =>
                 pc[c].loop \in {"flush", "ack", "nack"}
        BY <2>2, <2>3 DEF TypeOK, Threads, After
    <2>. QED BY <1>6, <2>1, <2>4
<1>9. CASE Joined(c)
    <2>1. Still(c) /\ running'[c] = running[c] /\ connected'[c] = connected[c]
        BY <1>9 DEF Joined, Still, link
    <2>2. /\ pc'[c].loop = pc[c].loop /\ pc[c].main = "join"
          /\ pc'[c].main = IF connected[c] THEN "flush" ELSE "exit"
        BY <1>9 DEF Joined, Go, TypeOK, Threads
    <2>3. open[c] => pc'[c].main # "exit"
        BY <2>2 DEF LiveAt
    <2>. QED BY <1>6, <2>1, <2>2, <2>3
<1>10. CASE NoticeLoss(c) \/ AnswerRaises(c, t)
    <2>1. /\ ~open'[c] /\ buffer'[c] = <<>> /\ batch'[c] = batch[c] /\ running'[c] = running[c]
          /\ \E u \in Threads : /\ pc[c][u] \in {"consume", "ack", "nack"}
                                /\ pc' = [pc EXCEPT ![c][u] = IF u = "loop" THEN "backoff" ELSE "exit"]
        BY <1>10 DEF NoticeLoss, AnswerRaises, Disconnected, Go, TypeOK, link, Threads
    <2>2. /\ pc'[c].main = "serve" <=> pc[c].main = "serve"
          /\ pc'[c].loop = "dead" => pc[c].loop = "dead"
        BY <2>1 DEF TypeOK, Threads
    <2>. QED BY <2>1, <2>2 DEF LiveAt
<1>11. CASE Restart(c)
    <2>1. /\ pc[c].loop = "dead" /\ pc'[c].loop = "connect" /\ pc'[c].main = "serve"
          /\ running'[c] = TRUE
          /\ UNCHANGED <<open, connected, buffer, batch, kept, unacked>>
        BY <1>11 DEF Restart, TypeOK, Fresh, Dead, link
    <2>2. ~open[c]
        BY <2>1 DEF LinkedAt
    <2>. QED BY <2>1, <2>2 DEF LiveAt
<1>12. CASE Exit(c) \/ Crash(c)
    <2>1. /\ ~open'[c] /\ buffer'[c] = <<>> /\ batch'[c] = <<>> /\ running'[c] = FALSE
          /\ pc'[c].main = "dead"
        BY <1>12 DEF Exit, Crash, Terminate, LoseChannel, TypeOK, Dead
    <2>. QED BY <2>1 DEF LiveAt
<1>13. CASE Drop(c)
    <2>1. /\ ~open'[c]
          /\ UNCHANGED <<buffer, batch, running, connected, pc>>
        BY <1>13 DEF Drop, LoseChannel, client, TypeOK
    <2>. QED BY <2>1 DEF LiveAt
<1>14. CASE Stop(c)
    <2>1. /\ running'[c] = FALSE /\ pc'[c].main = "join" /\ pc'[c].loop = pc[c].loop
          /\ UNCHANGED <<open, unacked, connected, buffer, batch, kept>>
        BY <1>14 DEF Stop, Go, TypeOK, Threads, link
    <2>2. Recent(c)' = Recent(c)
        BY <2>1 DEF Recent
    <2>. QED BY <2>1, <2>2 DEF LiveAt
<1>. QED
    BY <1>1, <1>2, <1>3, <1>4, <1>5, <1>7, <1>8, <1>9, <1>10, <1>11, <1>12, <1>13, <1>14
    DEF OwnStep, Loop, Handling, Flushing, Replying

LEMMA LiveStep == TypeOK /\ Linked /\ InOrder /\ Live /\ [Next]_vars => Live'
<1>. SUFFICES ASSUME TypeOK, Linked, InOrder, Live, [Next]_vars  PROVE Live'
    OBVIOUS
<1>1. \A x \in Consumers : LinkedAt(x) /\ InOrderAt(x) /\ LiveAt(x)
    BY LinkedParts DEF InOrder, InOrderAt, Live
<1>2. ASSUME NEW x \in Consumers, SameAt(x), pc'[x] = pc[x]  PROVE LiveAt(x)'
    <2>1. Recent(x)' = Recent(x)
        BY <1>2 DEF SameAt, Still, Recent
    <2>. QED BY <1>1, <1>2, <2>1 DEF LiveAt, SameAt, Still
<1>3. ASSUME NEW c \in Consumers, NEW t \in Threads, OwnStep(c, t), NEW x \in Consumers
      PROVE  LiveAt(x)'
    <2>1. CASE x = c
        BY <1>1, <1>3, <2>1, LiveOwnStep
    <2>2. CASE x # c
        BY <1>2, <1>3, <2>2, OthersSame DEF OwnStep
    <2>. QED BY <2>1, <2>2
<1>4. \A x \in Consumers : LiveAt(x)'
    BY <1>2, <1>3, StepKinds, QuietSame
<1>. QED BY <1>4 DEF Live

-----------------------------------------------------------------------------
(* How many entries of a message a consumer can hold.                       *)

FaultStep(c, t) == Drop(c) \/ Stop(c) \/ Crash(c) \/ WriteFails(c, t)

LEMMA FaultSteps ==
    ASSUME TypeOK, NEW c \in Consumers, NEW t \in Threads, OwnStep(c, t)
    PROVE  \/ faults' = faults /\ ~FaultStep(c, t)
           \/ faults' = faults + 1 /\ FaultStep(c, t)
<1>1. FaultStep(c, t) => faults' = faults + 1
    BY DEF FaultStep, Drop, Stop, Crash, WriteFails, Inject
<1>2. faults \in Nat /\ faults + 1 # faults
    BY ConstantsAssumption DEF TypeOK
<1>3. ~FaultStep(c, t) => faults' = faults
    <2>1. CASE Deliver(c) \/ Connect(c) \/ Joined(c) \/ Restart(c) \/ Exit(c)
        BY <2>1 DEF Deliver, Connect, Joined, Restart, Exit
    <2>2. CASE Handling(c)
        BY <2>2 DEF Handling, Collect, Skip, Reject, RequeueOnce, Answering
    <2>3. CASE Break(c) \/ NoticeLoss(c) \/ Retry(c) \/ AnswerRaises(c, t)
        BY <2>3 DEF Break, NoticeLoss, Retry, AnswerRaises, Disconnected
    <2>4. CASE Flushing(c, t)
        BY <2>4 DEF Flushing, NothingToFlush, Write, WriteRaises, Writing
    <2>5. CASE Ack(c, t) \/ Nack(c, t)
        BY <2>5 DEF Ack, Nack, Flushed
    <2>. QED BY <2>1, <2>2, <2>3, <2>4, <2>5 DEF OwnStep, FaultStep, Loop, Replying
<1>. QED BY <1>1, <1>2, <1>3

Out(c, m) == IF m \in MessagesOf(unacked[c]) THEN 1 ELSE 0

\* A copy too many has a failure behind it.
FewAt(c, m) ==
    IF running[c]
    THEN Occurrences(batch[c], m) + Occurrences(buffer[c], m) <= faults + Out(c, m)
    ELSE Occurrences(batch[c], m) <= faults

Few == \A c \in Consumers, m \in 1 .. Messages : FewAt(c, m)

LEMMA CountsTyped ==
    ASSUME TypeOK, NEW c \in Consumers, NEW m
    PROVE  /\ Occurrences(batch[c], m) \in Nat /\ Occurrences(buffer[c], m) \in Nat
           /\ Out(c, m) \in Nat /\ Out(c, m) <= 1 /\ faults \in Nat
BY OccurrencesCount, DeliveriesTyped, ConstantsAssumption DEF Out, TypeOK

\* Deliveries that are outstanding, each once and in order, name a message once.
LEMMA OnceInOrder ==
    ASSUME NEW q \in Seq(Delivery), NEW U, NEW m,
           \A j \in DOMAIN q : q[j] \in U,
           \A j, k \in DOMAIN q : j < k => q[j].tag < q[k].tag,
           \A d, e \in U : d.msg = e.msg => d = e
    PROVE  Occurrences(q, m) <= IF m \in MessagesOf(U) THEN 1 ELSE 0
<1>. DEFINE At == {i \in DOMAIN q : q[i].msg = m}
<1>1. \A i \in DOMAIN q : q[i] \in Delivery /\ q[i].tag \in Nat /\ i \in Nat
    <2>1. \A i \in DOMAIN q : q[i] \in Delivery /\ i \in Nat
        OBVIOUS
    <2>2. \A d \in Delivery : d.tag \in Nat
        BY DEF Delivery
    <2>. QED BY <2>1, <2>2
<1>2. \A i, j \in At : i = j
    <2>1. SUFFICES ASSUME NEW i \in At, NEW j \in At, i # j  PROVE FALSE
        OBVIOUS
    <2>2. q[i] = q[j]
        OBVIOUS
    <2>3. (i < j \/ j < i) /\ q[i].tag \in Nat
        BY <1>1, <2>1
    <2>4. ~(q[i].tag < q[j].tag) /\ ~(q[j].tag < q[i].tag)
        BY <2>2, <2>3
    <2>. QED BY <2>3, <2>4
<1>3. Occurrences(q, m) = Cardinality(At)
    BY DEF Occurrences
<1>4. At # {} => m \in MessagesOf(U)
    BY DEF MessagesOf
<1>6. ASSUME NEW i \in At  PROVE At = {i}
    BY <1>2
<1>. HIDE DEF At
<1>5. CASE At = {}
    BY <1>3, <1>5, FS_EmptySet
<1>7. CASE At # {}
    <2>1. PICK i : At = {i}
        BY <1>6, <1>7
    <2>2. Cardinality(At) = 1
        BY <2>1, FS_Singleton
    <2>. QED BY <1>3, <1>4, <1>7, <2>2
<1>. QED BY <1>5, <1>7

LEMMA FewOwnStep ==
    ASSUME TypeOK, TypeOK', NEW c \in Consumers, NEW t \in Threads, NEW m \in 1 .. Messages,
           LinkedAt(c), LinkedAt(c)', InOrderAt(c), InOrderAt(c)', LiveAt(c), LiveAt(c)',
           HeldOnce, HeldOnce', FewAt(c, m), OwnStep(c, t)
    PROVE  FewAt(c, m)'
<1>. DEFINE inBatch  == Occurrences(batch[c], m)
            inBatchN == Occurrences(batch'[c], m)
            inBuffer  == Occurrences(buffer[c], m)
            inBufferN == Occurrences(buffer'[c], m)
            out  == Out(c, m)
            outN == Out(c, m)'
            faultsN == faults'
<1>1. /\ inBatch \in Nat /\ inBuffer \in Nat /\ out \in Nat /\ out <= 1 /\ faults \in Nat
      /\ inBatchN \in Nat /\ inBufferN \in Nat /\ outN \in Nat /\ outN <= 1 /\ faultsN \in Nat
    <2>1. buffer'[c] \in Seq(Delivery) /\ batch'[c] \in Seq(Delivery)
        BY DEF TypeOK
    <2>2. inBatchN \in Nat /\ inBufferN \in Nat
        BY <2>1, OccurrencesCount
    <2>3. outN \in Nat /\ outN <= 1
        BY DEF Out
    <2>4. faultsN \in Nat
        BY ConstantsAssumption DEF TypeOK
    <2>. QED BY <2>2, <2>3, <2>4, CountsTyped
<1>2. /\ running[c] => inBatch + inBuffer <= faults + out
      /\ ~running[c] => inBatch <= faults
      /\ running'[c] /\ inBatchN + inBufferN <= faultsN + outN => FewAt(c, m)'
      /\ ~running'[c] /\ inBatchN <= faultsN => FewAt(c, m)'
    BY DEF FewAt
<1>3. faultsN >= faults /\ (FaultStep(c, t) => faultsN = faults + 1)
    BY <1>1, FaultSteps
<1>4. /\ unacked'[c] = unacked[c] => outN = out
      /\ batch'[c] = batch[c] => inBatchN = inBatch
      /\ buffer'[c] = buffer[c] => inBufferN = inBuffer
    BY DEF Out
<1>5. (batch'[c] = <<>> => inBatchN = 0) /\ (buffer'[c] = <<>> => inBufferN = 0)
    BY OccursNowhere
<1>. HIDE DEF inBatch, inBatchN, inBuffer, inBufferN, out, outN, faultsN
<1>6. ASSUME batch'[c] = batch[c], buffer'[c] \in {buffer[c], <<>>}, unacked'[c] = unacked[c],
             running'[c] = running[c]
      PROVE  FewAt(c, m)'
    BY <1>1, <1>2, <1>3, <1>4, <1>5, <1>6
<1>7. CASE Deliver(c)
    <2>1. Handed(c)
        BY <1>7, DeliverHands
    <2>2. PICK d : /\ d.msg \in ready /\ d \in Delivery
                   /\ unacked'[c] = unacked[c] \cup {d}
                   /\ buffer'[c] = Append(buffer[c], d)
        BY <2>1 DEF Handed, TypeOK
    <2>3. inBufferN = inBuffer + IF d.msg = m THEN 1 ELSE 0
        BY <2>2, OccursAppend, DeliveriesTyped DEF inBuffer, inBufferN
    <2>4. outN = IF d.msg = m THEN 1 ELSE out
        BY <2>2 DEF out, outN, Out, MessagesOf
    <2>5. d.msg = m => out = 0
        BY <2>2 DEF out, Out, MessagesOf, HeldOnce
    <2>6. batch'[c] = batch[c] /\ (running'[c] <=> running[c])
        BY <1>7 DEF Deliver
    <2>. QED BY <1>1, <1>2, <1>3, <1>4, <2>3, <2>4, <2>5, <2>6
<1>8. CASE Collect(c)
    <2>1. /\ buffer[c] # <<>> /\ buffer'[c] = Tail(buffer[c]) /\ running[c] /\ running'[c]
          /\ batch'[c] = Append(batch[c], Head(buffer[c])) /\ unacked'[c] = unacked[c]
        BY <1>8 DEF Collect, Receiving, TypeOK, link
    <2>2. inBuffer = inBufferN + IF Head(buffer[c]).msg = m THEN 1 ELSE 0
        BY <2>1, OccursTail, DeliveriesTyped DEF inBuffer, inBufferN
    <2>3. inBatchN = inBatch + IF Head(buffer[c]).msg = m THEN 1 ELSE 0
        <3>1. Head(buffer[c]) \in Delivery
            BY <2>1, DeliveriesTyped
        <3>. QED BY <2>1, <3>1, OccursAppend, DeliveriesTyped DEF inBatch, inBatchN
    <2>. QED BY <1>1, <1>2, <1>3, <1>4, <2>1, <2>2, <2>3
<1>9. CASE Skip(c) \/ Reject(c) \/ RequeueOnce(c)
    <2>1. /\ buffer[c] # <<>> /\ buffer'[c] = Tail(buffer[c]) /\ running[c] /\ running'[c]
          /\ batch'[c] = batch[c]
        BY <1>9 DEF Skip, Reject, RequeueOnce, Answering, Receiving, TypeOK
    <2>2. unacked'[c] = unacked[c] \ {Head(buffer[c])}
        BY <1>9 DEF Skip, Reject, RequeueOnce, Settle, Requeue, TypeOK
    <2>3. inBuffer = inBufferN + IF Head(buffer[c]).msg = m THEN 1 ELSE 0
        BY <2>1, OccursTail, DeliveriesTyped DEF inBuffer, inBufferN
    <2>4. Head(buffer[c]).msg # m => outN = out
        BY <2>2 DEF out, outN, Out, MessagesOf
    <2>. QED BY <1>1, <1>2, <1>3, <1>4, <2>1, <2>3, <2>4
<1>10. CASE Ack(c, t) \/ Nack(c, t)
    <2>1. /\ batch'[c] = <<>> /\ buffer'[c] = buffer[c] /\ (running'[c] <=> running[c])
          /\ pc[c][t] \in {"ack", "nack"}
        BY <1>10 DEF Ack, Nack, Flushed, Forget, TypeOK
    <2>2. CASE ~running[c]
        BY <1>1, <1>2, <1>5, <2>1, <2>2
    <2>3. CASE running[c] /\ open'[c]
        <3>1. inBufferN <= outN
            <4>1. buffer'[c] \in Seq(Delivery)
                BY DEF TypeOK
            <4>2. \A j \in DOMAIN buffer'[c] : buffer'[c][j] \in unacked'[c]
                BY <2>1, <2>3 DEF LiveAt
            <4>3. \A j, k \in DOMAIN buffer'[c] : j < k => buffer'[c][j].tag < buffer'[c][k].tag
                BY <2>3 DEF InOrderAt, Increasing
            <4>4. \A d, e \in unacked'[c] : d.msg = e.msg => d = e
                BY DEF HeldOnce
            <4>5. outN = IF m \in MessagesOf(unacked'[c]) THEN 1 ELSE 0
                BY DEF outN, Out, MessagesOf
            <4>. QED BY <4>1, <4>2, <4>3, <4>4, <4>5, OnceInOrder DEF inBufferN
        <3>. QED BY <1>1, <1>2, <1>5, <2>1, <2>3, <3>1
    <2>4. CASE running[c] /\ ~open'[c]
        <3>1. ~open[c]
            <4>1. pc[c].loop \in {"ack", "nack"}
                BY <2>1, <2>4, LoopOnly
            <4>2. open[c] => Answered(c)
                BY <2>4, <4>1, LastIsKnown
            <4>3. Answered(c) => open'[c] = open[c]
                BY <1>10 DEF Ack, Nack, Settle, Requeue
            <4>. QED BY <2>4, <4>2, <4>3
        <3>2. unacked'[c] = unacked[c]
            BY <2>4, <3>1 DEF LinkedAt
        <3>. QED BY <1>1, <1>2, <1>3, <1>4, <1>5, <2>1, <2>4, <3>2
    <2>. QED BY <2>2, <2>3, <2>4
<1>11. CASE Connect(c) \/ Break(c) \/ Retry(c) \/ Joined(c) \/ Flushing(c, t) \/ WriteFails(c, t)
    BY <1>6, <1>11 DEF Connect, Break, Retry, Joined, Flushing, NothingToFlush, Write,
                       WriteRaises, WriteFails, Writing, link
<1>12. CASE NoticeLoss(c) \/ AnswerRaises(c, t)
    BY <1>6, <1>12 DEF NoticeLoss, AnswerRaises, Disconnected, TypeOK, link
<1>13. CASE Exit(c) \/ Crash(c)
    <2>1. batch'[c] = <<>> /\ ~running'[c]
        BY <1>13 DEF Exit, Crash, Terminate, TypeOK
    <2>. QED BY <1>1, <1>2, <1>5, <2>1
<1>14. CASE Restart(c)
    <2>1. batch'[c] = <<>> /\ buffer'[c] = <<>>
        BY <1>14 DEF Restart, LiveAt, LinkedAt, Dead
    <2>2. inBatchN = 0 /\ inBufferN = 0
        BY <1>5, <2>1
    <2>. QED BY <1>1, <1>2, <2>2
<1>15. CASE Drop(c)
    <2>1. UNCHANGED <<batch, buffer, running>> /\ FaultStep(c, t)
        BY <1>15 DEF Drop, client, FaultStep
    <2>. QED BY <1>1, <1>2, <1>3, <1>4, <2>1
<1>16. CASE Stop(c)
    <2>1. batch'[c] = batch[c] /\ ~running'[c] /\ FaultStep(c, t)
        BY <1>16 DEF Stop, TypeOK, FaultStep
    <2>. QED BY <1>1, <1>2, <1>3, <1>4, <2>1
<1>. QED
    BY <1>7, <1>8, <1>9, <1>10, <1>11, <1>12, <1>13, <1>14, <1>15, <1>16
    DEF OwnStep, Loop, Handling, Replying

LEMMA FewStep ==
    ASSUME TypeOK, TypeOK', Linked, Linked', InOrder, InOrder', Live, Live', HeldOnce, HeldOnce',
           Few, [Next]_vars
    PROVE  Few'
<1>1. \A x \in Consumers : LinkedAt(x) /\ InOrderAt(x) /\ LiveAt(x)
    BY LinkedParts DEF InOrder, InOrderAt, Live
<1>2. \A x \in Consumers : LinkedAt(x)' /\ InOrderAt(x)' /\ LiveAt(x)'
    BY DEF InOrder, InOrderAt, Live, Linked, LinkedAt, ClosedIsEmpty, OpenIsUsed,
           BufferedIsConnected, KeptBounded
<1>3. SUFFICES ASSUME NEW x \in Consumers, NEW m \in 1 .. Messages  PROVE FewAt(x, m)'
    BY DEF Few
<1>4. FewAt(x, m)
    BY DEF Few
<1>5. ASSUME SameAt(x), faults' \in Nat, faults' >= faults  PROVE FewAt(x, m)'
    <2>1. /\ FewAt(x, m)' <=> IF running[x]
                              THEN Occurrences(batch[x], m) + Occurrences(buffer[x], m) <= faults' + Out(x, m)
                              ELSE Occurrences(batch[x], m) <= faults'
        BY <1>5 DEF SameAt, Still, FewAt, Out
    <2>. QED BY <1>4, <1>5, <2>1, CountsTyped DEF FewAt
<1>6. CASE Quiet
    <2>1. faults' = faults
        BY <1>6 DEF Quiet, Publish, vars
    <2>2. faults' \in Nat /\ faults' >= faults
        BY <2>1, CountsTyped
    <2>. QED BY <1>5, <1>6, <2>2, QuietSame
<1>7. ASSUME NEW c \in Consumers, NEW t \in Threads, OwnStep(c, t)  PROVE FewAt(x, m)'
    <2>1. CASE x = c
        BY <1>1, <1>2, <1>4, <1>7, <2>1, FewOwnStep
    <2>2. CASE x # c
        <3>1. faults' \in Nat /\ faults' >= faults
            BY <1>7, FaultSteps, CountsTyped
        <3>. QED BY <1>5, <1>7, <2>2, <3>1, OthersSame DEF OwnStep
    <2>. QED BY <2>1, <2>2
<1>. QED BY <1>6, <1>7, StepKinds

-----------------------------------------------------------------------------
(* What a consumer may still write, if nothing else fails.                  *)

\* A thread that has yet to flush the batch, or puts it back.
Debt(c, t) == IF pc[c][t] \in {"join", "flush", "nack"} THEN 1 ELSE 0

\* How often an entry of the batch, and one of the buffer, may yet become a row,
\* here or, once it is back in the queue, elsewhere.
BatchWeight(c) ==
    IF running[c]
    THEN IF open[c] THEN (IF pc[c].loop = "ack" THEN 0 ELSE 1)
                    ELSE (IF pc[c].loop \in {"consume", "flush"} THEN 2 ELSE 1)
    ELSE Debt(c, "loop") + Debt(c, "main")
BufferWeight(c) == IF open[c] THEN 1 ELSE IF running[c] THEN 2 ELSE 0

\* The entries of the buffer that count.
Owed(c, m) ==
    {j \in DOMAIN buffer[c] : /\ buffer[c][j].msg = m
                              /\ open[c] => buffer[c][j] \in unacked[c]}
Owes(c, m) == Cardinality(Owed(c, m))

Weighed(w, n) == IF w = 0 THEN 0 ELSE IF w = 1 THEN n ELSE n + n
Load(c, m) == Weighed(BatchWeight(c), Occurrences(batch[c], m)) + Weighed(BufferWeight(c), Owes(c, m))

\* What the queue may still hand out.
Spare(m) == IF m \in ready \/ m \notin Published THEN 1 ELSE 0

LEMMA OwedFinite ==
    ASSUME TypeOK, NEW c \in Consumers, NEW m
    PROVE  /\ IsFiniteSet(Owed(c, m)) /\ Owes(c, m) \in Nat
           /\ Owes(c, m) <= Occurrences(buffer[c], m)
<1>. DEFINE At == {i \in DOMAIN buffer[c] : buffer[c][i].msg = m}
<1>1. IsFiniteSet(At)
    BY OccursFinite, DeliveriesTyped
<1>2. Owed(c, m) \in SUBSET At
    BY DEF Owed
<1>3. Occurrences(buffer[c], m) = Cardinality(At)
    BY DEF Occurrences
<1>. HIDE DEF At
<1>4. IsFiniteSet(Owed(c, m)) /\ Cardinality(Owed(c, m)) <= Cardinality(At)
    BY <1>1, <1>2, FS_Subset
<1>. QED BY <1>3, <1>4, FS_CardinalityType DEF Owes

\* A running consumer owes all it has buffered.
LEMMA RunningOwes ==
    ASSUME TypeOK, NEW c \in Consumers, NEW m, LiveAt(c), running[c]
    PROVE  Owes(c, m) = Occurrences(buffer[c], m)
<1>1. Owed(c, m) = {i \in DOMAIN buffer[c] : buffer[c][i].msg = m}
    BY DEF Owed, LiveAt
<1>. QED BY <1>1 DEF Owes, Occurrences

\* An outstanding delivery is owed or in the batch.
LEMMA OwedOrBatched ==
    ASSUME TypeOK, NEW c \in Consumers, NEW m, LinkedAt(c), InOrderAt(c),
           NEW d \in unacked[c], d.msg = m
    PROVE  \/ \E j \in Owed(c, m) : d = buffer[c][j] /\ Owes(c, m) > 0
           \/ Recent(c) # {} /\ Occurrences(batch[c], m) > 0
<1>1. open[c] /\ Placed(c)
    BY DEF LinkedAt, InOrderAt
<1>2. ASSUME NEW j \in DOMAIN buffer[c], d = buffer[c][j]
      PROVE  j \in Owed(c, m) /\ Owes(c, m) > 0
    <2>1. j \in Owed(c, m)
        BY <1>2 DEF Owed
    <2>2. Cardinality(Owed(c, m)) # 0
        BY <2>1, OwedFinite, FS_EmptySet
    <2>. QED BY <2>1, <2>2, OwedFinite DEF Owes
<1>3. ASSUME NEW i \in Recent(c), d = batch[c][i]
      PROVE  Recent(c) # {} /\ Occurrences(batch[c], m) > 0
    BY <1>3, OccurrencesCount, DeliveriesTyped DEF Recent
<1>. QED BY <1>1, <1>2, <1>3 DEF Placed

LEMMA LoadTyped ==
    ASSUME TypeOK, NEW c \in Consumers, NEW m
    PROVE  /\ BatchWeight(c) \in {0, 1, 2} /\ BufferWeight(c) \in {0, 1, 2}
           /\ Occurrences(batch[c], m) \in Nat /\ Owes(c, m) \in Nat
           /\ Load(c, m) \in Nat /\ Spare(m) \in Nat /\ Spare(m) <= 1
<1>1. BatchWeight(c) \in {0, 1, 2} /\ BufferWeight(c) \in {0, 1, 2}
    BY DEF BatchWeight, BufferWeight, Debt
<1>2. Occurrences(batch[c], m) \in Nat /\ Owes(c, m) \in Nat
    BY CountsTyped, OwedFinite
<1>3. ASSUME NEW w, NEW n \in Nat  PROVE Weighed(w, n) \in Nat
    BY DEF Weighed
<1>4. Load(c, m) \in Nat
    BY <1>2, <1>3 DEF Load
<1>. QED BY <1>1, <1>2, <1>4 DEF Spare

\* The queue's part of a message grows when a delivery of it goes back, and
\* only then.
LEMMA SpareSteps ==
    ASSUME TypeOK, NEW m, kind' = kind
    PROVE  /\ ready' = ready => Spare(m)' = Spare(m)
           /\ \A E : ready' = ready \cup MessagesOf(E) =>
                 /\ m \notin MessagesOf(E) => Spare(m)' = Spare(m)
                 /\ Spare(m)' <= Spare(m) + 1
<1>1. Published' = Published
    BY DEF Published
<1>. QED BY <1>1 DEF Spare


\* A step adds to what is and may be written only if something fails, and then
\* no more than the failures so far explain.
Fair(c, t, m) ==
    rows'[m] + Spare(m)' + Load(c, m)' <=
        rows[m] + Spare(m) + Load(c, m) + IF FaultStep(c, t) THEN faults + 2 ELSE 0

LEMMA OwedNext ==
    ASSUME TypeOK', NEW c \in Consumers, NEW m
    PROVE  Owes(c, m)' <= Occurrences(buffer'[c], m)
<1>. DEFINE At == {i \in DOMAIN buffer'[c] : buffer'[c][i].msg = m}
<1>1. buffer'[c] \in Seq(Delivery)
    BY DEF TypeOK
<1>2. IsFiniteSet(At)
    BY <1>1, OccursFinite
<1>3. Owed(c, m)' \in SUBSET At
    BY DEF Owed
<1>. HIDE DEF At
<1>4. Cardinality(Owed(c, m)') <= Cardinality(At)
    BY <1>2, <1>3, FS_Subset
<1>. QED BY <1>4 DEF Owes, Occurrences, At

\* What a lost channel gives back was owed, if none of it is in the batch.
LEMMA LostSpare ==
    ASSUME TypeOK, NEW c \in Consumers, NEW m, LinkedAt(c), InOrderAt(c), kind' = kind,
           LoseChannel(c), Recent(c) = {}
    PROVE  Spare(m)' <= Spare(m) + Owes(c, m)
<1>1. ready' = ready \cup MessagesOf(unacked[c])
    BY DEF LoseChannel
<1>2. m \in MessagesOf(unacked[c]) => Owes(c, m) > 0
    BY OwedOrBatched DEF MessagesOf
<1>3. Owes(c, m) \in Nat /\ Spare(m) \in Nat
    BY OwedFinite DEF Spare
<1>4. Published' = Published
    BY DEF Published
<1>5. CASE m \in MessagesOf(unacked[c])
    BY <1>1, <1>2, <1>3, <1>4, <1>5 DEF Spare
<1>6. CASE m \notin MessagesOf(unacked[c])
    BY <1>1, <1>3, <1>4, <1>6 DEF Spare
<1>. QED BY <1>5, <1>6

LEMMA LoadOwnStep ==
    ASSUME TypeOK, TypeOK', NEW c \in Consumers, NEW t \in Threads, NEW m \in 1 .. Messages,
           LinkedAt(c), LinkedAt(c)', InOrderAt(c), LiveAt(c), LiveAt(c)',
           FewAt(c, m), OwnStep(c, t)
    PROVE  Fair(c, t, m)
<1>. DEFINE wb  == BatchWeight(c)
            wbN == BatchWeight(c)'
            nb  == Occurrences(batch[c], m)
            nbN == Occurrences(batch'[c], m)
            wu  == BufferWeight(c)
            wuN == BufferWeight(c)'
            no  == Owes(c, m)
            noN == Owes(c, m)'
            sp  == Spare(m)
            spN == Spare(m)'
            ro  == rows[m]
            roN == rows'[m]
            extra == IF FaultStep(c, t) THEN faults + 2 ELSE 0
<1>1. /\ wb \in {0, 1, 2} /\ wu \in {0, 1, 2} /\ nb \in Nat /\ no \in Nat /\ ro \in Nat
      /\ sp \in Nat /\ sp <= 1
    BY LoadTyped DEF TypeOK
<1>2. /\ wbN \in {0, 1, 2} /\ wuN \in {0, 1, 2} /\ nbN \in Nat /\ noN \in Nat /\ roN \in Nat
      /\ spN \in Nat /\ spN <= 1
    <2>1. wbN \in {0, 1, 2} /\ wuN \in {0, 1, 2}
        BY DEF BatchWeight, BufferWeight, Debt
    <2>2. batch'[c] \in Seq(Delivery) /\ buffer'[c] \in Seq(Delivery)
        BY DEF TypeOK
    <2>3. nbN \in Nat
        BY <2>2, OccurrencesCount
    <2>4. noN \in Nat
        <3>1. IsFiniteSet({i \in DOMAIN buffer'[c] : buffer'[c][i].msg = m})
            BY <2>2, OccursFinite
        <3>2. Owed(c, m)' \in SUBSET {i \in DOMAIN buffer'[c] : buffer'[c][i].msg = m}
            BY DEF Owed
        <3>3. IsFiniteSet(Owed(c, m)')
            BY <3>1, <3>2, FS_Subset
        <3>. QED BY <3>3, FS_CardinalityType DEF Owes
    <2>5. spN \in Nat /\ spN <= 1
        BY DEF Spare
    <2>6. roN \in Nat
        BY DEF TypeOK
    <2>. QED BY <2>1, <2>3, <2>4, <2>5, <2>6
<1>3. roN + spN + (Weighed(wbN, nbN) + Weighed(wuN, noN)) <=
          ro + sp + (Weighed(wb, nb) + Weighed(wu, no)) + extra
      => Fair(c, t, m)
    BY DEF Fair, Load
<1>4. /\ faults \in Nat /\ extra \in Nat
      /\ FaultStep(c, t) => extra = faults + 2
    BY CountsTyped
<1>5. kind' = kind /\ Published' = Published
    BY Growth DEF Published
<1>6. nb <= faults + 1 /\ (running[c] => nb + no <= faults + Out(c, m))
    <2>1. /\ running[c] => Occurrences(batch[c], m) + Occurrences(buffer[c], m) <= faults + Out(c, m)
          /\ ~running[c] => Occurrences(batch[c], m) <= faults
        BY DEF FewAt
    <2>. QED BY <2>1, CountsTyped, OwedFinite
<1>7. /\ UNCHANGED rows => roN = ro
      /\ ready' = ready => spN = sp
      /\ batch'[c] = batch[c] => nbN = nb
      /\ batch'[c] = <<>> => nbN = 0
      /\ batch[c] = <<>> => nb = 0
    BY <1>5, OccursNowhere, SpareSteps
<1>8. /\ buffer'[c] = <<>> => noN = 0
      /\ buffer[c] = <<>> => no = 0
    <2>1. buffer[c] = <<>> => Owed(c, m) = {}
        BY DEF Owed
    <2>2. buffer'[c] = <<>> => Owed(c, m)' = {}
        BY DEF Owed
    <2>. QED BY <2>1, <2>2, FS_EmptySet DEF Owes
<1>9. UNCHANGED <<open, unacked, buffer>> => noN = no
    BY DEF Owes, Owed
<1>10. ASSUME Owed(c, m)' \subseteq Owed(c, m)  PROVE noN <= no
    BY <1>10, OwedFinite, FS_Subset DEF Owes
<1>11. Out(c, m) \in Nat /\ Out(c, m) <= 1
    BY CountsTyped
<1>. HIDE DEF wb, wbN, nb, nbN, wu, wuN, no, noN, sp, spN, ro, roN, extra
\* Weights that shrink, and nothing else.
<1>12. ASSUME roN = ro, spN <= sp, nbN = nb \/ nbN = 0, noN <= no, wbN <= wb, wuN <= wu
       PROVE  Fair(c, t, m)
    BY <1>1, <1>2, <1>3, <1>4, <1>12 DEF Weighed
<1>13. CASE Deliver(c)
    <2>0. Handed(c)
        BY <1>13, DeliverHands
    <2>1. PICK d : /\ d.msg \in ready /\ d.tag = nextTag[c] /\ d \in Delivery
                   /\ unacked'[c] = unacked[c] \cup {d}
                   /\ buffer'[c] = Append(buffer[c], d)
                   /\ ready' = ready \ {d.msg}
        BY <2>0 DEF Handed, TypeOK
    <2>2. UNCHANGED <<open, running, pc, batch, rows>> /\ open[c] /\ ~FaultStep(c, t)
        BY <1>13, FaultSteps, CountsTyped DEF Deliver
    <2>3. wbN = wb /\ wu = 1 /\ wuN = 1
        BY <2>2 DEF wb, wbN, wu, wuN, BatchWeight, BufferWeight, Debt
    <2>4. Owed(c, m)' \subseteq Owed(c, m) \cup (IF d.msg = m THEN {Len(buffer[c]) + 1} ELSE {})
        <3>1. /\ DOMAIN buffer'[c] = 1 .. Len(buffer[c]) + 1 /\ Len(buffer[c]) \in Nat
              /\ DOMAIN buffer[c] = 1 .. Len(buffer[c])
              /\ \A j \in DOMAIN buffer[c] : buffer'[c][j] = buffer[c][j]
              /\ buffer'[c][Len(buffer[c]) + 1] = d
            BY <2>1, DeliveriesTyped
        <3>2. \A j \in DOMAIN buffer[c] : buffer[c][j] # d
            <4>1. \A j \in DOMAIN buffer[c] : buffer[c][j].tag < nextTag[c]
                BY <2>2 DEF InOrderAt, Increasing
            <4>. QED BY <2>1, <4>1, DeliveriesTyped
        <3>3. ASSUME NEW j \in Owed(c, m)', j \in DOMAIN buffer[c]  PROVE j \in Owed(c, m)
            BY <2>1, <2>2, <3>1, <3>2, <3>3 DEF Owed
        <3>4. ASSUME NEW j \in Owed(c, m)', j \notin DOMAIN buffer[c]
              PROVE  j = Len(buffer[c]) + 1 /\ d.msg = m
            BY <3>1, <3>4 DEF Owed
        <3>. QED BY <3>3, <3>4
    <2>5. noN <= no + IF d.msg = m THEN 1 ELSE 0
        <3>1. IsFiniteSet(Owed(c, m)) /\ no = Cardinality(Owed(c, m)) /\ noN = Cardinality(Owed(c, m)')
            BY OwedFinite DEF no, noN, Owes
        <3>2. CASE d.msg = m
            <4>1. /\ IsFiniteSet(Owed(c, m) \cup {Len(buffer[c]) + 1})
                  /\ Cardinality(Owed(c, m) \cup {Len(buffer[c]) + 1}) <= no + 1
                <5>1. /\ IsFiniteSet(Owed(c, m) \cup {Len(buffer[c]) + 1})
                      /\ Cardinality(Owed(c, m) \cup {Len(buffer[c]) + 1}) =
                             IF Len(buffer[c]) + 1 \in Owed(c, m) THEN Cardinality(Owed(c, m))
                                                                 ELSE Cardinality(Owed(c, m)) + 1
                    BY <3>1, FS_AddElement
                <5>. QED BY <1>1, <3>1, <5>1
            <4>2. noN <= Cardinality(Owed(c, m) \cup {Len(buffer[c]) + 1})
                BY <2>4, <3>1, <3>2, <4>1, FS_Subset
            <4>3. Cardinality(Owed(c, m) \cup {Len(buffer[c]) + 1}) \in Nat
                BY <4>1, FS_CardinalityType
            <4>. QED BY <1>1, <1>2, <3>2, <4>1, <4>2, <4>3
        <3>3. CASE d.msg # m
            BY <1>1, <1>10, <2>4, <3>3
        <3>. QED BY <3>2, <3>3
    <2>6. d.msg = m => sp = 1 /\ spN = 0
        <3>1. ready \subseteq Published
            BY DEF TypeOK
        <3>. QED BY <1>5, <2>1, <3>1 DEF sp, spN, Spare
    <2>7. d.msg # m => spN = sp
        BY <1>5, <2>1 DEF sp, spN, Spare
    <2>8. roN = ro /\ nbN = nb
        BY <1>7, <2>2
    <2>9. spN + noN <= sp + no
        BY <1>1, <1>2, <2>5, <2>6, <2>7
    <2>. QED BY <1>1, <1>2, <1>3, <1>4, <2>3, <2>8, <2>9 DEF Weighed
<1>14. CASE Connect(c)
    <2>1. /\ pc[c].loop = "connect" /\ pc'[c].loop = "consume" /\ pc'[c].main = pc[c].main
          /\ open'[c] /\ UNCHANGED <<running, buffer, batch, rows, ready>>
        BY <1>14 DEF Connect, Go, TypeOK, Threads, queue
    <2>2. ~open[c] /\ buffer[c] = <<>>
        BY <2>1 DEF LinkedAt
    <2>3. wbN = wb
        BY <2>1, <2>2 DEF wb, wbN, BatchWeight, Debt
    <2>. QED BY <1>1, <1>2, <1>3, <1>4, <1>7, <1>8, <2>1, <2>2, <2>3 DEF Weighed
<1>15. CASE Collect(c)
    <2>1. /\ buffer[c] # <<>> /\ buffer'[c] = Tail(buffer[c]) /\ running[c] /\ pc[c].loop = "consume"
          /\ batch'[c] = Append(batch[c], Head(buffer[c])) /\ pc'[c].loop \in {"consume", "flush"}
          /\ UNCHANGED <<open, unacked, running, rows, ready>>
        BY <1>15 DEF Collect, Receiving, TypeOK, link, queue, Go, Threads
    <2>. DEFINE hit == IF Head(buffer[c]).msg = m THEN 1 ELSE 0
    <2>2. Occurrences(buffer[c], m) = Occurrences(Tail(buffer[c]), m) + hit
        BY <2>1, OccursTail, DeliveriesTyped
    <2>3. nbN = nb + hit
        <3>1. Head(buffer[c]) \in Delivery
            BY <2>1, DeliveriesTyped
        <3>. QED BY <2>1, <3>1, OccursAppend, DeliveriesTyped DEF nb, nbN
    <2>4. no = Occurrences(buffer[c], m)
        BY <2>1, RunningOwes DEF no
    <2>5. noN = Occurrences(Tail(buffer[c]), m)
        <3>1. open'[c] => \A j \in DOMAIN buffer'[c] : buffer'[c][j] \in unacked'[c]
            BY <2>1 DEF LiveAt
        <3>2. Owed(c, m)' = {i \in DOMAIN buffer'[c] : buffer'[c][i].msg = m}
            BY <3>1 DEF Owed
        <3>. QED BY <2>1, <3>2 DEF noN, Owes, Occurrences
    <2>6. /\ open[c] => wb = 1 /\ wbN = 1 /\ wu = 1 /\ wuN = 1
          /\ ~open[c] => wb = 2 /\ wbN = 2 /\ wu = 2 /\ wuN = 2
        BY <2>1 DEF wb, wbN, wu, wuN, BatchWeight, BufferWeight
    <2>7. hit \in Nat
        OBVIOUS
    <2>. HIDE DEF hit
    <2>8. no = noN + hit
        BY <2>2, <2>4, <2>5
    <2>. QED BY <1>1, <1>2, <1>3, <1>4, <1>7, <2>1, <2>3, <2>6, <2>7, <2>8 DEF Weighed
<1>16. CASE Skip(c) \/ Reject(c) \/ RequeueOnce(c)
    <2>1. /\ buffer[c] # <<>> /\ buffer'[c] = Tail(buffer[c]) /\ running[c]
          /\ UNCHANGED <<batch, pc, running, rows>> /\ open'[c] = open[c]
        BY <1>16 DEF Skip, Reject, RequeueOnce, Answering, Receiving, Settle, Requeue, TypeOK
    <2>. DEFINE h == Head(buffer[c])
    <2>2. ready' = ready \/ ready' = ready \cup MessagesOf({h} \cap unacked[c])
        BY <1>16 DEF Skip, Reject, RequeueOnce, Settle, Requeue
    <2>3. no = Occurrences(Tail(buffer[c]), m) + IF h.msg = m THEN 1 ELSE 0
        BY <2>1, OccursTail, RunningOwes, DeliveriesTyped DEF no
    <2>4. noN <= Occurrences(Tail(buffer[c]), m)
        BY <2>1, OwedNext DEF noN
    <2>5. wbN = wb /\ wuN = wu /\ wu \in {1, 2}
        BY <2>1 DEF wb, wbN, wu, wuN, BatchWeight, BufferWeight, Debt
    <2>6. spN <= sp + IF h.msg = m THEN 1 ELSE 0
        <3>1. m \in MessagesOf({h} \cap unacked[c]) => h.msg = m
            BY DEF MessagesOf
        <3>. QED BY <1>1, <1>2, <1>5, <1>7, <2>2, <3>1, SpareSteps DEF sp, spN
    <2>7. nbN = nb /\ roN = ro
        BY <1>7, <2>1
    <2>8. Occurrences(Tail(buffer[c]), m) \in Nat
        <3>1. Tail(buffer[c]) \in Seq(Delivery)
            BY <2>1, DeliveriesTyped
        <3>. QED BY <3>1, OccurrencesCount
    <2>. HIDE DEF h
    <2>. QED BY <1>1, <1>2, <1>3, <1>4, <2>3, <2>4, <2>5, <2>6, <2>7, <2>8 DEF Weighed
<1>17. CASE Break(c) \/ Retry(c)
    <2>1. /\ UNCHANGED <<open, unacked, running, buffer, batch, rows, ready>>
          /\ pc'[c].main = pc[c].main
          /\ pc[c].loop \in {"consume", "backoff"} /\ pc'[c].loop \in {"connect", "done"}
          /\ running[c] => pc[c].loop = "backoff"
        BY <1>17 DEF Break, Retry, Go, TypeOK, Threads, link, queue
    <2>2. wbN <= wb /\ wuN <= wu
        BY <2>1 DEF wb, wbN, wu, wuN, BatchWeight, BufferWeight, Debt, LinkedAt
    <2>. QED BY <1>1, <1>7, <1>9, <1>12, <2>1, <2>2
<1>18. CASE NoticeLoss(c) \/ AnswerRaises(c, t)
    <2>1. /\ ~open[c] /\ buffer'[c] = <<>> /\ UNCHANGED <<open, running, batch, rows, ready>>
          /\ \E u \in Threads :
                /\ pc[c][u] \in {"ack", "nack"} \/ (u = "loop" /\ pc[c][u] = "consume")
                /\ pc' = [pc EXCEPT ![c][u] = IF u = "loop" THEN "backoff" ELSE "exit"]
        BY <1>18 DEF NoticeLoss, AnswerRaises, Disconnected, Go, TypeOK, link, queue, Threads
    <2>2. wbN <= wb /\ wuN = wu
        <3>1. wuN = wu
            BY <2>1 DEF wu, wuN, BufferWeight
        <3>2. running[c] => pc[c].main = "serve"
            BY DEF LiveAt
        <3>3. \/ /\ pc[c].loop \in {"consume", "ack", "nack"} /\ pc'[c].loop = "backoff"
                 /\ pc'[c].main = pc[c].main
              \/ /\ pc[c].main \in {"ack", "nack"} /\ pc'[c].main = "exit"
                 /\ pc'[c].loop = pc[c].loop
            BY <2>1 DEF TypeOK, Threads
        <3>. QED BY <2>1, <3>1, <3>2, <3>3 DEF wb, wbN, BatchWeight, Debt
    <2>. QED BY <1>1, <1>2, <1>7, <1>8, <1>12, <2>1, <2>2
<1>19. CASE NothingToFlush(c, t)
    <2>1. batch[c] = <<>> /\ UNCHANGED <<open, unacked, running, buffer, batch, rows, ready>>
        BY <1>19 DEF NothingToFlush, link, queue
    <2>2. nb = 0 /\ nbN = 0 /\ roN = ro /\ spN = sp /\ noN = no
        BY <1>7, <1>9, <2>1
    <2>3. wuN = wu
        BY <2>1 DEF wu, wuN, BufferWeight
    <2>. QED BY <1>1, <1>2, <1>3, <1>4, <2>2, <2>3 DEF Weighed
<1>20. CASE Write(c, t) \/ WriteRaises(c, t) \/ WriteFails(c, t)
    <2>1. /\ UNCHANGED <<open, unacked, running, buffer, batch, ready>>
          /\ pc[c][t] = "flush"
        BY <1>20 DEF Write, WriteRaises, WriteFails, Writing, link, queue
    <2>2. running[c] => t = "loop"
        BY <2>1, LoopOnly
    <2>3. nbN = nb /\ spN = sp /\ noN = no
        BY <1>7, <1>9, <2>1
    <2>4. wuN = wu
        BY <2>1 DEF wu, wuN, BufferWeight
    <2>5. ASSUME Store(batch[c])  PROVE roN = ro + nb
        BY <2>5, StoreTyped DEF ro, roN, nb, Store, TypeOK
    <2>6. CASE Write(c, t)
        <3>1. pc' = [pc EXCEPT ![c][t] = "ack"] /\ roN = ro + nb
            BY <2>5, <2>6 DEF Write, Go
        <3>2. wb = wbN + 1
            BY <2>1, <2>2, <3>1 DEF wb, wbN, BatchWeight, Debt, TypeOK, Threads
        <3>. QED BY <1>1, <1>2, <1>3, <1>4, <2>3, <2>4, <3>1, <3>2 DEF Weighed
    <2>7. ASSUME pc' = [pc EXCEPT ![c][t] = "nack"]  PROVE wbN <= wb
        BY <2>1, <2>2, <2>7 DEF wb, wbN, BatchWeight, Debt, TypeOK, Threads
    <2>8. CASE WriteRaises(c, t)
        <3>1. wbN <= wb /\ roN = ro
            BY <1>7, <2>7, <2>8 DEF WriteRaises, Go
        <3>. QED BY <1>1, <1>12, <2>3, <2>4, <3>1
    <2>9. CASE WriteFails(c, t)
        <3>1. wbN <= wb /\ (roN = ro \/ roN = ro + nb) /\ extra = faults + 2
            BY <1>4, <1>7, <2>5, <2>7, <2>9 DEF WriteFails, Go, FaultStep
        <3>. QED BY <1>1, <1>2, <1>3, <1>4, <1>6, <2>3, <2>4, <3>1 DEF Weighed
    <2>. QED BY <1>20, <2>6, <2>8, <2>9
<1>21. CASE Ack(c, t) \/ Nack(c, t)
    <2>1. /\ batch'[c] = <<>> /\ UNCHANGED <<buffer, running, rows>>
          /\ pc[c][t] \in {"ack", "nack"}
        BY <1>21 DEF Ack, Nack, Flushed, Forget, TypeOK
    <2>2. nbN = 0 /\ roN = ro
        BY <1>7, <2>1
    <2>3. CASE Answered(c)
        <3>1. /\ open[c] /\ open'[c] /\ unacked'[c] = unacked[c] \ Covered(c, LastTag(c))
              /\ ready' = ready \/ (Nack(c, t) /\ ready' = ready \cup MessagesOf(Covered(c, LastTag(c))))
            BY <1>21, <2>3 DEF Ack, Nack, Answered, Settle, Requeue, TypeOK
        <3>2. wu = 1 /\ wuN = 1
            BY <3>1 DEF wu, wuN, BufferWeight
        <3>3. Owed(c, m)' \subseteq Owed(c, m)
            BY <2>1, <3>1 DEF Owed
        <3>4. noN <= no
            BY <1>10, <3>3
        <3>5. CASE spN <= sp
            BY <1>1, <1>2, <1>3, <1>4, <2>2, <3>2, <3>4, <3>5 DEF Weighed
        <3>6. CASE ~(spN <= sp)
            <4>1. Nack(c, t) /\ m \in MessagesOf(Covered(c, LastTag(c))) /\ spN <= sp + 1
                BY <1>1, <1>2, <1>5, <1>7, <3>1, <3>6, SpareSteps DEF sp, spN
            <4>2. PICK d \in unacked[c] : d.msg = m /\ d \notin unacked'[c]
                BY <3>1, <4>1 DEF MessagesOf, Covered
            <4>3. CASE \E j \in Owed(c, m) : d = buffer[c][j]
                <5>1. PICK j \in Owed(c, m) : d = buffer[c][j]
                    BY <4>3
                <5>2. j \notin Owed(c, m)'
                    BY <2>1, <3>1, <4>2, <5>1 DEF Owed
                <5>3. noN + 1 <= no
                    <6>1. IsFiniteSet(Owed(c, m)) /\ Owed(c, m)' # Owed(c, m)
                        BY <5>1, <5>2, OwedFinite
                    <6>2. noN # no
                        BY <3>3, <6>1, FS_Subset DEF no, noN, Owes
                    <6>. QED BY <1>1, <1>2, <3>4, <6>2
                <5>. QED BY <1>1, <1>2, <1>3, <1>4, <2>2, <3>2, <4>1, <5>3 DEF Weighed
            <4>4. CASE nb > 0
                <5>1. wb > 0
                    <6>1. pc[c][t] = "nack" /\ (running[c] => t = "loop")
                        BY <2>1, <4>1, LoopOnly DEF Nack
                    <6>. QED BY <3>1, <6>1 DEF wb, BatchWeight, Debt, Threads
                <5>. QED BY <1>1, <1>2, <1>3, <1>4, <2>2, <3>2, <3>4, <4>1, <4>4, <5>1 DEF Weighed
            <4>. QED BY <4>2, <4>3, <4>4, OwedOrBatched DEF nb
        <3>. QED BY <3>5, <3>6
    <2>4. CASE ~Answered(c) /\ (batch[c] = <<>> \/ ~open[c])
        <3>1. UNCHANGED <<ready, open, unacked>>
            BY <1>21, <2>4 DEF Ack, Nack, NotAnswered, link
        <3>2. wuN = wu /\ noN = no /\ spN = sp
            BY <1>7, <1>9, <2>1, <3>1 DEF wu, wuN, BufferWeight
        <3>. QED BY <1>1, <1>2, <1>3, <1>4, <2>2, <3>2 DEF Weighed
    <2>5. CASE ~Answered(c) /\ batch[c] # <<>> /\ open[c]
        <3>1. LoseChannel(c)
            BY <1>21, <2>5 DEF Ack, Nack, NotAnswered
        <3>2. Recent(c) = {} /\ ~running[c]
            <4>1. running[c] => pc[c].loop \in {"ack", "nack"}
                BY <2>1, LoopOnly
            <4>. QED BY <2>5, <4>1, LastIsKnown
        <3>3. wu = 1 /\ wuN = 0
            BY <2>1, <2>5, <3>1, <3>2 DEF LoseChannel, TypeOK, wu, wuN, BufferWeight
        <3>4. spN <= sp + no
            BY <1>1, <1>2, <1>5, <3>1, <3>2, LostSpare DEF sp, spN, no
        <3>. QED BY <1>1, <1>2, <1>3, <1>4, <2>2, <3>3, <3>4 DEF Weighed
    <2>. QED BY <2>3, <2>4, <2>5
<1>22. CASE Joined(c)
    <2>1. /\ UNCHANGED <<open, unacked, running, buffer, batch, rows, ready>>
          /\ pc[c].main = "join" /\ pc'[c].loop = pc[c].loop
        BY <1>22 DEF Joined, link, queue, Go, TypeOK, Threads
    <2>2. wbN <= wb /\ wuN = wu
        BY <2>1 DEF wb, wbN, wu, wuN, BatchWeight, BufferWeight, Debt, LiveAt
    <2>. QED BY <1>1, <1>7, <1>9, <1>12, <2>1, <2>2
<1>23. CASE Restart(c)
    <2>1. /\ batch[c] = <<>> /\ buffer[c] = <<>> /\ UNCHANGED <<batch, buffer, rows, ready>>
        BY <1>23 DEF Restart, LiveAt, LinkedAt, Dead, queue
    <2>2. nb = 0 /\ nbN = 0 /\ no = 0 /\ noN = 0 /\ roN = ro /\ spN = sp
        BY <1>7, <1>8, <2>1
    <2>. QED BY <1>1, <1>2, <1>3, <1>4, <2>2 DEF Weighed
<1>24. CASE Exit(c) \/ Crash(c)
    <2>1. LoseChannel(c) /\ batch'[c] = <<>> /\ buffer'[c] = <<>> /\ rows' = rows
        BY <1>24 DEF Exit, Crash, Terminate, TypeOK
    <2>2. nbN = 0 /\ noN = 0 /\ roN = ro
        BY <1>7, <1>8, <2>1
    <2>3. CASE Crash(c)
        BY <1>1, <1>2, <1>3, <1>4, <2>2, <2>3 DEF Weighed, FaultStep
    <2>4. CASE Exit(c) /\ open[c]
        <3>1. Recent(c) = {} /\ wu = 1
            BY <2>4 DEF Exit, LiveAt, wu, BufferWeight
        <3>2. spN <= sp + no
            BY <1>1, <1>2, <1>5, <2>1, <3>1, LostSpare DEF sp, spN, no
        <3>. QED BY <1>1, <1>2, <1>3, <1>4, <2>2, <3>1, <3>2 DEF Weighed
    <2>5. CASE Exit(c) /\ ~open[c]
        <3>1. ready' = ready
            BY <2>1, <2>5 DEF LoseChannel, LinkedAt, MessagesOf
        <3>2. spN = sp
            BY <1>7, <3>1
        <3>. QED BY <1>1, <1>2, <1>3, <1>4, <2>2, <3>2 DEF Weighed
    <2>. QED BY <1>24, <2>3, <2>4, <2>5
<1>25. CASE Drop(c)
    <2>1. /\ open[c] /\ ~open'[c] /\ unacked'[c] = {} /\ UNCHANGED <<running, buffer, batch, pc, rows>>
          /\ ready' = ready \cup MessagesOf(unacked[c]) /\ FaultStep(c, t)
        BY <1>25 DEF Drop, LoseChannel, client, TypeOK, FaultStep
    <2>2. extra = faults + 2 /\ nbN = nb /\ roN = ro
        BY <1>4, <1>7, <2>1
    <2>3. spN <= sp + Out(c, m)
        BY <1>1, <1>2, <1>5, <2>1, SpareSteps DEF sp, spN, Out
    <2>4. CASE running[c]
        <3>1. wbN <= wb + 1 /\ wb <= 1 /\ wu = 1 /\ wuN = 2
            BY <2>1, <2>4 DEF wb, wbN, wu, wuN, BatchWeight, BufferWeight
        <3>2. noN <= no
            BY <2>1, <2>4, OwedNext, RunningOwes DEF no, noN
        <3>. QED BY <1>1, <1>2, <1>3, <1>4, <1>6, <1>11, <2>2, <2>3, <2>4, <3>1, <3>2 DEF Weighed
    <2>5. CASE ~running[c]
        <3>1. wbN = wb /\ wu = 1 /\ wuN = 0
            BY <2>1, <2>5 DEF wb, wbN, wu, wuN, BatchWeight, BufferWeight, Debt
        <3>. QED BY <1>1, <1>2, <1>3, <1>4, <1>11, <2>2, <2>3, <3>1 DEF Weighed
    <2>. QED BY <2>4, <2>5
<1>26. CASE Stop(c)
    <2>1. /\ UNCHANGED <<open, unacked, buffer, batch, rows, ready>> /\ FaultStep(c, t)
          /\ running[c] /\ ~running'[c] /\ pc'[c].loop = pc[c].loop /\ pc'[c].main = "join"
        BY <1>26 DEF Stop, link, queue, Go, TypeOK, Threads, FaultStep, LiveAt
    <2>2. extra = faults + 2 /\ nbN = nb /\ roN = ro /\ spN = sp /\ noN = no
        BY <1>4, <1>7, <1>9, <2>1
    <2>3. wbN <= wb + 1 /\ wuN <= wu
        BY <2>1 DEF wb, wbN, wu, wuN, BatchWeight, BufferWeight, Debt
    <2>. QED BY <1>1, <1>2, <1>3, <1>4, <1>6, <2>2, <2>3 DEF Weighed
<1>. QED
    BY <1>13, <1>14, <1>15, <1>16, <1>17, <1>18, <1>19, <1>20, <1>21, <1>22, <1>23, <1>24, <1>25,
       <1>26 DEF OwnStep, Loop, Handling, Flushing, Replying

-----------------------------------------------------------------------------
(* All consumers together.                                                  *)

\* The load of a consumer, as a set: one cell for each row it may yet write.
Hits(c, m) == {i \in DOMAIN batch[c] : batch[c][i].msg = m}
Layers(S, v, T, w) == ({"batch"} \X (S \X (1 .. v))) \cup ({"buffer"} \X (T \X (1 .. w)))
Cells(c, m) == Layers(Hits(c, m), BatchWeight(c), Owed(c, m), BufferWeight(c))
AllCells(m) == UNION {{c} \X Cells(c, m) : c \in Consumers}

\* What is written, can be handed out and may be written stays below the bound.
BoundedFor(m) ==
    /\ IsFiniteSet(AllCells(m))
    /\ 2 * (rows[m] + Spare(m) + Cardinality(AllCells(m))) <= (faults + 1) * (faults + 2)
Bounded == \A m \in 1 .. Messages : BoundedFor(m)

LEMMA LayerCount ==
    ASSUME NEW S, IsFiniteSet(S), NEW w \in {0, 1, 2}, NEW name
    PROVE  /\ IsFiniteSet({name} \X (S \X (1 .. w)))
           /\ Cardinality({name} \X (S \X (1 .. w))) = Weighed(w, Cardinality(S))
<1>. DEFINE n == Cardinality(S)
            T == 1 .. w
<1>1. IsFiniteSet(T) /\ Cardinality(T) = w /\ w \in Nat
    BY FS_Interval
<1>2. n \in Nat
    BY FS_CardinalityType
<1>3. IsFiniteSet(S \X T) /\ Cardinality(S \X T) = n * w
    <2>. HIDE DEF T
    <2>. QED BY <1>1, FS_Product
<1>4. IsFiniteSet({name}) /\ Cardinality({name}) = 1
    BY FS_Singleton
<1>. HIDE DEF T
<1>5. IsFiniteSet({name} \X (S \X T)) /\ Cardinality({name} \X (S \X T)) = 1 * (n * w)
    BY <1>3, <1>4, FS_Product
<1>. HIDE DEF n
<1>6. 1 * (n * w) = Weighed(w, n)
    <2>1. CASE w = 0
        BY <1>2, <2>1 DEF Weighed
    <2>2. CASE w = 1
        BY <1>2, <2>2 DEF Weighed
    <2>3. CASE w = 2
        BY <1>2, <2>3 DEF Weighed
    <2>. QED BY <2>1, <2>2, <2>3
<1>. QED BY <1>5, <1>6 DEF n, T

Counted(X, n) == IsFiniteSet(X) /\ Cardinality(X) = n
LayersCounted(c, S, v, T, w) ==
    Counted({c} \X Layers(S, v, T, w), Weighed(v, Cardinality(S)) + Weighed(w, Cardinality(T)))

\* Stated about the sets, to be used before and after a step.
LEMMA TwoLayers ==
    ASSUME NEW S, NEW T, IsFiniteSet(S), IsFiniteSet(T), NEW v \in {0, 1, 2}, NEW w \in {0, 1, 2},
           NEW c
    PROVE  LayersCounted(c, S, v, T, w)
<1>. DEFINE C == Layers(S, v, T, w)
            A == {"batch"} \X (S \X (1 .. v))
            B == {"buffer"} \X (T \X (1 .. w))
<1>1. /\ IsFiniteSet(A) /\ Cardinality(A) = Weighed(v, Cardinality(S))
      /\ IsFiniteSet(B) /\ Cardinality(B) = Weighed(w, Cardinality(T))
    BY LayerCount
<1>2. A \cap B = {}
    OBVIOUS
<1>3. Weighed(v, Cardinality(S)) \in Nat /\ Weighed(w, Cardinality(T)) \in Nat
    BY FS_CardinalityType DEF Weighed
<1>4. C = A \cup B
    BY DEF Layers
<1>5. IsFiniteSet({c}) /\ Cardinality({c}) = 1
    BY FS_Singleton
<1>. HIDE DEF A, B, C
<1>6. IsFiniteSet(C) /\ Cardinality(C) = Cardinality(A) + Cardinality(B)
    <2>1. Cardinality(A \cap B) = 0
        BY <1>2, FS_EmptySet
    <2>2. IsFiniteSet(C) /\ Cardinality(C) = Cardinality(A) + Cardinality(B) - Cardinality(A \cap B)
        BY <1>1, <1>4, FS_Union
    <2>. QED BY <1>1, <1>3, <2>1, <2>2
<1>7. IsFiniteSet({c} \X C) /\ Cardinality({c} \X C) = 1 * Cardinality(C)
    BY <1>5, <1>6, FS_Product
<1>8. Counted({c} \X C, Weighed(v, Cardinality(S)) + Weighed(w, Cardinality(T)))
    BY <1>1, <1>3, <1>6, <1>7 DEF Counted
<1>. QED BY <1>8 DEF LayersCounted, C

LEMMA CellsCount ==
    ASSUME TypeOK, NEW c \in Consumers, NEW m
    PROVE  IsFiniteSet({c} \X Cells(c, m)) /\ Cardinality({c} \X Cells(c, m)) = Load(c, m)
<1>1. IsFiniteSet(Hits(c, m)) /\ Occurrences(batch[c], m) = Cardinality(Hits(c, m))
    BY OccursFinite, DeliveriesTyped DEF Occurrences, Hits
<1>2. IsFiniteSet(Owed(c, m)) /\ Owes(c, m) = Cardinality(Owed(c, m))
    BY OwedFinite DEF Owes
<1>3. BatchWeight(c) \in {0, 1, 2} /\ BufferWeight(c) \in {0, 1, 2}
    BY LoadTyped
<1>. DEFINE S == Hits(c, m)
            T == Owed(c, m)
            v == BatchWeight(c)
            w == BufferWeight(c)
<1>4. IsFiniteSet(S) /\ IsFiniteSet(T) /\ v \in {0, 1, 2} /\ w \in {0, 1, 2}
    BY <1>1, <1>2, <1>3
<1>5. Cells(c, m) = Layers(S, v, T, w)
    BY DEF Cells
<1>6. Load(c, m) = Weighed(v, Cardinality(S)) + Weighed(w, Cardinality(T))
    BY <1>1, <1>2 DEF Load
<1>. HIDE DEF S, T, v, w
<1>7. LayersCounted(c, S, v, T, w)
    BY <1>4, TwoLayers
<1>. QED BY <1>5, <1>6, <1>7 DEF LayersCounted, Counted

LEMMA CellsCountNext ==
    ASSUME TypeOK', NEW c \in Consumers, NEW m
    PROVE  IsFiniteSet({c} \X Cells(c, m)') /\ Cardinality({c} \X Cells(c, m)') = Load(c, m)'
<1>1. batch'[c] \in Seq(Delivery) /\ buffer'[c] \in Seq(Delivery)
    BY DEF TypeOK
<1>2. IsFiniteSet(Hits(c, m)') /\ Occurrences(batch'[c], m) = Cardinality(Hits(c, m)')
    BY <1>1, OccursFinite DEF Occurrences, Hits
<1>3. IsFiniteSet(Owed(c, m)') /\ Owes(c, m)' = Cardinality(Owed(c, m)')
    <2>1. IsFiniteSet({i \in DOMAIN buffer'[c] : buffer'[c][i].msg = m})
        BY <1>1, OccursFinite
    <2>2. Owed(c, m)' \in SUBSET {i \in DOMAIN buffer'[c] : buffer'[c][i].msg = m}
        BY DEF Owed
    <2>. QED BY <2>1, <2>2, FS_Subset DEF Owes
<1>4. BatchWeight(c)' \in {0, 1, 2} /\ BufferWeight(c)' \in {0, 1, 2}
    BY DEF BatchWeight, BufferWeight, Debt
<1>. DEFINE S == Hits(c, m)'
            T == Owed(c, m)'
            v == BatchWeight(c)'
            w == BufferWeight(c)'
<1>5. IsFiniteSet(S) /\ IsFiniteSet(T) /\ v \in {0, 1, 2} /\ w \in {0, 1, 2}
    BY <1>2, <1>3, <1>4
<1>6. Cells(c, m)' = Layers(S, v, T, w)
    BY DEF Cells
<1>7. Load(c, m)' = Weighed(v, Cardinality(S)) + Weighed(w, Cardinality(T))
    BY <1>2, <1>3 DEF Load
<1>. HIDE DEF S, T, v, w
<1>8. LayersCounted(c, S, v, T, w)
    BY <1>5, TwoLayers
<1>. QED BY <1>6, <1>7, <1>8 DEF LayersCounted, Counted

LEMMA SameCells ==
    ASSUME NEW x \in Consumers, SameAt(x), pc'[x] = pc[x], NEW m
    PROVE  Cells(x, m)' = Cells(x, m)
BY DEF SameAt, Still, Cells, Hits, Owed, BatchWeight, BufferWeight, Debt

\* One consumer's cells change: the count changes as its load does.
LEMMA OneChanges ==
    ASSUME NEW Rest, NEW Old, NEW New, IsFiniteSet(Rest \cup Old), IsFiniteSet(Old), IsFiniteSet(New),
           Rest \cap Old = {}, Rest \cap New = {}
    PROVE  /\ IsFiniteSet(Rest \cup New)
           /\ Cardinality(Rest \cup New) + Cardinality(Old) =
                  Cardinality(Rest \cup Old) + Cardinality(New)
<1>1. IsFiniteSet(Rest)
    BY FS_Subset
<1>2. Cardinality(Rest \cap Old) = 0 /\ Cardinality(Rest \cap New) = 0
    BY FS_EmptySet
<1>3. /\ IsFiniteSet(Rest \cup New)
      /\ Cardinality(Rest \cup New) = Cardinality(Rest) + Cardinality(New) - Cardinality(Rest \cap New)
      /\ Cardinality(Rest \cup Old) = Cardinality(Rest) + Cardinality(Old) - Cardinality(Rest \cap Old)
    BY <1>1, FS_Union
<1>4. Cardinality(Rest) \in Nat /\ Cardinality(Old) \in Nat /\ Cardinality(New) \in Nat
    BY <1>1, FS_CardinalityType
<1>. QED BY <1>2, <1>3, <1>4

\* The arithmetic of the bound: n + 1 failures explain n + 2 rows more than n.
LEMMA BoundGrows ==
    ASSUME NEW f \in Nat, NEW s \in Nat, NEW s1 \in Nat,
           2 * s <= (f + 1) * (f + 2), s1 <= s + f + 2
    PROVE  2 * s1 <= (f + 1 + 1) * (f + 1 + 2)
<1>1. (f + 1 + 1) * (f + 1 + 2) = (f + 1) * (f + 2) + 2 * (f + 2)
    OBVIOUS
<1>2. (f + 1) * (f + 2) \in Nat
    OBVIOUS
<1>. DEFINE p == (f + 1) * (f + 2)
<1>3. 2 * s <= p /\ p \in Nat
    BY <1>2
<1>. HIDE DEF p
<1>4. 2 * s1 <= p + 2 * (f + 2)
    BY <1>3
<1>. QED BY <1>1, <1>4 DEF p

LEMMA BoundedOwnStep ==
    ASSUME TypeOK, TypeOK', NEW c \in Consumers, NEW t \in Threads, NEW m \in 1 .. Messages,
           OwnStep(c, t), Fair(c, t, m), BoundedFor(m)
    PROVE  BoundedFor(m)'
<1>. DEFINE Rest == UNION {{x} \X Cells(x, m) : x \in Consumers \ {c}}
            Old == {c} \X Cells(c, m)
            New == {c} \X Cells(c, m)'
<1>1. \A x \in Consumers : x # c => Cells(x, m)' = Cells(x, m)
    BY OthersSame, SameCells DEF OwnStep
<1>2. AllCells(m) = Rest \cup Old
    BY DEF AllCells
<1>3. AllCells(m)' = Rest \cup New
    BY <1>1 DEF AllCells
<1>4. Rest \cap Old = {} /\ Rest \cap New = {}
    OBVIOUS
<1>5. /\ IsFiniteSet(Old) /\ Cardinality(Old) = Load(c, m)
      /\ IsFiniteSet(New) /\ Cardinality(New) = Load(c, m)'
    BY CellsCount, CellsCountNext
<1>. HIDE DEF Rest, Old, New
<1>6. /\ IsFiniteSet(AllCells(m)')
      /\ Cardinality(AllCells(m)') + Load(c, m) = Cardinality(AllCells(m)) + Load(c, m)'
    BY <1>2, <1>3, <1>4, <1>5, OneChanges DEF BoundedFor
<1>. DEFINE n  == Cardinality(AllCells(m))
            nN == Cardinality(AllCells(m)')
            l  == Load(c, m)
            lN == Load(c, m)'
            s  == rows[m] + Spare(m) + n
            sN == rows'[m] + Spare(m)' + nN
            fN == faults'
<1>7. n \in Nat /\ nN \in Nat /\ l \in Nat /\ lN \in Nat
    BY <1>5, <1>6, FS_CardinalityType DEF BoundedFor
<1>8. rows[m] \in Nat /\ Spare(m) \in Nat /\ rows'[m] \in Nat /\ Spare(m)' \in Nat
    <2>1. rows[m] \in Nat /\ rows'[m] \in Nat
        BY DEF TypeOK
    <2>. QED BY <2>1 DEF Spare
<1>9. rows'[m] + Spare(m)' + lN <= rows[m] + Spare(m) + l + IF FaultStep(c, t) THEN faults + 2 ELSE 0
    BY DEF Fair
<1>10. nN + l = n + lN
    BY <1>6
<1>. HIDE DEF n, nN, l, lN
<1>11. faults \in Nat /\ (FaultStep(c, t) => fN = faults + 1) /\ (~FaultStep(c, t) => fN = faults)
    BY FaultSteps, CountsTyped
<1>12. s \in Nat /\ sN \in Nat /\ sN <= s + IF FaultStep(c, t) THEN faults + 2 ELSE 0
    BY <1>7, <1>8, <1>9, <1>10, <1>11
<1>13. 2 * s <= (faults + 1) * (faults + 2)
    BY DEF BoundedFor, n
<1>. HIDE DEF s, sN
<1>14. CASE FaultStep(c, t)
    <2>1. sN <= s + faults + 2
        BY <1>11, <1>12, <1>14
    <2>2. 2 * sN <= (faults + 1 + 1) * (faults + 1 + 2)
        BY <1>11, <1>12, <1>13, <2>1, BoundGrows
    <2>3. 2 * sN <= (fN + 1) * (fN + 2)
        BY <1>11, <1>14, <2>2
    <2>. QED BY <1>6, <2>3 DEF BoundedFor, sN, nN
<1>15. CASE ~FaultStep(c, t)
    <2>1. sN <= s
        BY <1>12, <1>15
    <2>. DEFINE p == (faults + 1) * (faults + 2)
    <2>2. p \in Nat
        BY <1>11
    <2>3. 2 * s <= p /\ p = (fN + 1) * (fN + 2)
        BY <1>11, <1>13, <1>15
    <2>. HIDE DEF p
    <2>4. 2 * sN <= p
        BY <1>12, <2>1, <2>2, <2>3
    <2>. QED BY <1>6, <2>3, <2>4 DEF BoundedFor, sN, nN
<1>. QED BY <1>14, <1>15

LEMMA BoundedStep ==
    ASSUME TypeOK, TypeOK', Linked, Linked', InOrder, Live, Live', Few, Bounded, [Next]_vars
    PROVE  Bounded'
<1>1. \A x \in Consumers : LinkedAt(x) /\ InOrderAt(x) /\ LiveAt(x)
    BY LinkedParts DEF InOrder, InOrderAt, Live
<1>2. \A x \in Consumers : LinkedAt(x)' /\ LiveAt(x)'
    BY DEF Live, Linked, LinkedAt, ClosedIsEmpty, OpenIsUsed, BufferedIsConnected, KeptBounded
<1>3. SUFFICES ASSUME NEW m \in 1 .. Messages  PROVE BoundedFor(m)'
    BY DEF Bounded
<1>4. BoundedFor(m)
    BY DEF Bounded
<1>5. CASE Quiet
    <2>1. \A x \in Consumers : Cells(x, m)' = Cells(x, m)
        BY <1>5, QuietSame, SameCells
    <2>2. AllCells(m)' = AllCells(m)
        BY <2>1 DEF AllCells
    <2>3. rows' = rows /\ faults' = faults
        BY <1>5 DEF Quiet, Publish, vars
    <2>4. Spare(m)' = Spare(m)
        <3>1. CASE UNCHANGED vars
            BY <3>1 DEF vars, queue, Spare, Published
        <3>2. CASE Publish
            <4>1. /\ ready' = ready \cup {Len(kind) + 1}
                  /\ Published = 1 .. Len(kind) /\ Published' = 1 .. Len(kind) + 1
                  /\ Len(kind) \in Nat
                <5>1. PICK k \in Kinds : kind' = Append(kind, k) /\ kind \in Seq(Kinds)
                    BY <3>2 DEF Publish, TypeOK
                <5>. QED BY <3>2, <5>1 DEF Publish, Published
            <4>. QED BY <4>1 DEF Spare
        <3>. QED BY <1>5, <3>1, <3>2 DEF Quiet
    <2>. QED BY <1>4, <2>2, <2>3, <2>4 DEF BoundedFor
<1>6. ASSUME NEW c \in Consumers, NEW t \in Threads, OwnStep(c, t)  PROVE BoundedFor(m)'
    <2>1. FewAt(c, m)
        BY DEF Few
    <2>2. Fair(c, t, m)
        BY <1>1, <1>2, <1>6, <2>1, LoadOwnStep
    <2>. QED BY <1>4, <1>6, <2>2, BoundedOwnStep
<1>. QED BY <1>5, <1>6, StepKinds

LEMMA BoundStart == Init => HeldOnce /\ Live /\ Few /\ Bounded
<1>. SUFFICES ASSUME Init PROVE HeldOnce /\ Live /\ Few /\ Bounded
    OBVIOUS
<1>1. HeldOnce
    BY DEF Init, HeldOnce
<1>2. Live
    BY DEF Init, Live, LiveAt, Fresh
<1>3. Few
    BY OccursNowhere DEF Init, Few, FewAt, Out
<1>4. Bounded
    <2>1. SUFFICES ASSUME NEW m \in 1 .. Messages  PROVE BoundedFor(m)
        BY DEF Bounded
    <2>2. \A x \in Consumers : Hits(x, m) = {} /\ Owed(x, m) = {}
        BY DEF Init, Hits, Owed
    <2>3. \A x \in Consumers : Cells(x, m) = {}
        BY <2>2 DEF Cells, Layers
    <2>4. AllCells(m) = {}
        BY <2>3 DEF AllCells
    <2>5. rows[m] = 0 /\ faults = 0 /\ Spare(m) = 1
        BY DEF Init, Spare, Published
    <2>6. IsFiniteSet(AllCells(m)) /\ Cardinality(AllCells(m)) = 0
        BY <2>4, FS_EmptySet
    <2>. QED BY <2>5, <2>6 DEF BoundedFor
<1>. QED BY <1>1, <1>2, <1>3, <1>4

LEMMA HalfOf == ASSUME NEW r \in Nat, NEW p \in Nat, 2 * r <= p  PROVE r <= p \div 2
OBVIOUS

LEMMA BoundedRows == TypeOK /\ Bounded => CopiesBounded
<1>. SUFFICES ASSUME TypeOK, Bounded, NEW m \in 1 .. Messages
              PROVE  rows[m] <= ((faults + 1) * (faults + 2)) \div 2
    BY DEF CopiesBounded
<1>. DEFINE n == Cardinality(AllCells(m))
            p == (faults + 1) * (faults + 2)
<1>1. rows[m] \in Nat /\ Spare(m) \in Nat /\ n \in Nat /\ faults \in Nat
    BY FS_CardinalityType, CountsTyped, ConstantsAssumption DEF TypeOK, Spare, Bounded, BoundedFor
<1>2. p \in Nat
    BY <1>1
<1>3. 2 * (rows[m] + Spare(m) + n) <= p
    BY DEF Bounded, BoundedFor
<1>. HIDE DEF n, p
<1>4. 2 * rows[m] <= p
    BY <1>1, <1>2, <1>3
<1>5. rows[m] <= p \div 2
    BY <1>1, <1>2, <1>4, HalfOf
<1>. QED BY <1>5 DEF p

\* CopiesCounted: for every number of replicas, messages and failures and every
\* batch size, n failures store at most 1 + 2 + ... + (n + 1) copies of a row.
THEOREM CopiesCounted == Spec => []CopiesBounded
<1>. DEFINE Inv == TypeOK /\ Linked /\ InOrder /\ HeldOnce /\ Live /\ Few /\ Bounded
<1>1. Init => Inv
    BY TypeStart, LinkStart, DeliveriesStart, BoundStart
<1>2. Inv /\ [Next]_vars => Inv'
    <2>. SUFFICES ASSUME Inv, [Next]_vars  PROVE Inv'
        OBVIOUS
    <2>1. TypeOK' /\ Linked' /\ InOrder' /\ HeldOnce'
        BY TypeStep, LinkStep, OrderStep, HeldOnceStep
    <2>2. Live'
        BY LiveStep
    <2>3. Few'
        BY <2>1, <2>2, FewStep
    <2>4. Bounded'
        BY <2>1, <2>2, BoundedStep
    <2>. QED BY <2>1, <2>2, <2>3, <2>4
<1>3. Inv => CopiesBounded
    BY BoundedRows
<1>. QED BY <1>1, <1>2, <1>3, PTL DEF Spec
=============================================================================
