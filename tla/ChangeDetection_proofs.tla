------------------------- MODULE ChangeDetection_proofs -------------------------
(***************************************************************************)
(* Proofs about ChangeDetection, for every set of analyses, namespaces,     *)
(* objects and workers, every scope, every choice of change types, every    *)
(* kind of failure and every bound.                                         *)
(***************************************************************************)
EXTENDS ChangeDetection, TLAPS

-----------------------------------------------------------------------------
(* Types.                                                                   *)

Rows == [state : {"none", "active", "inactive"}, version : Versions]

\* A task is a record of these fields; TypeOK says more of their values.
TaskRecords ==
    [ pc : Places, listed : SUBSET Jobs, todo : SUBSET Jobs, job : SUBSET Jobs,
      calls : SUBSET SUBSET Objects, seen : [Objects -> Versions], doubt : BOOLEAN,
      memory : [Objects -> Rows], news : SUBSET (Objects \X Types), blind : SUBSET Objects,
      shared : BOOLEAN ]

Typed == TypeOK /\ task \in [Tasks -> TaskRecords]

Working(t) == task[t].job # {}

\* What a step that is not the task's own, and begins no detection, leaves alone.
Still(t) == task'[t] = task[t]

\* A task without a job holds nothing but the list of its cycle.
Resting(r) == r = [Idle EXCEPT !.pc = r.pc, !.listed = r.listed, !.todo = r.todo]

LEMMA IdleTyped ==
    /\ Idle \in TaskRecords /\ Resting(Idle)
    /\ [Idle EXCEPT !.pc = "off"] \in TaskRecords
    /\ TaskOK(Idle) /\ TaskOK([Idle EXCEPT !.pc = "off"])
<1>1. [o \in Objects |-> Absent] \in [Objects -> Versions] /\ [o \in Objects |-> NoRow] \in [Objects -> Rows]
    BY DEF NoRow, Absent, Versions, Rows
<1>2. Idle \in TaskRecords /\ [Idle EXCEPT !.pc = "off"] \in TaskRecords
    BY <1>1 DEF Idle, TaskRecords, Places
<1>3. Resting(Idle)
    BY DEF Idle, Resting
<1>4. TaskOK(Idle) /\ TaskOK([Idle EXCEPT !.pc = "off"])
    BY <1>1 DEF Idle, TaskOK, Places, Rows
<1>. QED BY <1>2, <1>3, <1>4

\* A task at work is about one of the analyses.
LEMMA AnalysisTyped ==
    ASSUME Typed, NEW t \in Tasks, Working(t)
    PROVE  /\ AnalysisOf(t) \in Analyses
           /\ \E s : <<AnalysisOf(t), s>> \in task[t].job
<1>1. task[t].job \subseteq Jobs
    BY DEF Typed, TaskRecords
<1>. DEFINE j == CHOOSE j \in task[t].job : TRUE
<1>2. j \in task[t].job
    BY DEF Working
<1>3. j \in Jobs /\ AnalysisOf(t) = j[1]
    BY <1>1, <1>2 DEF AnalysisOf
<1>. HIDE DEF j
<1>4. j[1] \in Analyses /\ j = <<j[1], j[2]>>
    BY <1>3 DEF Jobs
<1>. QED BY <1>2, <1>3, <1>4

\* The calls of a fetch ask for every object in scope.
LEMMA CallsTyped ==
    ASSUME NEW a
    PROVE  /\ Calls(a) \subseteq SUBSET Objects /\ Calls(a) # {}
           /\ \A o \in InScope(a) : \E call \in Calls(a) : o \in call
<1>1. CASE Scope[a] # {} /\ Cardinality(Scope[a]) <= CallThreshold
    <2>1. Calls(a) = {{o \in InScope(a) : NamespaceOf[o] = n} : n \in Scope[a]}
        BY <1>1 DEF Calls
    <2>2. PICK n \in Scope[a] : TRUE
        BY <1>1
    <2>3. {o \in InScope(a) : NamespaceOf[o] = n} \in Calls(a)
        BY <2>1
    <2>4. ASSUME NEW o \in InScope(a)  PROVE \E call \in Calls(a) : o \in call
        <3>1. NamespaceOf[o] \in Scope[a]
            BY <1>1 DEF InScope
        <3>2. {p \in InScope(a) : NamespaceOf[p] = NamespaceOf[o]} \in Calls(a)
            BY <2>1, <3>1
        <3>. QED BY <3>2
    <2>5. Calls(a) \subseteq SUBSET Objects
        BY <2>1 DEF InScope
    <2>. QED BY <2>3, <2>4, <2>5
<1>2. CASE ~(Scope[a] # {} /\ Cardinality(Scope[a]) <= CallThreshold)
    BY <1>2 DEF Calls, InScope
<1>. QED BY <1>1, <1>2

LEMMA TypeInit == Init => Typed
<1>. SUFFICES ASSUME Init  PROVE Typed
    OBVIOUS
<1>1. task \in [Tasks -> TaskRecords] /\ \A t \in Tasks : TaskOK(task[t])
    BY IdleTyped DEF Init
<1>2. /\ row \in [Objects -> [state : {"none", "active", "inactive"}, version : Versions]]
      /\ baseline \in [Workers -> [Analyses -> 0 .. MaxStarts]]
    BY ConstantsAssumption DEF Init, NoRow, Absent, Versions
<1>3. actual \in [Objects -> Versions]
    BY DEF Init, Absent, Versions
<1>. QED BY <1>1, <1>2, <1>3 DEF Init, Typed, TypeOK

LEMMA InjectCounts ==
    ASSUME TypeOK, NEW fault, Inject(fault)
    PROVE  faults' \in 0 .. MaxFaults
BY ConstantsAssumption DEF Inject, TypeOK

\* The new record of the task a detection begins in, and of the others.
Begun(t, j, from) ==
    [from EXCEPT !.pc = "fetch", !.job = {j}, !.calls = Calls(j[1]), !.shared = Busy(t) # {}]

LEMMA BeginEffect ==
    ASSUME Typed, NEW t \in Tasks, NEW j \in Jobs, NEW from \in TaskRecords, BeginFetch(t, j, from)
    PROVE  /\ task'[t] = Begun(t, j, from)
           /\ task' \in [Tasks -> TaskRecords]
           /\ \A u \in Tasks \ {t} : task'[u] = IF u \in Busy(t) THEN [task[u] EXCEPT !.shared = TRUE] ELSE task[u]
           /\ flag' \in [Workers -> BOOLEAN]
<1>1. Begun(t, j, from) \in TaskRecords
    <2>1. Calls(j[1]) \in SUBSET SUBSET Objects
        BY CallsTyped
    <2>2. (Busy(t) # {}) \in BOOLEAN
        OBVIOUS
    <2>. QED BY <2>1, <2>2 DEF Begun, TaskRecords, Places
<1>2. \A u \in Tasks : [task[u] EXCEPT !.shared = TRUE] \in TaskRecords
    BY DEF Typed, TaskRecords
<1>3. task' = [u \in Tasks |->
                   CASE u = t -> Begun(t, j, from)
                     [] u \in Busy(t) -> [task[u] EXCEPT !.shared = TRUE]
                     [] OTHER -> task[u]]
    BY DEF BeginFetch, Begun
<1>4. t \notin Busy(t)
    BY DEF Busy, Others
<1>5. flag' \in [Workers -> BOOLEAN]
    BY DEF BeginFetch, Typed, TypeOK
<1>. QED BY <1>1, <1>2, <1>3, <1>4, <1>5 DEF Typed

\* What TypeOK says of a task, but for the fields' types.
TaskFits(r) ==
    /\ r.todo \subseteq r.listed
    /\ r.job = {} <=> r.pc \in {"off", "idle", "next"}
    /\ r.calls = {} <=> r.pc # "fetch"
    /\ r.news \subseteq Objects \X enabled

LEMMA FitsOK ==
    ASSUME NEW r \in TaskRecords
    PROVE  TaskOK(r) <=> TaskFits(r)
<1>1. /\ r.pc \in Places /\ r.listed \subseteq Jobs /\ r.job \subseteq Jobs /\ r.calls \subseteq SUBSET Objects
      /\ r.seen \in [Objects -> Versions] /\ r.doubt \in BOOLEAN
      /\ r.memory \in [Objects -> Rows] /\ r.blind \subseteq Objects /\ r.shared \in BOOLEAN
    BY DEF TaskRecords
<1>2. (r.job = {}) = (r.pc \in {"off", "idle", "next"}) <=> (r.job = {} <=> r.pc \in {"off", "idle", "next"})
    OBVIOUS
<1>3. (r.calls = {}) = (r.pc # "fetch") <=> (r.calls = {} <=> r.pc # "fetch")
    OBVIOUS
<1>. QED BY <1>1, <1>2, <1>3 DEF TaskOK, TaskFits, Rows

\* The step is t's: no other task's record changes.
Only(t) == \A u \in Tasks \ {t} : task'[u] = task[u]

\* The step leaves the task at the same detection.
SameJob(t) ==
    /\ task'[t].job = task[t].job /\ task'[t].listed = task[t].listed /\ task'[t].todo = task[t].todo
    /\ task'[t].shared = task[t].shared

\* What each step of a detection does to the record of its task.
LEMMA FetchEffect ==
    ASSUME Typed, NEW t \in Tasks, NEW call, Fetch(t, call)
    PROVE  /\ task' \in [Tasks -> TaskRecords] /\ Only(t) /\ SameJob(t)
           /\ task[t].pc = "fetch" /\ call \in task[t].calls /\ task'[t].calls = task[t].calls \ {call}
           /\ task'[t].pc = IF task'[t].calls = {} THEN "read" ELSE "fetch"
           /\ task'[t].memory = task[t].memory /\ task'[t].news = task[t].news
           /\ task'[t].doubt <=> (task'[t].calls = {} /\ flag'[WorkerOf(t)])
           /\ \A w \in Workers \ {WorkerOf(t)} : flag'[w] = flag[w]
           /\ flag' \in [Workers -> BOOLEAN]
           /\ \/ /\ flag'[WorkerOf(t)] <=> flag[WorkerOf(t)]
                 /\ task'[t].blind = task[t].blind
                 /\ \A o \in Objects : task'[t].seen[o] = IF o \in call THEN actual[o] ELSE task[t].seen[o]
                 /\ UNCHANGED <<excused, faults>>
              \/ /\ flag'[WorkerOf(t)]
                 /\ task'[t].blind = task[t].blind \cup call /\ task'[t].seen = task[t].seen
                 /\ Excuse(t) /\ Inject("fetch")
<1>. DEFINE rest == task[t].calls \ {call}
            answer == [o \in Objects |-> IF o \in call THEN actual[o] ELSE task[t].seen[o]]
            After1(seen, blind, doubt) ==
                [task[t] EXCEPT !.calls = rest, !.seen = seen, !.blind = blind,
                                !.doubt = rest = {} /\ doubt,
                                !.pc = IF rest = {} THEN "read" ELSE "fetch"]
<1>1. /\ task \in [Tasks -> TaskRecords] /\ WorkerOf(t) \in Workers /\ flag \in [Workers -> BOOLEAN]
      /\ task[t].pc = "fetch" /\ call \in task[t].calls
    BY DEF Typed, TypeOK, Fetch, WorkerOf, Tasks
<1>2. answer \in [Objects -> Versions] /\ task[t].seen \in [Objects -> Versions]
    BY <1>1 DEF Typed, TypeOK, TaskRecords
<1>3. rest \in SUBSET SUBSET Objects /\ call \subseteq Objects
    BY <1>1 DEF TaskRecords
<1>4. ASSUME NEW seen \in [Objects -> Versions], NEW blind \in SUBSET Objects, NEW failed \in BOOLEAN,
             Fetched(t, rest, failed, seen, blind)
      PROVE  /\ task' \in [Tasks -> TaskRecords] /\ Only(t) /\ SameJob(t)
             /\ task'[t].calls = rest /\ task'[t].seen = seen /\ task'[t].blind = blind
             /\ task'[t].pc = IF rest = {} THEN "read" ELSE "fetch"
             /\ task'[t].doubt <=> (rest = {} /\ (flag[WorkerOf(t)] \/ failed))
             /\ task'[t].memory = task[t].memory /\ task'[t].news = task[t].news
             /\ flag' = [flag EXCEPT ![WorkerOf(t)] = flag[WorkerOf(t)] \/ failed]
    <2>. DEFINE doubt == flag[WorkerOf(t)] \/ failed
                r == After1(seen, blind, doubt)
    <2>1. r \in TaskRecords
        <3>1. (rest = {} /\ doubt) \in BOOLEAN
            OBVIOUS
        <3>2. (IF rest = {} THEN "read" ELSE "fetch") \in Places
            BY DEF Places
        <3>3. task[t] \in TaskRecords
            BY <1>1
        <3>. HIDE DEF doubt, rest
        <3>. QED BY <1>3, <3>1, <3>2, <3>3 DEF TaskRecords, After1
    <2>2. task' = [task EXCEPT ![t] = r]
        BY <1>1, <1>4 DEF Fetched
    <2>3. /\ r.job = task[t].job /\ r.listed = task[t].listed /\ r.todo = task[t].todo
          /\ r.shared = task[t].shared /\ r.memory = task[t].memory /\ r.news = task[t].news
          /\ r.calls = rest /\ r.seen = seen /\ r.blind = blind
          /\ r.pc = IF rest = {} THEN "read" ELSE "fetch"
        <3>1. task[t] \in TaskRecords
            BY <1>1
        <3>. HIDE DEF doubt, rest
        <3>. QED BY <3>1 DEF TaskRecords, After1
    <2>4. r.doubt = (rest = {} /\ doubt)
        <3>1. task[t] \in TaskRecords
            BY <1>1
        <3>. HIDE DEF doubt, rest
        <3>. QED BY <3>1 DEF TaskRecords, After1
    <2>5. task'[t] = r /\ task' \in [Tasks -> TaskRecords] /\ Only(t)
        <3>. HIDE DEF r
        <3>. QED BY <1>1, <2>1, <2>2 DEF Only
    <2>6. flag' = [flag EXCEPT ![WorkerOf(t)] = flag[WorkerOf(t)] \/ failed]
        BY <1>4 DEF Fetched
    <2>7. task'[t].doubt <=> (rest = {} /\ doubt)
        BY <2>4, <2>5
    <2>. HIDE DEF r, doubt
    <2>8. SameJob(t)
        BY <2>3, <2>5 DEF SameJob
    <2>. QED BY <2>3, <2>5, <2>6, <2>7, <2>8 DEF doubt
<1>5. CASE /\ Fetched(t, rest, FALSE, answer, task[t].blind)
           /\ UNCHANGED <<excused, faults>>
    <2>1. task[t].blind \in SUBSET Objects
        BY <1>1 DEF TaskRecords
    <2>. HIDE DEF rest
    <2>2. /\ task' \in [Tasks -> TaskRecords] /\ Only(t) /\ SameJob(t)
          /\ task'[t].calls = rest /\ task'[t].seen = answer /\ task'[t].blind = task[t].blind
          /\ task'[t].pc = IF rest = {} THEN "read" ELSE "fetch"
          /\ task'[t].doubt <=> (rest = {} /\ (flag[WorkerOf(t)] \/ FALSE))
          /\ task'[t].memory = task[t].memory /\ task'[t].news = task[t].news
          /\ flag' = [flag EXCEPT ![WorkerOf(t)] = flag[WorkerOf(t)] \/ FALSE]
        <3>. HIDE DEF answer
        <3>. QED BY <1>2, <1>4, <1>5, <2>1
    <2>. QED BY <1>1, <1>5, <2>2 DEF rest
<1>6. CASE /\ Inject("fetch")
           /\ Fetched(t, rest, TRUE, task[t].seen, task[t].blind \cup call)
           /\ Excuse(t)
    <2>1. task[t].blind \cup call \in SUBSET Objects
        BY <1>1, <1>3 DEF TaskRecords
    <2>. HIDE DEF rest
    <2>2. /\ task' \in [Tasks -> TaskRecords] /\ Only(t) /\ SameJob(t)
          /\ task'[t].calls = rest /\ task'[t].seen = task[t].seen /\ task'[t].blind = task[t].blind \cup call
          /\ task'[t].pc = IF rest = {} THEN "read" ELSE "fetch"
          /\ task'[t].doubt <=> (rest = {} /\ (flag[WorkerOf(t)] \/ TRUE))
          /\ task'[t].memory = task[t].memory /\ task'[t].news = task[t].news
          /\ flag' = [flag EXCEPT ![WorkerOf(t)] = flag[WorkerOf(t)] \/ TRUE]
        BY <1>2, <1>4, <1>6, <2>1
    <2>. QED BY <1>1, <1>6, <2>2 DEF rest
<1>. QED BY <1>5, <1>6 DEF Fetch

\* The step leaves what the task has seen of the cluster.
SameLook(t) ==
    /\ task'[t].calls = task[t].calls /\ task'[t].seen = task[t].seen
    /\ task'[t].blind = task[t].blind /\ (task'[t].doubt <=> task[t].doubt)

LEMMA ReadEffect ==
    ASSUME Typed, NEW t \in Tasks, Read(t)
    PROVE  /\ task' \in [Tasks -> TaskRecords] /\ Only(t) /\ SameJob(t) /\ SameLook(t)
           /\ task[t].pc \in {"read", "reread"} /\ task'[t].news = task[t].news
           /\ \/ /\ task'[t].memory = row
                 /\ task'[t].pc = IF task[t].pc = "read" THEN "derive" ELSE "compare"
                 /\ UNCHANGED <<excused, faults>>
              \/ /\ task'[t].memory = task[t].memory
                 /\ task'[t].pc = IF task[t].pc = "read" THEN AfterDerive ELSE "report"
                 /\ Excuse(t) /\ Inject("read")
<1>1. /\ task \in [Tasks -> TaskRecords] /\ task[t] \in TaskRecords
      /\ task[t].pc \in {"read", "reread"} /\ row \in [Objects -> Rows]
    BY DEF Typed, TypeOK, Read, Rows
<1>2. ASSUME NEW memory \in [Objects -> Rows], NEW pc \in Places,
             task' = [task EXCEPT ![t] = [task[t] EXCEPT !.memory = memory, !.pc = pc]]
      PROVE  /\ task' \in [Tasks -> TaskRecords] /\ Only(t) /\ SameJob(t) /\ SameLook(t)
             /\ task'[t].news = task[t].news /\ task'[t].memory = memory /\ task'[t].pc = pc
    <2>. DEFINE r == [task[t] EXCEPT !.memory = memory, !.pc = pc]
    <2>1. r \in TaskRecords
        BY <1>1 DEF TaskRecords
    <2>2. /\ r.job = task[t].job /\ r.listed = task[t].listed /\ r.todo = task[t].todo
          /\ r.shared = task[t].shared /\ r.calls = task[t].calls /\ r.seen = task[t].seen
          /\ r.blind = task[t].blind /\ r.doubt = task[t].doubt /\ r.news = task[t].news
          /\ r.memory = memory /\ r.pc = pc
        BY <1>1 DEF TaskRecords
    <2>3. task'[t] = r /\ task' \in [Tasks -> TaskRecords] /\ Only(t)
        <3>. HIDE DEF r
        <3>. QED BY <1>1, <1>2, <2>1 DEF Only, r
    <2>. HIDE DEF r
    <2>. QED BY <2>2, <2>3 DEF SameJob, SameLook
<1>3. CASE /\ task' = [task EXCEPT ![t].memory = row, ![t].pc = After(@)]
           /\ UNCHANGED <<excused, faults>>
    <2>. DEFINE pc == IF task[t].pc = "read" THEN "derive" ELSE "compare"
    <2>1. pc \in Places /\ After(task[t].pc) = pc
        BY <1>1 DEF Places, After
    <2>2. task' = [task EXCEPT ![t] = [task[t] EXCEPT !.memory = row, !.pc = pc]]
        BY <1>1, <1>3, <2>1 DEF TaskRecords
    <2>3. /\ task' \in [Tasks -> TaskRecords] /\ Only(t) /\ SameJob(t) /\ SameLook(t)
          /\ task'[t].news = task[t].news /\ task'[t].memory = row /\ task'[t].pc = pc
        <3>. HIDE DEF pc
        <3>. QED BY <1>1, <1>2, <2>1, <2>2
    <2>. QED BY <1>1, <1>3, <2>3
<1>4. CASE /\ Inject("read")
           /\ task' = [task EXCEPT ![t].pc = IF @ = "read" THEN AfterDerive ELSE "report"]
           /\ Excuse(t)
    <2>. DEFINE pc == IF task[t].pc = "read" THEN AfterDerive ELSE "report"
    <2>1. pc \in Places /\ task[t].memory \in [Objects -> Rows]
        BY <1>1 DEF Places, AfterDerive, TaskRecords
    <2>2. task' = [task EXCEPT ![t] = [task[t] EXCEPT !.memory = task[t].memory, !.pc = pc]]
        <3>1. [task[t] EXCEPT !.memory = task[t].memory, !.pc = pc] = [task[t] EXCEPT !.pc = pc]
            BY <1>1 DEF TaskRecords
        <3>. QED BY <1>4, <3>1
    <2>3. /\ task' \in [Tasks -> TaskRecords] /\ Only(t) /\ SameJob(t) /\ SameLook(t)
          /\ task'[t].news = task[t].news /\ task'[t].memory = task[t].memory /\ task'[t].pc = pc
        <3>. HIDE DEF pc
        <3>. QED BY <1>1, <1>2, <2>1, <2>2
    <2>. QED BY <1>1, <1>4, <2>3
<1>. QED BY <1>1, <1>3, <1>4 DEF Read

\* Derive and Compare set the news and forget what was read.
LEMMA NewsEffect ==
    ASSUME Typed, NEW t \in Tasks, NEW news \in SUBSET (Objects \X Types), NEW pc \in Places,
           task' = [task EXCEPT ![t] = [task[t] EXCEPT !.news = news, !.memory = Idle.memory, !.pc = pc]]
    PROVE  /\ task' \in [Tasks -> TaskRecords] /\ Only(t) /\ SameJob(t) /\ SameLook(t)
           /\ task'[t].news = news /\ task'[t].pc = pc
<1>. DEFINE r == [task[t] EXCEPT !.news = news, !.memory = Idle.memory, !.pc = pc]
<1>1. task \in [Tasks -> TaskRecords] /\ task[t] \in TaskRecords /\ Idle.memory \in [Objects -> Rows]
    <2>1. Idle \in TaskRecords
        BY IdleTyped
    <2>. QED BY <2>1 DEF Typed, TaskRecords
<1>2. r \in TaskRecords
    <2>1. r = [task[t] EXCEPT !.news = news, !.memory = Idle.memory, !.pc = pc]
        OBVIOUS
    <2>. DEFINE memory == Idle.memory
    <2>2. memory \in [Objects -> Rows]
        BY <1>1
    <2>. HIDE DEF memory
    <2>. QED BY <1>1, <2>2 DEF TaskRecords
<1>3. /\ r.job = task[t].job /\ r.listed = task[t].listed /\ r.todo = task[t].todo
      /\ r.shared = task[t].shared /\ r.calls = task[t].calls /\ r.seen = task[t].seen
      /\ r.blind = task[t].blind /\ r.doubt = task[t].doubt /\ r.news = news /\ r.pc = pc
    BY <1>1 DEF TaskRecords
<1>4. task'[t] = r /\ task' \in [Tasks -> TaskRecords] /\ Only(t)
    <2>. HIDE DEF r
    <2>. QED BY <1>1, <1>2 DEF Only, r
<1>. HIDE DEF r
<1>. QED BY <1>3, <1>4 DEF SameJob, SameLook

DerivedNews(t) == IF Wanted THEN Reported(Derived(t)) ELSE {}

LEMMA DeriveEffect ==
    ASSUME Typed, NEW t \in Tasks, Derive(t)
    PROVE  /\ task' \in [Tasks -> TaskRecords] /\ Only(t) /\ SameJob(t) /\ SameLook(t)
           /\ task[t].pc = "derive" /\ task'[t].pc = AfterDerive
           /\ task'[t].news = DerivedNews(t) /\ DerivedNews(t) \subseteq Objects \X enabled
<1>1. enabled \subseteq Types /\ InScope(AnalysisOf(t)) \subseteq Objects
    BY ConstantsAssumption DEF Typed, TypeOK, InScope
<1>2. Derived(t) \subseteq Objects \X Types
    <2>1. In(t, "active") \subseteq Objects /\ In(t, "inactive") \subseteq Objects /\ In(t, "none") \subseteq Objects
        BY <1>1 DEF In
    <2>2. New(t) \subseteq Objects /\ Back(t) \subseteq Objects /\ Gone(t) \subseteq Objects
        BY <2>1 DEF New, Back, Gone, Missing
    <2>3. Different(t) \subseteq Objects
        BY <2>1 DEF Different
    <2>4. {"added", "changed", "removed"} = Types
        BY DEF Types
    <2>. HIDE DEF New, Back, Gone, Different
    <2>5. kind \in {"workload", "config", "service", "policy"}
        BY DEF Typed, TypeOK, AllKinds
    <2>. QED BY <2>2, <2>3, <2>4, <2>5 DEF Derived
<1>3. DerivedNews(t) \subseteq Objects \X enabled
    BY <1>2 DEF DerivedNews, Reported
<1>4. DerivedNews(t) \in SUBSET (Objects \X Types)
    BY <1>1, <1>3
<1>5. AfterDerive \in Places
    BY DEF AfterDerive, Places
<1>. DEFINE news == DerivedNews(t)
            pc == AfterDerive
<1>6. task' = [task EXCEPT ![t] = [task[t] EXCEPT !.news = news, !.memory = Idle.memory, !.pc = pc]]
    BY DEF Derive, DerivedNews
<1>7. news \in SUBSET (Objects \X Types) /\ pc \in Places
    BY <1>4, <1>5
<1>. HIDE DEF news, pc
<1>8. /\ task' \in [Tasks -> TaskRecords] /\ Only(t) /\ SameJob(t) /\ SameLook(t)
      /\ task'[t].news = news /\ task'[t].pc = pc
    BY <1>6, <1>7, NewsEffect
<1>. QED BY <1>3, <1>8 DEF Derive, news, pc

ComparedNews(t) ==
    task[t].news \cup (IF "changed" \in enabled THEN Different(t) ELSE {}) \X {"changed"}

LEMMA CompareEffect ==
    ASSUME Typed, NEW t \in Tasks, Compare(t)
    PROVE  /\ task' \in [Tasks -> TaskRecords] /\ Only(t) /\ SameJob(t) /\ SameLook(t)
           /\ task[t].pc = "compare" /\ task'[t].pc = "report"
           /\ task'[t].news = ComparedNews(t) /\ ComparedNews(t) \subseteq Objects \X enabled
<1>1. enabled \subseteq Types /\ Different(t) \subseteq Objects
    BY ConstantsAssumption DEF Typed, TypeOK, InScope, Different, In
<1>2. task[t].news \subseteq Objects \X enabled
    BY DEF Typed, TypeOK, TaskOK
<1>3. ComparedNews(t) \subseteq Objects \X enabled
    BY <1>1, <1>2 DEF ComparedNews
<1>4. ComparedNews(t) \in SUBSET (Objects \X Types)
    BY <1>1, <1>3
<1>. DEFINE news == ComparedNews(t)
            pc == "report"
<1>5. task' = [task EXCEPT ![t] = [task[t] EXCEPT !.news = news, !.memory = Idle.memory, !.pc = pc]]
    BY DEF Compare, ComparedNews
<1>6. news \in SUBSET (Objects \X Types) /\ pc \in Places
    BY <1>4 DEF Places
<1>. HIDE DEF news, pc
<1>7. /\ task' \in [Tasks -> TaskRecords] /\ Only(t) /\ SameJob(t) /\ SameLook(t)
      /\ task'[t].news = news /\ task'[t].pc = pc
    BY <1>5, <1>6, NewsEffect
<1>. QED BY <1>3, <1>7 DEF Compare, news, pc

\* The step leaves the task without a job.
Released(t) == task'[t].job = {} /\ Resting(task'[t])

RestingAt(pc, listed, todo) == [Idle EXCEPT !.pc = pc, !.listed = listed, !.todo = todo]

ListsTyped(pc, listed, todo) == pc \in Places /\ listed \in SUBSET Jobs /\ todo \in SUBSET Jobs

LEMMA RestingRecord ==
    ASSUME NEW pc, NEW listed, NEW todo, ListsTyped(pc, listed, todo)
    PROVE  /\ RestingAt(pc, listed, todo) \in TaskRecords /\ Resting(RestingAt(pc, listed, todo))
           /\ RestingAt(pc, listed, todo).pc = pc
           /\ RestingAt(pc, listed, todo).listed = listed /\ RestingAt(pc, listed, todo).todo = todo
           /\ RestingAt(pc, listed, todo).job = {} /\ RestingAt(pc, listed, todo).calls = {}
           /\ RestingAt(pc, listed, todo).news = {}
<1>. DEFINE r == RestingAt(pc, listed, todo)
<1>1. Idle \in TaskRecords
    BY IdleTyped
<1>2. r \in TaskRecords /\ r.pc = pc /\ r.listed = listed /\ r.todo = todo
    BY <1>1 DEF ListsTyped, TaskRecords, RestingAt
<1>3. r.job = {} /\ r.calls = {} /\ r.news = {}
    BY DEF Idle, RestingAt
<1>4. Resting(r)
    BY <1>2 DEF Resting, RestingAt
<1>. QED BY <1>2, <1>3, <1>4

LEMMA IdleRests == Idle = RestingAt("idle", {}, {})
<1>1. Idle \in TaskRecords /\ Idle.pc = "idle" /\ Idle.listed = {} /\ Idle.todo = {}
    BY IdleTyped DEF Idle
<1>. QED BY <1>1 DEF RestingAt, TaskRecords

\* What the steps that leave a task without a job do to its record.
LEMMA FinishEffect ==
    ASSUME Typed, NEW t \in Tasks, task' = [task EXCEPT ![t] = Finished(t)]
    PROVE  /\ task' \in [Tasks -> TaskRecords] /\ Only(t) /\ Released(t)
           /\ task'[t].pc = IF t[2] = "loop" THEN "next" ELSE "idle"
           /\ task'[t].listed = IF t[2] = "loop" THEN task[t].listed ELSE {}
           /\ task'[t].todo = IF t[2] = "loop" THEN task[t].todo ELSE {}
           /\ task'[t].calls = {} /\ task'[t].news = {}
<1>1. task \in [Tasks -> TaskRecords]
    BY DEF Typed
<1>. DEFINE pc == IF t[2] = "loop" THEN "next" ELSE "idle"
            listed == IF t[2] = "loop" THEN task[t].listed ELSE {}
            todo == IF t[2] = "loop" THEN task[t].todo ELSE {}
            r == Finished(t)
<1>2. ListsTyped(pc, listed, todo)
    BY <1>1 DEF ListsTyped, Places, TaskRecords
<1>3. r = RestingAt(pc, listed, todo)
    <2>1. CASE t[2] = "loop"
        BY <2>1 DEF Finished, RestingAt
    <2>2. CASE t[2] # "loop"
        BY <2>2, IdleRests DEF Finished
    <2>. QED BY <2>1, <2>2
<1>. HIDE DEF pc, listed, todo, r
<1>4. /\ r \in TaskRecords /\ Resting(r) /\ r.pc = pc /\ r.listed = listed /\ r.todo = todo
      /\ r.job = {} /\ r.calls = {} /\ r.news = {}
    BY <1>2, <1>3, RestingRecord
<1>5. task' = [task EXCEPT ![t] = r]
    BY DEF r
<1>. QED BY <1>1, <1>4, <1>5 DEF Only, Released, pc, listed, todo

LEMMA LoopBeginEffect ==
    ASSUME Typed, NEW w \in Workers, LoopBegin(w)
    PROVE  LET t == <<w, "loop">>
               list == {<<a, starts[a]>> : a \in running}
           IN  /\ t \in Tasks /\ task' \in [Tasks -> TaskRecords] /\ Only(t) /\ Released(t)
               /\ task[t].pc = "idle" /\ task'[t].pc = "next"
               /\ task'[t].listed = list /\ task'[t].todo = list
               /\ task'[t].calls = {} /\ task'[t].news = {}
<1>. DEFINE t == <<w, "loop">>
            list == {<<a, starts[a]>> : a \in running}
            r == RestingAt("next", list, list)
<1>1. /\ task \in [Tasks -> TaskRecords] /\ t \in Tasks /\ ListsTyped("next", list, list)
      /\ task[t].pc = "idle" /\ task' = [task EXCEPT ![t] = r]
    BY DEF Typed, TypeOK, Tasks, Jobs, Places, LoopBegin, RestingAt, ListsTyped
<1>. HIDE DEF list
<1>2. /\ r \in TaskRecords /\ Resting(r) /\ r.pc = "next" /\ r.listed = list /\ r.todo = list
      /\ r.job = {} /\ r.calls = {} /\ r.news = {}
    BY <1>1, RestingRecord
<1>. HIDE DEF t, r
<1>3. /\ task' \in [Tasks -> TaskRecords] /\ Only(t) /\ task'[t] = r
    BY <1>1, <1>2 DEF Only
<1>. QED BY <1>1, <1>2, <1>3 DEF Released, t, list

LEMMA LoopEndEffect ==
    ASSUME Typed, NEW w \in Workers, LoopEnd(w)
    PROVE  LET t == <<w, "loop">>
           IN  /\ t \in Tasks /\ task' \in [Tasks -> TaskRecords] /\ Only(t) /\ Released(t)
               /\ task[t].pc = "next" /\ task'[t] = Idle
<1>. DEFINE t == <<w, "loop">>
<1>1. /\ task \in [Tasks -> TaskRecords] /\ t \in Tasks
      /\ task[t].pc = "next" /\ task' = [task EXCEPT ![t] = Idle]
    BY DEF Typed, Tasks, LoopEnd
<1>2. Idle \in TaskRecords /\ Resting(Idle) /\ Idle.job = {}
    BY IdleTyped DEF Idle
<1>. HIDE DEF t
<1>3. /\ task' \in [Tasks -> TaskRecords] /\ Only(t) /\ task'[t] = Idle
    BY <1>1, <1>2 DEF Only
<1>. QED BY <1>1, <1>2, <1>3 DEF Released, t

LEMMA CrashEffect ==
    ASSUME Typed, NEW w \in Workers, Crash(w)
    PROVE  /\ task' \in [Tasks -> TaskRecords]
           /\ \A t \in Tasks : IF WorkerOf(t) = w /\ task[t].pc # "off" THEN task'[t] = Idle ELSE Still(t)
<1>1. /\ task \in [Tasks -> TaskRecords] /\ Idle \in TaskRecords
      /\ task' = [t \in Tasks |-> IF WorkerOf(t) = w /\ task[t].pc # "off" THEN Idle ELSE task[t]]
    BY IdleTyped DEF Typed, Crash
<1>. QED BY <1>1 DEF Still

\* The record of a task in which a detection has just begun.
Fresh(r, t, j) ==
    /\ r.pc = "fetch" /\ r.job = {j} /\ r.calls = Calls(j[1]) /\ (r.shared <=> Busy(t) # {})
    /\ r.news = {} /\ r.blind = {} /\ \A o \in Objects : r.seen[o] = Absent

Begins(t, j) ==
    /\ ~Working(t) /\ Fresh(task'[t], t, j)
    /\ \A u \in Tasks \ {t} :
          task'[u] = IF u \in Busy(t) THEN [task[u] EXCEPT !.shared = TRUE] ELSE task[u]

LEMMA BegunRecord ==
    ASSUME NEW t, NEW j \in Jobs, NEW from \in TaskRecords, Resting(from)
    PROVE  Fresh(Begun(t, j, from), t, j)
<1>1. from.news = {} /\ from.blind = {} /\ from.seen = [o \in Objects |-> Absent]
    BY DEF Resting, Idle
<1>2. Begun(t, j, from).shared = (Busy(t) # {})
    BY DEF Begun, TaskRecords
<1>3. Begun(t, j, from).shared <=> Busy(t) # {}
    BY <1>2
<1>4. /\ Begun(t, j, from).pc = "fetch" /\ Begun(t, j, from).job = {j}
      /\ Begun(t, j, from).calls = Calls(j[1])
      /\ Begun(t, j, from).news = {} /\ Begun(t, j, from).blind = {}
      /\ \A o \in Objects : Begun(t, j, from).seen[o] = Absent
    BY <1>1 DEF Begun, TaskRecords
<1>. QED BY <1>3, <1>4 DEF Fresh

LEMMA BegunLists ==
    ASSUME NEW t, NEW j, NEW from \in TaskRecords
    PROVE  Begun(t, j, from).listed = from.listed /\ Begun(t, j, from).todo = from.todo
BY DEF Begun, TaskRecords

\* What the steps that begin a detection do to the records of the tasks.
LEMMA LoopNextEffect ==
    ASSUME Typed, NEW w \in Workers, NEW j, LoopNext(w, j), Resting(task[<<w, "loop">>])
    PROVE  LET t == <<w, "loop">>
           IN  /\ t \in Tasks /\ task' \in [Tasks -> TaskRecords] /\ Begins(t, j)
               /\ j \in task[t].todo /\ j \in Jobs
               /\ task'[t].listed = task[t].listed /\ task'[t].todo = task[t].todo \ {j}
               /\ flag' = [flag EXCEPT ![w] = FALSE] /\ flag' \in [Workers -> BOOLEAN]
<1>. DEFINE t == <<w, "loop">>
            from == [task[t] EXCEPT !.todo = @ \ {j}]
<1>1. /\ task \in [Tasks -> TaskRecords] /\ t \in Tasks /\ task[t].pc = "next" /\ j \in task[t].todo
      /\ BeginFetch(t, j, from) /\ WorkerOf(t) = w
    BY DEF Typed, Tasks, LoopNext, WorkerOf
<1>2. task[t].job = {} /\ task[t].todo \subseteq task[t].listed /\ task[t].listed \subseteq Jobs
    BY <1>1 DEF Typed, TypeOK, TaskOK
<1>3. from \in TaskRecords /\ from.listed = task[t].listed /\ from.todo = task[t].todo \ {j}
    <2>. DEFINE todo == task[t].todo \ {j}
    <2>1. todo \in SUBSET Jobs /\ task[t] \in TaskRecords /\ from = [task[t] EXCEPT !.todo = todo]
        BY <1>1, <1>2
    <2>. HIDE DEF todo, from
    <2>2. from \in TaskRecords /\ from.listed = task[t].listed /\ from.todo = todo
        BY <2>1 DEF TaskRecords
    <2>. QED BY <2>2 DEF todo
<1>4. Resting(from)
    BY <1>1, <1>3 DEF Resting, TaskRecords, Idle
<1>5. j \in Jobs
    BY <1>1, <1>2
<1>. HIDE DEF t, from
<1>6. /\ task'[t] = Begun(t, j, from) /\ task' \in [Tasks -> TaskRecords]
      /\ \A u \in Tasks \ {t} : task'[u] = IF u \in Busy(t) THEN [task[u] EXCEPT !.shared = TRUE] ELSE task[u]
      /\ flag' \in [Workers -> BOOLEAN]
    BY <1>1, <1>3, <1>5, BeginEffect
<1>7. Begins(t, j)
    BY <1>2, <1>3, <1>4, <1>5, <1>6, BegunRecord DEF Begins, Working
<1>8. task'[t].listed = task[t].listed /\ task'[t].todo = task[t].todo \ {j}
    <2>1. Begun(t, j, from).listed = from.listed /\ Begun(t, j, from).todo = from.todo
        BY <1>3, BegunLists
    <2>. QED BY <1>3, <1>6, <2>1
<1>9. flag' = [flag EXCEPT ![w] = FALSE]
    BY <1>1 DEF BeginFetch
<1>. QED BY <1>1, <1>5, <1>6, <1>7, <1>8, <1>9 DEF t

LEMMA TriggerEffect ==
    ASSUME Typed, NEW w \in Workers, NEW a \in Analyses, Trigger(w, a)
    PROVE  LET t == <<w, "trigger">>
           IN  /\ t \in Tasks /\ task' \in [Tasks -> TaskRecords] /\ Begins(t, <<a, starts[a]>>)
               /\ task'[t].listed = {} /\ task'[t].todo = {}
               /\ flag' = [flag EXCEPT ![w] = FALSE] /\ flag' \in [Workers -> BOOLEAN]
<1>. DEFINE t == <<w, "trigger">>
            j == <<a, starts[a]>>
            from == Idle
<1>1. /\ task \in [Tasks -> TaskRecords] /\ t \in Tasks /\ task[t].pc = "idle"
      /\ BeginFetch(t, j, from) /\ WorkerOf(t) = w /\ j \in Jobs
    BY DEF Typed, TypeOK, Tasks, Trigger, WorkerOf, Jobs
<1>2. task[t].job = {}
    BY <1>1 DEF Typed, TypeOK, TaskOK
<1>3. from \in TaskRecords /\ Resting(from) /\ from.listed = {} /\ from.todo = {}
    BY IdleTyped DEF Idle
<1>. HIDE DEF t, j, from
<1>4. /\ task'[t] = Begun(t, j, from) /\ task' \in [Tasks -> TaskRecords]
      /\ \A u \in Tasks \ {t} : task'[u] = IF u \in Busy(t) THEN [task[u] EXCEPT !.shared = TRUE] ELSE task[u]
      /\ flag' \in [Workers -> BOOLEAN]
    BY <1>1, <1>3, BeginEffect
<1>5. Begins(t, j)
    BY <1>1, <1>2, <1>3, <1>4, BegunRecord DEF Begins, Working
<1>6. task'[t].listed = {} /\ task'[t].todo = {}
    <2>1. Begun(t, j, from).listed = from.listed /\ Begun(t, j, from).todo = from.todo
        BY <1>3, BegunLists
    <2>. QED BY <1>3, <1>4, <2>1
<1>7. flag' = [flag EXCEPT ![w] = FALSE]
    BY <1>1 DEF BeginFetch
<1>. QED BY <1>1, <1>4, <1>5, <1>6, <1>7 DEF t, j

Rested == \A t \in Tasks : ~Working(t) => Resting(task[t])

TasksTyped ==
    /\ task \in [Tasks -> TaskRecords]
    /\ \A t \in Tasks : TaskFits(task[t])
    /\ Rested

\* TypeOK without the tasks.
RestTyped ==
    /\ kind \in AllKinds /\ enabled \in EnabledTypes
    /\ actual \in [Objects -> Versions] /\ row \in [Objects -> Rows]
    /\ running \subseteq Analyses /\ starts \in [Analyses -> 0 .. MaxStarts]
    /\ leader \in [Workers -> BOOLEAN] /\ baseline \in [Workers -> [Analyses -> 0 .. MaxStarts]]
    /\ flag \in [Workers -> BOOLEAN] /\ sent \subseteq Analyses \X Objects \X enabled
    /\ moved \in [Analyses -> SUBSET Objects] /\ excused \subseteq Analyses
    /\ changes \in 0 .. MaxChanges /\ faults \in 0 .. MaxFaults

TypeInv == Typed /\ Rested

LEMMA TypeParts == TypeInv <=> TasksTyped /\ RestTyped
BY FitsOK DEF TypeInv, Typed, TypeOK, TasksTyped, RestTyped, Rows

LEMMA TypePartsNext ==
    ASSUME TasksTyped', RestTyped'  PROVE TypeInv'
<1>1. ASSUME NEW t \in Tasks  PROVE TaskOK(task[t])'
    <2>1. task'[t] \in TaskRecords /\ TaskFits(task[t])'
        BY DEF TasksTyped
    <2>. DEFINE r == task'[t]
    <2>2. /\ r.pc \in Places /\ r.listed \subseteq Jobs /\ r.job \subseteq Jobs /\ r.calls \subseteq SUBSET Objects
          /\ r.seen \in [Objects -> Versions] /\ r.doubt \in BOOLEAN
          /\ r.memory \in [Objects -> Rows] /\ r.blind \subseteq Objects /\ r.shared \in BOOLEAN
        <3>. HIDE DEF r
        <3>. QED BY <2>1 DEF r, TaskRecords
    <2>3. /\ (r.job = {}) = (r.pc \in {"off", "idle", "next"})
          /\ (r.calls = {}) = (r.pc # "fetch")
          /\ r.todo \subseteq r.listed /\ r.news \subseteq Objects \X enabled'
        BY <2>1 DEF TaskFits
    <2>. HIDE DEF r
    <2>. QED BY <2>2, <2>3 DEF TaskOK, Rows, r
<1>2. TypeOK'
    <2>1. /\ kind' \in AllKinds /\ enabled' \in EnabledTypes
          /\ actual' \in [Objects -> Versions] /\ row' \in [Objects -> Rows]
          /\ running' \subseteq Analyses /\ starts' \in [Analyses -> 0 .. MaxStarts]
          /\ leader' \in [Workers -> BOOLEAN] /\ baseline' \in [Workers -> [Analyses -> 0 .. MaxStarts]]
          /\ flag' \in [Workers -> BOOLEAN] /\ sent' \subseteq Analyses \X Objects \X enabled'
          /\ moved' \in [Analyses -> SUBSET Objects] /\ excused' \subseteq Analyses
          /\ changes' \in 0 .. MaxChanges /\ faults' \in 0 .. MaxFaults
        BY DEF RestTyped
    <2>. QED BY <1>1, <2>1 DEF TypeOK, Rows
<1>3. task' \in [Tasks -> TaskRecords] /\ Rested'
    BY DEF TasksTyped
<1>. QED BY <1>2, <1>3 DEF TypeInv, Typed

\* The record of one task has changed.
LEMMA OneTaskTyped ==
    ASSUME TasksTyped, NEW t \in Tasks, enabled' = enabled, task' \in [Tasks -> TaskRecords],
           TaskFits(task[t])', task'[t].job = {} => Resting(task'[t]),
           \A u \in Tasks \ {t} :
              \/ task'[u] = task[u]
              \/ u \in Busy(t) /\ task'[u] = [task[u] EXCEPT !.shared = TRUE]
    PROVE  TasksTyped'
<1>1. ASSUME NEW u \in Tasks \ {t}  PROVE TaskFits(task[u])' /\ (task'[u].job = {} => Resting(task'[u]))
    <2>1. CASE task'[u] = task[u]
        BY <2>1 DEF TasksTyped, TaskFits, Rested, Working
    <2>2. CASE u \in Busy(t) /\ task'[u] = [task[u] EXCEPT !.shared = TRUE]
        <3>1. task[u] \in TaskRecords /\ TaskFits(task[u]) /\ task[u].job # {}
            BY <2>2 DEF TasksTyped, Busy
        <3>2. /\ task'[u].todo = task[u].todo /\ task'[u].listed = task[u].listed
              /\ task'[u].job = task[u].job /\ task'[u].pc = task[u].pc
              /\ task'[u].calls = task[u].calls /\ task'[u].news = task[u].news
            BY <2>2, <3>1 DEF TaskRecords
        <3>. QED BY <3>1, <3>2 DEF TaskFits
    <2>. QED BY <1>1, <2>1, <2>2
<1>. QED BY <1>1 DEF TasksTyped, Rested, Working

LEMMA BeginTasksTyped ==
    ASSUME TypeInv, NEW t \in Tasks, NEW j \in Jobs, enabled' = enabled,
           task' \in [Tasks -> TaskRecords], Begins(t, j), task'[t].todo \subseteq task'[t].listed
    PROVE  TasksTyped'
<1>1. TasksTyped
    BY TypeParts
<1>2. TaskFits(task[t])' /\ task'[t].job # {}
    <2>1. Fresh(task'[t], t, j)
        BY DEF Begins
    <2>2. Calls(j[1]) # {}
        BY CallsTyped
    <2>. QED BY <2>1, <2>2 DEF Fresh, TaskFits
<1>. QED BY <1>1, <1>2, OneTaskTyped DEF Begins

LEMMA WorkTasksTyped ==
    ASSUME TypeInv, NEW t \in Tasks, enabled' = enabled,
           (\E call \in task[t].calls : Fetch(t, call)) \/ Read(t) \/ Derive(t) \/ Compare(t)
    PROVE  TasksTyped'
<1>1. TasksTyped /\ Typed
    BY TypeParts DEF TypeInv
<1>2. TaskFits(task[t]) /\ task[t].news \subseteq Objects \X enabled
    BY <1>1 DEF TasksTyped, TaskFits
<1>3. CASE \E call \in task[t].calls : Fetch(t, call)
    <2>1. PICK call \in task[t].calls : Fetch(t, call)
        BY <1>3
    <2>2. /\ task' \in [Tasks -> TaskRecords] /\ Only(t) /\ SameJob(t) /\ task[t].pc = "fetch"
          /\ task'[t].pc = IF task'[t].calls = {} THEN "read" ELSE "fetch"
          /\ task'[t].news = task[t].news
        BY <1>1, <2>1, FetchEffect
    <2>3. TaskFits(task[t])' /\ task'[t].job # {}
        BY <1>2, <2>2 DEF TaskFits, SameJob
    <2>. QED BY <1>1, <2>2, <2>3, OneTaskTyped DEF Only
<1>4. CASE Read(t)
    <2>1. /\ task' \in [Tasks -> TaskRecords] /\ Only(t) /\ SameJob(t) /\ SameLook(t)
          /\ task[t].pc \in {"read", "reread"} /\ task'[t].news = task[t].news
          /\ task'[t].pc \in {"derive", "compare", "reread", "report"}
        BY <1>1, <1>4, ReadEffect DEF AfterDerive
    <2>2. TaskFits(task[t])' /\ task'[t].job # {}
        BY <1>2, <2>1 DEF TaskFits, SameJob, SameLook
    <2>. QED BY <1>1, <2>1, <2>2, OneTaskTyped DEF Only
<1>5. CASE Derive(t)
    <2>1. /\ task' \in [Tasks -> TaskRecords] /\ Only(t) /\ SameJob(t) /\ SameLook(t)
          /\ task[t].pc = "derive" /\ task'[t].pc \in {"reread", "report"}
          /\ task'[t].news \subseteq Objects \X enabled
        BY <1>1, <1>5, DeriveEffect DEF AfterDerive
    <2>2. TaskFits(task[t])' /\ task'[t].job # {}
        BY <1>2, <2>1 DEF TaskFits, SameJob, SameLook
    <2>. QED BY <1>1, <2>1, <2>2, OneTaskTyped DEF Only
<1>6. CASE Compare(t)
    <2>1. /\ task' \in [Tasks -> TaskRecords] /\ Only(t) /\ SameJob(t) /\ SameLook(t)
          /\ task[t].pc = "compare" /\ task'[t].pc = "report"
          /\ task'[t].news \subseteq Objects \X enabled
        BY <1>1, <1>6, CompareEffect
    <2>2. TaskFits(task[t])' /\ task'[t].job # {}
        BY <1>2, <2>1 DEF TaskFits, SameJob, SameLook
    <2>. QED BY <1>1, <2>1, <2>2, OneTaskTyped DEF Only
<1>. QED BY <1>3, <1>4, <1>5, <1>6

LEMMA ReleaseTasksTyped ==
    ASSUME TypeInv, NEW t \in Tasks, enabled' = enabled,
           task' = [task EXCEPT ![t] = Finished(t)]
    PROVE  TasksTyped'
<1>1. TasksTyped /\ Typed
    BY TypeParts DEF TypeInv
<1>2. /\ task' \in [Tasks -> TaskRecords] /\ Only(t) /\ Released(t)
      /\ task'[t].pc \in {"next", "idle"} /\ task'[t].todo \subseteq task'[t].listed
      /\ task'[t].calls = {} /\ task'[t].news = {}
    BY <1>1, FinishEffect DEF TasksTyped, TaskFits
<1>3. TaskFits(task[t])' /\ Resting(task'[t])
    BY <1>2 DEF TaskFits, Released
<1>. QED BY <1>1, <1>2, <1>3, OneTaskTyped DEF Only

\* What is written to the rows are rows.
LEMMA UpdateTyped ==
    ASSUME TypeInv, NEW t \in Tasks, NEW active, NEW inactive, NEW lost, Update(t, active, inactive, lost)
    PROVE  row' \in [Objects -> Rows] /\ faults' \in 0 .. MaxFaults
<1>1. task[t].seen \in [Objects -> Versions] /\ row \in [Objects -> Rows] /\ faults \in 0 .. MaxFaults
    BY DEF TypeInv, Typed, TypeOK, TaskRecords, Rows
<1>2. ASSUME NEW o \in Objects
      PROVE  /\ [state |-> "active", version |-> task[t].seen[o]] \in Rows
             /\ [row[o] EXCEPT !.state = "inactive"] \in Rows
             /\ row[o] \in Rows
    BY <1>1 DEF Rows
<1>3. row' \in [Objects -> Rows]
    <2>. DEFINE r(o) == IF o \in active \ lost THEN [state |-> "active", version |-> task[t].seen[o]]
                        ELSE IF o \in inactive \ lost THEN [row[o] EXCEPT !.state = "inactive"]
                        ELSE row[o]
    <2>1. \A o \in Objects : r(o) \in Rows
        BY <1>2
    <2>2. row' = [o \in Objects |-> r(o)]
        BY DEF Update
    <2>. HIDE DEF r
    <2>. QED BY <2>1, <2>2
<1>4. faults' \in 0 .. MaxFaults
    BY <1>1, InjectCounts DEF Update, TypeInv, Typed
<1>. QED BY <1>3, <1>4

\* So are refreshed ones.
LEMMA RefreshTyped ==
    ASSUME TypeInv, NEW t \in Tasks, NEW different, NEW lost, Refresh(t, different, lost)
    PROVE  row' \in [Objects -> Rows] /\ faults' \in 0 .. MaxFaults
<1>1. task[t].seen \in [Objects -> Versions] /\ row \in [Objects -> Rows] /\ faults \in 0 .. MaxFaults
    BY DEF TypeInv, Typed, TypeOK, TaskRecords, Rows
<1>2. ASSUME NEW o \in Objects
      PROVE  [row[o] EXCEPT !.version = task[t].seen[o]] \in Rows /\ row[o] \in Rows
    BY <1>1 DEF Rows
<1>3. row' \in [Objects -> Rows]
    <2>. DEFINE r(o) == IF o \in different \ lost THEN [row[o] EXCEPT !.version = task[t].seen[o]]
                        ELSE row[o]
    <2>1. \A o \in Objects : r(o) \in Rows
        BY <1>2
    <2>2. row' = [o \in Objects |-> r(o)]
        BY DEF Refresh
    <2>. HIDE DEF r
    <2>. QED BY <2>1, <2>2
<1>4. faults' \in 0 .. MaxFaults
    BY <1>1, InjectCounts DEF Refresh, TypeInv, Typed
<1>. QED BY <1>3, <1>4

\* What nothing but the end of a detection, the worker or a start changes.
LEMMA DetectRest ==
    ASSUME TypeInv, NEW t \in Tasks,
           (\E call \in task[t].calls : Fetch(t, call)) \/ Read(t) \/ Derive(t) \/ Compare(t)
    PROVE  RestTyped'
<1>1. RestTyped /\ Typed /\ TypeOK
    BY TypeParts DEF TypeInv, Typed
<1>2. ASSUME Excuse(t), Working(t)  PROVE excused' \subseteq Analyses
    BY <1>1, <1>2, AnalysisTyped DEF Excuse, RestTyped
<1>3. Working(t)
    BY <1>1 DEF Fetch, Read, Derive, Compare, Working, TypeOK, TaskOK
<1>4. CASE \E call \in task[t].calls : Fetch(t, call)
    <2>1. PICK call \in task[t].calls : Fetch(t, call)
        BY <1>4
    <2>2. flag' \in [Workers -> BOOLEAN] /\ (UNCHANGED <<excused, faults>> \/ (Excuse(t) /\ Inject("fetch")))
        BY <1>1, <2>1, FetchEffect
    <2>3. UNCHANGED <<cluster, row, table, leader, baseline, sent, moved>>
        BY <2>1 DEF Fetch
    <2>4. excused' \subseteq Analyses /\ faults' \in 0 .. MaxFaults
        BY <1>1, <1>2, <1>3, <2>2, InjectCounts DEF RestTyped
    <2>. QED BY <1>1, <2>2, <2>3, <2>4 DEF RestTyped, cluster, table
<1>5. CASE Read(t)
    <2>1. UNCHANGED <<excused, faults>> \/ (Excuse(t) /\ Inject("read"))
        BY <1>5 DEF Read
    <2>2. UNCHANGED <<cluster, row, table, leader, baseline, flag, sent, moved>>
        BY <1>5 DEF Read
    <2>3. excused' \subseteq Analyses /\ faults' \in 0 .. MaxFaults
        BY <1>1, <1>2, <1>3, <2>1, InjectCounts DEF RestTyped
    <2>. QED BY <1>1, <2>2, <2>3 DEF RestTyped, cluster, table
<1>6. CASE Derive(t) \/ Compare(t)
    <2>1. /\ \/ \E active, inactive, lost : Update(t, active, inactive, lost)
             \/ \E different, lost : Refresh(t, different, lost)
          /\ Excuse(t) \/ UNCHANGED excused
        BY <1>6 DEF Derive, Compare
    <2>2. UNCHANGED <<cluster, table, leader, baseline, flag, sent, moved>>
        BY <1>6 DEF Derive, Compare
    <2>3. row' \in [Objects -> Rows] /\ faults' \in 0 .. MaxFaults
        BY <2>1, UpdateTyped, RefreshTyped
    <2>4. excused' \subseteq Analyses
        BY <1>1, <1>2, <1>3, <2>1 DEF RestTyped
    <2>. QED BY <1>1, <2>2, <2>3, <2>4 DEF RestTyped, cluster, table
<1>. QED BY <1>4, <1>5, <1>6

LEMMA EndFirstCycleType ==
    ASSUME TypeInv, NEW t \in Tasks, EndFirstCycle(t)  PROVE TypeInv'
<1>1. RestTyped /\ Typed /\ Working(t)
    BY TypeParts DEF TypeInv, Typed, EndFirstCycle, Working, TypeOK, TaskOK
<1>2. AnalysisOf(t) \in Analyses
    BY <1>1, AnalysisTyped
<1>3. TasksTyped'
    BY ReleaseTasksTyped DEF EndFirstCycle, cluster
<1>4. RestTyped'
    <2>1. baseline' \in [Workers -> [Analyses -> 0 .. MaxStarts]]
        <3>. DEFINE w == WorkerOf(t)
                    a == AnalysisOf(t)
        <3>1. baseline' = [baseline EXCEPT ![w][a] = starts[a]]
            BY DEF EndFirstCycle
        <3>2. starts[a] \in 0 .. MaxStarts /\ baseline \in [Workers -> [Analyses -> 0 .. MaxStarts]]
            BY <1>1, <1>2 DEF RestTyped
        <3>. HIDE DEF w, a
        <3>. QED BY <3>1, <3>2
    <2>2. UNCHANGED <<cluster, row, table, leader, flag, sent, moved, excused, faults>>
        BY DEF EndFirstCycle
    <2>. QED BY <1>1, <2>1, <2>2 DEF RestTyped, cluster, table
<1>. QED BY <1>3, <1>4, TypePartsNext

LEMMA PublishType ==
    ASSUME TypeInv, NEW t \in Tasks, Publish(t)  PROVE TypeInv'
<1>1. RestTyped /\ Typed /\ TypeOK /\ Working(t) /\ task[t].news \subseteq Objects \X enabled
    BY TypeParts DEF TypeInv, Typed, Publish, Working, TypeOK, TaskOK
<1>2. AnalysisOf(t) \in Analyses
    BY <1>1, AnalysisTyped
<1>3. TasksTyped'
    BY ReleaseTasksTyped DEF Publish, cluster
<1>4. PICK kept \in Kept(t) : \E out \in SUBSET kept :
          /\ UNCHANGED faults \/ Inject("publish")
          /\ sent' = sent \cup {<<AnalysisOf(t), n[1], n[2]>> : n \in kept \ out}
    BY DEF Publish
<1>5. sent' \subseteq Analyses \X Objects \X enabled
    <2>1. kept \subseteq Objects \X enabled
        BY <1>1 DEF Kept
    <2>2. \A n \in kept : <<AnalysisOf(t), n[1], n[2]>> \in Analyses \X Objects \X enabled
        BY <1>2, <2>1
    <2>. QED BY <1>1, <1>4, <2>2 DEF RestTyped
<1>6. UNCHANGED <<cluster, row, table, leader, baseline, flag, moved, excused>> /\ faults' \in 0 .. MaxFaults
    BY <1>1, <1>4, InjectCounts DEF Publish, RestTyped
<1>7. RestTyped'
    BY <1>1, <1>5, <1>6 DEF RestTyped, cluster, table
<1>. QED BY <1>3, <1>7, TypePartsNext

LEMMA TasksKept == TypeInv /\ UNCHANGED <<task, enabled>> => TasksTyped'
<1>. SUFFICES ASSUME TypeInv, UNCHANGED <<task, enabled>>  PROVE TasksTyped'
    OBVIOUS
<1>1. TasksTyped
    BY TypeParts
<1>. QED BY <1>1 DEF TasksTyped, TaskFits, Rested, Working

\* The type invariant, action by action.
LEMMA ClusterType ==
    ASSUME TypeInv,
           \/ \E o \in Objects, v \in Versions : ChangeObject(o, v)
           \/ \E a \in Analyses : StartAnalysis(a) \/ StopAnalysis(a)
           \/ \E w \in Workers : Elect(w)
    PROVE  TypeInv'
<1>1. RestTyped /\ TypeOK
    BY TypeParts DEF TypeInv, Typed
<1>2. CASE \E o \in Objects, v \in Versions : ChangeObject(o, v)
    <2>1. PICK o \in Objects, v \in Versions : ChangeObject(o, v)
        BY <1>2
    <2>2. actual' \in [Objects -> Versions] /\ moved' \in [Analyses -> SUBSET Objects] /\ changes' \in 0 .. MaxChanges
        BY <1>1, <2>1, ConstantsAssumption DEF ChangeObject, RestTyped
    <2>3. UNCHANGED <<kind, enabled, row, table, leader, baseline, flag, task, sent, excused, faults>>
        BY <2>1 DEF ChangeObject
    <2>4. RestTyped'
        BY <1>1, <2>2, <2>3 DEF RestTyped, table
    <2>. QED BY <2>3, <2>4, TasksKept, TypePartsNext
<1>3. CASE \E a \in Analyses : StartAnalysis(a)
    <2>1. PICK a \in Analyses : StartAnalysis(a)
        BY <1>3
    <2>2. /\ running' \subseteq Analyses /\ moved' \in [Analyses -> SUBSET Objects]
          /\ excused' \subseteq Analyses
        BY <1>1, <2>1 DEF StartAnalysis, RestTyped
    <2>3. starts' \in [Analyses -> 0 .. MaxStarts]
        <3>1. starts[a] + 1 \in 0 .. MaxStarts
            BY <1>1, <2>1, ConstantsAssumption DEF StartAnalysis, RestTyped
        <3>. QED BY <1>1, <2>1, <3>1 DEF StartAnalysis, RestTyped
    <2>4. UNCHANGED <<cluster, row, leader, baseline, flag, task, sent, faults>>
        BY <2>1 DEF StartAnalysis
    <2>5. RestTyped'
        BY <1>1, <2>2, <2>3, <2>4 DEF RestTyped, cluster
    <2>. QED BY <2>4, <2>5, TasksKept, TypePartsNext DEF cluster
<1>4. CASE \E a \in Analyses : StopAnalysis(a)
    <2>1. PICK a \in Analyses : StopAnalysis(a)
        BY <1>4
    <2>2. RestTyped'
        BY <1>1, <2>1 DEF RestTyped, StopAnalysis, cluster
    <2>. QED BY <2>1, <2>2, TasksKept, TypePartsNext DEF cluster, StopAnalysis
<1>5. CASE \E w \in Workers : Elect(w)
    <2>1. PICK w \in Workers : Elect(w)
        BY <1>5
    <2>2. leader' \in [Workers -> BOOLEAN]
        BY <1>1, <2>1 DEF Elect, RestTyped
    <2>3. faults' \in 0 .. MaxFaults
        BY <1>1, <2>1, InjectCounts DEF Elect, RestTyped
    <2>4. RestTyped'
        BY <1>1, <2>1, <2>2, <2>3 DEF RestTyped, Elect, cluster, table
    <2>. QED BY <2>1, <2>4, TasksKept, TypePartsNext DEF cluster, Elect
<1>. QED BY <1>2, <1>3, <1>4, <1>5

LEMMA LoopBeginType ==
    ASSUME TypeInv, NEW w \in Workers, LoopBegin(w)  PROVE TypeInv'
<1>1. TasksTyped /\ RestTyped /\ Typed
    BY TypeParts DEF TypeInv
<1>. DEFINE t == <<w, "loop">>
<1>2. /\ t \in Tasks /\ task' \in [Tasks -> TaskRecords] /\ Only(t) /\ Released(t)
      /\ task'[t].pc = "next" /\ task'[t].todo = task'[t].listed
      /\ task'[t].calls = {} /\ task'[t].news = {}
    BY <1>1, LoopBeginEffect
<1>3. UNCHANGED <<cluster, row, table, leader, baseline, flag, sent, moved, excused, faults>>
    BY DEF LoopBegin
<1>. HIDE DEF t
<1>4. TaskFits(task[t])' /\ Resting(task'[t])
    BY <1>2 DEF TaskFits, Released
<1>5. TasksTyped'
    BY <1>1, <1>2, <1>3, <1>4, OneTaskTyped DEF Only, cluster
<1>6. RestTyped'
    BY <1>1, <1>3 DEF RestTyped, cluster, table
<1>. QED BY <1>5, <1>6, TypePartsNext

LEMMA LoopEndType ==
    ASSUME TypeInv, NEW w \in Workers, LoopEnd(w)  PROVE TypeInv'
<1>1. TasksTyped /\ RestTyped /\ Typed
    BY TypeParts DEF TypeInv
<1>. DEFINE t == <<w, "loop">>
<1>2. /\ t \in Tasks /\ task' \in [Tasks -> TaskRecords] /\ Only(t) /\ Released(t)
      /\ task'[t] = Idle
    BY <1>1, LoopEndEffect
<1>3. UNCHANGED <<cluster, row, table, leader, flag, sent, moved, excused, faults>>
    BY DEF LoopEnd
<1>4. baseline' \in [Workers -> [Analyses -> 0 .. MaxStarts]]
    <2>. DEFINE b == [a \in Analyses |-> IF \E j \in task[t].listed : j[1] = a THEN baseline[w][a] ELSE 0]
    <2>1. baseline' = [baseline EXCEPT ![w] = b]
        BY DEF LoopEnd
    <2>2. b \in [Analyses -> 0 .. MaxStarts] /\ baseline \in [Workers -> [Analyses -> 0 .. MaxStarts]]
        BY <1>1, ConstantsAssumption DEF RestTyped
    <2>. HIDE DEF b
    <2>. QED BY <2>1, <2>2
<1>. HIDE DEF t
<1>5. TaskFits(task[t])' /\ Resting(task'[t])
    <2>1. TaskOK(Idle) /\ Resting(Idle) /\ Idle.news = {} /\ Idle.pc = "idle" /\ Idle.job = {} /\ Idle.calls = {}
          /\ Idle.todo = {} /\ Idle.listed = {}
        BY IdleTyped DEF Idle
    <2>. QED BY <1>2, <2>1 DEF TaskFits
<1>6. TasksTyped'
    BY <1>1, <1>2, <1>3, <1>5, OneTaskTyped DEF Only, cluster
<1>7. RestTyped'
    BY <1>1, <1>3, <1>4 DEF RestTyped, cluster, table
<1>. QED BY <1>6, <1>7, TypePartsNext

LEMMA LoopNextType ==
    ASSUME TypeInv, NEW w \in Workers, NEW j, LoopNext(w, j)  PROVE TypeInv'
<1>1. TasksTyped /\ RestTyped /\ Typed
    BY TypeParts DEF TypeInv
<1>. DEFINE t == <<w, "loop">>
<1>2. Resting(task[t])
    <2>1. t \in Tasks /\ task[t].job = {}
        BY <1>1 DEF LoopNext, Tasks, TasksTyped, TaskFits
    <2>. QED BY <1>1, <2>1 DEF TasksTyped, Rested, Working
<1>3. /\ t \in Tasks /\ task' \in [Tasks -> TaskRecords] /\ Begins(t, j)
      /\ j \in task[t].todo /\ j \in Jobs
      /\ task'[t].listed = task[t].listed /\ task'[t].todo = task[t].todo \ {j}
      /\ flag' \in [Workers -> BOOLEAN]
    BY <1>1, <1>2, LoopNextEffect
<1>4. UNCHANGED <<cluster, row, table, leader, sent, moved, faults>> /\ (excused' = excused \/ excused' = Analyses)
    BY DEF LoopNext
<1>5. baseline' \in [Workers -> [Analyses -> 0 .. MaxStarts]]
    <2>. DEFINE b == IF j[2] > baseline[w][j[1]] THEN 0 ELSE baseline[w][j[1]]
    <2>1. baseline' = [baseline EXCEPT ![w][j[1]] = b]
        BY DEF LoopNext, ForgetIfRestarted
    <2>2. b \in 0 .. MaxStarts /\ j[1] \in Analyses /\ baseline \in [Workers -> [Analyses -> 0 .. MaxStarts]]
        BY <1>1, <1>3, ConstantsAssumption DEF RestTyped, Jobs
    <2>. HIDE DEF b
    <2>. QED BY <2>1, <2>2
<1>6. task'[t].todo \subseteq task'[t].listed
    BY <1>1, <1>3 DEF TasksTyped, TaskFits
<1>. HIDE DEF t
<1>7. TasksTyped'
    BY <1>3, <1>4, <1>6, BeginTasksTyped DEF cluster
<1>8. RestTyped'
    BY <1>1, <1>3, <1>4, <1>5 DEF RestTyped, cluster, table
<1>. QED BY <1>7, <1>8, TypePartsNext

LEMMA TriggerType ==
    ASSUME TypeInv, NEW w \in Workers, NEW a \in Analyses, Trigger(w, a)  PROVE TypeInv'
<1>1. TasksTyped /\ RestTyped /\ Typed
    BY TypeParts DEF TypeInv
<1>. DEFINE t == <<w, "trigger">>
            j == <<a, starts[a]>>
<1>2. /\ t \in Tasks /\ task' \in [Tasks -> TaskRecords] /\ Begins(t, j)
      /\ task'[t].listed = {} /\ task'[t].todo = {} /\ flag' \in [Workers -> BOOLEAN]
    BY <1>1, TriggerEffect
<1>3. /\ UNCHANGED <<cluster, row, table, leader, baseline, sent, moved, faults>>
      /\ excused' \subseteq Analyses \cup excused /\ j \in Jobs
    BY <1>1 DEF Trigger, RestTyped, Jobs
<1>. HIDE DEF t, j
<1>4. TasksTyped'
    BY <1>2, <1>3, BeginTasksTyped DEF cluster
<1>5. RestTyped'
    BY <1>1, <1>2, <1>3 DEF RestTyped, cluster, table
<1>. QED BY <1>4, <1>5, TypePartsNext

LEMMA CrashType ==
    ASSUME TypeInv, NEW w \in Workers, Crash(w)  PROVE TypeInv'
<1>1. TasksTyped /\ RestTyped /\ Typed /\ TypeOK
    BY TypeParts DEF TypeInv, Typed
<1>2. UNCHANGED <<cluster, row, table, sent, moved, excused>>
    BY DEF Crash
<1>3. /\ task' \in [Tasks -> TaskRecords]
      /\ \A t \in Tasks : task'[t] = Idle \/ task'[t] = task[t]
    BY <1>1, CrashEffect DEF Still
<1>4. Resting(Idle) /\ Idle.news = {} /\ Idle.pc = "idle" /\ Idle.job = {} /\ Idle.calls = {}
          /\ Idle.todo = {} /\ Idle.listed = {}
    BY IdleTyped DEF Idle
<1>5. TasksTyped'
    <2>1. ASSUME NEW t \in Tasks  PROVE TaskFits(task[t])' /\ (task'[t].job = {} => Resting(task'[t]))
        <3>1. CASE task'[t] = Idle
            BY <1>4, <3>1 DEF TaskFits
        <3>2. CASE task'[t] = task[t]
            BY <1>1, <1>2, <3>2 DEF TasksTyped, TaskFits, Rested, Working, cluster
        <3>. QED BY <1>3, <3>1, <3>2
    <2>. QED BY <1>3, <2>1 DEF TasksTyped, Rested, Working
<1>6. RestTyped'
    <2>1. leader' \in [Workers -> BOOLEAN] /\ flag' \in [Workers -> BOOLEAN]
        BY <1>1 DEF Crash, RestTyped
    <2>2. baseline' \in [Workers -> [Analyses -> 0 .. MaxStarts]]
        BY <1>1, ConstantsAssumption DEF Crash, RestTyped
    <2>3. faults' \in 0 .. MaxFaults
        BY <1>1, InjectCounts DEF Crash
    <2>. QED BY <1>1, <1>2, <2>1, <2>2, <2>3 DEF RestTyped, cluster, table
<1>. QED BY <1>5, <1>6, TypePartsNext

LEMMA UnchangedType == TypeInv /\ UNCHANGED vars => TypeInv'
<1>. SUFFICES ASSUME TypeInv, UNCHANGED vars  PROVE TypeInv'
    OBVIOUS
<1>1. TasksTyped' /\ RestTyped'
    BY TypeParts, TasksKept DEF vars, cluster, table, RestTyped
<1>. QED BY <1>1, TypePartsNext

\* The kinds of step.
Outside ==
    \/ \E o \in Objects, v \in Versions : ChangeObject(o, v)
    \/ \E a \in Analyses : StartAnalysis(a) \/ StopAnalysis(a)
    \/ \E w \in Workers : Elect(w)
Works(t) == (\E call \in task[t].calls : Fetch(t, call)) \/ Read(t) \/ Derive(t) \/ Compare(t)

\* The kinds of steps the proofs distinguish.
LEMMA StepKinds ==
    ASSUME [Next]_vars
    PROVE  \/ UNCHANGED vars \/ Outside
           \/ \E w \in Workers : \/ LoopBegin(w) \/ LoopEnd(w) \/ Crash(w)
                                 \/ \E j \in task[<<w, "loop">>].todo : LoopNext(w, j)
                                 \/ \E a \in Analyses : Trigger(w, a)
           \/ \E t \in Tasks : Works(t) \/ EndFirstCycle(t) \/ Publish(t)
BY DEF Next, Environment, Cycle, Detect, Outside, Works

LEMMA TypeStep == TypeInv /\ [Next]_vars => TypeInv'
<1>. SUFFICES ASSUME TypeInv, [Next]_vars  PROVE TypeInv'
    OBVIOUS
<1>1. CASE UNCHANGED vars
    BY <1>1, UnchangedType
<1>2. CASE Outside
    BY <1>2, ClusterType DEF Outside
<1>3. ASSUME NEW w \in Workers, LoopBegin(w) \/ LoopEnd(w) \/ Crash(w)  PROVE TypeInv'
    BY <1>3, LoopBeginType, LoopEndType, CrashType
<1>4. ASSUME NEW w \in Workers, NEW j, LoopNext(w, j)  PROVE TypeInv'
    BY <1>4, LoopNextType
<1>5. ASSUME NEW w \in Workers, NEW a \in Analyses, Trigger(w, a)  PROVE TypeInv'
    BY <1>5, TriggerType
<1>6. ASSUME NEW t \in Tasks, Works(t)  PROVE TypeInv'
    <2>1. UNCHANGED cluster
        BY <1>6 DEF Works, Fetch, Read, Derive, Compare
    <2>2. TasksTyped' /\ RestTyped'
        BY <1>6, <2>1, WorkTasksTyped, DetectRest DEF Works, cluster
    <2>. QED BY <2>2, TypePartsNext
<1>7. ASSUME NEW t \in Tasks, EndFirstCycle(t) \/ Publish(t)  PROVE TypeInv'
    BY <1>7, EndFirstCycleType, PublishType
<1>. QED BY <1>1, <1>2, <1>3, <1>4, <1>5, <1>6, <1>7, StepKinds

LEMMA OffRests == Resting([Idle EXCEPT !.pc = "off"])
<1>1. Idle \in TaskRecords /\ Idle.pc = "idle" /\ Idle.listed = {} /\ Idle.todo = {}
    BY IdleTyped DEF Idle
<1>. QED BY <1>1 DEF Resting, TaskRecords

LEMMA TypeStart == Init => TypeInv
<1>1. Init => Rested
    BY OffRests, IdleTyped DEF Init, Rested
<1>. QED BY <1>1, TypeInit DEF TypeInv

THEOREM TypeCorrect == Spec => []TypeOK
<1>1. TypeInv => TypeOK
    BY DEF TypeInv, Typed
<1>. QED BY <1>1, TypeStart, TypeStep, PTL DEF Spec

-----------------------------------------------------------------------------
(* A removal is believed on a clean look only.                              *)

EvidenceAt(t) ==
    \/ task[t].blind = {} \/ task[t].shared
    \/ IF task[t].pc = "fetch" THEN flag[WorkerOf(t)] ELSE task[t].doubt

\* A call that failed is known: from the detector's flag during the fetch, then
\* from what the fetch returned; but the other task may have cleared the flag.
Evidence == \A t \in Tasks : EvidenceAt(t)

LEMMA RestingHoldsNothing ==
    ASSUME NEW r, Resting(r)
    PROVE  r.blind = {} /\ r.news = {} /\ ~r.shared
<1>1. Idle.blind = {} /\ Idle.news = {} /\ ~Idle.shared
    BY DEF Idle
<1>. QED BY <1>1 DEF Resting, Idle

\* A task without a job has failed at nothing and reports nothing.
LEMMA RestedHoldsNothing ==
    ASSUME Rested, NEW t \in Tasks, ~Working(t)
    PROVE  task[t].blind = {} /\ task[t].news = {} /\ ~task[t].shared
BY RestingHoldsNothing DEF Rested

\* A release keeps the evidence of the others.
LEMMA EvidenceRelease ==
    ASSUME Evidence, NEW t \in Tasks, Only(t), Released(t), flag' = flag
    PROVE  Evidence'
<1>1. EvidenceAt(t)'
    BY RestingHoldsNothing DEF EvidenceAt, Released
<1>2. \A u \in Tasks \ {t} : EvidenceAt(u)'
    BY DEF Evidence, EvidenceAt, Only
<1>. QED BY <1>1, <1>2 DEF Evidence

\* Evidence is kept by a detection that begins, goes on, or is cut short.
LEMMA EvidenceBegin ==
    ASSUME TypeInv, Evidence, NEW t \in Tasks, NEW j, Begins(t, j),
           flag' = [flag EXCEPT ![WorkerOf(t)] = FALSE]
    PROVE  Evidence'
<1>1. EvidenceAt(t)'
    BY DEF Begins, Fresh, EvidenceAt
<1>2. ASSUME NEW u \in Tasks \ {t}  PROVE EvidenceAt(u)'
    <2>1. CASE u \in Busy(t)
        <3>1. task'[u] = [task[u] EXCEPT !.shared = TRUE]
            BY <1>2, <2>1 DEF Begins
        <3>2. task[u] \in TaskRecords
            BY DEF TypeInv, Typed
        <3>3. task'[u].shared
            BY <3>1, <3>2 DEF TaskRecords
        <3>. QED BY <3>3 DEF EvidenceAt
    <2>2. CASE u \notin Busy(t)
        <3>1. task'[u] = task[u]
            BY <1>2, <2>2 DEF Begins
        <3>2. CASE ~Working(u)
            BY <3>1, <3>2, RestedHoldsNothing DEF TypeInv, EvidenceAt
        <3>3. CASE Working(u)
            <4>1. WorkerOf(u) # WorkerOf(t)
                BY <2>2, <3>3 DEF Busy, Others, Working
            <4>2. flag'[WorkerOf(u)] = flag[WorkerOf(u)]
                BY <4>1 DEF TypeInv, Typed, TypeOK, WorkerOf, Tasks
            <4>. QED BY <3>1, <4>2 DEF Evidence, EvidenceAt
        <3>. QED BY <3>2, <3>3
    <2>. QED BY <2>1, <2>2
<1>. QED BY <1>1, <1>2 DEF Evidence

LEMMA EvidenceWork ==
    ASSUME TypeInv, Evidence, NEW t \in Tasks, Works(t)
    PROVE  Evidence'
<1>1. Typed
    BY DEF TypeInv
<1>2. CASE \E call \in task[t].calls : Fetch(t, call)
    <2>1. PICK call \in task[t].calls : Fetch(t, call)
        BY <1>2
    <2>2. /\ Only(t) /\ SameJob(t) /\ task[t].pc = "fetch"
          /\ task'[t].pc = IF task'[t].calls = {} THEN "read" ELSE "fetch"
          /\ task'[t].doubt <=> (task'[t].calls = {} /\ flag'[WorkerOf(t)])
          /\ \A w \in Workers \ {WorkerOf(t)} : flag'[w] = flag[w]
          /\ \/ (flag'[WorkerOf(t)] <=> flag[WorkerOf(t)]) /\ task'[t].blind = task[t].blind
             \/ flag'[WorkerOf(t)]
        BY <1>1, <2>1, FetchEffect
    <2>3. \A w \in Workers : flag[w] => flag'[w]
        BY <2>2
    <2>4. EvidenceAt(t)
        BY DEF Evidence
    <2>5. EvidenceAt(t)'
        BY <2>2, <2>4 DEF EvidenceAt, SameJob
    <2>6. ASSUME NEW u \in Tasks \ {t}  PROVE EvidenceAt(u)'
        <3>1. WorkerOf(u) \in Workers /\ task'[u] = task[u] /\ EvidenceAt(u)
            BY <2>2 DEF Only, WorkerOf, Tasks, Evidence
        <3>. QED BY <2>3, <3>1 DEF EvidenceAt
    <2>. QED BY <2>5, <2>6 DEF Evidence
<1>3. CASE Read(t) \/ Derive(t) \/ Compare(t)
    <2>1. /\ Only(t) /\ SameJob(t) /\ SameLook(t) /\ flag' = flag
          /\ task[t].pc # "fetch" /\ task'[t].pc # "fetch"
        BY <1>1, <1>3, ReadEffect, DeriveEffect, CompareEffect DEF Read, Derive, Compare, AfterDerive
    <2>2. EvidenceAt(t)'
        BY <2>1 DEF Evidence, EvidenceAt, SameJob, SameLook
    <2>3. \A u \in Tasks \ {t} : EvidenceAt(u)'
        BY <2>1 DEF Evidence, EvidenceAt, Only
    <2>. QED BY <2>2, <2>3 DEF Evidence
<1>. QED BY <1>2, <1>3 DEF Works

LEMMA EvidenceCrash ==
    ASSUME TypeInv, Evidence, NEW w \in Workers, Crash(w)
    PROVE  Evidence'
<1>. SUFFICES ASSUME NEW t \in Tasks  PROVE EvidenceAt(t)'
    BY DEF Evidence
<1>1. IF WorkerOf(t) = w /\ task[t].pc # "off" THEN task'[t] = Idle ELSE task'[t] = task[t]
    BY CrashEffect DEF TypeInv, Still
<1>2. CASE task'[t] = Idle
    BY <1>2 DEF EvidenceAt, Idle
<1>3. CASE task'[t] = task[t] /\ task[t].pc = "off"
    <2>1. ~Working(t)
        BY <1>3 DEF TypeInv, Typed, TypeOK, TaskOK, Working
    <2>. QED BY <1>3, <2>1, RestedHoldsNothing DEF TypeInv, EvidenceAt
<1>4. CASE task'[t] = task[t] /\ WorkerOf(t) # w
    <2>1. flag'[WorkerOf(t)] = flag[WorkerOf(t)]
        BY <1>4 DEF TypeInv, Typed, TypeOK, WorkerOf, Tasks, Crash
    <2>. QED BY <1>4, <2>1 DEF Evidence, EvidenceAt
<1>. QED BY <1>1, <1>2, <1>3, <1>4

LEMMA EvidenceStep == TypeInv /\ Evidence /\ [Next]_vars => Evidence'
<1>. SUFFICES ASSUME TypeInv, Evidence, [Next]_vars  PROVE Evidence'
    OBVIOUS
<1>. USE DEF TypeInv
<1>1. CASE UNCHANGED vars \/ Outside
    <2>1. task' = task /\ flag' = flag
        BY <1>1 DEF vars, Outside, ChangeObject, StartAnalysis, StopAnalysis, Elect
    <2>. QED BY <2>1 DEF Evidence, EvidenceAt
<1>2. ASSUME NEW w \in Workers, LoopBegin(w)  PROVE Evidence'
    BY <1>2, LoopBeginEffect, EvidenceRelease DEF LoopBegin
<1>3. ASSUME NEW w \in Workers, LoopEnd(w)  PROVE Evidence'
    BY <1>3, LoopEndEffect, EvidenceRelease DEF LoopEnd
<1>4. ASSUME NEW t \in Tasks, EndFirstCycle(t) \/ Publish(t)  PROVE Evidence'
    BY <1>4, FinishEffect, EvidenceRelease DEF EndFirstCycle, Publish
<1>5. ASSUME NEW w \in Workers, NEW j, LoopNext(w, j)  PROVE Evidence'
    <2>. DEFINE t == <<w, "loop">>
    <2>1. t \in Tasks /\ WorkerOf(t) = w /\ ~Working(t)
        BY <1>5 DEF Tasks, WorkerOf, LoopNext, Typed, TypeOK, TaskOK, Working
    <2>2. Begins(t, j) /\ flag' = [flag EXCEPT ![WorkerOf(t)] = FALSE]
        BY <1>5, <2>1, LoopNextEffect DEF Rested
    <2>. HIDE DEF t
    <2>. QED BY <2>1, <2>2, EvidenceBegin
<1>6. ASSUME NEW w \in Workers, NEW a \in Analyses, Trigger(w, a)  PROVE Evidence'
    <2>. DEFINE t == <<w, "trigger">>
                j == <<a, starts[a]>>
    <2>1. t \in Tasks /\ WorkerOf(t) = w
        BY DEF Tasks, WorkerOf
    <2>2. Begins(t, j) /\ flag' = [flag EXCEPT ![WorkerOf(t)] = FALSE]
        BY <1>6, <2>1, TriggerEffect
    <2>. HIDE DEF t, j
    <2>. QED BY <2>1, <2>2, EvidenceBegin
<1>7. ASSUME NEW w \in Workers, Crash(w)  PROVE Evidence'
    BY <1>7, EvidenceCrash
<1>8. ASSUME NEW t \in Tasks, Works(t)  PROVE Evidence'
    BY <1>8, EvidenceWork
<1>. HIDE DEF TypeInv
<1>. QED BY <1>1, <1>2, <1>3, <1>4, <1>5, <1>6, <1>7, <1>8, StepKinds

\* Only two steps write rows.
LEMMA RowsWritten ==
    ASSUME [Next]_vars, row' # row
    PROVE  \E t \in Tasks : Derive(t) \/ Compare(t)
<1>1. UNCHANGED vars => row' = row
    BY DEF vars
<1>2. Outside => row' = row
    BY DEF Outside, ChangeObject, StartAnalysis, StopAnalysis, Elect
<1>3. \A w \in Workers : LoopBegin(w) \/ LoopEnd(w) \/ Crash(w) => row' = row
    BY DEF LoopBegin, LoopEnd, Crash
<1>4. \A w \in Workers : \A j : LoopNext(w, j) => row' = row
    BY DEF LoopNext
<1>5. \A w \in Workers, a \in Analyses : Trigger(w, a) => row' = row
    BY DEF Trigger
<1>6. \A t \in Tasks : EndFirstCycle(t) \/ Publish(t) => row' = row
    BY DEF EndFirstCycle, Publish
<1>7. \A t \in Tasks : Works(t) => row' = row \/ Derive(t) \/ Compare(t)
    BY DEF Works, Fetch, Read
<1>. QED BY <1>1, <1>2, <1>3, <1>4, <1>5, <1>6, <1>7, StepKinds

\* What a write does to the row of one object.
LEMMA UpdateAt ==
    ASSUME TypeInv, NEW t \in Tasks, NEW active, NEW inactive, NEW lost, Update(t, active, inactive, lost),
           NEW o \in Objects
    PROVE  /\ o \in lost => row'[o] = row[o]
           /\ o \notin lost /\ o \in active =>
                 row'[o].state = "active" /\ row'[o].version = task[t].seen[o]
           /\ o \notin lost /\ o \notin active /\ o \in inactive =>
                 row'[o].state = "inactive" /\ row'[o].version = row[o].version
           /\ o \notin lost /\ o \notin active /\ o \notin inactive => row'[o] = row[o]
<1>1. row[o] \in Rows
    BY DEF TypeInv, Typed, TypeOK, Rows
<1>2. o \in lost => row'[o] = row[o]
    BY DEF Update
<1>3. o \notin lost /\ o \in active => row'[o] = [state |-> "active", version |-> task[t].seen[o]]
    BY DEF Update
<1>4. o \notin lost /\ o \notin active /\ o \in inactive => row'[o] = [row[o] EXCEPT !.state = "inactive"]
    BY DEF Update
<1>5. o \notin lost /\ o \notin active /\ o \notin inactive => row'[o] = row[o]
    BY DEF Update
<1>6. o \notin lost /\ o \in active =>
          row'[o].state = "active" /\ row'[o].version = task[t].seen[o]
    BY <1>3
<1>7. o \notin lost /\ o \notin active /\ o \in inactive =>
          row'[o].state = "inactive" /\ row'[o].version = row[o].version
    BY <1>1, <1>4 DEF Rows
<1>. QED BY <1>2, <1>5, <1>6, <1>7

\* A refreshed row keeps its state.
LEMMA RefreshAt ==
    ASSUME TypeInv, NEW t \in Tasks, NEW different, NEW lost, Refresh(t, different, lost), NEW o \in Objects
    PROVE  /\ row'[o].state = row[o].state
           /\ o \in lost \/ o \notin different => row'[o] = row[o]
           /\ o \notin lost /\ o \in different => row'[o].version = task[t].seen[o]
<1>1. row[o] \in Rows
    BY DEF TypeInv, Typed, TypeOK, Rows
<1>2. o \in lost \/ o \notin different => row'[o] = row[o]
    BY DEF Refresh
<1>3. o \notin lost /\ o \in different => row'[o] = [row[o] EXCEPT !.version = task[t].seen[o]]
    BY DEF Refresh
<1>4. o \notin lost /\ o \in different =>
          row'[o].state = row[o].state /\ row'[o].version = task[t].seen[o]
    BY <1>1, <1>3 DEF Rows
<1>. QED BY <1>2, <1>4

\* What a detection retires it looked for and did not find.
LEMMA RetiredLooked ==
    ASSUME Evidence, NEW t \in Tasks, task[t].pc = "derive", NEW o \in Gone(t)
    PROVE  /\ o \in InScope(AnalysisOf(t)) /\ o \in Objects /\ task[t].seen[o] = Absent
           /\ task[t].memory[o].state = "active"
           /\ o \in task[t].blind => task[t].shared
<1>1. ~SkipRemovals(t, Missing(t)) /\ o \in Missing(t)
    BY DEF Gone
<1>2. ~task[t].doubt
    BY <1>1 DEF SkipRemovals
<1>3. o \in In(t, "active") /\ o \notin Present(t)
    BY <1>1 DEF Missing
<1>4. EvidenceAt(t)
    BY DEF Evidence
<1>. QED BY <1>2, <1>3, <1>4 DEF In, Present, InScope, EvidenceAt

\* EvidenceAlways: in every instance, an object is only remembered as removed by
\* a detection that asked for it, got an answer and did not find it, unless both
\* tasks of its worker were detecting at once.
THEOREM EvidenceAlways == Spec => RemovalsHaveEvidence
<1>1. Init => TypeInv /\ Evidence
    <2>1. Init => \A t \in Tasks : Resting(task[t])
        BY OffRests, IdleTyped DEF Init
    <2>2. Init => Evidence
        BY <2>1, RestingHoldsNothing DEF Evidence, EvidenceAt
    <2>. QED BY <2>2, TypeStart
<1>2. TypeInv /\ Evidence /\ [Next]_vars => TypeInv' /\ Evidence'
    BY TypeStep, EvidenceStep
<1>3. TypeInv /\ Evidence /\ [Next]_vars =>
          [\A o \in Objects :
              row[o].state = "active" /\ row'[o].state = "inactive" =>
                  \E t \in Tasks :
                      /\ task[t].pc = "derive"
                      /\ o \in InScope(AnalysisOf(t))
                      /\ task[t].seen[o] = Absent
                      /\ o \in task[t].blind => task[t].shared]_vars
    <2>. SUFFICES ASSUME TypeInv, Evidence, [Next]_vars, NEW o \in Objects,
                         row[o].state = "active", row'[o].state = "inactive"
                  PROVE  \E t \in Tasks :
                            /\ task[t].pc = "derive"
                            /\ o \in InScope(AnalysisOf(t))
                            /\ task[t].seen[o] = Absent
                            /\ o \in task[t].blind => task[t].shared
        OBVIOUS
    <2>1. row'[o] # row[o]
        OBVIOUS
    <2>2. PICK t \in Tasks : Derive(t)
        <3>1. PICK t \in Tasks : Derive(t) \/ Compare(t)
            BY <2>1, RowsWritten
        <3>2. ~Compare(t)
            BY RefreshAt DEF Compare
        <3>. QED BY <3>1, <3>2
    <2>3. PICK active, inactive, lost :
              /\ Update(t, active, inactive, lost)
              /\ \A x \in inactive : task[t].pc = "derive" /\ x \in Gone(t)
        BY <2>2 DEF Derive, Retired
    <2>4. o \in inactive
        <3>1. o \notin lost
            BY <2>1, <2>3, UpdateAt
        <3>2. o \notin active
            BY <2>3, <3>1, UpdateAt
        <3>. QED BY <2>1, <2>3, <3>1, <3>2, UpdateAt
    <2>5. task[t].pc = "derive" /\ o \in Gone(t)
        BY <2>3, <2>4
    <2>. QED BY <2>5, RetiredLooked
<1>. QED BY <1>1, <1>2, <1>3, PTL DEF Spec, RemovalsHaveEvidence

-----------------------------------------------------------------------------
(* What is published is new.                                                *)

\* An analysis whose first cycle was, or will be, a clean one.
Trusted(a) == a \in Analyses \ excused

\* Two detections of one worker at once excuse every analysis.
CrowdedAt(t) ==
    Working(t) =>
        /\ task[t].shared => excused = Analyses
        /\ \A u \in Others(t) : Working(u) => excused = Analyses
Crowded == \A t \in Tasks : CrowdedAt(t)

\* What a cycle has listed of a trusted analysis is its latest start.
JobsCurrent ==
    \A t \in Tasks : \A j \in task[t].listed \cup task[t].job : Trusted(j[1]) => j[2] = starts[j[1]]

BaselinesOld == \A w \in Workers, a \in Analyses : baseline[w][a] <= starts[a]

\* A detection meets no baseline of an earlier start.
BaselineAt(t) == baseline[WorkerOf(t)][AnalysisOf(t)]
BaselinesCurrent ==
    \A t \in Tasks : Working(t) /\ Trusted(AnalysisOf(t)) =>
        BaselineAt(t) = 0 \/ BaselineAt(t) = starts[AnalysisOf(t)]

\* A detection sees an object that has not changed since a start as it is, or it
\* has not asked for it, or got no answer.
Pending(t, o) == \E call \in task[t].calls : o \in call
SeenAt(t, a) ==
    \A o \in Objects \ moved[a] :
        \/ task[t].seen[o] = actual[o]
        \/ /\ task[t].seen[o] = Absent
           /\ o \in task[t].blind \/ o \notin InScope(AnalysisOf(t)) \/ Pending(t, o)
SeenRight == \A t \in Tasks, a \in Analyses : Working(t) /\ Trusted(a) => SeenAt(t, a)

\* Comparing what is remembered with what is seen, the additions and removals or
\* the changes among them give no news of an enabled type.
RemovalType == IF kind = "config" THEN "changed" ELSE "removed"
DeriveSilent(r, s) ==
    /\ s # Absent /\ r.state = "none" /\ kind # "config" => "added" \notin enabled
    /\ s # Absent /\ r.state = "inactive" /\ kind = "workload" => "added" \notin enabled
    /\ s = Absent /\ r.state = "active" => RemovalType \notin enabled
CompareSilent(r, s) == s # Absent /\ r.state = "active" /\ r.version # s => "changed" \notin enabled
Silent(r, s) == DeriveSilent(r, s) /\ CompareSilent(r, s)

\* The row says what is there.
Exact(r, s) == IF s = Absent THEN r.state = "inactive" ELSE r.state = "active" /\ r.version = s

\* Two rows that only differ in the version of what is not active.
Alike(r, q) == r.state = q.state /\ (r.state = "active" => r.version = q.version)

Unmoved(a) == InScope(a) \ moved[a]

\* The memory holds what there was at the start of an analysis.
Learned(a) == \A o \in Unmoved(a) : Silent(row[o], actual[o])
BaselineLearned ==
    \A w \in Workers, a \in Analyses :
        Trusted(a) /\ baseline[w][a] # 0 /\ baseline[w][a] = starts[a] => Learned(a)

\* How far a detection without a failure has got with that.
Remembers(t, o) == Alike(task[t].memory[o], row[o]) \/ Exact(row[o], actual[o])
Progress(t) ==
    /\ task[t].pc # "report" => task[t].blind = {}
    /\ task[t].pc \in {"derive", "compare"} => \A o \in Unmoved(AnalysisOf(t)) : Remembers(t, o)
    /\ task[t].pc \in {"reread", "compare"} =>
          \A o \in Unmoved(AnalysisOf(t)) : DeriveSilent(row[o], actual[o])
    /\ task[t].pc = "report" => Learned(AnalysisOf(t))
Learning == \A t \in Tasks : Working(t) /\ Trusted(AnalysisOf(t)) => Learned(AnalysisOf(t)) \/ Progress(t)

\* After the first cycle neither what was read nor the news are about anything
\* that has not changed.
NewsAt(t) ==
    /\ task[t].pc \in {"derive", "compare"} =>
          \A o \in Unmoved(AnalysisOf(t)) : Silent(task[t].memory[o], actual[o])
    /\ \A n \in task[t].news : n[1] \in moved[AnalysisOf(t)]
NewsMoved == \A t \in Tasks : Working(t) /\ Trusted(AnalysisOf(t)) /\ ~FirstCycle(t) => NewsAt(t)

\* A row that says what is there gives no news.
LEMMA ExactIsSilent ==
    ASSUME NEW r, NEW s, Exact(r, s)
    PROVE  Silent(r, s)
BY DEF Exact, Silent, DeriveSilent, CompareSilent

\* Such rows give the same news.
LEMMA AlikeIsSame ==
    ASSUME NEW r, NEW q, NEW s, Alike(r, q)
    PROVE  /\ Exact(r, s) <=> Exact(q, s)
           /\ DeriveSilent(r, s) <=> DeriveSilent(q, s)
           /\ CompareSilent(r, s) <=> CompareSilent(q, s)
BY DEF Alike, Exact, DeriveSilent, CompareSilent

-----------------------------------------------------------------------------
(* What a step does to a task.                                              *)

Began(t) ==
    \E j \in Jobs :
        /\ Begins(t, j)
        /\ \/ LoopNext(WorkerOf(t), j) /\ t = <<WorkerOf(t), "loop">> /\ j \in task[t].listed
           \/ /\ Trigger(WorkerOf(t), j[1]) /\ t = <<WorkerOf(t), "trigger">>
              /\ j[1] \in Analyses /\ j[2] = starts[j[1]]

\* The step is not the task's own; it may note that another detection began.
Same(t) ==
    /\ task'[t].pc = task[t].pc /\ task'[t].job = task[t].job
    /\ task'[t].listed = task[t].listed /\ task'[t].todo = task[t].todo
    /\ task'[t].calls = task[t].calls /\ task'[t].seen = task[t].seen
    /\ task'[t].blind = task[t].blind /\ task'[t].memory = task[t].memory
    /\ task'[t].news = task[t].news
    /\ task'[t].shared => task[t].shared \/ \E u \in Tasks : Began(u) /\ t \in Busy(u)

\* A detection that begins only marks the others of its worker.
LEMMA SameOthers ==
    ASSUME TypeInv, NEW t \in Tasks, NEW j, Begins(t, j), Began(t), NEW u \in Tasks \ {t}
    PROVE  Same(u)
<1>1. task[u] \in TaskRecords
    BY DEF TypeInv, Typed
<1>2. CASE u \in Busy(t)
    <2>1. task'[u] = [task[u] EXCEPT !.shared = TRUE]
        BY <1>2 DEF Begins
    <2>2. /\ task'[u].pc = task[u].pc /\ task'[u].job = task[u].job
          /\ task'[u].listed = task[u].listed /\ task'[u].todo = task[u].todo
          /\ task'[u].calls = task[u].calls /\ task'[u].seen = task[u].seen
          /\ task'[u].blind = task[u].blind /\ task'[u].memory = task[u].memory
          /\ task'[u].news = task[u].news
        BY <1>1, <2>1 DEF TaskRecords
    <2>3. \E v \in Tasks : Began(v) /\ u \in Busy(v)
        BY <1>2
    <2>. QED BY <2>2, <2>3 DEF Same
<1>3. CASE u \notin Busy(t)
    <2>1. task'[u] = task[u]
        BY <1>3 DEF Begins
    <2>. QED BY <2>1 DEF Same
<1>. QED BY <1>2, <1>3

LEMMA LoopNextBegan ==
    ASSUME TypeInv, NEW w \in Workers, NEW j, LoopNext(w, j)
    PROVE  Began(<<w, "loop">>) /\ <<w, "loop">> \in Tasks /\ Begins(<<w, "loop">>, j)
<1>. DEFINE t == <<w, "loop">>
<1>1. t \in Tasks /\ WorkerOf(t) = w /\ t = <<WorkerOf(t), "loop">> /\ ~Working(t)
    BY DEF Tasks, WorkerOf, LoopNext, TypeInv, Typed, TypeOK, TaskOK, Working
<1>2. Begins(t, j) /\ j \in Jobs /\ j \in task[t].todo
    BY <1>1, LoopNextEffect DEF TypeInv, Rested
<1>3. j \in task[t].listed
    BY <1>1, <1>2 DEF TypeInv, Typed, TypeOK, TaskOK
<1>. HIDE DEF t
<1>4. Began(t)
    BY <1>1, <1>2, <1>3 DEF Began
<1>. QED BY <1>1, <1>2, <1>4 DEF t

LEMMA TriggerBegan ==
    ASSUME TypeInv, NEW w \in Workers, NEW a \in Analyses, Trigger(w, a)
    PROVE  /\ Began(<<w, "trigger">>) /\ <<w, "trigger">> \in Tasks
           /\ Begins(<<w, "trigger">>, <<a, starts[a]>>)
<1>. DEFINE t == <<w, "trigger">>
            j == <<a, starts[a]>>
<1>1. t \in Tasks /\ WorkerOf(t) = w /\ t = <<WorkerOf(t), "trigger">> /\ j[1] = a /\ j[2] = starts[a] /\ j \in Jobs
    BY DEF Tasks, WorkerOf, Jobs, TypeInv, Typed, TypeOK
<1>2. Begins(t, j)
    BY TriggerEffect DEF TypeInv
<1>. HIDE DEF t, j
<1>3. Began(t)
    BY <1>1, <1>2 DEF Began
<1>. QED BY <1>1, <1>2, <1>3 DEF t, j

\* To a task a step does nothing, leaves it without a job, begins its detection, or
\* carries it on.
LEMMA TaskSteps ==
    ASSUME TypeInv, [Next]_vars, NEW t \in Tasks
    PROVE  Same(t) \/ ~Working(t)' \/ Began(t) \/ Works(t)
<1>1. task'[t] = task[t] => Same(t)
    BY DEF Same
<1>2. CASE UNCHANGED vars \/ Outside
    BY <1>1, <1>2 DEF vars, Outside, ChangeObject, StartAnalysis, StopAnalysis, Elect
<1>3. ASSUME NEW w \in Workers, LoopBegin(w) \/ LoopEnd(w)  PROVE Same(t) \/ ~Working(t)'
    <2>1. Only(<<w, "loop">>) /\ Released(<<w, "loop">>)
        BY <1>3, LoopBeginEffect, LoopEndEffect DEF TypeInv
    <2>. QED BY <1>1, <2>1 DEF Only, Released, Working
<1>4. ASSUME NEW w \in Workers, Crash(w)  PROVE Same(t) \/ ~Working(t)'
    <2>1. task'[t] = Idle \/ task'[t] = task[t]
        BY <1>4, CrashEffect DEF TypeInv, Still
    <2>. QED BY <1>1, <2>1 DEF Working, Idle
<1>5. ASSUME NEW w \in Workers, NEW j, LoopNext(w, j)  PROVE Same(t) \/ Began(t)
    BY <1>5, LoopNextBegan, SameOthers
<1>6. ASSUME NEW w \in Workers, NEW a \in Analyses, Trigger(w, a)  PROVE Same(t) \/ Began(t)
    BY <1>6, TriggerBegan, SameOthers
<1>7. ASSUME NEW u \in Tasks, EndFirstCycle(u) \/ Publish(u)  PROVE Same(t) \/ ~Working(t)'
    <2>1. Only(u) /\ Released(u)
        BY <1>7, FinishEffect DEF TypeInv, EndFirstCycle, Publish
    <2>. QED BY <1>1, <2>1 DEF Only, Released, Working
<1>8. ASSUME NEW u \in Tasks, Works(u)  PROVE Same(t) \/ Works(t)
    <2>1. Only(u)
        BY <1>8, FetchEffect, ReadEffect, DeriveEffect, CompareEffect DEF Works, TypeInv
    <2>. QED BY <1>1, <1>8, <2>1 DEF Only
<1>. QED BY <1>2, <1>3, <1>4, <1>5, <1>6, <1>7, <1>8, StepKinds

-----------------------------------------------------------------------------
(* What a step does to the analyses.                                        *)

\* Only a start with no detection under way ends an excuse.
LEMMA ExcusedGrows ==
    ASSUME TypeInv, [Next]_vars, NEW a \in Analyses, a \in excused, a \notin excused'
    PROVE  StartAnalysis(a) /\ \A t \in Tasks : ~Working(t) /\ task'[t] = task[t]
<1>1. ~UNCHANGED vars
    BY DEF vars
<1>2. \A w \in Workers : ~LoopBegin(w) /\ ~LoopEnd(w) /\ ~Crash(w)
    BY DEF LoopBegin, LoopEnd, Crash
<1>3. \A w \in Workers : \A j : ~LoopNext(w, j)
    BY DEF LoopNext
<1>4. \A w \in Workers, b \in Analyses : ~Trigger(w, b)
    BY DEF Trigger
<1>5. \A t \in Tasks : ~EndFirstCycle(t) /\ ~Publish(t)
    BY DEF EndFirstCycle, Publish
<1>6. \A t \in Tasks : ~Works(t)
    BY DEF Works, Fetch, Read, Derive, Compare, Excuse
<1>7. Outside
    BY <1>1, <1>2, <1>3, <1>4, <1>5, <1>6, StepKinds
<1>8. PICK b \in Analyses : StartAnalysis(b)
    BY <1>7 DEF Outside, ChangeObject, StopAnalysis, Elect
<1>9. b = a /\ ~Detecting
    BY <1>8 DEF StartAnalysis
<1>. QED BY <1>8, <1>9 DEF StartAnalysis, Detecting, Working

\* While a detection runs no excuse ends.
LEMMA AllExcused ==
    ASSUME TypeInv, [Next]_vars, excused = Analyses, NEW t \in Tasks, Working(t)
    PROVE  excused' = Analyses
<1>1. excused' \subseteq Analyses
    BY TypeStep DEF TypeInv, Typed, TypeOK
<1>2. \A a \in Analyses : a \in excused'
    BY ExcusedGrows
<1>. QED BY <1>1, <1>2

\* Starts only count up, and a start that ends an excuse was neither listed nor
\* looked for.
LEMMA StartsGrow ==
    ASSUME TypeInv, [Next]_vars, NEW a \in Analyses
    PROVE  starts'[a] = starts[a] \/ (StartAnalysis(a) /\ starts'[a] = starts[a] + 1)
<1>1. starts' = starts \/ \E b \in Analyses : StartAnalysis(b)
    BY StepKinds DEF vars, table, Outside, ChangeObject, StopAnalysis, Elect, LoopBegin, LoopEnd, Crash, LoopNext,
                     Trigger, Works, Fetch, Read, Derive, Compare, EndFirstCycle, Publish
<1>2. ASSUME NEW b \in Analyses, StartAnalysis(b)
      PROVE  starts'[a] = IF a = b THEN starts[a] + 1 ELSE starts[a]
    BY <1>2 DEF StartAnalysis, TypeInv, Typed, TypeOK
<1>. QED BY <1>1, <1>2

LEMMA StartTrusted ==
    ASSUME NEW a \in Analyses, StartAnalysis(a), a \notin excused'
    PROVE  \A t \in Tasks : /\ ~Working(t) /\ task'[t] = task[t]
                            /\ \A j \in task[t].listed : j[1] # a
BY DEF StartAnalysis, Detecting, Listed, Working

-----------------------------------------------------------------------------
(* Two detections of one worker.                                            *)

\* A detection that begins beside another one excuses every analysis.
LEMMA CrowdedStart ==
    ASSUME NEW t, Began(t), Busy(t) # {}
    PROVE  excused' = Analyses
<1>1. PICK j \in Jobs :
          \/ LoopNext(WorkerOf(t), j) /\ t = <<WorkerOf(t), "loop">>
          \/ Trigger(WorkerOf(t), j[1]) /\ t = <<WorkerOf(t), "trigger">>
    BY DEF Began
<1>. DEFINE w == WorkerOf(t)
<1>2. CASE LoopNext(w, j) /\ t = <<w, "loop">>
    <2>1. excused' = IF Busy(<<w, "loop">>) = {} THEN excused ELSE Analyses
        BY <1>2 DEF LoopNext
    <2>. QED BY <1>2, <2>1
<1>3. CASE Trigger(w, j[1]) /\ t = <<w, "trigger">>
    <2>1. Busy(<<w, "trigger">>) # {} => excused' = Analyses
        BY <1>3 DEF Trigger
    <2>. QED BY <1>3, <2>1
<1>. QED BY <1>1, <1>2, <1>3

\* A task that is at work, and has not begun, was at work on the same.
LEMMA WasWorking ==
    ASSUME TypeInv, NEW t \in Tasks, Working(t)', Same(t) \/ Works(t)
    PROVE  Working(t) /\ task'[t].job = task[t].job /\ AnalysisOf(t)' = AnalysisOf(t)
<1>1. CASE Same(t)
    BY <1>1 DEF Same, Working, AnalysisOf
<1>2. CASE Works(t)
    BY <1>2, FetchEffect, ReadEffect, DeriveEffect, CompareEffect DEF Works, TypeInv, SameJob, Working, AnalysisOf
<1>. QED BY <1>1, <1>2

LEMMA CrowdedStep == TypeInv /\ Crowded /\ [Next]_vars => Crowded'
<1>. SUFFICES ASSUME TypeInv, Crowded, [Next]_vars, NEW t \in Tasks, Working(t)', excused' # Analyses
              PROVE  ~task'[t].shared /\ \A u \in Others(t) : ~Working(u)'
    BY DEF Crowded, CrowdedAt, Others, WorkerOf
<1>1. ASSUME NEW u \in Tasks, Working(u)
      PROVE  ~task[u].shared /\ \A v \in Others(u) : ~Working(v)
    BY <1>1, AllExcused DEF Crowded, CrowdedAt
<1>2. ASSUME NEW u \in Tasks, Began(u)  PROVE Busy(u) = {}
    BY <1>2, CrowdedStart
<1>3. ASSUME NEW u \in Tasks, NEW v \in Others(u), Began(u)  PROVE ~Working(v)'
    <2>1. v \in Tasks \ {u} /\ v \notin Busy(u)
        BY <1>2, <1>3 DEF Others
    <2>2. ~Working(v)
        BY <1>3, <2>1 DEF Busy, Working
    <2>3. task'[v] = task[v]
        BY <1>3, <2>1 DEF Began, Begins
    <2>. QED BY <2>2, <2>3 DEF Working
<1>4. ~task'[t].shared
    <2>1. CASE Same(t)
        <3>1. ~task[t].shared
            BY <1>1, <2>1, WasWorking
        <3>. QED BY <1>2, <2>1, <3>1 DEF Same
    <2>2. CASE Works(t)
        <3>1. ~task[t].shared
            BY <1>1, <2>2, WasWorking
        <3>2. task'[t].shared = task[t].shared
            BY <2>2, FetchEffect, ReadEffect, DeriveEffect, CompareEffect DEF Works, TypeInv, SameJob
        <3>. QED BY <3>1, <3>2
    <2>3. CASE Began(t)
        BY <1>2, <2>3 DEF Began, Begins, Fresh
    <2>. QED BY <2>1, <2>2, <2>3, TaskSteps
<1>5. ASSUME NEW u \in Others(t), Working(u)'  PROVE FALSE
    <2>1. u \in Tasks /\ t \in Others(u)
        BY DEF Others
    <2>2. ~Began(t) /\ ~Began(u)
        BY <1>3, <1>5, <2>1
    <2>3. Working(t) /\ Working(u)
        BY <1>5, <2>1, <2>2, TaskSteps, WasWorking
    <2>. QED BY <1>1, <2>1, <2>3
<1>. QED BY <1>4, <1>5

-----------------------------------------------------------------------------
(* Starts and baselines.                                                    *)

\* What a task lists and works on it has listed before, or takes from the
\* analyses that run.
LEMMA JobsFrom ==
    ASSUME TypeInv, [Next]_vars, NEW t \in Tasks, NEW j \in task'[t].listed \cup task'[t].job
    PROVE  \/ j \in task[t].listed \cup task[t].job
           \/ j[1] \in Analyses /\ j[2] = starts[j[1]] /\ starts' = starts
<1>1. task'[t] = task[t] => j \in task[t].listed \cup task[t].job
    OBVIOUS
<1>2. Same(t) => j \in task[t].listed \cup task[t].job
    BY DEF Same
<1>3. CASE UNCHANGED vars \/ Outside
    BY <1>1, <1>3 DEF vars, Outside, ChangeObject, StartAnalysis, StopAnalysis, Elect
<1>4. ASSUME NEW w \in Workers, LoopBegin(w), t = <<w, "loop">>
      PROVE  j[1] \in Analyses /\ j[2] = starts[j[1]] /\ starts' = starts
    <2>1. task'[t].listed = {<<a, starts[a]>> : a \in running} /\ task'[t].job = {}
        BY <1>4, LoopBeginEffect DEF TypeInv, Released
    <2>2. running \subseteq Analyses /\ starts' = starts
        BY <1>4 DEF TypeInv, Typed, TypeOK, LoopBegin, table
    <2>3. PICK a \in running : j = <<a, starts[a]>>
        BY <2>1
    <2>. QED BY <2>2, <2>3
<1>5. ASSUME NEW w \in Workers, LoopEnd(w), t = <<w, "loop">>  PROVE FALSE
    <2>1. task'[t].listed = {} /\ task'[t].job = {}
        BY <1>5, LoopEndEffect DEF TypeInv, Idle
    <2>. QED BY <2>1
<1>6. ASSUME NEW w \in Workers, LoopBegin(w) \/ LoopEnd(w), t # <<w, "loop">>
      PROVE  j \in task[t].listed \cup task[t].job
    <2>1. Only(<<w, "loop">>)
        BY <1>6, LoopBeginEffect, LoopEndEffect DEF TypeInv
    <2>. QED BY <1>1, <1>6, <2>1 DEF Only
<1>7. ASSUME NEW w \in Workers, Crash(w)  PROVE j \in task[t].listed \cup task[t].job
    <2>1. task'[t] = Idle \/ task'[t] = task[t]
        BY <1>7, CrashEffect DEF TypeInv, Still
    <2>. QED BY <2>1 DEF Idle
<1>8. ASSUME NEW w \in Workers, NEW i, LoopNext(w, i)  PROVE j \in task[t].listed \cup task[t].job
    <2>1. CASE t = <<w, "loop">>
        <3>1. ~Working(t)
            BY <1>8, <2>1, LoopNextBegan DEF Begins
        <3>2. task'[t].listed = task[t].listed /\ task'[t].job = {i} /\ i \in task[t].todo
            BY <1>8, <2>1, <3>1, LoopNextEffect DEF TypeInv, Rested, Begins, Fresh
        <3>3. i \in task[t].listed
            BY <3>2 DEF TypeInv, Typed, TypeOK, TaskOK
        <3>. QED BY <3>2, <3>3
    <2>2. CASE t # <<w, "loop">>
        BY <1>2, <1>8, <2>2, LoopNextBegan, SameOthers
    <2>. QED BY <2>1, <2>2
<1>9. ASSUME NEW w \in Workers, NEW a \in Analyses, Trigger(w, a)
      PROVE  \/ j \in task[t].listed \cup task[t].job
             \/ j[1] \in Analyses /\ j[2] = starts[j[1]] /\ starts' = starts
    <2>1. CASE t = <<w, "trigger">>
        <3>1. task'[t].listed = {} /\ task'[t].job = {<<a, starts[a]>>} /\ starts' = starts
            BY <1>9, <2>1, TriggerEffect DEF TypeInv, Begins, Fresh, Trigger, table
        <3>. QED BY <3>1
    <2>2. CASE t # <<w, "trigger">>
        BY <1>2, <1>9, <2>2, TriggerBegan, SameOthers
    <2>. QED BY <2>1, <2>2
<1>10. ASSUME NEW u \in Tasks, EndFirstCycle(u) \/ Publish(u)  PROVE j \in task[t].listed \cup task[t].job
    <2>1. /\ Only(u) /\ Released(u)
          /\ task'[u].listed = IF u[2] = "loop" THEN task[u].listed ELSE {}
        BY <1>10, FinishEffect DEF TypeInv, EndFirstCycle, Publish
    <2>. QED BY <2>1 DEF Only, Released
<1>11. ASSUME NEW u \in Tasks, Works(u)  PROVE j \in task[t].listed \cup task[t].job
    <2>1. Only(u) /\ SameJob(u)
        BY <1>11, FetchEffect, ReadEffect, DeriveEffect, CompareEffect DEF Works, TypeInv
    <2>. QED BY <2>1 DEF Only, SameJob
<1>. QED BY <1>3, <1>4, <1>5, <1>6, <1>7, <1>8, <1>9, <1>10, <1>11, StepKinds

LEMMA JobsStep == TypeInv /\ JobsCurrent /\ [Next]_vars => JobsCurrent'
<1>. SUFFICES ASSUME TypeInv, JobsCurrent, [Next]_vars, NEW t \in Tasks,
                     NEW j \in task'[t].listed \cup task'[t].job, Trusted(j[1])'
              PROVE  j[2] = starts'[j[1]]
    BY DEF JobsCurrent
<1>. DEFINE a == j[1]
<1>1. a \in Analyses /\ a \notin excused'
    BY DEF Trusted
<1>2. CASE StartAnalysis(a)
    <2>1. /\ ~Working(t) /\ task'[t] = task[t] /\ \A i \in task[t].listed : i[1] # a
        BY <1>1, <1>2, StartTrusted
    <2>. QED BY <2>1 DEF Working
<1>3. CASE ~StartAnalysis(a)
    <2>1. starts'[a] = starts[a] /\ a \notin excused
        BY <1>1, <1>3, StartsGrow, ExcusedGrows
    <2>2. j \in task[t].listed \cup task[t].job => j[2] = starts[a]
        BY <1>1, <2>1 DEF JobsCurrent, Trusted
    <2>. QED BY <2>1, <2>2, JobsFrom
<1>. QED BY <1>2, <1>3

\* A baseline is kept, forgotten, or set by the end of a first cycle.
LEMMA BaselineMoves ==
    ASSUME TypeInv, [Next]_vars, NEW w \in Workers, NEW a \in Analyses
    PROVE  \/ baseline'[w][a] = baseline[w][a] \/ baseline'[w][a] = 0
           \/ /\ baseline'[w][a] = starts[a] /\ starts' = starts
              /\ \E t \in Tasks : EndFirstCycle(t) /\ WorkerOf(t) = w /\ AnalysisOf(t) = a
<1>0. baseline \in [Workers -> [Analyses -> 0 .. MaxStarts]]
    BY DEF TypeInv, Typed, TypeOK
<1>1. CASE UNCHANGED vars \/ Outside
    BY <1>1 DEF vars, Outside, ChangeObject, StartAnalysis, StopAnalysis, Elect
<1>2. ASSUME NEW v \in Workers, LoopBegin(v)  PROVE baseline'[w][a] = baseline[w][a]
    BY <1>2 DEF LoopBegin
<1>3. ASSUME NEW v \in Workers, LoopEnd(v) \/ Crash(v)
      PROVE  baseline'[w][a] = baseline[w][a] \/ baseline'[w][a] = 0
    BY <1>0, <1>3 DEF LoopEnd, Crash
<1>4. ASSUME NEW v \in Workers, NEW j, LoopNext(v, j)
      PROVE  baseline'[w][a] = baseline[w][a] \/ baseline'[w][a] = 0
    <2>. DEFINE b == IF j[2] > baseline[v][j[1]] THEN 0 ELSE baseline[v][j[1]]
    <2>1. baseline' = [baseline EXCEPT ![v][j[1]] = b] /\ b \in {0, baseline[v][j[1]]}
        BY <1>4 DEF LoopNext, ForgetIfRestarted
    <2>. HIDE DEF b
    <2>2. CASE w = v /\ a = j[1]
        BY <1>0, <2>1, <2>2
    <2>3. CASE ~(w = v /\ a = j[1])
        BY <1>0, <2>1, <2>3
    <2>. QED BY <2>2, <2>3
<1>5. ASSUME NEW v \in Workers, NEW b \in Analyses, Trigger(v, b)  PROVE baseline'[w][a] = baseline[w][a]
    BY <1>5 DEF Trigger
<1>6. ASSUME NEW t \in Tasks, Works(t) \/ Publish(t)  PROVE baseline'[w][a] = baseline[w][a]
    BY <1>6 DEF Works, Publish, Fetch, Read, Derive, Compare
<1>7. ASSUME NEW t \in Tasks, EndFirstCycle(t)
      PROVE  \/ baseline'[w][a] = baseline[w][a]
             \/ /\ baseline'[w][a] = starts[a] /\ starts' = starts
                /\ WorkerOf(t) = w /\ AnalysisOf(t) = a
    <2>. DEFINE v == WorkerOf(t)
                b == AnalysisOf(t)
    <2>1. baseline' = [baseline EXCEPT ![v][b] = starts[b]] /\ starts' = starts
        BY <1>7 DEF EndFirstCycle, table
    <2>. HIDE DEF v, b
    <2>2. CASE w = v /\ a = b
        BY <1>0, <2>1, <2>2 DEF v, b
    <2>3. CASE ~(w = v /\ a = b)
        BY <1>0, <2>1, <2>3
    <2>. QED BY <2>2, <2>3
<1>. QED BY <1>1, <1>2, <1>3, <1>4, <1>5, <1>6, <1>7, StepKinds

LEMMA BaselinesOldStep == TypeInv /\ BaselinesOld /\ [Next]_vars => BaselinesOld'
<1>. SUFFICES ASSUME TypeInv, BaselinesOld, [Next]_vars, NEW w \in Workers, NEW a \in Analyses
              PROVE  baseline'[w][a] <= starts'[a]
    BY DEF BaselinesOld
<1>1. starts[a] \in Nat /\ baseline[w][a] \in Nat /\ baseline[w][a] <= starts[a]
    BY ConstantsAssumption DEF BaselinesOld, TypeInv, Typed, TypeOK
<1>2. starts'[a] = starts[a] \/ starts'[a] = starts[a] + 1
    BY StartsGrow
<1>3. baseline'[w][a] \in {baseline[w][a], 0, starts[a]}
    BY BaselineMoves
<1>. QED BY <1>1, <1>2, <1>3

\* No start of a trusted analysis has a detection before or after it.
LEMMA NoStart ==
    ASSUME NEW a \in Analyses, a \notin excused', NEW u \in Tasks, Working(u) \/ Working(u)'
    PROVE  ~StartAnalysis(a)
BY StartTrusted DEF Working

LEMMA WasTrusted ==
    ASSUME TypeInv, [Next]_vars, NEW a \in Analyses, a \notin excused', ~StartAnalysis(a)
    PROVE  a \notin excused /\ starts'[a] = starts[a]
BY ExcusedGrows, StartsGrow

LEMMA BeganJob ==
    ASSUME NEW t, NEW j, Begins(t, j)
    PROVE  Working(t)' /\ AnalysisOf(t)' = j[1] /\ ~Working(t)
<1>1. task'[t].job = {j} /\ ~Working(t)
    BY DEF Begins, Fresh
<1>. QED BY <1>1 DEF Working, AnalysisOf

\* A detection of a trusted analysis begins with its current baseline, or none.
LEMMA BaselineOfBegun ==
    ASSUME TypeInv, [Next]_vars, JobsCurrent, BaselinesOld, NEW t \in Tasks, Began(t),
           AnalysisOf(t)' \notin excused'
    PROVE  /\ AnalysisOf(t)' \in Analyses
           /\ BaselineAt(t)' = 0 \/ BaselineAt(t)' = starts'[AnalysisOf(t)']
<1>. DEFINE w == WorkerOf(t)
<1>1. PICK j \in Jobs :
          /\ Begins(t, j)
          /\ \/ LoopNext(w, j) /\ j \in task[t].listed
             \/ /\ Trigger(w, j[1]) /\ t = <<w, "trigger">>
                /\ j[2] = starts[j[1]]
    BY DEF Began
<1>. DEFINE a == j[1]
<1>2. AnalysisOf(t)' = a /\ Working(t)' /\ a \in Analyses /\ w \in Workers
    BY <1>1, BeganJob DEF Jobs, WorkerOf, Tasks
<1>3. a \notin excused /\ starts'[a] = starts[a]
    BY <1>2, NoStart, WasTrusted
<1>4. /\ baseline[w][a] \in Nat /\ starts[a] \in Nat /\ baseline[w][a] <= starts[a]
      /\ baseline \in [Workers -> [Analyses -> 0 .. MaxStarts]]
    BY <1>2, ConstantsAssumption DEF TypeInv, Typed, TypeOK, BaselinesOld
<1>5. BaselineAt(t)' = baseline'[w][a]
    BY <1>2 DEF BaselineAt, WorkerOf
<1>6. CASE LoopNext(w, j) /\ j \in task[t].listed
    <2>1. j[2] = starts[a]
        BY <1>2, <1>3, <1>6 DEF JobsCurrent, Trusted
    <2>2. baseline' = [baseline EXCEPT ![w][a] = IF starts[a] > @ THEN 0 ELSE @]
        BY <1>6, <2>1 DEF LoopNext, ForgetIfRestarted
    <2>3. baseline'[w][a] = IF starts[a] > baseline[w][a] THEN 0 ELSE baseline[w][a]
        BY <1>2, <1>4, <2>2
    <2>. QED BY <1>2, <1>3, <1>4, <1>5, <2>3
<1>7. CASE Trigger(w, a) /\ t = <<w, "trigger">>
    <2>1. /\ baseline' = baseline
          /\ excused' = IF Busy(t) # {} THEN Analyses
                        ELSE IF baseline[w][a] \in 1 .. starts[a] - 1 THEN excused \cup {a}
                        ELSE excused
        BY <1>7 DEF Trigger
    <2>2. baseline[w][a] \notin 1 .. starts[a] - 1
        BY <1>2, <2>1
    <2>. QED BY <1>2, <1>3, <1>4, <1>5, <2>1, <2>2
<1>. QED BY <1>1, <1>2, <1>6, <1>7

LEMMA BaselinesCurrentStep ==
    TypeInv /\ JobsCurrent /\ BaselinesOld /\ BaselinesCurrent /\ [Next]_vars => BaselinesCurrent'
<1>. SUFFICES ASSUME TypeInv, JobsCurrent, BaselinesOld, BaselinesCurrent, [Next]_vars,
                     NEW t \in Tasks, Working(t)', Trusted(AnalysisOf(t))'
              PROVE  (BaselineAt(t) = 0 \/ BaselineAt(t) = starts[AnalysisOf(t)])'
    BY DEF BaselinesCurrent
<1>1. AnalysisOf(t)' \notin excused'
    BY DEF Trusted
<1>2. CASE Began(t)
    BY <1>1, <1>2, BaselineOfBegun
<1>3. CASE Same(t) \/ Works(t)
    <2>. DEFINE a == AnalysisOf(t)
                w == WorkerOf(t)
    <2>1. Working(t) /\ AnalysisOf(t)' = a
        BY <1>3, WasWorking
    <2>2. a \in Analyses /\ w \in Workers
        BY <2>1, AnalysisTyped DEF TypeInv, WorkerOf, Tasks
    <2>3. a \notin excused /\ starts'[a] = starts[a]
        BY <1>1, <2>1, <2>2, NoStart, WasTrusted
    <2>4. baseline[w][a] = 0 \/ baseline[w][a] = starts[a]
        BY <2>1, <2>2, <2>3 DEF BaselinesCurrent, Trusted, BaselineAt
    <2>5. baseline'[w][a] = baseline[w][a] \/ baseline'[w][a] = 0 \/ baseline'[w][a] = starts[a]
        BY <2>2, BaselineMoves
    <2>6. BaselineAt(t)' = baseline'[w][a] /\ starts'[AnalysisOf(t)'] = starts[a]
        BY <2>1, <2>3 DEF BaselineAt, WorkerOf
    <2>. QED BY <2>4, <2>5, <2>6
<1>. QED BY <1>2, <1>3, TaskSteps

-----------------------------------------------------------------------------
(* What a step does to the objects that have not changed since a start.     *)

Goes(a) ==
    /\ a \in Analyses /\ a \notin excused /\ a \notin excused' /\ starts'[a] = starts[a]
    /\ kind' = kind /\ enabled' = enabled
    /\ moved[a] \subseteq moved'[a]
    /\ \A o \in Objects \ moved'[a] : actual'[o] = actual[o]

\* What a step leaves alone of an analysis that it does not start and leaves trusted.
LEMMA TrustedGoes ==
    ASSUME TypeInv, [Next]_vars, NEW a \in Analyses, a \notin excused', ~StartAnalysis(a)
    PROVE  Goes(a)
<1>1. a \notin excused /\ starts'[a] = starts[a]
    BY WasTrusted
<1>2. kind' = kind /\ enabled' = enabled
    BY StepKinds DEF vars, cluster, Outside, ChangeObject, StartAnalysis, StopAnalysis, Elect, LoopBegin, LoopEnd,
                     Crash, LoopNext, Trigger, Works, Fetch, Read, Derive, Compare, EndFirstCycle, Publish
<1>3. \/ actual' = actual /\ moved' = moved
      \/ \E o \in Objects, v \in Versions : ChangeObject(o, v)
      \/ \E b \in Analyses : StartAnalysis(b)
    BY StepKinds DEF vars, cluster, Outside, StopAnalysis, Elect, LoopBegin, LoopEnd,
                     Crash, LoopNext, Trigger, Works, Fetch, Read, Derive, Compare, EndFirstCycle, Publish
<1>4. moved[a] \subseteq moved'[a] /\ \A o \in Objects \ moved'[a] : actual'[o] = actual[o]
    <2>1. CASE actual' = actual /\ moved' = moved
        BY <2>1
    <2>2. ASSUME NEW o \in Objects, NEW v \in Versions, ChangeObject(o, v)
          PROVE  moved[a] \subseteq moved'[a] /\ \A p \in Objects \ moved'[a] : actual'[p] = actual[p]
        <3>1. moved'[a] = moved[a] \cup {o}
            BY <2>2 DEF ChangeObject
        <3>2. actual' = [actual EXCEPT ![o] = v] /\ actual \in [Objects -> Versions]
            BY <2>2 DEF ChangeObject, TypeInv, Typed, TypeOK
        <3>3. \A p \in Objects \ {o} : actual'[p] = actual[p]
            BY <3>2
        <3>. QED BY <3>1, <3>3
    <2>3. ASSUME NEW b \in Analyses, StartAnalysis(b)
          PROVE  moved[a] \subseteq moved'[a] /\ actual' = actual
        <3>1. b # a
            BY <2>3
        <3>. QED BY <2>3, <3>1 DEF StartAnalysis, cluster, TypeInv, Typed, TypeOK
    <2>. QED BY <1>3, <2>1, <2>2, <2>3
<1>. QED BY <1>1, <1>2, <1>4 DEF Goes

\* Of such an object a detection believes only what is so.
LEMMA PresentIsThere ==
    ASSUME NEW t, NEW a, SeenAt(t, a), NEW o \in Present(t), o \notin moved[a]
    PROVE  task[t].seen[o] = actual[o] /\ actual[o] # Absent
BY DEF SeenAt, Present

LEMMA GoneIsAbsent ==
    ASSUME TypeInv, Evidence, NEW t \in Tasks, CrowdedAt(t), task[t].pc = "derive", Working(t),
           NEW a, SeenAt(t, a), NEW o \in Gone(t), o \notin moved[a], excused # Analyses
    PROVE  actual[o] = Absent /\ task[t].memory[o].state = "active" /\ o \in InScope(AnalysisOf(t))
<1>1. /\ o \in InScope(AnalysisOf(t)) /\ o \in Objects /\ task[t].seen[o] = Absent
      /\ o \in task[t].blind => task[t].shared
      /\ task[t].memory[o].state = "active"
    BY RetiredLooked
<1>2. o \notin task[t].blind
    BY <1>1 DEF CrowdedAt
<1>3. ~Pending(t, o)
    BY DEF Pending, TypeInv, Typed, TypeOK, TaskOK
<1>. QED BY <1>1, <1>2, <1>3 DEF SeenAt

\* Whatever is remembered anew of such an object is what there is.
LEMMA RowMoves ==
    ASSUME TypeInv, Evidence, Crowded, SeenRight, [Next]_vars, NEW a, Goes(a),
           NEW o \in Objects \ moved'[a]
    PROVE  Alike(row'[o], row[o]) \/ Exact(row'[o], actual[o])
<1>. SUFFICES ASSUME ~Alike(row'[o], row[o])  PROVE Exact(row'[o], actual[o])
    OBVIOUS
<1>0. row'[o] # row[o]
    BY DEF Alike
<1>1. PICK t \in Tasks : Derive(t) \/ Compare(t)
    BY <1>0, RowsWritten
<1>2. Working(t) /\ task[t].calls = {}
    BY <1>1 DEF Derive, Compare, Working, TypeInv, Typed, TypeOK, TaskOK
<1>3. SeenAt(t, a) /\ o \notin moved[a] /\ excused # Analyses
    BY <1>2 DEF SeenRight, Trusted, Goes
<1>4. ASSUME o \in Present(t), row'[o].state = "active" /\ row'[o].version = task[t].seen[o]
      PROVE  Exact(row'[o], actual[o])
    BY <1>3, <1>4, PresentIsThere DEF Exact
<1>5. CASE Derive(t)
    <2>. DEFINE active == IF Wanted THEN Stored(t) ELSE {}
                inactive == IF Wanted THEN Retired(t) ELSE {}
    <2>1. PICK lost : Update(t, active, inactive, lost)
        BY <1>5 DEF Derive
    <2>2. active \subseteq Present(t) /\ inactive \subseteq Gone(t)
        BY DEF Stored, Retired, Back, New, Different, TypeInv, Typed, TypeOK, AllKinds
    <2>. HIDE DEF active, inactive
    <2>3. CASE o \in active
        BY <1>0, <1>4, <2>1, <2>2, <2>3, UpdateAt
    <2>4. CASE o \in inactive /\ o \notin active
        <3>1. row'[o].state = "inactive"
            BY <1>0, <2>1, <2>4, UpdateAt
        <3>2. actual[o] = Absent
            BY <1>2, <1>3, <1>5, <2>2, <2>4, GoneIsAbsent DEF Derive, Crowded
        <3>. QED BY <3>1, <3>2 DEF Exact
    <2>5. CASE o \notin active /\ o \notin inactive
        BY <1>0, <2>1, <2>5, UpdateAt
    <2>. QED BY <2>3, <2>4, <2>5
<1>6. CASE Compare(t)
    <2>. DEFINE different == IF "changed" \in enabled THEN Different(t) ELSE {}
    <2>1. PICK lost : Refresh(t, different, lost)
        BY <1>6 DEF Compare
    <2>2. different \subseteq Present(t)
        BY DEF Different
    <2>. HIDE DEF different
    <2>3. row'[o].state = "active" /\ row'[o].version = task[t].seen[o] /\ o \in different
        BY <1>0, <2>1, RefreshAt DEF Alike
    <2>. QED BY <1>4, <2>2, <2>3
<1>. QED BY <1>1, <1>5, <1>6

LEMMA SeenRightStep == TypeInv /\ SeenRight /\ [Next]_vars => SeenRight'
<1>. SUFFICES ASSUME TypeInv, SeenRight, [Next]_vars, NEW t \in Tasks, NEW a \in Analyses,
                     Working(t)', a \notin excused', NEW o \in Objects \ moved'[a]
              PROVE  \/ task'[t].seen[o] = actual'[o]
                     \/ /\ task'[t].seen[o] = Absent
                        /\ o \in task'[t].blind \/ o \notin InScope(AnalysisOf(t)') \/ Pending(t, o)'
    BY DEF SeenRight, SeenAt, Trusted, InScope
<1>1. /\ actual'[o] = actual[o] /\ o \in Objects \ moved[a] /\ a \notin excused
    BY NoStart, TrustedGoes DEF Goes
<1>2. Working(t) => \/ task[t].seen[o] = actual[o]
                    \/ /\ task[t].seen[o] = Absent
                       /\ o \in task[t].blind \/ o \notin InScope(AnalysisOf(t)) \/ Pending(t, o)
    BY <1>1 DEF SeenRight, SeenAt, Trusted
<1>3. CASE Began(t)
    <2>1. PICK j \in Jobs : Begins(t, j)
        BY <1>3 DEF Began
    <2>2. /\ AnalysisOf(t)' = j[1] /\ task'[t].calls = Calls(j[1]) /\ task'[t].seen[o] = Absent
        BY <2>1, BeganJob DEF Begins, Fresh
    <2>3. o \in InScope(j[1]) => Pending(t, o)'
        BY <2>2, CallsTyped DEF Pending
    <2>. QED BY <2>2, <2>3
<1>4. CASE Same(t)
    <2>1. Working(t) /\ AnalysisOf(t)' = AnalysisOf(t)
        BY <1>4, WasWorking
    <2>. QED BY <1>1, <1>2, <1>4, <2>1 DEF Same, Pending
<1>5. CASE Works(t)
    <2>1. Working(t) /\ AnalysisOf(t)' = AnalysisOf(t)
        BY <1>5, WasWorking
    <2>2. CASE SameLook(t)
        BY <1>1, <1>2, <2>1, <2>2 DEF SameLook, Pending
    <2>3. ASSUME NEW call \in task[t].calls, Fetch(t, call)
          PROVE  \/ task'[t].seen[o] = actual[o]
                 \/ /\ task'[t].seen[o] = Absent
                    /\ o \in task'[t].blind \/ o \notin InScope(AnalysisOf(t)) \/ Pending(t, o)'
        <3>1. /\ task'[t].calls = task[t].calls \ {call}
              /\ \/ /\ task'[t].blind = task[t].blind
                    /\ task'[t].seen[o] = IF o \in call THEN actual[o] ELSE task[t].seen[o]
                 \/ /\ task'[t].blind = task[t].blind \cup call
                    /\ task'[t].seen = task[t].seen
            BY <2>3, FetchEffect DEF TypeInv
        <3>2. Pending(t, o) /\ o \notin call => Pending(t, o)'
            BY <3>1 DEF Pending
        <3>3. o \in task[t].blind => o \in task'[t].blind
            BY <3>1
        <3>. QED BY <1>2, <2>1, <3>1, <3>2, <3>3
    <2>. QED BY <1>1, <1>5, <2>1, <2>2, <2>3, ReadEffect, DeriveEffect, CompareEffect DEF Works, TypeInv
<1>. QED BY <1>3, <1>4, <1>5, TaskSteps

-----------------------------------------------------------------------------
(* What the memory has learned of an analysis it keeps.                     *)

\* An object that has not changed after the step had not before it.
LEMMA UnmovedStays ==
    ASSUME NEW a, Goes(a), NEW o \in Unmoved(a)'
    PROVE  /\ o \in Unmoved(a) /\ o \in Objects \ moved'[a] /\ actual'[o] = actual[o]
           /\ kind' = kind /\ enabled' = enabled
BY DEF Goes, Unmoved, InScope

\* What a detection sees is right, and with the baselines that is what the memory
\* learns.
LooksRight == TypeInv /\ Evidence /\ Crowded /\ SeenRight
Knowledge == LooksRight /\ BaselinesOld /\ BaselinesCurrent /\ BaselineLearned /\ Learning

\* What the memory has learned of an analysis it does not forget.
LEMMA LearnedStays ==
    ASSUME LooksRight, [Next]_vars, NEW a, Goes(a), Learned(a)
    PROVE  Learned(a)'
<1>. SUFFICES ASSUME NEW o \in Unmoved(a)'  PROVE Silent(row[o], actual[o])'
    BY DEF Learned
<1>1. /\ o \in Unmoved(a) /\ o \in Objects \ moved'[a] /\ actual'[o] = actual[o]
      /\ kind' = kind /\ enabled' = enabled
    BY UnmovedStays
<1>2. Silent(row[o], actual[o])
    BY <1>1 DEF Learned
<1>3. Alike(row'[o], row[o]) \/ Exact(row'[o], actual[o])
    BY <1>1, RowMoves DEF LooksRight
<1>4. Silent(row'[o], actual[o])
    BY <1>2, <1>3, ExactIsSilent, AlikeIsSame DEF Silent
<1>. QED BY <1>1, <1>4 DEF Silent, DeriveSilent, CompareSilent, RemovalType

\* A first cycle only ends with the memory up to date.
LEMMA BaselineLearnedStep == Knowledge /\ [Next]_vars => BaselineLearned'
<1>. SUFFICES ASSUME Knowledge, [Next]_vars, NEW w \in Workers, NEW a \in Analyses, a \notin excused',
                     baseline'[w][a] # 0, baseline'[w][a] = starts'[a]
              PROVE  Learned(a)'
    BY DEF BaselineLearned, Trusted
<1>1. ~StartAnalysis(a)
    <2>1. SUFFICES ASSUME StartAnalysis(a)  PROVE FALSE
        OBVIOUS
    <2>2. baseline[w][a] <= starts[a] /\ starts[a] \in Nat /\ baseline[w][a] \in Nat
        BY ConstantsAssumption DEF Knowledge, LooksRight, BaselinesOld, TypeInv, Typed, TypeOK
    <2>3. baseline' = baseline /\ starts' = [starts EXCEPT ![a] = starts[a] + 1]
        BY <2>1 DEF StartAnalysis
    <2>4. starts'[a] = starts[a] + 1
        BY <2>3 DEF Knowledge, LooksRight, TypeInv, Typed, TypeOK
    <2>. QED BY <2>2, <2>3, <2>4
<1>2. Goes(a) /\ a \notin excused /\ starts'[a] = starts[a]
    BY <1>1, TrustedGoes DEF Knowledge, LooksRight, Goes
<1>3. Learned(a)
    <2>1. CASE baseline'[w][a] = baseline[w][a]
        BY <1>2, <2>1 DEF Knowledge, BaselineLearned, Trusted
    <2>2. ASSUME NEW t \in Tasks, EndFirstCycle(t), AnalysisOf(t) = a  PROVE Learned(a)
        <3>1. Working(t) /\ task[t].pc = "report"
            BY <2>2 DEF EndFirstCycle, Working, Knowledge, LooksRight, TypeInv, Typed, TypeOK, TaskOK
        <3>. QED BY <1>2, <2>2, <3>1 DEF Knowledge, Learning, Trusted, Progress
    <2>. QED BY <2>1, <2>2, BaselineMoves DEF Knowledge, LooksRight
<1>. QED BY <1>2, <1>3, LearnedStays DEF Knowledge

\* What a detection that lost nothing leaves is silent about what it saw and
\* remembered.
LEMMA DeriveSettles ==
    ASSUME TypeInv, NEW t \in Tasks, NEW o \in InScope(AnalysisOf(t)), task[t].seen[o] = actual[o],
           Alike(task[t].memory[o], row[o]), Alike(row'[o], row[o]), ~Exact(row[o], actual[o]),
           Update(t, IF Wanted THEN Stored(t) ELSE {}, IF Wanted THEN Retired(t) ELSE {}, {}),
           Gone(t) = Missing(t)
    PROVE  DeriveSilent(row[o], actual[o]) /\ (kind # "workload" => CompareSilent(row[o], actual[o]))
<1>. DEFINE active == IF Wanted THEN Stored(t) ELSE {}
            inactive == IF Wanted THEN Retired(t) ELSE {}
            none == {}
<1>1. Update(t, active, inactive, none) /\ o \in Objects /\ o \notin none
    BY DEF InScope
<1>2. active \subseteq Present(t) /\ inactive \subseteq Missing(t)
    BY DEF Stored, Retired, Back, New, Different, TypeInv, Typed, TypeOK, AllKinds
<1>. HIDE DEF active, inactive, none
<1>3. o \notin active
    <2>1. SUFFICES ASSUME o \in active  PROVE FALSE
        OBVIOUS
    <2>2. row'[o].state = "active" /\ row'[o].version = task[t].seen[o]
        BY <1>1, <2>1, UpdateAt
    <2>3. actual[o] # Absent
        BY <1>2, <2>1 DEF Present
    <2>. QED BY <2>2, <2>3 DEF Exact, Alike
<1>4. o \notin inactive
    <2>1. SUFFICES ASSUME o \in inactive  PROVE FALSE
        OBVIOUS
    <2>2. row'[o].state = "inactive"
        BY <1>1, <1>3, <2>1, UpdateAt
    <2>3. actual[o] = Absent
        BY <1>1, <1>2, <2>1 DEF Missing, Present
    <2>. QED BY <2>2, <2>3 DEF Exact, Alike
<1>5. o \notin (IF Wanted THEN Stored(t) ELSE {}) /\ o \notin (IF Wanted THEN Retired(t) ELSE {})
    BY <1>3, <1>4 DEF active, inactive
<1>6. kind \in AllKinds /\ enabled \subseteq Types
    BY ConstantsAssumption DEF TypeInv, Typed, TypeOK
<1>7. actual[o] # Absent => /\ row[o].state = "none" => o \in New(t)
                            /\ row[o].state = "inactive" => o \in Back(t)
                            /\ row[o].state = "active" /\ row[o].version # actual[o] => o \in Different(t)
    BY <1>1 DEF New, Back, Different, Present, In, Alike
<1>8. actual[o] = Absent /\ row[o].state = "active" => o \in Gone(t)
    BY <1>1 DEF Missing, Present, In, Alike
<1>9. actual[o] # Absent /\ row[o].state = "none" /\ kind # "config" => "added" \notin enabled
    BY <1>5, <1>6, <1>7 DEF Stored, Wanted, AllKinds
<1>10. actual[o] # Absent /\ row[o].state = "inactive" /\ kind = "workload" => "added" \notin enabled
    BY <1>5, <1>7 DEF Stored, Wanted
<1>11. actual[o] = Absent /\ row[o].state = "active" => RemovalType \notin enabled
    BY <1>5, <1>6, <1>8 DEF Retired, Wanted, AllKinds, RemovalType
<1>12. kind # "workload" /\ actual[o] # Absent /\ row[o].state = "active" /\ row[o].version # actual[o] =>
          "changed" \notin enabled
    BY <1>5, <1>6, <1>7 DEF Stored, Wanted, AllKinds
<1>. QED BY <1>9, <1>10, <1>11, <1>12 DEF DeriveSilent, CompareSilent

\* The same of the replicas, containers and labels.
LEMMA CompareSettles ==
    ASSUME TypeInv, NEW t \in Tasks, NEW o \in InScope(AnalysisOf(t)), task[t].seen[o] = actual[o],
           Alike(task[t].memory[o], row[o]), Alike(row'[o], row[o]), ~Exact(row[o], actual[o]),
           Refresh(t, IF "changed" \in enabled THEN Different(t) ELSE {}, {})
    PROVE  CompareSilent(row[o], actual[o])
<1>. DEFINE different == IF "changed" \in enabled THEN Different(t) ELSE {}
            none == {}
<1>1. Refresh(t, different, none) /\ o \in Objects /\ o \notin none
    BY DEF InScope
<1>. HIDE DEF different, none
<1>2. o \notin different
    <2>1. SUFFICES ASSUME o \in different  PROVE FALSE
        OBVIOUS
    <2>2. row'[o].state = row[o].state /\ row'[o].version = task[t].seen[o]
        BY <1>1, <2>1, RefreshAt
    <2>3. actual[o] # Absent /\ task[t].memory[o].state = "active"
        BY <2>1 DEF different, Different, Present, In
    <2>. QED BY <2>2, <2>3 DEF Exact, Alike
<1>3. actual[o] # Absent /\ row[o].state = "active" /\ row[o].version # actual[o] => o \in Different(t)
    BY <1>1 DEF Different, Present, In, Alike
<1>. QED BY <1>2, <1>3 DEF different, CompareSilent

\* With nothing learned, a detection of a trusted analysis is its first cycle,
\* and must not fail.
LEMMA FirstCycleLearns ==
    ASSUME Knowledge, NEW t \in Tasks, Working(t), Trusted(AnalysisOf(t)), ~Learned(AnalysisOf(t))
    PROVE  FirstCycle(t) /\ (Excuse(t) => AnalysisOf(t) \in excused') /\ Progress(t)
<1>1. AnalysisOf(t) \in Analyses /\ WorkerOf(t) \in Workers
    BY DEF Trusted, WorkerOf, Tasks
<1>2. FirstCycle(t)
    BY <1>1 DEF Knowledge, BaselinesCurrent, BaselineLearned, BaselineAt, FirstCycle
<1>3. Progress(t)
    BY DEF Knowledge, Learning
<1>. QED BY <1>2, <1>3 DEF Excuse

\* A detection that has not failed has seen what has not changed as it is.
LEMMA SeenNow ==
    ASSUME Knowledge, NEW t \in Tasks, Working(t), Trusted(AnalysisOf(t)), task[t].pc # "fetch",
           task[t].blind = {}, NEW o \in Unmoved(AnalysisOf(t))
    PROVE  task[t].seen[o] = actual[o]
<1>1. ~Pending(t, o)
    BY DEF Pending, Knowledge, LooksRight, TypeInv, Typed, TypeOK, TaskOK
<1>2. SeenAt(t, AnalysisOf(t)) /\ o \in Objects \ moved[AnalysisOf(t)] /\ o \in InScope(AnalysisOf(t))
    BY DEF Knowledge, LooksRight, SeenRight, Trusted, Unmoved, InScope
<1>. QED BY <1>1, <1>2 DEF SeenAt

\* In a first cycle that is not excused the memory learns what there is.
LEMMA DeriveLearns ==
    ASSUME Knowledge, [Next]_vars, NEW t \in Tasks, Derive(t), Working(t), NEW a, a = AnalysisOf(t),
           Goes(a), ~Learned(a), NEW o \in Unmoved(a)'
    PROVE  /\ (DeriveSilent(row[o], actual[o]))'
           /\ kind # "workload" => (Silent(row[o], actual[o]))'
<1>. DEFINE active == IF Wanted THEN Stored(t) ELSE {}
            inactive == IF Wanted THEN Retired(t) ELSE {}
<1>0. Trusted(a)
    BY DEF Goes, Trusted
<1>1. FirstCycle(t) /\ ~Excuse(t) /\ Progress(t)
    BY <1>0, FirstCycleLearns DEF Goes
<1>2. PICK lost : Update(t, active, inactive, lost) /\ ~(lost # {} \/ Gone(t) # Missing(t))
    BY <1>1 DEF Derive
<1>3. lost = {} /\ Gone(t) = Missing(t) /\ Update(t, active, inactive, {})
    BY <1>2
<1>4. /\ o \in Objects \ moved'[a] /\ actual'[o] = actual[o]
      /\ kind' = kind /\ enabled' = enabled /\ o \in Unmoved(a) /\ o \in InScope(a)
    BY UnmovedStays DEF Unmoved
<1>5. /\ task[t].pc = "derive" /\ task[t].blind = {} /\ Remembers(t, o)
    BY <1>1, <1>4 DEF Derive, Progress
<1>6. task[t].seen[o] = actual[o]
    BY <1>0, <1>4, <1>5, SeenNow
<1>7. Alike(row'[o], row[o]) \/ Exact(row'[o], actual[o])
    BY <1>4, RowMoves DEF Knowledge, LooksRight
<1>8. DeriveSilent(row'[o], actual[o]) /\ (kind # "workload" => Silent(row'[o], actual[o]))
    <2>1. CASE Exact(row'[o], actual[o])
        BY <2>1, ExactIsSilent DEF Silent
    <2>2. CASE ~Exact(row'[o], actual[o])
        <3>1. /\ Alike(row'[o], row[o]) /\ Alike(task[t].memory[o], row[o])
              /\ ~Exact(row[o], actual[o])
            BY <1>5, <1>7, <2>2, AlikeIsSame DEF Remembers
        <3>2. DeriveSilent(row[o], actual[o]) /\ (kind # "workload" => CompareSilent(row[o], actual[o]))
            BY <1>3, <1>4, <1>6, <3>1, DeriveSettles DEF Knowledge, LooksRight
        <3>. QED BY <3>1, <3>2, AlikeIsSame DEF Silent
    <2>. QED BY <2>1, <2>2
<1>. QED BY <1>4, <1>8 DEF Silent, DeriveSilent, CompareSilent, RemovalType

LEMMA CompareLearns ==
    ASSUME Knowledge, [Next]_vars, NEW t \in Tasks, Compare(t), Working(t), NEW a, a = AnalysisOf(t),
           Goes(a), ~Learned(a), NEW o \in Unmoved(a)'
    PROVE  (Silent(row[o], actual[o]))'
<1>. DEFINE different == IF "changed" \in enabled THEN Different(t) ELSE {}
<1>0. Trusted(a)
    BY DEF Goes, Trusted
<1>1. FirstCycle(t) /\ ~Excuse(t) /\ Progress(t)
    BY <1>0, FirstCycleLearns DEF Goes
<1>2. Refresh(t, different, {})
    BY <1>1 DEF Compare
<1>4. /\ o \in Objects \ moved'[a] /\ actual'[o] = actual[o]
      /\ kind' = kind /\ enabled' = enabled /\ o \in Unmoved(a) /\ o \in InScope(a)
    BY UnmovedStays DEF Unmoved
<1>5. /\ task[t].pc = "compare" /\ task[t].blind = {} /\ Remembers(t, o)
      /\ DeriveSilent(row[o], actual[o])
    BY <1>1, <1>4 DEF Compare, Progress
<1>6. task[t].seen[o] = actual[o]
    BY <1>0, <1>4, <1>5, SeenNow
<1>7. Alike(row'[o], row[o]) \/ Exact(row'[o], actual[o])
    BY <1>4, RowMoves DEF Knowledge, LooksRight
<1>8. Silent(row'[o], actual[o])
    <2>1. CASE Exact(row'[o], actual[o])
        BY <2>1, ExactIsSilent
    <2>2. CASE ~Exact(row'[o], actual[o])
        <3>1. /\ Alike(row'[o], row[o]) /\ Alike(task[t].memory[o], row[o])
              /\ ~Exact(row[o], actual[o])
            BY <1>5, <1>7, <2>2, AlikeIsSame DEF Remembers
        <3>2. CompareSilent(row[o], actual[o])
            BY <1>2, <1>4, <1>6, <3>1, CompareSettles DEF Knowledge, LooksRight
        <3>. QED BY <1>5, <3>1, <3>2, AlikeIsSame DEF Silent
    <2>. QED BY <2>1, <2>2
<1>. QED BY <1>4, <1>8 DEF Silent, DeriveSilent, CompareSilent, RemovalType

\* The rows stay silent, or as they were remembered, where nothing changes.
LEMMA RememberedStays ==
    ASSUME LooksRight, [Next]_vars, NEW t, NEW a, Goes(a), NEW o \in Unmoved(a)'
    PROVE  /\ o \in Unmoved(a)
           /\ Remembers(t, o) /\ task'[t].memory = task[t].memory => Remembers(t, o)'
           /\ DeriveSilent(row[o], actual[o]) => (DeriveSilent(row[o], actual[o]))'
<1>1. /\ o \in Unmoved(a) /\ o \in Objects \ moved'[a] /\ actual'[o] = actual[o]
      /\ kind' = kind /\ enabled' = enabled
    BY UnmovedStays
<1>2. Alike(row'[o], row[o]) \/ Exact(row'[o], actual[o])
    BY <1>1, RowMoves DEF LooksRight
<1>3. Remembers(t, o) /\ task'[t].memory = task[t].memory => Remembers(t, o)'
    BY <1>1, <1>2, AlikeIsSame DEF Remembers, Alike, Exact
<1>4. DeriveSilent(row[o], actual[o]) => DeriveSilent(row'[o], actual[o])
    BY <1>2, ExactIsSilent, AlikeIsSame DEF Silent
<1>. QED BY <1>1, <1>3, <1>4 DEF DeriveSilent, RemovalType

\* How far a first cycle has got is not undone by the steps of others.
LEMMA ProgressStays ==
    ASSUME Knowledge, [Next]_vars, NEW t \in Tasks, Same(t), Progress(t), NEW a, Goes(a),
           AnalysisOf(t) = a, AnalysisOf(t)' = a
    PROVE  Progress(t)'
<1>1. /\ task'[t].pc = task[t].pc /\ task'[t].blind = task[t].blind /\ task'[t].memory = task[t].memory
    BY DEF Same
<1>2. LooksRight
    BY DEF Knowledge
<1>3. task'[t].pc # "report" => task'[t].blind = {}
    BY <1>1 DEF Progress
<1>4. ASSUME task'[t].pc \in {"derive", "compare"}, NEW o \in Unmoved(a)'  PROVE Remembers(t, o)'
    BY <1>1, <1>2, <1>4, RememberedStays DEF Progress
<1>5. ASSUME task'[t].pc \in {"reread", "compare"}, NEW o \in Unmoved(a)'
      PROVE  (DeriveSilent(row[o], actual[o]))'
    BY <1>1, <1>2, <1>5, RememberedStays DEF Progress
<1>6. task'[t].pc = "report" => Learned(a)'
    BY <1>1, <1>2, LearnedStays DEF Progress
<1>. QED BY <1>3, <1>4, <1>5, <1>6 DEF Progress

\* Its own steps bring it further.
LEMMA ProgressMade ==
    ASSUME Knowledge, [Next]_vars, NEW t \in Tasks, Works(t), Working(t), NEW a, Goes(a),
           ~Learned(a), AnalysisOf(t) = a, AnalysisOf(t)' = a
    PROVE  Progress(t)'
<1>1. Progress(t) /\ ~Excuse(t)
    BY FirstCycleLearns DEF Goes, Trusted
<1>2. Typed /\ LooksRight
    BY DEF Knowledge, LooksRight, TypeInv
<1>3. ASSUME NEW call \in task[t].calls, Fetch(t, call)  PROVE Progress(t)'
    <2>1. /\ task[t].pc = "fetch" /\ task'[t].blind = task[t].blind /\ task'[t].pc \in {"fetch", "read"}
        BY <1>1, <1>2, <1>3, FetchEffect
    <2>. QED BY <1>1, <2>1 DEF Progress
<1>4. CASE Read(t)
    <2>1. /\ task'[t].memory = row /\ SameLook(t) /\ task[t].pc \in {"read", "reread"}
          /\ task'[t].pc = IF task[t].pc = "read" THEN "derive" ELSE "compare"
        BY <1>1, <1>2, <1>4, ReadEffect
    <2>2. row' = row
        BY <1>4 DEF Read
    <2>3. \A o \in Unmoved(a)' : Remembers(t, o)'
        BY <2>1, <2>2 DEF Remembers, Alike
    <2>4. task'[t].pc = "compare" => \A o \in Unmoved(a)' : (DeriveSilent(row[o], actual[o]))'
        BY <1>1, <1>2, <2>1, RememberedStays DEF Progress
    <2>5. task'[t].blind = {} /\ task'[t].pc \notin {"report", "reread"}
        BY <1>1, <2>1 DEF Progress, SameLook
    <2>. QED BY <2>3, <2>4, <2>5 DEF Progress
<1>5. CASE Derive(t)
    <2>1. /\ SameLook(t) /\ task[t].pc = "derive" /\ task'[t].pc = AfterDerive
        BY <1>2, <1>5, DeriveEffect
    <2>2. \A o \in Unmoved(a)' : (DeriveSilent(row[o], actual[o]))'
        BY <1>5, DeriveLearns
    <2>3. task'[t].pc = "report" => Learned(a)'
        BY <1>5, <2>1, DeriveLearns DEF AfterDerive, Learned
    <2>4. task'[t].blind = {} /\ task'[t].pc \in {"report", "reread"}
        BY <1>1, <2>1 DEF Progress, SameLook, AfterDerive
    <2>. QED BY <2>2, <2>3, <2>4 DEF Progress
<1>6. CASE Compare(t)
    <2>1. task'[t].pc = "report"
        BY <1>2, <1>6, CompareEffect
    <2>2. Learned(a)'
        BY <1>6, CompareLearns DEF Learned
    <2>. QED BY <2>1, <2>2 DEF Progress
<1>. QED BY <1>3, <1>4, <1>5, <1>6 DEF Works

LEMMA LearningStep == Knowledge /\ [Next]_vars => Learning'
<1>. SUFFICES ASSUME Knowledge, [Next]_vars, NEW t \in Tasks, Working(t)', NEW a \in Analyses,
                     a = AnalysisOf(t)', a \notin excused', ~Learned(a)'
              PROVE  Progress(t)'
    BY DEF Learning, Trusted
<1>1. LooksRight /\ TypeInv
    BY DEF Knowledge, LooksRight
<1>2. Goes(a) /\ a \notin excused
    BY <1>1, NoStart, TrustedGoes DEF Goes
<1>3. ~Learned(a)
    BY <1>1, <1>2, LearnedStays
<1>4. CASE Began(t)
    <2>1. task'[t].blind = {} /\ task'[t].pc = "fetch"
        BY <1>4 DEF Began, Begins, Fresh
    <2>. QED BY <2>1 DEF Progress
<1>5. CASE Same(t)
    <2>1. Working(t) /\ AnalysisOf(t) = a
        BY <1>1, <1>5, WasWorking
    <2>2. Progress(t)
        BY <1>2, <1>3, <2>1 DEF Knowledge, Learning, Trusted
    <2>. QED BY <1>2, <1>5, <2>1, <2>2, ProgressStays
<1>6. CASE Works(t)
    <2>1. Working(t) /\ AnalysisOf(t) = a
        BY <1>1, <1>6, WasWorking
    <2>. QED BY <1>2, <1>3, <1>6, <2>1, ProgressMade
<1>. QED BY <1>1, <1>4, <1>5, <1>6, TaskSteps

-----------------------------------------------------------------------------
(* What is reported is news.                                                *)

\* After its first cycle an analysis has learned what there is, and no task at
\* work on it sees its baseline set.
LEMMA NotFirst ==
    ASSUME Knowledge, [Next]_vars, NEW t \in Tasks, Working(t), Working(t)', NEW a, Goes(a),
           AnalysisOf(t) = a, AnalysisOf(t)' = a, ~FirstCycle(t)'
    PROVE  ~FirstCycle(t) /\ Learned(a)
<1>. DEFINE w == WorkerOf(t)
<1>1. a \in Analyses /\ a \notin excused /\ w \in Workers /\ baseline'[w][a] # 0 /\ excused # Analyses
    BY DEF Goes, WorkerOf, Tasks, FirstCycle
<1>2. ~\E u \in Tasks : EndFirstCycle(u) /\ WorkerOf(u) = w
    <2>1. SUFFICES ASSUME NEW u \in Tasks, EndFirstCycle(u), WorkerOf(u) = w  PROVE FALSE
        OBVIOUS
    <2>2. Working(u) /\ Released(u)
        BY <2>1, FinishEffect DEF EndFirstCycle, Working, Knowledge, LooksRight, TypeInv, Typed, TypeOK, TaskOK
    <2>3. CASE u = t
        BY <2>2, <2>3 DEF Released, Working
    <2>4. CASE u # t
        <3>1. u \in Others(t)
            BY <2>1, <2>4 DEF Others
        <3>. QED BY <1>1, <2>2, <3>1 DEF Knowledge, LooksRight, Crowded, CrowdedAt
    <2>. QED BY <2>3, <2>4
<1>3. baseline'[w][a] = baseline[w][a]
    BY <1>1, <1>2, BaselineMoves DEF Knowledge, LooksRight
<1>4. baseline[w][a] = starts[a]
    BY <1>1, <1>3 DEF Knowledge, BaselinesCurrent, BaselineAt, Trusted
<1>5. Learned(a)
    BY <1>1, <1>3, <1>4 DEF Knowledge, BaselineLearned, Trusted
<1>. QED BY <1>1, <1>3, <1>5 DEF FirstCycle

\* After the first cycle, only what has changed is news.
LEMMA DerivedMoved ==
    ASSUME Knowledge, NEW t \in Tasks, Derive(t), Working(t), NEW a, a = AnalysisOf(t),
           a \in Analyses \ excused, NewsAt(t), NEW n \in DerivedNews(t)
    PROVE  n[1] \in moved[a]
<1>. DEFINE o == n[1]
<1>1. SUFFICES ASSUME o \notin moved[a]  PROVE FALSE
    OBVIOUS
<1>2. n \in Derived(t) /\ n[2] \in enabled
    BY DEF DerivedNews, Reported
<1>3. /\ task[t].pc = "derive" /\ SeenAt(t, a) /\ CrowdedAt(t) /\ excused # Analyses
      /\ TypeInv /\ Evidence /\ kind \in AllKinds
    BY DEF Derive, Knowledge, LooksRight, SeenRight, Crowded, Trusted, TypeInv, Typed, TypeOK
<1>4. ASSUME o \in InScope(a)  PROVE Silent(task[t].memory[o], actual[o])
    BY <1>1, <1>3, <1>4 DEF NewsAt, Unmoved
<1>5. CASE o \in New(t) \cup Back(t) /\ n[2] = "added" /\ (o \in Back(t) => kind = "workload") /\ kind # "config"
    <2>1. o \in Present(t) /\ o \in InScope(a) /\ task[t].memory[o].state = IF o \in New(t) THEN "none" ELSE "inactive"
        BY <1>5 DEF New, Back, In
    <2>2. actual[o] # Absent
        BY <1>1, <1>3, <2>1, PresentIsThere
    <2>. QED BY <1>2, <1>4, <1>5, <2>1, <2>2 DEF Silent, DeriveSilent
<1>6. CASE o \in Gone(t) /\ n[2] = RemovalType
    <2>1. actual[o] = Absent /\ task[t].memory[o].state = "active" /\ o \in InScope(a)
        BY <1>1, <1>3, <1>6, GoneIsAbsent
    <2>. QED BY <1>2, <1>4, <1>6, <2>1 DEF Silent, DeriveSilent
<1>7. CASE o \in Different(t) /\ n[2] = "changed"
    <2>1. /\ o \in Present(t) /\ o \in InScope(a) /\ task[t].memory[o].state = "active"
          /\ task[t].memory[o].version # task[t].seen[o]
        BY <1>7 DEF Different, In
    <2>2. actual[o] # Absent /\ task[t].seen[o] = actual[o]
        BY <1>1, <1>3, <2>1, PresentIsThere
    <2>. QED BY <1>2, <1>4, <1>7, <2>1, <2>2 DEF Silent, CompareSilent
<1>8. CASE kind = "workload"
    <2>1. Derived(t) = (New(t) \cup Back(t)) \X {"added"} \cup Gone(t) \X {"removed"}
        BY <1>8 DEF Derived
    <2>2. n \in (New(t) \cup Back(t)) \X {"added"} \/ n \in Gone(t) \X {"removed"}
        BY <1>2, <2>1
    <2>. QED BY <1>5, <1>6, <1>8, <2>2 DEF RemovalType
<1>9. CASE kind = "config"
    <2>1. Derived(t) = (Gone(t) \cup Different(t)) \X {"changed"}
        BY <1>9 DEF Derived
    <2>2. n \in (Gone(t) \cup Different(t)) \X {"changed"}
        BY <1>2, <2>1
    <2>. QED BY <1>6, <1>7, <1>9, <2>2 DEF RemovalType
<1>10. CASE kind \in {"service", "policy"}
    <2>1. Derived(t) = New(t) \X {"added"} \cup Gone(t) \X {"removed"} \cup Different(t) \X {"changed"}
        BY <1>10 DEF Derived
    <2>2. n \in New(t) \X {"added"} \/ n \in Gone(t) \X {"removed"} \/ n \in Different(t) \X {"changed"}
        BY <1>2, <2>1
    <2>3. o \in New(t) => o \notin Back(t)
        BY DEF New, Back, In
    <2>. QED BY <1>5, <1>6, <1>7, <1>10, <2>2, <2>3 DEF RemovalType
<1>. QED BY <1>3, <1>8, <1>9, <1>10 DEF AllKinds

LEMMA ComparedMoved ==
    ASSUME Knowledge, NEW t \in Tasks, Compare(t), Working(t), NEW a, a = AnalysisOf(t),
           a \in Analyses \ excused, NewsAt(t), NEW n \in ComparedNews(t)
    PROVE  n[1] \in moved[a]
<1>. DEFINE o == n[1]
<1>1. CASE n \in task[t].news
    BY <1>1 DEF NewsAt
<1>2. CASE "changed" \in enabled /\ o \in Different(t)
    <2>1. SUFFICES ASSUME o \notin moved[a]  PROVE FALSE
        OBVIOUS
    <2>2. SeenAt(t, a) /\ task[t].pc = "compare"
        BY DEF Compare, Knowledge, LooksRight, SeenRight, Trusted
    <2>3. /\ o \in Present(t) /\ o \in InScope(a) /\ task[t].memory[o].state = "active"
          /\ task[t].memory[o].version # task[t].seen[o]
        BY <1>2 DEF Different, In
    <2>4. actual[o] # Absent /\ task[t].seen[o] = actual[o]
        BY <2>1, <2>2, <2>3, PresentIsThere
    <2>5. Silent(task[t].memory[o], actual[o])
        BY <2>1, <2>2, <2>3 DEF NewsAt, Unmoved
    <2>. QED BY <1>2, <2>3, <2>4, <2>5 DEF Silent, CompareSilent
<1>. QED BY <1>1, <1>2 DEF ComparedNews

\* Nothing that has not changed gets into the news of a trusted analysis.
LEMMA NewsMovedStep == Knowledge /\ NewsMoved /\ [Next]_vars => NewsMoved'
<1>. SUFFICES ASSUME Knowledge, NewsMoved, [Next]_vars, NEW t \in Tasks, Working(t)', NEW a \in Analyses,
                     a = AnalysisOf(t)', a \notin excused', ~FirstCycle(t)'
              PROVE  NewsAt(t)'
    BY DEF NewsMoved, Trusted
<1>1. LooksRight /\ TypeInv /\ Typed
    BY DEF Knowledge, LooksRight, TypeInv
<1>2. Goes(a) /\ a \notin excused /\ moved[a] \subseteq moved'[a]
    BY <1>1, NoStart, TrustedGoes DEF Goes
<1>3. CASE Began(t)
    <2>1. task'[t].news = {} /\ task'[t].pc = "fetch"
        BY <1>3 DEF Began, Begins, Fresh
    <2>. QED BY <2>1 DEF NewsAt
<1>4. CASE Same(t) \/ Works(t)
    <2>1. Working(t) /\ AnalysisOf(t) = a
        BY <1>1, <1>4, WasWorking
    <2>2. ~FirstCycle(t) /\ Learned(a) /\ NewsAt(t)
        BY <1>2, <2>1, NotFirst DEF NewsMoved, Trusted
    <2>3. ASSUME NEW n \in task[t].news  PROVE n[1] \in moved'[a]
        BY <1>2, <2>1, <2>2, <2>3 DEF NewsAt
    <2>4. ASSUME task'[t].memory = task[t].memory, task[t].pc \in {"derive", "compare"}, NEW o \in Unmoved(a)'
          PROVE  (Silent(task[t].memory[o], actual[o]))'
        <3>1. /\ o \in Unmoved(a) /\ actual'[o] = actual[o] /\ kind' = kind /\ enabled' = enabled
            BY <1>2, UnmovedStays
        <3>2. Silent(task[t].memory[o], actual[o])
            BY <2>1, <2>2, <2>4, <3>1 DEF NewsAt
        <3>. QED BY <2>4, <3>1, <3>2 DEF Silent, DeriveSilent, CompareSilent, RemovalType
    <2>5. CASE Same(t)
        <3>1. /\ task'[t].pc = task[t].pc /\ task'[t].memory = task[t].memory /\ task'[t].news = task[t].news
            BY <2>5 DEF Same
        <3>. QED BY <2>3, <2>4, <3>1 DEF NewsAt
    <2>6. ASSUME NEW call \in task[t].calls, Fetch(t, call)  PROVE NewsAt(t)'
        <3>1. task'[t].pc \in {"fetch", "read"} /\ task'[t].news = task[t].news
            BY <1>1, <2>6, FetchEffect
        <3>. QED BY <2>3, <3>1 DEF NewsAt
    <2>7. CASE Read(t)
        <3>1. /\ task'[t].news = task[t].news
              /\ task'[t].memory = row \/ task'[t].pc \in {"reread", "report"}
            BY <1>1, <2>7, ReadEffect DEF AfterDerive
        <3>2. ASSUME task'[t].memory = row, NEW o \in Unmoved(a)'
              PROVE  (Silent(task[t].memory[o], actual[o]))'
            <4>1. /\ o \in Unmoved(a) /\ actual'[o] = actual[o] /\ kind' = kind /\ enabled' = enabled
                BY <1>2, UnmovedStays
            <4>2. Silent(row[o], actual[o])
                BY <2>2, <4>1 DEF Learned
            <4>. QED BY <3>2, <4>1, <4>2 DEF Silent, DeriveSilent, CompareSilent, RemovalType
        <3>. QED BY <2>3, <3>1, <3>2 DEF NewsAt
    <2>8. CASE Derive(t)
        <3>1. task'[t].pc \in {"reread", "report"} /\ task'[t].news = DerivedNews(t)
            BY <1>1, <2>8, DeriveEffect DEF AfterDerive
        <3>2. \A n \in DerivedNews(t) : n[1] \in moved'[a]
            BY <1>2, <2>1, <2>2, <2>8, DerivedMoved
        <3>. QED BY <3>1, <3>2 DEF NewsAt
    <2>9. CASE Compare(t)
        <3>1. task'[t].pc = "report" /\ task'[t].news = ComparedNews(t)
            BY <1>1, <2>9, CompareEffect
        <3>2. \A n \in ComparedNews(t) : n[1] \in moved'[a]
            BY <1>2, <2>1, <2>2, <2>9, ComparedMoved
        <3>. QED BY <3>1, <3>2 DEF NewsAt
    <2>. QED BY <1>4, <2>5, <2>6, <2>7, <2>8, <2>9 DEF Works
<1>. QED BY <1>1, <1>3, <1>4, TaskSteps

\* The news invariant: what every task has seen, what the memory has learned of
\* every analysis whose first cycle is over, and what is about to be reported.
NewsInv ==
    /\ Knowledge
    /\ JobsCurrent
    /\ NewsMoved

LEMMA NewsStart == Init => NewsInv
<1>. SUFFICES ASSUME Init  PROVE NewsInv
    OBVIOUS
<1>1. TypeInv
    BY TypeStart
<1>2. \A t \in Tasks : ~Working(t) /\ task[t].listed = {} /\ task[t].job = {} /\ task[t].blind = {}
    <2>1. \A t \in Tasks : task[t] \in {Idle, [Idle EXCEPT !.pc = "off"]}
        BY DEF Init
    <2>. QED BY <2>1 DEF Working, Idle
<1>3. \A w \in Workers, a \in Analyses : baseline[w][a] = 0 /\ starts[a] \in Nat
    BY ConstantsAssumption DEF Init
<1>4. Evidence
    BY <1>2 DEF Evidence, EvidenceAt
<1>5. Crowded /\ SeenRight /\ BaselinesCurrent /\ Learning /\ NewsMoved /\ JobsCurrent
    BY <1>2 DEF Crowded, CrowdedAt, SeenRight, BaselinesCurrent, Learning, NewsMoved, JobsCurrent
<1>6. BaselinesOld /\ BaselineLearned
    BY <1>3 DEF BaselinesOld, BaselineLearned
<1>. QED BY <1>1, <1>4, <1>5, <1>6 DEF NewsInv, Knowledge, LooksRight

LEMMA NewsStep == NewsInv /\ [Next]_vars => NewsInv'
<1>. SUFFICES ASSUME NewsInv, [Next]_vars  PROVE NewsInv'
    OBVIOUS
<1>1. /\ TypeInv /\ Evidence /\ Crowded /\ SeenRight /\ BaselinesOld /\ BaselinesCurrent
      /\ JobsCurrent /\ Knowledge /\ NewsMoved
    BY DEF NewsInv, Knowledge, LooksRight
<1>2. TypeInv' /\ Evidence' /\ Crowded' /\ SeenRight'
    BY <1>1, TypeStep, EvidenceStep, CrowdedStep, SeenRightStep
<1>3. BaselinesOld' /\ BaselinesCurrent' /\ BaselineLearned' /\ JobsCurrent'
    BY <1>1, BaselinesOldStep, BaselinesCurrentStep, BaselineLearnedStep, JobsStep
<1>4. Learning' /\ NewsMoved'
    BY <1>1, LearningStep, NewsMovedStep
<1>. QED BY <1>2, <1>3, <1>4 DEF NewsInv, Knowledge, LooksRight

LEMMA OnlyPublishSends ==
    ASSUME [Next]_vars, sent' # sent
    PROVE  \E t \in Tasks : Publish(t)
BY StepKinds DEF vars, Outside, ChangeObject, StartAnalysis, StopAnalysis, Elect, LoopBegin, LoopEnd,
                 Crash, LoopNext, Trigger, Works, Fetch, Read, Derive, Compare, EndFirstCycle

\* NewsIsNew: for any number of analyses, workers and objects, what is published
\* for an analysis is about an object that changed after its last start, except
\* for an analysis that is excused.
THEOREM NewsAlways == Spec => NewsIsNew
<1>1. NewsInv /\ [Next]_vars => [\A e \in sent' \ sent : e[2] \in moved[e[1]] \/ e[1] \in excused]_vars
    <2>. SUFFICES ASSUME NewsInv, [Next]_vars, NEW e \in sent' \ sent
                  PROVE  e[2] \in moved[e[1]] \/ e[1] \in excused
        OBVIOUS
    <2>1. PICK t \in Tasks : Publish(t)
        BY OnlyPublishSends
    <2>. DEFINE a == AnalysisOf(t)
    <2>2. /\ ~FirstCycle(t) /\ task[t].pc = "report"
          /\ \E kept \in Kept(t) : \E out \in SUBSET kept :
                sent' = sent \cup {<<a, n[1], n[2]>> : n \in kept \ out}
        BY <2>1 DEF Publish
    <2>3. PICK n \in task[t].news : e = <<a, n[1], n[2]>>
        BY <2>2 DEF Kept
    <2>4. Working(t)
        BY <2>2 DEF Working, NewsInv, Knowledge, LooksRight, TypeInv, Typed, TypeOK, TaskOK
    <2>5. a \in Analyses
        BY <2>4, AnalysisTyped DEF NewsInv, Knowledge, LooksRight, TypeInv
    <2>6. a \in excused \/ n[1] \in moved[a]
        BY <2>2, <2>4, <2>5 DEF NewsInv, NewsMoved, NewsAt, Trusted
    <2>. QED BY <2>3, <2>6
<1>. QED BY <1>1, NewsStart, NewsStep, PTL DEF Spec, NewsIsNew
================================================================================
