-------------------------- MODULE WorkOrderService --------------------------
(***************************************************************************)
(* WorkOrderService.java as its threads run it: HTTP request threads that  *)
(* create, bill, ship and summarise orders, and the one scheduler thread   *)
(* on which Spring runs processPendingBilling, processPendingShipping and  *)
(* generateData.                                                           *)
(*                                                                         *)
(* The orders live in a ConcurrentHashMap.  computeIfPresent and put hold  *)
(* the lock of the key's bin; traversals take no lock, visit the bins in a *)
(* fixed order and see what each bin holds when they reach it.  Ids are    *)
(* therefore the numbers 1..N in bin order, each in a bin of its own (two  *)
(* ids in one bin would only exclude each other more).                     *)
(***************************************************************************)
EXTENDS Integers, FiniteSets

CONSTANTS
    N,             \* number of well-formed order ids that may ever be used
    Writers,       \* HTTP request threads that create, bill and ship orders
    Readers,       \* HTTP request threads that ask for the queue summary
    Scheduler,     \* the single thread of Spring's default task scheduler
    Free,          \* lock value: held by no thread
    Absent,        \* content of an id that holds no order
    BadId,         \* an id that fails the pattern ORD-[A-Z0-9]{4,16}
    Seed,          \* the map the constructor builds
    GeneratedIds,  \* ids createOrder may draw when the caller names none
    MaxRequests,   \* bound: HTTP requests served
    MaxGenerated   \* bound: runs of the data generator

Ids      == 1..N
Threads  == Writers \cup Readers \cup {Scheduler}
Stages   == {"PENDING", "BILLED", "SHIPPED"}
Statuses == Stages \cup {"OTHER"}   \* createOrder accepts any string
Slots    == Statuses \cup {Absent}

ASSUME CountsAssumption  == N \in Nat /\ MaxRequests \in Nat /\ MaxGenerated \in Nat
ASSUME ThreadsAssumption == /\ Scheduler \notin Writers \cup Readers
                             /\ Writers \cap Readers = {}
                             /\ Free \notin Threads
ASSUME AbsentAssumption  == Absent \notin Statuses
ASSUME BadIdAssumption   == BadId \notin Ids
ASSUME SeedAssumption    == Seed \in [Ids -> Slots] /\ GeneratedIds \subseteq Ids

VARIABLES
    orders,     \* the map: id -> status of the order under it, or Absent
    completed,  \* completedCount
    lock,       \* id -> the thread inside computeIfPresent for it, or Free
    pc,         \* thread -> where it is
    op,         \* thread -> "bill" or "ship", the operation it performs
    arg,        \* thread -> the id it performs it on
    cursor,     \* thread -> the bin its traversal reads next
    seen,       \* reader -> traversal of its summary -> the orders it matched
    counter,    \* reader -> the value of completedCount its summary read
    size,       \* reader -> TOTAL_COUNT of its summary
    requests,   \* HTTP requests so far
    generated,  \* generator runs so far
    due         \* history: reader -> the orders its summary must account for

pipeline == <<orders, completed>>
calls    == <<pc, op, arg, cursor, lock>>
summary  == <<seen, counter, size>>
bounds   == <<requests, generated>>
vars     == <<pipeline, calls, summary, bounds, due>>

(* The four traversals of getQueueSummary, named for what they count. *)
Passes      == Stages \cup {"REVENUE"}
Wanted(p)   == IF p = "REVENUE" THEN Statuses ELSE {p}
Operations  == {"bill", "ship"}
Moving      == {"idle", "enter", "set", "count"}
Summarising == {"idle", "counter", "size", "reply"} \cup Passes

(* Faulty: the stages counted against the direction orders move in. *)
StagesBackwards == [idle |-> "SHIPPED", SHIPPED |-> "BILLED", BILLED |-> "PENDING",
                    PENDING |-> "counter", counter |-> "REVENUE", REVENUE |-> "size"]

(* Faulty: the revenue summed before the stages are counted. *)
RevenueFirst == [idle |-> "REVENUE", REVENUE |-> "PENDING", PENDING |-> "BILLED",
                 BILLED |-> "SHIPPED", SHIPPED |-> "counter", counter |-> "size"]

(* The order of the steps of getQueueSummary.  It traverses the map stage  *)
(* by stage in the order in which an order moves.                          *)
After == [idle |-> "PENDING", PENDING |-> "BILLED", BILLED |-> "SHIPPED",
          SHIPPED |-> "counter", counter |-> "REVENUE", REVENUE |-> "size"]

(* billOrder takes PENDING to BILLED, shipOrder BILLED to SHIPPED. *)
From == [bill |-> "PENDING", ship |-> "BILLED"]
To   == [bill |-> "BILLED",  ship |-> "SHIPPED"]

ThreadsOK ==
    /\ pc \in [Threads -> Moving \cup Summarising \cup {"scan"}]
    /\ \A t \in Writers : pc[t] \in Moving
    /\ \A c \in Readers : pc[c] \in Summarising
    /\ pc[Scheduler] \in Moving \cup {"scan"}
    /\ op \in [Threads -> Operations]
    /\ arg \in [Threads -> Ids \cup {BadId}]
    /\ \A t \in Threads : pc[t] \in {"enter", "set", "count"} => arg[t] \in Ids

TypeOK ==
    /\ orders \in [Ids -> Slots]
    /\ completed \in Nat
    /\ lock \in [Ids -> Threads \cup {Free}]
    /\ ThreadsOK
    /\ cursor \in [Threads -> 1..(N + 1)]
    /\ seen \in [Readers -> [Passes -> SUBSET Ids]]
    /\ counter \in [Readers -> Nat]
    /\ size \in [Readers -> Nat]
    /\ requests \in 0..MaxRequests
    /\ generated \in 0..MaxGenerated
    /\ due \in [Readers -> SUBSET Ids]

NothingSeen == [p \in Passes |-> {}]

Init ==
    /\ orders = Seed
    /\ completed = 0
    /\ lock = [id \in Ids |-> Free]
    /\ pc = [t \in Threads |-> "idle"]
    /\ op = [t \in Threads |-> "bill"]
    /\ arg = [t \in Threads |-> BadId]
    /\ cursor = [t \in Threads |-> 1]
    /\ seen = [c \in Readers |-> NothingSeen]
    /\ counter = [c \in Readers |-> 0]
    /\ size = [c \in Readers |-> 0]
    /\ requests = 0
    /\ generated = 0
    /\ due = [c \in Readers |-> {}]

-----------------------------------------------------------------------------
(* billOrder and shipOrder, from whichever thread calls them. *)

Goto(t, l) == pc' = [pc EXCEPT ![t] = l]

(* The call returns, and with it go the thread's locals. *)
Return(t) == /\ Goto(t, "idle")
             /\ op' = [op EXCEPT ![t] = "bill"]
             /\ arg' = [arg EXCEPT ![t] = BadId]

(* Faulty: the transition decided without the lock. *)
EnterUnlocked(t) ==
    /\ pc[t] = "enter"
    /\ IF orders[arg[t]] = From[op[t]]
       THEN /\ lock' = [lock EXCEPT ![arg[t]] = t]
            /\ Goto(t, "set")
            /\ UNCHANGED <<op, arg>>
       ELSE /\ Return(t)
            /\ UNCHANGED lock
    /\ UNCHANGED <<pipeline, cursor, summary, bounds, due>>

(* computeIfPresent takes the lock and reads the order.  An order that is  *)
(* absent or not in the state the operation starts from is left alone and  *)
(* the lock released at once; nobody could observe it held.                *)
Enter(t) ==
    /\ pc[t] = "enter"
    /\ lock[arg[t]] = Free
    /\ IF orders[arg[t]] = From[op[t]]
       THEN /\ lock' = [lock EXCEPT ![arg[t]] = t]
            /\ Goto(t, "set")
            /\ UNCHANGED <<op, arg>>
       ELSE /\ Return(t)
            /\ UNCHANGED lock
    /\ UNCHANGED <<pipeline, cursor, summary, bounds, due>>

Unlock(t) == lock' = [lock EXCEPT ![arg[t]] = Free]

(* Faulty: the lock is kept after billing. *)
SetStatusLeaky(t) ==
    /\ pc[t] = "set"
    /\ orders' = [orders EXCEPT ![arg[t]] = To[op[t]]]
    /\ IF op[t] = "ship"
       THEN Goto(t, "count") /\ UNCHANGED <<op, arg>>
       ELSE Return(t)
    /\ UNCHANGED <<completed, lock, cursor, summary, bounds, due>>

(* The transition, visible to every traversal from here on.  Billing is    *)
(* over with it; shipping still has its shipment to count.                 *)
SetStatus(t) ==
    /\ pc[t] = "set"
    /\ orders' = [orders EXCEPT ![arg[t]] = To[op[t]]]
    /\ IF op[t] = "ship"
       THEN Goto(t, "count") /\ UNCHANGED <<op, arg, lock>>
       ELSE Return(t) /\ Unlock(t)
    /\ UNCHANGED <<completed, cursor, summary, bounds, due>>

(* completedCount.incrementAndGet(), still under the lock. *)
CountShipment(t) ==
    /\ pc[t] = "count"
    /\ completed' = completed + 1
    /\ Return(t)
    /\ Unlock(t)
    /\ UNCHANGED <<orders, cursor, summary, bounds, due>>

(* Faulty: put into a map that does not lock. *)
CreateOrderUnlocked(id, s) ==
    /\ orders' = [orders EXCEPT ![id] = s]
    /\ due' = [c \in Readers |-> due[c] \ {id}]
    /\ UNCHANGED <<completed, calls, summary>>

(* orders.put under the bin's lock: whatever the id held is replaced, by   *)
(* an order in whatever status the caller chose.                           *)
CreateOrder(id, s) ==
    /\ lock[id] = Free
    /\ orders' = [orders EXCEPT ![id] = s]
    /\ due' = [c \in Readers |-> due[c] \ {id}]
    /\ UNCHANGED <<completed, calls, summary>>

-----------------------------------------------------------------------------
(* HTTP requests. *)

NewRequest(c) == /\ pc[c] = "idle"
                 /\ requests < MaxRequests
                 /\ requests' = requests + 1
                 /\ UNCHANGED generated

(* Faulty: a blank status is stored as it came. *)
CreateRequestBlank(w) ==
    /\ NewRequest(w)
    /\ \E id \in Ids, s \in Statuses \cup {""} : CreateOrder(id, s)

(* POST /orders/create: a well-formed id of the caller's or one drawn for  *)
(* it; a blank status becomes PENDING.  A malformed id is answered with an *)
(* exception and changes nothing.                                          *)
CreateRequest(w) ==
    /\ NewRequest(w)
    /\ \/ \E id \in Ids, s \in Statuses : CreateOrder(id, s)
       \/ UNCHANGED <<pipeline, calls, summary, due>>

(* POST /orders/billing/{id}/bill and /orders/shipping/{id}/ship.  A       *)
(* malformed id returns before the map is touched.                         *)
MoveRequest(w) ==
    /\ NewRequest(w)
    /\ \/ \E o \in Operations, id \in Ids :
            /\ op' = [op EXCEPT ![w] = o]
            /\ arg' = [arg EXCEPT ![w] = id]
            /\ Goto(w, "enter")
       \/ UNCHANGED <<op, arg, pc>>
    /\ UNCHANGED <<pipeline, lock, cursor, summary, due>>

(* GET /orders/summary: getQueueSummary begins. *)
SummaryRequest(c) ==
    /\ NewRequest(c)
    /\ Goto(c, After["idle"])
    /\ due' = [due EXCEPT ![c] = {id \in Ids : orders[id] \in Stages}]
    /\ UNCHANGED <<pipeline, lock, op, arg, cursor, summary>>

(* One traversal reads one bin; past the last bin the next step begins. *)
Visit(c, p) ==
    /\ pc[c] = p
    /\ cursor[c] <= N
    /\ seen' = IF orders[cursor[c]] \in Wanted(p)
               THEN [seen EXCEPT ![c][p] = @ \cup {cursor[c]}]
               ELSE seen
    /\ cursor' = [cursor EXCEPT ![c] = @ + 1]
    /\ UNCHANGED <<pipeline, lock, pc, op, arg, counter, size, bounds, due>>

EndPass(c, p) ==
    /\ pc[c] = p
    /\ cursor[c] = N + 1
    /\ Goto(c, After[p])
    /\ cursor' = [cursor EXCEPT ![c] = 1]
    /\ UNCHANGED <<pipeline, lock, op, arg, summary, bounds, due>>

(* completedCount.get(), the second operand of the SHIPPED sum. *)
ReadCounter(c) ==
    /\ pc[c] = "counter"
    /\ counter' = [counter EXCEPT ![c] = completed]
    /\ Goto(c, After["counter"])
    /\ UNCHANGED <<pipeline, lock, op, arg, cursor, seen, size, bounds, due>>

Present == {id \in Ids : orders[id] # Absent}

(* orders.size() for TOTAL_COUNT. *)
ReadSize(c) ==
    /\ pc[c] = "size"
    /\ size' = [size EXCEPT ![c] = Cardinality(Present)]
    /\ Goto(c, "reply")
    /\ UNCHANGED <<pipeline, lock, op, arg, cursor, seen, counter, bounds, due>>

(* The counts it answers with.  The shipments counted are added to the     *)
(* orders found SHIPPED, although they are the same ones.                  *)
QueueSummary(c) ==
    [PENDING     |-> Cardinality(seen[c]["PENDING"]),
     BILLED      |-> Cardinality(seen[c]["BILLED"]),
     SHIPPED     |-> Cardinality(seen[c]["SHIPPED"]) + counter[c],
     TOTAL_COUNT |-> size[c]]

(* It returns, and what it has read is gone. *)
Reply(c) ==
    /\ pc[c] = "reply"
    /\ Goto(c, "idle")
    /\ seen' = [seen EXCEPT ![c] = NothingSeen]
    /\ counter' = [counter EXCEPT ![c] = 0]
    /\ size' = [size EXCEPT ![c] = 0]
    /\ due' = [due EXCEPT ![c] = {}]
    /\ UNCHANGED <<pipeline, lock, op, arg, cursor, bounds>>

-----------------------------------------------------------------------------
(* The scheduler thread. *)

(* processPendingBilling (o = "bill") and processPendingShipping ("ship"). *)
StartTask(o) ==
    /\ pc[Scheduler] = "idle"
    /\ op' = [op EXCEPT ![Scheduler] = o]
    /\ Goto(Scheduler, "scan")
    /\ UNCHANGED <<pipeline, lock, arg, cursor, summary, bounds, due>>

(* The listing is a traversal of which only the first match is used: the   *)
(* task bills or ships that order, whatever has become of it since.        *)
Scan ==
    /\ pc[Scheduler] = "scan"
    /\ LET k == cursor[Scheduler]
       IN  \/ /\ k <= N
              /\ orders[k] = From[op[Scheduler]]
              /\ arg' = [arg EXCEPT ![Scheduler] = k]
              /\ cursor' = [cursor EXCEPT ![Scheduler] = 1]
              /\ Goto(Scheduler, "enter")
              /\ UNCHANGED op
           \/ /\ k <= N
              /\ orders[k] # From[op[Scheduler]]
              /\ cursor' = [cursor EXCEPT ![Scheduler] = k + 1]
              /\ UNCHANGED <<pc, op, arg>>
           \/ /\ k = N + 1
              /\ cursor' = [cursor EXCEPT ![Scheduler] = 1]
              /\ Return(Scheduler)
    /\ UNCHANGED <<pipeline, lock, summary, bounds, due>>

(* generateData creates a PENDING order under a drawn id, unless the       *)
(* refresh it sends first throws and ends the run.  A drawn id is eight    *)
(* hex digits of a UUID: it may be one already in use.                     *)
GenerateData ==
    /\ pc[Scheduler] = "idle"
    /\ generated < MaxGenerated
    /\ generated' = generated + 1
    /\ UNCHANGED requests
    /\ \/ \E id \in GeneratedIds : CreateOrder(id, "PENDING")
       \/ UNCHANGED <<pipeline, calls, summary, due>>

-----------------------------------------------------------------------------
Move(t) == Enter(t) \/ SetStatus(t) \/ CountShipment(t)

Summarise(c) == \/ \E p \in Passes : Visit(c, p) \/ EndPass(c, p)
                \/ ReadCounter(c)
                \/ ReadSize(c)
                \/ Reply(c)

Next == \/ \E w \in Writers : CreateRequest(w) \/ MoveRequest(w)
        \/ \E c \in Readers : SummaryRequest(c) \/ Summarise(c)
        \/ \E t \in Threads : Move(t)
        \/ \E o \in Operations : StartTask(o)
        \/ Scan
        \/ GenerateData

Spec == Init /\ [][Next]_vars

(* A running thread keeps running.  The scheduler queues its tasks by due  *)
(* time and puts a fixed-rate task behind the others when it has run, so a *)
(* task that keeps coming due is not passed over forever.  Nothing is      *)
(* assumed of requests or of the generator.                                *)
Fairness == /\ \A t \in Threads : WF_vars(Move(t))
            /\ \A c \in Readers : WF_vars(Summarise(c))
            /\ WF_vars(Scan)
            /\ \A o \in Operations : SF_vars(StartTask(o))

FairSpec == Spec /\ Fairness

-----------------------------------------------------------------------------
(* A transition takes effect when it is complete: until the shipment is    *)
(* counted the order still stands where the thread found it.               *)
Counting(id) == \E t \in Threads : pc[t] = "count" /\ arg[t] = id

Settled == [id \in Ids |-> IF Counting(id) THEN "BILLED" ELSE orders[id]]

Pipeline == INSTANCE OrderPipeline WITH orders <- Settled

(* However requests and scheduled tasks interleave, the service is the     *)
(* atomic pipeline: an order is billed only from PENDING, shipped only     *)
(* from BILLED, each shipment is counted exactly once, and no creation is  *)
(* lost under a transition in progress.                                    *)
ImplementsPipeline == Pipeline!Spec

(* The bin lock serialises the transitions of an order: the threads that   *)
(* have decided on one and not finished it hold the order's lock, one each,*)
(* and the order is still where the thread left it.                        *)
TransitionsExclusive ==
    /\ \A t \in Threads :
         pc[t] \in {"set", "count"} =>
            /\ arg[t] \in Ids
            /\ lock[arg[t]] = t
            /\ orders[arg[t]] = IF pc[t] = "set" THEN From[op[t]] ELSE To["ship"]
    /\ \A id \in Ids : lock[id] # Free =>
         pc[lock[id]] \in {"set", "count"} /\ arg[lock[id]] = id

(* The counts of a queue summary come from three separate traversals while *)
(* orders move.  None is missed: every order that was in the pipeline when *)
(* the summary began and was not replaced since is counted in some stage.  *)
Accounted(c) == UNION {seen[c][s] : s \in Stages}

SummaryMissesNoOrder ==
    \A c \in Readers : pc[c] = "reply" => due[c] \subseteq Accounted(c)

(* The totals of a summary are taken after the stages were counted, and    *)
(* cover them: every order counted in a stage is in the revenue, and       *)
(* TOTAL_COUNT is at least the number of orders the revenue was summed     *)
(* over, or any stage counted.  Only the number given as SHIPPED can       *)
(* exceed TOTAL_COUNT, by no more than the shipments counted so far.       *)
TotalsCoverStages ==
    \A c \in Readers : pc[c] = "reply" =>
        LET answer == QueueSummary(c)
        IN  /\ Accounted(c) \subseteq seen[c]["REVENUE"]
            /\ Cardinality(seen[c]["REVENUE"]) <= answer["TOTAL_COUNT"]
            /\ answer["PENDING"] <= answer["TOTAL_COUNT"]
            /\ answer["BILLED"] <= answer["TOTAL_COUNT"]
            /\ answer["SHIPPED"] <= answer["TOTAL_COUNT"] + completed

(* Once nobody creates orders any more the automated tasks empty the       *)
(* queue: an order waiting to be billed or shipped is shipped in the end   *)
(* (or replaced by an order in a status outside the pipeline), although    *)
(* each run handles one order and requests may beat it to any of them.     *)
QueueDrains ==
    \A id \in Ids : orders[id] \in {"PENDING", "BILLED"}
                        ~> orders[id] \in {"SHIPPED", "OTHER"}
=============================================================================
