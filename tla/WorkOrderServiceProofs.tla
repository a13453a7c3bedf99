----------------------- MODULE WorkOrderServiceProofs -----------------------
(***************************************************************************)
(* Theorems about WorkOrderService for any number of orders, threads,      *)
(* requests and generator runs.                                            *)
(***************************************************************************)
EXTENDS WorkOrderService, FiniteSetTheorems, TLAPS

USE DEF Threads

(* The statuses billing and shipping require and set. *)
LEMMA OperationTables ==
    /\ \A o \in Operations : From[o] \in Stages /\ To[o] \in Stages
    /\ From["bill"] = "PENDING" /\ To["bill"] = "BILLED"
    /\ From["ship"] = "BILLED"  /\ To["ship"] = "SHIPPED"
BY DEF From, To, Operations, Stages

(* The order in which a queue summary makes its reads. *)
LEMMA AfterTable ==
    /\ After["idle"] = "PENDING" 
    /\ After["PENDING"] = "BILLED"
    /\ After["BILLED"] = "SHIPPED"
    /\ After["SHIPPED"] = "counter" 
    /\ After["counter"] = "REVENUE" 
    /\ After["REVENUE"] = "size"
BY DEF After

(* The place of each status in an order's progress. *)
Rank == [PENDING |-> 1, BILLED |-> 2, SHIPPED |-> 3]

(* The same as facts. *)
LEMMA RankTable ==
    /\ Rank["PENDING"] = 1 
    /\ Rank["BILLED"] = 2
    /\ Rank["SHIPPED"] = 3
BY DEF Rank

(* A thread that returns from a transition is well typed. *)
LEMMA ReturnTyped ==
    ASSUME ThreadsOK, NEW t \in Writers \cup {Scheduler}, Return(t)
    PROVE  ThreadsOK'
<1> USE ThreadsAssumption, BadIdAssumption
<1>1. pc' = [pc EXCEPT ![t] = "idle"]
  BY DEF Return, Goto
<1>2. pc' \in [Threads -> Moving \cup Summarising \cup {"scan"}]
  BY <1>1 DEF ThreadsOK, Moving
<1>3. /\ \A w \in Writers : pc'[w] \in Moving
      /\ \A c \in Readers : pc'[c] \in Summarising
      /\ pc'[Scheduler] \in Moving \cup {"scan"}
  BY <1>1 DEF ThreadsOK, Moving
<1>4. op' \in [Threads -> Operations] /\ arg' \in [Threads -> Ids \cup {BadId}]
  BY DEF Return, ThreadsOK, Operations
<1>5. \A u \in Threads : pc'[u] \in {"enter", "set", "count"} => arg'[u] \in Ids
  BY <1>1 DEF Return, ThreadsOK
<1> QED
  BY <1>2, <1>3, <1>4, <1>5 DEF ThreadsOK

(* A thread that goes on within a transition of its order is well typed. *)
LEMMA GotoTyped ==
    ASSUME ThreadsOK, NEW t \in Writers \cup {Scheduler}, NEW l \in Moving,
           Goto(t, l), arg[t] \in Ids, UNCHANGED <<op, arg>>
    PROVE  ThreadsOK'
BY ThreadsAssumption DEF ThreadsOK, Goto

(* Every reachable state is well typed; in particular a thread that is in  *)
(* a transition of the map works on the id of an order.                    *)
THEOREM TypeCorrect == Spec => []TypeOK
<1> USE CountsAssumption, ThreadsAssumption, BadIdAssumption, SeedAssumption
<1>1. Init => TypeOK
  BY DEF Init, TypeOK, ThreadsOK, Ids, Moving, Summarising, Passes, NothingSeen, Operations
<1>2. TypeOK /\ [Next]_vars => TypeOK'
  <2> SUFFICES ASSUME TypeOK, [Next]_vars PROVE TypeOK'
    OBVIOUS
  <2>1. ASSUME NEW id \in Ids, NEW s \in Statuses, CreateOrder(id, s),
               requests' \in 0..MaxRequests, generated' \in 0..MaxGenerated
        PROVE  TypeOK'
    BY <2>1 DEF TypeOK, ThreadsOK, CreateOrder, calls, summary, Slots
  <2>2. ASSUME NEW w \in Writers, CreateRequest(w) PROVE TypeOK'
    <3>1. requests' \in 0..MaxRequests /\ generated' \in 0..MaxGenerated
      BY <2>2 DEF CreateRequest, NewRequest, TypeOK, ThreadsOK
    <3>2. CASE \E id \in Ids, s \in Statuses : CreateOrder(id, s)
      BY <2>1, <3>1, <3>2
    <3>3. CASE UNCHANGED <<pipeline, calls, summary, due>>
      BY <3>1, <3>3 DEF TypeOK, ThreadsOK, pipeline, calls, summary
    <3> QED
      BY <2>2, <3>2, <3>3 DEF CreateRequest
  <2>3. ASSUME NEW w \in Writers, MoveRequest(w) PROVE TypeOK'
    <3>1. requests' \in 0..MaxRequests /\ generated' \in 0..MaxGenerated
      BY <2>3 DEF MoveRequest, NewRequest, TypeOK, ThreadsOK
    <3>2. CASE \E o \in Operations, id \in Ids :
                  /\ op' = [op EXCEPT ![w] = o]
                  /\ arg' = [arg EXCEPT ![w] = id]
                  /\ Goto(w, "enter")
      BY <2>3, <3>1, <3>2 DEF TypeOK, ThreadsOK, MoveRequest, Goto, pipeline, summary, Moving
    <3>3. CASE UNCHANGED <<op, arg, pc>>
      BY <2>3, <3>1, <3>3 DEF TypeOK, ThreadsOK, MoveRequest, pipeline, summary
    <3> QED
      BY <2>3, <3>2, <3>3 DEF MoveRequest
  <2>4. ASSUME NEW c \in Readers, SummaryRequest(c) PROVE TypeOK'
    BY <2>4, AfterTable DEF TypeOK, ThreadsOK, SummaryRequest, NewRequest, Goto, pipeline, summary, Summarising, Passes, Stages
  <2>5. ASSUME NEW c \in Readers, NEW p \in Passes, Visit(c, p) PROVE TypeOK'
    <3>1. cursor[c] \in Ids /\ cursor'[c] \in 1..(N + 1)
      BY <2>5 DEF Visit, TypeOK, ThreadsOK, Ids
    <3>2. cursor' \in [Threads -> 1..(N + 1)]
      BY <2>5, <3>1 DEF Visit, TypeOK, ThreadsOK
    <3>3. seen' \in [Readers -> [Passes -> SUBSET Ids]]
      BY <2>5, <3>1 DEF Visit, TypeOK, ThreadsOK
    <3> QED
      BY <2>5, <3>2, <3>3 DEF Visit, TypeOK, ThreadsOK, pipeline, bounds
  <2>6. ASSUME NEW c \in Readers, NEW p \in Passes, EndPass(c, p) PROVE TypeOK'
    <3>1. After[p] \in Summarising /\ After[p] \notin {"enter", "set", "count"}
      BY AfterTable DEF Passes, Stages, Summarising
    <3> QED
      BY <2>6, <3>1 DEF EndPass, TypeOK, ThreadsOK, Goto, pipeline, summary, bounds
  <2>7. ASSUME NEW c \in Readers, ReadCounter(c) PROVE TypeOK'
    BY <2>7, AfterTable DEF ReadCounter, TypeOK, ThreadsOK, Goto, pipeline, bounds, Summarising, Passes
  <2>8. ASSUME NEW c \in Readers, ReadSize(c) PROVE TypeOK'
    <3>1. Cardinality(Present) \in Nat
      <4>1. IsFiniteSet(1..N)
        BY FS_Interval
      <4>2. IsFiniteSet(Present)
        BY <4>1, FS_Subset DEF Present, Ids
      <4> QED
        BY <4>2, FS_CardinalityType
    <3> QED
      BY <2>8, <3>1 DEF ReadSize, TypeOK, ThreadsOK, Goto, pipeline, bounds, Summarising
  <2>9. ASSUME NEW c \in Readers, Reply(c) PROVE TypeOK'
    BY <2>9 DEF Reply, TypeOK, ThreadsOK, Goto, pipeline, bounds, Summarising, NothingSeen
  <2>10. ASSUME NEW t \in Threads, Enter(t) PROVE TypeOK'
    <3>1. t \in Writers \cup {Scheduler}
      BY <2>10 DEF Enter, TypeOK, ThreadsOK, Summarising, Passes, Stages
    <3>2. ThreadsOK'
      <4>1. arg[t] \in Ids
        BY <2>10 DEF Enter, TypeOK, ThreadsOK
      <4> QED
        BY <2>10, <3>1, <4>1, ReturnTyped, GotoTyped DEF Enter, TypeOK, Moving
    <3>3. lock' \in [Ids -> Threads \cup {Free}]
      BY <2>10 DEF Enter, TypeOK
    <3> QED
      BY <2>10, <3>2, <3>3 DEF Enter, TypeOK, pipeline, summary, bounds
  <2>11. ASSUME NEW t \in Threads, SetStatus(t) PROVE TypeOK'
    <3>1. t \in Writers \cup {Scheduler}
      BY <2>11 DEF SetStatus, TypeOK, ThreadsOK, Summarising, Passes, Stages
    <3>2. orders' \in [Ids -> Slots]
      BY <2>11, OperationTables DEF SetStatus, TypeOK, ThreadsOK, Slots, Statuses
    <3>3. lock' \in [Ids -> Threads \cup {Free}]
      BY <2>11 DEF SetStatus, Unlock, TypeOK, ThreadsOK
    <3>4. ThreadsOK'
      <4>1. arg[t] \in Ids
        BY <2>11 DEF SetStatus, TypeOK, ThreadsOK
      <4> QED
        BY <2>11, <3>1, <4>1, ReturnTyped, GotoTyped DEF SetStatus, TypeOK, Moving
    <3> QED
      BY <2>11, <3>2, <3>3, <3>4 DEF SetStatus, TypeOK, summary, bounds
  <2>12. ASSUME NEW t \in Threads, CountShipment(t) PROVE TypeOK'
    <3>1. t \in Writers \cup {Scheduler}
      BY <2>12 DEF CountShipment, TypeOK, ThreadsOK, Summarising, Passes, Stages
    <3>2. ThreadsOK'
      BY <2>12, <3>1, ReturnTyped DEF CountShipment, TypeOK
    <3>3. lock' \in [Ids -> Threads \cup {Free}]
      BY <2>12 DEF CountShipment, Unlock, TypeOK
    <3>4. completed' \in Nat
      BY <2>12 DEF CountShipment, TypeOK
    <3> QED
      BY <2>12, <3>2, <3>3, <3>4 DEF CountShipment, TypeOK, summary, bounds
  <2>13. ASSUME NEW o \in Operations, StartTask(o) PROVE TypeOK'
    BY <2>13 DEF StartTask, TypeOK, ThreadsOK, Goto, pipeline, summary, bounds, Moving
  <2>14. ASSUME Scan PROVE TypeOK'
    <3>1. cursor' \in [Threads -> 1..(N + 1)]
      <4>1. cursor \in [Threads -> 1..(N + 1)]
        BY DEF TypeOK
      <4>2. PICK k \in 1..(N + 1) : cursor' = [cursor EXCEPT ![Scheduler] = k]
        BY <2>14, <4>1 DEF Scan
      <4> QED
        BY <4>1, <4>2
    <3>2. ThreadsOK'
      <4>1. CASE UNCHANGED <<pc, op, arg>>
        BY <4>1 DEF TypeOK, ThreadsOK
      <4>2. CASE Return(Scheduler)
        BY <4>2, ReturnTyped DEF TypeOK
      <4>3. ASSUME NEW k \in Ids, arg' = [arg EXCEPT ![Scheduler] = k],
                   Goto(Scheduler, "enter"), UNCHANGED op
            PROVE  ThreadsOK'
        BY <4>3 DEF TypeOK, ThreadsOK, Goto, Moving
      <4>4. cursor[Scheduler] \in 1..(N + 1)
        BY DEF TypeOK
      <4> QED
        BY <2>14, <4>1, <4>2, <4>3, <4>4 DEF Scan, Ids
    <3> QED
      BY <2>14, <3>1, <3>2 DEF Scan, TypeOK, pipeline, summary, bounds
  <2>15. ASSUME GenerateData PROVE TypeOK'
    <3>1. requests' \in 0..MaxRequests /\ generated' \in 0..MaxGenerated
      BY <2>15 DEF GenerateData, TypeOK, ThreadsOK
    <3>2. CASE \E id \in GeneratedIds : CreateOrder(id, "PENDING")
      BY <2>1, <3>1, <3>2 DEF Statuses, Stages
    <3>3. CASE UNCHANGED <<pipeline, calls, summary, due>>
      BY <3>1, <3>3 DEF TypeOK, ThreadsOK, pipeline, calls, summary
    <3> QED
      BY <2>15, <3>2, <3>3 DEF GenerateData
  <2>16. CASE UNCHANGED vars
    BY <2>16 DEF TypeOK, ThreadsOK, vars, pipeline, calls, summary, bounds
  <2> QED
    BY <2>2, <2>3, <2>4, <2>5, <2>6, <2>7, <2>8, <2>9, <2>10, <2>11, <2>12, <2>13, <2>14, <2>15, <2>16
       DEF Next, Summarise, Move
<1> QED
  BY <1>1, <1>2, PTL DEF Spec

-----------------------------------------------------------------------------
(* computeIfPresent's lock serialises the transitions of each order, for   *)
(* any number of threads: TransitionsExclusive is inductive over TypeOK.   *)
THEOREM Exclusive == Spec => []TransitionsExclusive
<1> USE ThreadsAssumption, BadIdAssumption
<1>1. Init => TransitionsExclusive
  BY DEF Init, TransitionsExclusive
<1>2. TypeOK /\ TransitionsExclusive /\ [Next]_vars => TransitionsExclusive'
  <2> SUFFICES ASSUME TypeOK, TransitionsExclusive, [Next]_vars
               PROVE  TransitionsExclusive'
    OBVIOUS
  <2>1. ASSUME NEW id \in Ids, NEW s \in Statuses, CreateOrder(id, s)
        PROVE  TransitionsExclusive'
    BY <2>1 DEF CreateOrder, TransitionsExclusive, TypeOK, calls
  <2>2. ASSUME UNCHANGED <<pipeline, calls>> PROVE TransitionsExclusive'
    BY <2>2 DEF TransitionsExclusive, pipeline, calls
  <2>3. ASSUME NEW t \in Threads, pc[t] \notin {"set", "count"},
               pc' = [pc EXCEPT ![t] = pc'[t]], pc'[t] \notin {"set", "count"},
               \A u \in Threads \ {t} : arg'[u] = arg[u] /\ op'[u] = op[u],
               UNCHANGED <<orders, lock>>
        PROVE  TransitionsExclusive'
    BY <2>3 DEF TransitionsExclusive, TypeOK, ThreadsOK
  <2>4. ASSUME NEW w \in Writers, CreateRequest(w) PROVE TransitionsExclusive'
    BY <2>1, <2>2, <2>4 DEF CreateRequest
  <2>5. ASSUME NEW w \in Writers, MoveRequest(w) PROVE TransitionsExclusive'
    BY <2>2, <2>3, <2>5 DEF MoveRequest, NewRequest, Goto, pipeline, calls, TypeOK, ThreadsOK
  <2>6. ASSUME NEW c \in Readers,
               SummaryRequest(c) \/ Summarise(c)
        PROVE  TransitionsExclusive'
    <3>1. pc[c] \notin {"set", "count"} 
      BY DEF TypeOK, ThreadsOK, Summarising, Passes, Stages
    <3>2. UNCHANGED <<orders, lock, op, arg>>
      BY <2>6 DEF SummaryRequest, Summarise, Visit, EndPass, ReadCounter, ReadSize, Reply, pipeline
    <3>3. /\ pc' = [pc EXCEPT ![c] = pc'[c]]
          /\ pc'[c] \notin {"set", "count"}
      BY <2>6, <3>1, AfterTable
         DEF SummaryRequest, Summarise, Visit, EndPass, ReadCounter, ReadSize, Reply,
             Goto, TypeOK, ThreadsOK, Passes, Stages
    <3> QED
      BY <2>3, <3>1, <3>2, <3>3
  <2>7. ASSUME NEW t \in Threads, Enter(t) PROVE TransitionsExclusive'
    <3>1. CASE orders[arg[t]] = From[op[t]]
      <4>1. arg[t] \in Ids
        BY <2>7 DEF Enter, TypeOK, ThreadsOK
      <4>2. /\ lock[arg[t]] = Free
            /\ lock'[arg[t]] = t
            /\ \A id \in Ids \ {arg[t]} : lock'[id] = lock[id]
            /\ pc[t] = "enter"
            /\ pc'[t] = "set"
            /\ \A u \in Threads \ {t} : pc'[u] = pc[u]
            /\ orders[arg[t]] = From[op[t]]
            /\ UNCHANGED <<op, arg, orders>>
        BY <2>7, <3>1, <4>1 DEF Enter, Goto, TypeOK, ThreadsOK, pipeline
      <4>3. \A id \in Ids : lock[id] \in Threads \cup {Free}
        BY DEF TypeOK
      <4> QED
        BY <4>1, <4>2, <4>3 DEF TransitionsExclusive
    <3>2. CASE orders[arg[t]] # From[op[t]]
      BY <2>3, <2>7, <3>2, ZenonT(60) DEF Enter, Return, Goto, TypeOK, ThreadsOK, pipeline
    <3> QED
      BY <3>1, <3>2
  <2>8. ASSUME NEW t \in Threads, SetStatus(t) PROVE TransitionsExclusive'
    <3>1. arg[t] \in Ids /\ lock[arg[t]] = t
      BY <2>8 DEF SetStatus, TransitionsExclusive
    <3>2. CASE op[t] = "ship"
      BY <2>8, <3>1, <3>2 DEF SetStatus, Goto, TransitionsExclusive, TypeOK, ThreadsOK
    <3>3. CASE op[t] # "ship"
      <4>1. /\ pc' = [pc EXCEPT ![t] = "idle"]
            /\ lock' = [lock EXCEPT ![arg[t]] = Free]
            /\ \A u \in Threads \ {t} : arg'[u] = arg[u] /\ op'[u] = op[u]
            /\ \A id \in Ids \ {arg[t]} : orders'[id] = orders[id]
        BY <2>8, <3>3 DEF SetStatus, Goto, Return, Unlock, TypeOK, ThreadsOK
      <4> QED
        BY <3>1, <4>1 DEF TransitionsExclusive, TypeOK, ThreadsOK
    <3> QED
      BY <3>2, <3>3
  <2>9. ASSUME NEW t \in Threads, CountShipment(t) PROVE TransitionsExclusive'
    <3>1. arg[t] \in Ids /\ lock[arg[t]] = t
      BY <2>9 DEF CountShipment, TransitionsExclusive
    <3>2. /\ pc' = [pc EXCEPT ![t] = "idle"]
          /\ lock' = [lock EXCEPT ![arg[t]] = Free]
          /\ \A u \in Threads \ {t} : arg'[u] = arg[u] /\ op'[u] = op[u]
          /\ UNCHANGED orders
      BY <2>9 DEF CountShipment, Goto, Return, Unlock, TypeOK, ThreadsOK
    <3> QED
      BY <3>1, <3>2 DEF TransitionsExclusive, TypeOK, ThreadsOK
  <2>10. ASSUME NEW o \in Operations, StartTask(o) PROVE TransitionsExclusive'
    BY <2>3, <2>10 DEF StartTask, Goto, TypeOK, ThreadsOK, pipeline
  <2>11. ASSUME Scan PROVE TransitionsExclusive'
    <3>1. pc[Scheduler] = "scan" /\ UNCHANGED <<orders, lock>>
      BY <2>11 DEF Scan, pipeline
    <3>2. /\ pc' = [pc EXCEPT ![Scheduler] = pc'[Scheduler]]
          /\ pc'[Scheduler] \notin {"set", "count"}
          /\ \A u \in Threads \ {Scheduler} : arg'[u] = arg[u] /\ op'[u] = op[u]
      BY <2>11 DEF Scan, Goto, Return, TypeOK, ThreadsOK
    <3> QED
      BY <2>3, <3>1, <3>2
  <2>12. ASSUME GenerateData PROVE TransitionsExclusive'
    BY <2>1, <2>2, <2>12, SeedAssumption DEF GenerateData, Statuses, Stages
  <2>13. CASE UNCHANGED vars
    BY <2>2, <2>13 DEF vars
  <2> QED
    BY <2>4, <2>5, <2>6, <2>7, <2>8, <2>9, <2>10, <2>11, <2>12, <2>13
       DEF Next, Move
<1> QED
  BY <1>1, <1>2, TypeCorrect, PTL DEF Spec

-----------------------------------------------------------------------------
(* Why a summary misses no order.  An order can escape a traversal only by *)
(* having moved past the stage that is being counted: after the traversals *)
(* have read its bin Passed times, an order not yet counted is in a stage  *)
(* beyond the Passed-th.  Transitions only increase its rank, and there is *)
(* no stage beyond the third.                                              *)
Passed(c, id) == IF pc[c] \in Stages
                 THEN IF id < cursor[c] THEN Rank[pc[c]] ELSE Rank[pc[c]] - 1
                 ELSE 3

Uncounted == \A c \in Readers : pc[c] # "idle" =>
                \A id \in due[c] :
                   /\ orders[id] \in Stages
                   /\ id \in Accounted(c) \/ Rank[orders[id]] > Passed(c, id)

CursorsReset == \A c \in Readers : pc[c] \notin Passes => cursor[c] = 1

(* Why the totals cover the stages: orders are never removed, so what a    *)
(* traversal has counted is still there when the later ones and size()     *)
(* reach it.                                                               *)
CountedPresent == \A c \in Readers, p \in Passes : seen[c][p] \subseteq Present

RevenueCovers ==
    \A c \in Readers :
       /\ pc[c] = "idle" => seen[c] = NothingSeen
       /\ pc[c] = "REVENUE" =>
            \A id \in Accounted(c) : id < cursor[c] => id \in seen[c]["REVENUE"]
       /\ pc[c] \in {"size", "reply"} => Accounted(c) \subseteq seen[c]["REVENUE"]
       /\ pc[c] = "reply" => Cardinality(seen[c]["REVENUE"]) <= size[c]

SummaryInv == CursorsReset /\ Uncounted /\ CountedPresent /\ RevenueCovers

(* An order is accounted for when one of the three stages has counted it. *)
LEMMA AccountedByStage ==
    ASSUME NEW c \in Readers, NEW id
    PROVE  /\ id \in Accounted(c) <=> \/ id \in seen[c]["PENDING"]
                                     \/ id \in seen[c]["BILLED"]
                                     \/ id \in seen[c]["SHIPPED"]
           /\ id \in Accounted(c)' <=> \/ id \in seen'[c]["PENDING"]
                                      \/ id \in seen'[c]["BILLED"]
                                      \/ id \in seen'[c]["SHIPPED"]
BY DEF Accounted, Stages

(* A step that leaves the orders and the summaries alone. *)
LEMMA SummaryInvQuiet ==
    ASSUME SummaryInv, UNCHANGED <<orders, seen, size, due>>,
           \A c \in Readers : pc'[c] = pc[c] /\ cursor'[c] = cursor[c]
    PROVE  SummaryInv'
<1>1. CursorsReset'
  BY DEF SummaryInv, CursorsReset
<1>2. Uncounted'
  BY AccountedByStage DEF SummaryInv, Uncounted, Passed
<1>3. CountedPresent'
  BY DEF SummaryInv, CountedPresent, Present
<1>4. RevenueCovers'
  BY AccountedByStage DEF SummaryInv, RevenueCovers
<1> QED
  BY <1>1, <1>2, <1>3, <1>4 DEF SummaryInv

(* createOrder: the order replaced is due in no summary any more. *)
LEMMA SummaryInvCreate ==
    ASSUME TypeOK, SummaryInv, NEW id \in Ids, NEW s \in Statuses, CreateOrder(id, s)
    PROVE  SummaryInv'
<1>0. /\ orders' = [orders EXCEPT ![id] = s]
      /\ \A c \in Readers : due'[c] = due[c] \ {id}
      /\ UNCHANGED <<pc, cursor, seen, size>>
  BY DEF CreateOrder, calls, summary
<1>1. CursorsReset'
  BY <1>0 DEF SummaryInv, CursorsReset
<1>2. Uncounted'
  BY <1>0, AccountedByStage DEF SummaryInv, Uncounted, Passed, TypeOK
<1>3. CountedPresent'
  BY <1>0, AbsentAssumption DEF SummaryInv, CountedPresent, Present, TypeOK
<1>4. RevenueCovers'
  BY <1>0, AccountedByStage DEF SummaryInv, RevenueCovers
<1> QED
  BY <1>1, <1>2, <1>3, <1>4 DEF SummaryInv

(* billOrder and shipOrder: an order only moves ahead of a traversal. *)
LEMMA SummaryInvTransition ==
    ASSUME TypeOK, TransitionsExclusive, SummaryInv, NEW t \in Threads, SetStatus(t)
    PROVE  SummaryInv'
<1> DEFINE id == arg[t]
<1>1. /\ id \in Ids
      /\ op[t] \in Operations
      /\ orders[id] = From[op[t]]
      /\ orders' = [orders EXCEPT ![id] = To[op[t]]]
      /\ UNCHANGED <<cursor, seen, size, due>>
  BY DEF SetStatus, TransitionsExclusive, TypeOK, ThreadsOK, summary
<1>2. \A c \in Readers : pc'[c] = pc[c]
  <2>1. t \notin Readers
    BY DEF SetStatus, TypeOK, ThreadsOK, Summarising, Passes, Stages
  <2> QED
    BY <2>1 DEF SetStatus, Return, Goto, TypeOK, ThreadsOK
<1>3. orders'[id] \in Stages /\ Rank[orders'[id]] > Rank[orders[id]]
  BY <1>1, OperationTables, RankTable DEF Operations, TypeOK
<1>4. \A i \in Ids \ {id} : orders'[i] = orders[i]
  BY <1>1 DEF TypeOK
<1>5. CursorsReset'
  BY <1>1, <1>2 DEF SummaryInv, CursorsReset
<1>6. Uncounted'
  <2> SUFFICES ASSUME NEW c \in Readers, pc[c] # "idle", NEW i \in due[c]
               PROVE  /\ orders'[i] \in Stages
                      /\ i \in Accounted(c)' \/ Rank[orders'[i]] > Passed(c, i)'
    BY <1>1, <1>2 DEF Uncounted
  <2>1. Passed(c, i)' = Passed(c, i) /\ Passed(c, i) \in Int
    BY <1>1, <1>2, RankTable DEF Passed, Stages
  <2>2. i \in Ids /\ orders[i] \in Stages /\ (i \in Accounted(c) \/ Rank[orders[i]] > Passed(c, i))
    BY DEF SummaryInv, Uncounted, TypeOK
  <2>3. Rank[orders[i]] \in Int /\ orders'[i] \in Stages /\ Rank[orders'[i]] \in Int
        /\ Rank[orders'[i]] >= Rank[orders[i]]
    <3>1. \A s \in Stages : Rank[s] \in Int
      BY RankTable DEF Stages
    <3> QED
      BY <2>2, <1>3, <1>4, <3>1
  <2>4. i \in Accounted(c)' <=> i \in Accounted(c)
    BY <1>1, AccountedByStage
  <2> QED
    BY <2>1, <2>2, <2>3, <2>4
<1>7. CountedPresent'
  BY <1>1, <1>3, <1>4, AbsentAssumption DEF SummaryInv, CountedPresent, Present, Statuses
<1>8. RevenueCovers'
  BY <1>1, <1>2, AccountedByStage DEF SummaryInv, RevenueCovers
<1> QED
  BY <1>5, <1>6, <1>7, <1>8 DEF SummaryInv

(* GET /orders/summary: nothing has been passed yet. *)
LEMMA SummaryInvRequest ==
    ASSUME TypeOK, SummaryInv, NEW c \in Readers, SummaryRequest(c)
    PROVE  SummaryInv'
<1>1. /\ pc[c] = "idle" /\ pc' = [pc EXCEPT ![c] = "PENDING"]
      /\ due' = [due EXCEPT ![c] = {id \in Ids : orders[id] \in Stages}]
      /\ UNCHANGED <<orders, cursor, seen, size>>
  BY AfterTable DEF SummaryRequest, NewRequest, Goto, pipeline, summary
<1>2. \A r \in Readers : r # c => pc'[r] = pc[r] /\ due'[r] = due[r]
  BY <1>1 DEF TypeOK, ThreadsOK
<1>3. pc'[c] = "PENDING" /\ due'[c] = {id \in Ids : orders[id] \in Stages}
  BY <1>1 DEF TypeOK, ThreadsOK
<1>4. cursor[c] = 1
  BY <1>1 DEF SummaryInv, CursorsReset, Passes, Stages
<1>5. CursorsReset'
  BY <1>1, <1>2, <1>4 DEF SummaryInv, CursorsReset
<1>6. Uncounted'
  <2>1. \A id \in due'[c] : /\ orders'[id] \in Stages
                            /\ Rank[orders'[id]] > Passed(c, id)'
    <3>1. \A id \in Ids : Passed(c, id)' = 0
      BY <1>1, <1>3, <1>4, RankTable DEF Passed, Stages, Ids
    <3>2. \A st \in Stages : Rank[st] > 0
      BY RankTable DEF Stages
    <3> QED
      BY <1>1, <1>3, <3>1, <3>2
  <2>2. ASSUME NEW r \in Readers, r # c, NEW id
        PROVE  Passed(r, id)' = Passed(r, id)
    BY <1>1, <1>2, <2>2 DEF Passed
  <2> QED
    BY <1>1, <1>2, <1>3, <2>1, <2>2, AccountedByStage DEF SummaryInv, Uncounted
<1>7. CountedPresent'
  BY <1>1 DEF SummaryInv, CountedPresent, Present
<1>8. RevenueCovers'
  BY <1>1, <1>2, <1>3, AccountedByStage DEF SummaryInv, RevenueCovers
<1> QED
  BY <1>5, <1>6, <1>7, <1>8 DEF SummaryInv

(* getQueueSummary visits a bin: its order is counted or in another stage. *)
LEMMA SummaryInvVisit ==
    ASSUME TypeOK, SummaryInv, NEW c \in Readers, NEW p \in Passes, Visit(c, p)
    PROVE  SummaryInv'
<1>0. PICK k \in Ids : k = cursor[c]
  BY DEF Visit, TypeOK, Ids
<1>1. /\ pc[c] = p /\ k = cursor[c] /\ k \in Ids /\ k \in Int
      /\ cursor' = [cursor EXCEPT ![c] = k + 1]
      /\ UNCHANGED <<orders, pc, size, due>>
  BY <1>0 DEF Visit, TypeOK, Ids, pipeline
<1>2. cursor'[c] = k + 1 /\ \A r \in Readers : r # c => cursor'[r] = cursor[r]
  BY <1>1 DEF TypeOK
<1>3. /\ \A r \in Readers : r # c => seen'[r] = seen[r]
      /\ \A q \in Passes : q # p => seen'[c][q] = seen[c][q]
      /\ seen'[c][p] = IF orders[k] \in Wanted(p) THEN seen[c][p] \cup {k} ELSE seen[c][p]
  <2>1. seen' = IF orders[k] \in Wanted(p) THEN [seen EXCEPT ![c][p] = @ \cup {k}] ELSE seen
    BY <1>0 DEF Visit
  <2>2. seen \in [Readers -> [Passes -> SUBSET Ids]]
    BY DEF TypeOK
  <2> QED
    BY <2>1, <2>2
<1>4. CursorsReset'
  BY <1>1, <1>2 DEF SummaryInv, CursorsReset
<1>5. Uncounted'
  <2>1. ASSUME NEW r \in Readers, r # c, NEW id
        PROVE  /\ Passed(r, id)' = Passed(r, id)
               /\ id \in Accounted(r)' <=> id \in Accounted(r)
    BY <1>1, <1>2, <1>3, <2>1, AccountedByStage DEF Passed
  <2>2. CASE p = "REVENUE"
    <3>1. \A id : Passed(c, id)' = Passed(c, id)
      BY <1>1, <2>2 DEF Passed, Stages
    <3>2. \A id : id \in Accounted(c)' <=> id \in Accounted(c)
      BY <1>3, <2>2, AccountedByStage DEF Passes, Stages
    <3> QED
      BY <1>1, <2>1, <3>1, <3>2 DEF SummaryInv, Uncounted
  <2>3. CASE p \in Stages
    <3>1. \A id \in Accounted(c) : id \in Accounted(c)'
      BY <1>3, AccountedByStage DEF Passes, Stages
    <3>2. \A id \in Ids \ {k} : Passed(c, id)' = Passed(c, id)
      BY <1>1, <1>2, <2>3 DEF Passed, Ids
    <3>3. ASSUME k \in due[c]
          PROVE  k \in Accounted(c)' \/ Rank[orders[k]] > Passed(c, k)'
      <4>1. Passed(c, k) = Rank[p] - 1 /\ Passed(c, k)' = Rank[p]
        BY <1>1, <1>2, <2>3 DEF Passed
      <4>2. CASE k \in Accounted(c)
        BY <3>1, <4>2
      <4>3. CASE orders[k] = p
        <5>1. k \in seen'[c][p]
          BY <1>3, <2>3, <4>3 DEF Wanted, Stages
        <5> QED
          BY <2>3, <5>1 DEF Accounted
      <4>4. CASE k \notin Accounted(c) /\ orders[k] # p
        <5>1. orders[k] \in Stages /\ Rank[orders[k]] > Rank[p] - 1
          BY <1>1, <3>3, <4>1, <4>4 DEF SummaryInv, Uncounted, Passes, Stages
        <5> QED
          BY <2>3, <4>1, <4>4, <5>1, RankTable DEF Stages
      <4> QED
        BY <4>2, <4>3, <4>4
    <3>4. \A id \in due[c] : id \in Ids
      BY DEF TypeOK
    <3> QED
      BY <1>1, <2>1, <2>3, <3>1, <3>2, <3>3, <3>4 DEF SummaryInv, Uncounted
  <2> QED
    BY <2>2, <2>3 DEF Passes
<1>6. CountedPresent'
  <2>1. orders[k] \in Wanted(p) => k \in Present
    BY <1>1, AbsentAssumption DEF Wanted, Present, Passes, Statuses
  <2> QED
    BY <1>1, <1>3, <2>1 DEF SummaryInv, CountedPresent, Present
<1>7. RevenueCovers'
  <2>1. \A r \in Readers : r # c =>
          /\ seen'[r] = seen[r]
          /\ Accounted(r)' = Accounted(r)
    BY <1>3 DEF Accounted
  <2>2. CASE p # "REVENUE"
    <3>1. pc[c] \in Stages
      BY <1>1, <2>2 DEF Passes
    <3> QED
      BY <1>1, <1>2, <2>1, <3>1 DEF SummaryInv, RevenueCovers, Stages
  <2>3. CASE p = "REVENUE"
    <3>1. Accounted(c)' = Accounted(c)
      BY <1>3, <2>3 DEF Accounted, Passes, Stages
    <3>2. k \in Accounted(c) => k \in seen'[c]["REVENUE"]
      <4>1. SUFFICES ASSUME k \in Accounted(c) PROVE k \in seen'[c]["REVENUE"]
        OBVIOUS
      <4>2. k \in Present
        BY <4>1 DEF SummaryInv, CountedPresent, Accounted, Passes
      <4>3. orders[k] \in Wanted(p)
        BY <1>1, <2>3, <4>2 DEF Present, Wanted, TypeOK, Slots
      <4> QED
        BY <1>3, <2>3, <4>3
    <3>3. ASSUME NEW id \in Accounted(c), id < k + 1 PROVE id \in seen'[c]["REVENUE"]
      <4>1. id \in Ids
        BY DEF SummaryInv, CountedPresent, Accounted, Passes, Present
      <4>2. CASE id = k
        BY <3>2, <4>2
      <4>3. CASE id < k
        <5>1. id \in seen[c]["REVENUE"]
          BY <1>1, <2>3, <4>3 DEF SummaryInv, RevenueCovers
        <5> QED
          BY <1>3, <2>3, <5>1
      <4> QED
        BY <1>1, <3>3, <4>1, <4>2, <4>3 DEF Ids
    <3> QED
      BY <1>1, <1>2, <2>1, <2>3, <3>1, <3>3 DEF SummaryInv, RevenueCovers
  <2> QED
    BY <2>2, <2>3
<1> QED
  BY <1>4, <1>5, <1>6, <1>7 DEF SummaryInv

(* getQueueSummary ends a traversal: it has passed every bin. *)
LEMMA SummaryInvEndPass ==
    ASSUME TypeOK, SummaryInv, NEW c \in Readers, NEW p \in Passes, EndPass(c, p)
    PROVE  SummaryInv'
<1>1. /\ pc[c] = p /\ pc' = [pc EXCEPT ![c] = After[p]]
      /\ cursor[c] = N + 1 /\ cursor' = [cursor EXCEPT ![c] = 1]
      /\ UNCHANGED <<orders, seen, size, due>>
  BY DEF EndPass, Goto, pipeline, summary
<1>2. /\ pc'[c] = After[p] /\ cursor'[c] = 1
      /\ \A r \in Readers : r # c => pc'[r] = pc[r] /\ cursor'[r] = cursor[r]
  BY <1>1 DEF TypeOK, ThreadsOK
<1>3. CursorsReset'
  BY <1>1, <1>2 DEF SummaryInv, CursorsReset
<1>4. Uncounted'
  <2>1. ASSUME NEW id \in Ids PROVE Passed(c, id)' = Passed(c, id)
    <3>1. id < N + 1 /\ ~(id < 1)
      BY CountsAssumption DEF Ids
    <3> QED
      BY <1>1, <1>2, <3>1, AfterTable, RankTable DEF Passed, Passes, Stages
  <2>2. ASSUME NEW r \in Readers, r # c, NEW id PROVE Passed(r, id)' = Passed(r, id)
    BY <1>2, <2>2 DEF Passed
  <2>3. pc[c] # "idle" /\ \A id \in due[c] : id \in Ids
    BY <1>1 DEF TypeOK, Passes, Stages
  <2> QED
    BY <1>1, <1>2, <2>1, <2>2, <2>3, AccountedByStage DEF SummaryInv, Uncounted
<1>5. CountedPresent'
  BY <1>1 DEF SummaryInv, CountedPresent, Present
<1>6. RevenueCovers'
  <2>1. Accounted(c)' = Accounted(c) /\ \A r \in Readers : Accounted(r)' = Accounted(r)
    BY <1>1 DEF Accounted
  <2>2. CASE p # "REVENUE"
    <3>1. pc'[c] \in {"BILLED", "SHIPPED", "counter"}
      BY <1>2, <2>2, AfterTable DEF Passes, Stages
    <3> QED
      BY <1>1, <1>2, <2>1, <3>1 DEF SummaryInv, RevenueCovers
  <2>3. CASE p = "REVENUE"
    <3>1. \A id \in Accounted(c) : id < N + 1
      BY CountsAssumption DEF SummaryInv, CountedPresent, Accounted, Passes, Present, Ids
    <3>2. Accounted(c) \subseteq seen[c]["REVENUE"]
      BY <1>1, <2>3, <3>1 DEF SummaryInv, RevenueCovers
    <3>3. pc'[c] = "size"
      BY <1>2, <2>3, AfterTable
    <3> QED
      BY <1>1, <1>2, <2>1, <3>2, <3>3 DEF SummaryInv, RevenueCovers
  <2> QED
    BY <2>2, <2>3
<1> QED
  BY <1>3, <1>4, <1>5, <1>6 DEF SummaryInv

(* The steps of a summary between and after its traversals. *)
LEMMA SummaryInvRead ==
    ASSUME TypeOK, SummaryInv, NEW c \in Readers, ReadCounter(c) \/ ReadSize(c)
    PROVE  SummaryInv'
<1>1. /\ UNCHANGED <<orders, cursor, seen, due>>
      /\ pc[c] \in {"counter", "size"}
      /\ pc' = [pc EXCEPT ![c] = IF pc[c] = "counter" THEN "REVENUE" ELSE "reply"]
      /\ size' = IF pc[c] = "counter" THEN size ELSE [size EXCEPT ![c] = Cardinality(Present)]
  BY AfterTable DEF ReadCounter, ReadSize, Goto, pipeline
<1>2. /\ pc'[c] = IF pc[c] = "counter" THEN "REVENUE" ELSE "reply"
      /\ pc[c] # "counter" => size'[c] = Cardinality(Present)
      /\ \A r \in Readers : r # c => pc'[r] = pc[r] /\ size'[r] = size[r]
  BY <1>1 DEF TypeOK, ThreadsOK
<1>3. cursor[c] = 1
  BY <1>1 DEF SummaryInv, CursorsReset, Passes, Stages
<1>4. CursorsReset'
  BY <1>1, <1>2, <1>3 DEF SummaryInv, CursorsReset
<1>5. Uncounted'
  <2>1. \A r \in Readers, id \in Ids : Passed(r, id)' = Passed(r, id)
    BY <1>1, <1>2 DEF Passed, Stages
  <2>2. \A r \in Readers : \A id \in due[r] : id \in Ids
    BY DEF TypeOK
  <2> QED
    BY <1>1, <1>2, <2>1, <2>2, AccountedByStage DEF SummaryInv, Uncounted
<1>6. CountedPresent'
  BY <1>1 DEF SummaryInv, CountedPresent, Present
<1>7. RevenueCovers'
  <2>1. \A r \in Readers : Accounted(r)' = Accounted(r)
    BY <1>1 DEF Accounted
  <2>2. CASE pc[c] = "counter"
    <3>1. \A id \in Accounted(c) : ~(id < 1)
      BY CountsAssumption DEF SummaryInv, CountedPresent, Accounted, Passes, Present, Ids
    <3> QED
      BY <1>1, <1>2, <1>3, <2>1, <2>2, <3>1 DEF SummaryInv, RevenueCovers
  <2>3. CASE pc[c] = "size"
    <3>1. IsFiniteSet(Present)
      <4>1. IsFiniteSet(1..N)
        BY FS_Interval, CountsAssumption
      <4> QED
        BY <4>1, FS_Subset DEF Present, Ids
    <3>2. Cardinality(seen[c]["REVENUE"]) <= Cardinality(Present)
      BY <3>1, FS_Subset DEF SummaryInv, CountedPresent, Passes
    <3> QED
      BY <1>1, <1>2, <2>1, <2>3, <3>2 DEF SummaryInv, RevenueCovers
  <2> QED
    BY <1>1, <2>2, <2>3
<1> QED
  BY <1>4, <1>5, <1>6, <1>7 DEF SummaryInv

(* getQueueSummary returns. *)
LEMMA SummaryInvReply ==
    ASSUME TypeOK, SummaryInv, NEW c \in Readers, Reply(c)
    PROVE  SummaryInv'
<1>1. /\ pc[c] = "reply" /\ pc'[c] = "idle" /\ due'[c] = {} /\ seen'[c] = NothingSeen
      /\ UNCHANGED <<orders, cursor>>
      /\ \A r \in Readers : r # c => /\ pc'[r] = pc[r] /\ due'[r] = due[r]
                                    /\ seen'[r] = seen[r] /\ size'[r] = size[r]
  BY DEF Reply, Goto, pipeline, TypeOK, ThreadsOK
<1>2. CursorsReset'
  BY <1>1 DEF SummaryInv, CursorsReset, Passes, Stages
<1>3. Uncounted'
  BY <1>1, AccountedByStage DEF SummaryInv, Uncounted, Passed
<1>4. CountedPresent'
  BY <1>1 DEF SummaryInv, CountedPresent, Present, NothingSeen
<1>5. RevenueCovers'
  BY <1>1, AccountedByStage DEF SummaryInv, RevenueCovers
<1> QED
  BY <1>2, <1>3, <1>4, <1>5 DEF SummaryInv

(* The strengthened invariant holds of every behaviour of the service. *)
THEOREM SummaryInvariant == Spec => []SummaryInv
<1> USE ThreadsAssumption
<1>1. Init => SummaryInv
  BY DEF Init, SummaryInv, CursorsReset, Uncounted, CountedPresent, RevenueCovers, NothingSeen
<1>2. TypeOK /\ TransitionsExclusive /\ SummaryInv /\ [Next]_vars => SummaryInv'
  <2> SUFFICES ASSUME TypeOK, TransitionsExclusive, SummaryInv, [Next]_vars
               PROVE  SummaryInv'
    OBVIOUS
  <2>1. ASSUME NEW t \in Writers \cup {Scheduler}, pc' = [pc EXCEPT ![t] = pc'[t]],
               cursor' = [cursor EXCEPT ![t] = cursor'[t]],
               UNCHANGED <<orders, seen, size, due>>
        PROVE  SummaryInv'
    <3>1. \A c \in Readers : pc'[c] = pc[c] /\ cursor'[c] = cursor[c]
      BY <2>1 DEF TypeOK, ThreadsOK
    <3> QED
      BY <2>1, <3>1, SummaryInvQuiet
  <2>2. CASE UNCHANGED <<pipeline, calls, summary, due>>
    BY <2>2, SummaryInvQuiet DEF pipeline, calls, summary
  <2>3. ASSUME NEW w \in Writers, CreateRequest(w) PROVE SummaryInv'
    BY <2>2, <2>3, SummaryInvCreate DEF CreateRequest
  <2>4. ASSUME NEW w \in Writers, MoveRequest(w) PROVE SummaryInv'
    BY <2>1, <2>4 DEF MoveRequest, Goto, pipeline, summary, TypeOK, ThreadsOK
  <2>5. ASSUME NEW c \in Readers, SummaryRequest(c) \/ Summarise(c) PROVE SummaryInv'
    BY <2>5, SummaryInvRequest, SummaryInvVisit, SummaryInvEndPass, SummaryInvRead,
       SummaryInvReply DEF Summarise
  <2>6. ASSUME NEW t \in Threads, Enter(t) \/ CountShipment(t) PROVE SummaryInv'
    <3>1. t \in Writers \cup {Scheduler}
      BY <2>6 DEF Enter, CountShipment, TypeOK, ThreadsOK, Summarising, Passes, Stages
    <3>2. /\ pc' = [pc EXCEPT ![t] = pc'[t]]
          /\ UNCHANGED <<orders, cursor, seen, size, due>>
      BY <2>6 DEF Enter, CountShipment, Return, Goto, pipeline, summary, TypeOK, ThreadsOK
    <3>3. cursor' = [cursor EXCEPT ![t] = cursor'[t]]
      BY <3>2 DEF TypeOK
    <3> QED
      BY <2>1, <3>1, <3>2, <3>3
  <2>7. ASSUME NEW t \in Threads, SetStatus(t) PROVE SummaryInv'
    BY <2>7, SummaryInvTransition
  <2>8. ASSUME NEW o \in Operations, StartTask(o) PROVE SummaryInv'
    BY <2>1, <2>8 DEF StartTask, Goto, pipeline, summary, TypeOK, ThreadsOK
  <2>9. ASSUME Scan PROVE SummaryInv'
    <3>1. cursor' = [cursor EXCEPT ![Scheduler] = cursor'[Scheduler]]
      BY <2>9 DEF Scan, TypeOK
    <3>2. /\ pc' = [pc EXCEPT ![Scheduler] = pc'[Scheduler]]
          /\ UNCHANGED <<orders, seen, size, due>>
      BY <2>9 DEF Scan, Return, Goto, pipeline, summary, TypeOK, ThreadsOK
    <3> QED
      BY <2>1, <3>1, <3>2
  <2>10. ASSUME GenerateData PROVE SummaryInv'
    BY <2>2, <2>10, SummaryInvCreate, SeedAssumption DEF GenerateData, Statuses, Stages
  <2>11. CASE UNCHANGED vars
    BY <2>2, <2>11 DEF vars
  <2> QED
    BY <2>3, <2>4, <2>5, <2>6, <2>7, <2>8, <2>9, <2>10, <2>11 DEF Next, Move
<1> QED
  BY <1>1, <1>2, TypeCorrect, Exclusive, PTL DEF Spec

(* Every order that was in the pipeline when a queue summary began and was *)
(* not replaced since is counted in one of its stages, for any number of   *)
(* orders and however the transitions interleave with the traversals.      *)
THEOREM SummaryComplete == Spec => []SummaryMissesNoOrder
<1>1. TypeOK /\ SummaryInv => SummaryMissesNoOrder
  <2> SUFFICES ASSUME TypeOK, SummaryInv, NEW c \in Readers, pc[c] = "reply", NEW id \in due[c]
               PROVE  id \in Accounted(c)
    BY DEF SummaryMissesNoOrder
  <2>1. orders[id] \in Stages /\ (id \in Accounted(c) \/ Rank[orders[id]] > Passed(c, id))
    BY DEF SummaryInv, Uncounted
  <2>2. Passed(c, id) = 3
    BY DEF Passed, Stages
  <2> QED
    BY <2>1, <2>2, RankTable DEF Stages
<1> QED
  BY <1>1, TypeCorrect, SummaryInvariant, PTL

(* A summary has read a count of shipments that has only grown since. *)
CounterPast == \A c \in Readers : counter[c] <= completed

LEMMA CounterInvariant == Spec => []CounterPast
<1>1. Init => CounterPast
  BY DEF Init, CounterPast
<1>2. TypeOK /\ CounterPast /\ [Next]_vars => CounterPast'
  <2> SUFFICES ASSUME TypeOK, CounterPast, [Next]_vars PROVE CounterPast'
    OBVIOUS
  <2>1. completed \in Nat /\ counter \in [Readers -> Nat]
    BY DEF TypeOK
  <2>2. CASE completed' \in {completed, completed + 1} /\ UNCHANGED counter
    BY <2>1, <2>2 DEF CounterPast
  <2>3. ASSUME NEW c \in Readers, ReadCounter(c) PROVE CounterPast'
    BY <2>1, <2>3 DEF ReadCounter, pipeline, CounterPast
  <2>4. ASSUME NEW c \in Readers, Reply(c) PROVE CounterPast'
    BY <2>1, <2>4 DEF Reply, pipeline, CounterPast
  <2>5. ASSUME NEW w \in Writers, CreateRequest(w) \/ MoveRequest(w) PROVE CounterPast'
    BY <2>2, <2>5 DEF CreateRequest, CreateOrder, MoveRequest, pipeline, summary
  <2>6. ASSUME NEW c \in Readers, SummaryRequest(c) PROVE CounterPast'
    BY <2>2, <2>6 DEF SummaryRequest, pipeline, summary
  <2>7. ASSUME NEW c \in Readers, NEW p \in Passes, Visit(c, p) \/ EndPass(c, p)
        PROVE  CounterPast'
    BY <2>2, <2>7 DEF Visit, EndPass, pipeline, summary
  <2>8. ASSUME NEW c \in Readers, ReadSize(c) PROVE CounterPast'
    BY <2>2, <2>8 DEF ReadSize, pipeline
  <2>9. ASSUME NEW t \in Threads, Move(t) PROVE CounterPast'
    BY <2>2, <2>9 DEF Move, Enter, SetStatus, CountShipment, pipeline, summary
  <2>10. ASSUME Scan \/ GenerateData \/ \E o \in Operations : StartTask(o) PROVE CounterPast'
    BY <2>2, <2>10 DEF Scan, GenerateData, CreateOrder, StartTask, pipeline, summary
  <2>11. CASE UNCHANGED vars
    BY <2>2, <2>11 DEF vars, pipeline, summary
  <2> QED
    BY <2>3, <2>4, <2>5, <2>6, <2>7, <2>8, <2>9, <2>10, <2>11 DEF Next, Summarise
<1> QED
  BY <1>1, <1>2, TypeCorrect, PTL DEF Spec

(* The totals a queue summary answers with cover the orders its stages     *)
(* counted, and SHIPPED exceeds them by the shipments counted at most, for *)
(* any number of orders and however they move and are created meanwhile.   *)
THEOREM TotalsCover == Spec => []TotalsCoverStages
<1>1. TypeOK /\ CounterPast /\ SummaryInv => TotalsCoverStages
  <2> SUFFICES ASSUME TypeOK, CounterPast, SummaryInv, NEW c \in Readers, pc[c] = "reply"
               PROVE  /\ Accounted(c) \subseteq seen[c]["REVENUE"]
                      /\ Cardinality(seen[c]["REVENUE"]) <= size[c]
                      /\ Cardinality(seen[c]["PENDING"]) <= size[c]
                      /\ Cardinality(seen[c]["BILLED"]) <= size[c]
                      /\ Cardinality(seen[c]["SHIPPED"]) + counter[c] <= size[c] + completed
    BY DEF TotalsCoverStages, QueueSummary
  <2>1. /\ Accounted(c) \subseteq seen[c]["REVENUE"]
        /\ Cardinality(seen[c]["REVENUE"]) <= size[c]
    BY DEF SummaryInv, RevenueCovers
  <2>2. IsFiniteSet(seen[c]["REVENUE"])
    <3>1. seen[c]["REVENUE"] \subseteq 1..N
      BY DEF TypeOK, Passes, Ids
    <3>2. IsFiniteSet(1..N)
      BY FS_Interval, CountsAssumption
    <3> QED
      BY <3>1, <3>2, FS_Subset
  <2>3. ASSUME NEW st \in Stages
        PROVE  Cardinality(seen[c][st]) <= Cardinality(seen[c]["REVENUE"]) /\ Cardinality(seen[c][st]) \in Nat
    <3>1. seen[c][st] \subseteq seen[c]["REVENUE"]
      BY <2>1 DEF Accounted
    <3> QED
      BY <3>1, <2>2, FS_Subset, FS_CardinalityType
  <2>4. size[c] \in Nat /\ Cardinality(seen[c]["REVENUE"]) \in Nat
    BY <2>2, FS_CardinalityType DEF TypeOK
  <2>5. counter[c] \in Nat /\ completed \in Nat /\ counter[c] <= completed
    BY DEF TypeOK, CounterPast
  <2> QED
    BY <2>1, <2>3, <2>4, <2>5 DEF Stages
<1> QED
  BY <1>1, TypeCorrect, CounterInvariant, SummaryInvariant, PTL

-----------------------------------------------------------------------------
(* The refinement.  A transition takes effect when its thread is done with *)
(* it, and until then nobody else can touch the order.                     *)

(* A step that moves no thread into or out of the counting of a shipment   *)
(* leaves the set of orders being counted as it was.                       *)
LEMMA CountingUnchanged ==
    ASSUME \A t \in Threads :
              \/ pc'[t] = pc[t] /\ arg'[t] = arg[t]
              \/ pc[t] # "count" /\ pc'[t] # "count"
    PROVE  \A id \in Ids : Counting(id)' <=> Counting(id)
BY DEF Counting

(* An order whose shipment is still to be counted is locked by the thread  *)
(* that counts it, and only by that one.                                   *)
LEMMA CountingHoldsLock ==
    ASSUME TypeOK, TransitionsExclusive, NEW id \in Ids
    PROVE  /\ lock[id] = Free => ~Counting(id)
           /\ \A t \in Threads : pc[t] = "set" /\ arg[t] = id => ~Counting(id)
           /\ \A t, u \in Threads :
                pc[t] = "count" /\ arg[t] = id /\ pc[u] = "count" /\ arg[u] = id => t = u
BY ThreadsAssumption DEF TransitionsExclusive, Counting

(* createOrder is the pipeline's Create. *)
LEMMA CreateRefines ==
    ASSUME TypeOK, TransitionsExclusive,
           NEW id \in Ids, NEW s \in Statuses, CreateOrder(id, s)
    PROVE  Pipeline!Create(id, s)
<1>1. ~Counting(id)
  BY CountingHoldsLock DEF CreateOrder
<1>2. \A i \in Ids : Counting(i)' <=> Counting(i)
  BY CountingUnchanged DEF CreateOrder, calls
<1>3. Settled' = [Settled EXCEPT ![id] = s]
  BY <1>1, <1>2 DEF CreateOrder, Settled, TypeOK
<1> QED
  BY <1>3 DEF CreateOrder, Pipeline!Create

(* Setting the status is the pipeline's Bill; for a shipment, which is not *)
(* settled before it is counted, it is a stutter.                          *)
LEMMA SetStatusRefines ==
    ASSUME TypeOK, TransitionsExclusive, NEW t \in Threads, SetStatus(t)
    PROVE  Pipeline!Bill(arg[t]) \/ UNCHANGED <<Settled, completed>>
<1>1. PICK id \in Ids : id = arg[t]
  BY DEF SetStatus, TypeOK, ThreadsOK
<1>2. /\ pc[t] = "set" /\ op[t] \in Operations
      /\ orders[id] = From[op[t]]
      /\ orders' = [orders EXCEPT ![id] = To[op[t]]]
      /\ UNCHANGED completed
  BY <1>1 DEF SetStatus, TransitionsExclusive, TypeOK, ThreadsOK
<1>3. ~Counting(id)
  BY <1>1, <1>2, CountingHoldsLock
<1>4. CASE op[t] = "bill"
  <2>1. \A i \in Ids : Counting(i)' <=> Counting(i)
    BY <1>2, <1>4, CountingUnchanged DEF SetStatus, Return, Goto, TypeOK, ThreadsOK
  <2>2. Settled[id] = "PENDING" /\ Settled' = [Settled EXCEPT ![id] = "BILLED"]
    BY <1>2, <1>3, <1>4, <2>1, OperationTables DEF Settled, TypeOK
  <2> QED
    BY <1>1, <1>2, <2>2 DEF Pipeline!Bill
<1>5. CASE op[t] = "ship"
  <2>1. pc' = [pc EXCEPT ![t] = "count"] /\ UNCHANGED arg
    BY <1>5 DEF SetStatus, Goto
  <2>2. \A i \in Ids \ {id} : Counting(i)' <=> Counting(i)
    BY <1>1, <1>2, <2>1 DEF Counting, TypeOK, ThreadsOK
  <2>3. Counting(id)'
    BY <1>1, <2>1 DEF Counting, TypeOK, ThreadsOK
  <2>4. orders[id] = "BILLED"
    BY <1>2, <1>5, OperationTables
  <2> QED
    BY <1>2, <1>3, <2>2, <2>3, <2>4 DEF Settled, TypeOK
<1> QED
  BY <1>2, <1>4, <1>5 DEF Operations

(* Counting a shipment is the pipeline's Ship. *)
LEMMA CountShipmentRefines ==
    ASSUME TypeOK, TransitionsExclusive, NEW t \in Threads, CountShipment(t)
    PROVE  Pipeline!Ship(arg[t])
<1>1. PICK id \in Ids : id = arg[t]
  BY DEF CountShipment, TypeOK, ThreadsOK
<1>2. /\ pc[t] = "count" /\ pc' = [pc EXCEPT ![t] = "idle"]
      /\ \A u \in Threads \ {t} : arg'[u] = arg[u]
      /\ orders' = orders /\ completed' = completed + 1
  BY DEF CountShipment, Return, Goto, TypeOK, ThreadsOK
<1>3. Counting(id) /\ orders[id] = "SHIPPED"
  BY <1>1, <1>2, OperationTables DEF Counting, TransitionsExclusive
<1>4. ~Counting(id)'
  <2> SUFFICES ASSUME NEW u \in Threads, pc'[u] = "count", arg'[u] = id PROVE FALSE
    BY DEF Counting
  <2>1. u # t /\ pc[u] = "count" /\ arg[u] = id
    BY <1>2 DEF TypeOK, ThreadsOK
  <2> QED
    BY <1>1, <1>2, <2>1, CountingHoldsLock
<1>5. \A i \in Ids \ {id} : Counting(i)' <=> Counting(i)
  BY <1>1, <1>2 DEF Counting, TypeOK, ThreadsOK
<1>6. Settled[id] = "BILLED" /\ Settled' = [Settled EXCEPT ![id] = "SHIPPED"]
  BY <1>2, <1>3, <1>4, <1>5 DEF Settled
<1> QED
  BY <1>1, <1>2, <1>6 DEF Pipeline!Ship

(* The service implements the atomic order pipeline for any number of      *)
(* orders, threads and requests: no shipment is counted twice or lost, no  *)
(* order is billed or shipped from a state it is not in.                   *)
THEOREM Refinement == Spec => ImplementsPipeline
<1> USE ThreadsAssumption
<1>1. Init => Pipeline!Init
  <2> SUFFICES ASSUME Init PROVE Pipeline!Init
    OBVIOUS
  <2>1. \A id \in Ids : ~Counting(id)
    BY DEF Init, Counting
  <2>2. Settled = Seed
    BY <2>1, SeedAssumption DEF Init, Settled
  <2> QED
    BY <2>2 DEF Init, Pipeline!Init
<1>2. TypeOK /\ TransitionsExclusive /\ [Next]_vars => [Pipeline!Next]_(Pipeline!vars)
  <2> SUFFICES ASSUME TypeOK, TransitionsExclusive, [Next]_vars
               PROVE  Pipeline!Next \/ UNCHANGED <<Settled, completed>>
    BY DEF Pipeline!vars
  <2>1. ASSUME UNCHANGED <<orders, completed>>,
               \A t \in Threads :
                  \/ pc'[t] = pc[t] /\ arg'[t] = arg[t]
                  \/ pc[t] # "count" /\ pc'[t] # "count"
        PROVE  UNCHANGED <<Settled, completed>>
    BY <2>1, CountingUnchanged DEF Settled
  <2>2. ASSUME NEW id \in Ids, NEW s \in Statuses, CreateOrder(id, s) PROVE Pipeline!Next
    BY <2>2, CreateRefines DEF Pipeline!Next
  <2>3. CASE UNCHANGED <<pipeline, calls>>
    BY <2>1, <2>3 DEF pipeline, calls
  <2>4. ASSUME NEW w \in Writers, CreateRequest(w)
        PROVE  Pipeline!Next \/ UNCHANGED <<Settled, completed>>
    BY <2>2, <2>3, <2>4 DEF CreateRequest
  <2>5. ASSUME NEW w \in Writers, MoveRequest(w) PROVE UNCHANGED <<Settled, completed>>
    BY <2>1, <2>5 DEF MoveRequest, NewRequest, Goto, pipeline, TypeOK, ThreadsOK
  <2>6. ASSUME NEW c \in Readers, SummaryRequest(c) \/ Summarise(c)
        PROVE  UNCHANGED <<Settled, completed>>
    <3>1. UNCHANGED <<orders, completed, arg>>
      BY <2>6 DEF SummaryRequest, Summarise, Visit, EndPass, ReadCounter, ReadSize, Reply, pipeline
    <3>2. /\ pc[c] # "count" /\ pc'[c] # "count"
          /\ \A t \in Threads \ {c} : pc'[t] = pc[t]
      BY <2>6, AfterTable
         DEF SummaryRequest, NewRequest, Summarise, Visit, EndPass, ReadCounter, ReadSize,
             Reply, Goto, TypeOK, ThreadsOK, Passes, Stages
    <3> QED
      BY <2>1, <3>1, <3>2
  <2>7. ASSUME NEW t \in Threads, Enter(t) PROVE UNCHANGED <<Settled, completed>>
    BY <2>1, <2>7 DEF Enter, Return, Goto, pipeline, TypeOK, ThreadsOK
  <2>8. ASSUME NEW t \in Threads, SetStatus(t)
        PROVE  Pipeline!Next \/ UNCHANGED <<Settled, completed>>
    <3>1. arg[t] \in Ids
      BY <2>8 DEF SetStatus, TypeOK, ThreadsOK
    <3> QED
      BY <2>8, <3>1, SetStatusRefines DEF Pipeline!Next
  <2>9. ASSUME NEW t \in Threads, CountShipment(t) PROVE Pipeline!Next
    <3>1. arg[t] \in Ids
      BY <2>9 DEF CountShipment, TypeOK, ThreadsOK
    <3> QED
      BY <2>9, <3>1, CountShipmentRefines DEF Pipeline!Next
  <2>10. ASSUME NEW o \in Operations, StartTask(o) PROVE UNCHANGED <<Settled, completed>>
    BY <2>1, <2>10 DEF StartTask, Goto, pipeline, TypeOK, ThreadsOK
  <2>11. ASSUME Scan PROVE UNCHANGED <<Settled, completed>>
    BY <2>1, <2>11 DEF Scan, Return, Goto, pipeline, TypeOK, ThreadsOK
  <2>12. ASSUME GenerateData PROVE Pipeline!Next \/ UNCHANGED <<Settled, completed>>
    BY <2>2, <2>3, <2>12, SeedAssumption DEF GenerateData, Statuses, Stages
  <2>13. CASE UNCHANGED vars
    BY <2>3, <2>13 DEF vars
  <2> QED
    BY <2>4, <2>5, <2>6, <2>7, <2>8, <2>9, <2>10, <2>11, <2>12, <2>13 DEF Next, Move
<1> QED
  BY <1>1, <1>2, TypeCorrect, Exclusive, PTL DEF Spec, ImplementsPipeline, Pipeline!Spec
=============================================================================
