-------------------------- MODULE AggregatorProofs --------------------------
(***************************************************************************)
(* Proofs about Aggregator for any clients, backends, life of an entry and *)
(* length of a request.                                                    *)
(*                                                                         *)
(* Staleness is bounded because it is bought twice at most: what a request *)
(* collects was current when it began (CollectedFresh), and an entry is    *)
(* written by a request that began at most MaxRun before and lives TTL     *)
(* (CacheFresh).  The refresh carries the values of its run because only   *)
(* the generator's own thread changes the fields (Refreshing).             *)
(***************************************************************************)
EXTENDS Aggregator, TLAPS

(* d holds no value that was replaced before the time limit. *)
Fresh(d, limit) ==
    \A k \in Keys, v \in Versions : d[k] # Missing /\ stored[v] < limit => d[k] >= v

(* The fields never fall behind what has been stored. *)
FieldsFresh ==
    \A v \in Versions : stored[v] # Never =>
        stored[v] <= now /\ v <= run /\ \A f \in Fields : field[f] >= v

Timely == \A t \in Threads : /\ start[t] <= now
                             /\ pc[t] # "idle" => now - start[t] <= MaxRun

NothingYet == \A t \in Threads : pc[t] \in {"idle", "lookup", "modify"} => data[t] = NoData

CollectedFresh == \A c \in Clients : pc[c] \in {"fetch", "store"} => Fresh(data[c], start[c])

CacheFresh == cache # NoEntry =>
    /\ now <= cache.expires
    /\ cache.expires <= now + TTL
    /\ Fresh(cache.data, cache.expires - TTL - MaxRun)

RepliesFresh == \A c \in Clients : pc[c] = "reply" => Fresh(data[c], start[c] - TTL - MaxRun)

Refreshing == pc[Generator] \in {"fetch", "reply"} =>
    /\ \A f \in Fields : field[f] = run
    /\ \A k \in Keys : data[Generator][k] \in {Missing, run}

IInv == /\ TypeOK
        /\ FieldsFresh
        /\ Timely
        /\ NothingYet
        /\ CollectedFresh
        /\ CacheFresh
        /\ RepliesFresh
        /\ Refreshing

-----------------------------------------------------------------------------
LEMMA ConstantFacts ==
    /\ TTL \in Nat /\ MaxRun \in Nat /\ MaxVersion \in Nat /\ MaxTime \in Nat
    /\ Missing \notin Int
    /\ Generator \in Threads /\ Generator \notin Clients
    /\ Clients \subseteq Threads
  BY AggregatorAssumption DEF Threads

(* Each key of a backend is read from one of the fields. *)
LEMMA KeyFacts ==
    ASSUME NEW b \in Backends, NEW k \in KeysOf[b]
    PROVE  k \in Keys /\ FieldOf[k] \in Fields
<1>1. b \in {"user", "order", "inventory"}
  BY AggregatorAssumption DEF Backends, Range
<1>2. k \in {"name", "email", "amount", "status", "stockCount"}
  BY <1>1 DEF KeysOf
<1> QED
  BY <1>2 DEF Keys, FieldOf, Fields

(* The types of what a step works on. *)
LEMMA TypeFacts ==
    ASSUME TypeOK
    PROVE  /\ now \in Int /\ run \in Int
           /\ \A v \in Versions : v \in Int /\ stored[v] \in Int
           /\ \A f \in Fields : field[f] \in Int
           /\ \A t \in Threads : start[t] \in Int
           /\ cache # NoEntry => cache.expires \in Int
           /\ cache # NoEntry => cache.data \in [Keys -> Versions \cup {Missing}]
  BY ConstantFacts DEF TypeOK, Versions, Never

(* A body that is fresh up to a time is so up to any earlier one. *)
LEMMA FreshEarlier ==
    ASSUME TypeOK, NEW d, NEW limit \in Int, NEW earlier \in Int, earlier <= limit, Fresh(d, limit)
    PROVE  Fresh(d, earlier)
  BY TypeFacts DEF Fresh

LEMMA NoDataFresh == ASSUME NEW limit PROVE Fresh(NoData, limit)
  BY DEF Fresh, NoData

(* The invariant holds at the start. *)
LEMMA InitInvariant == Init => IInv
<1> SUFFICES ASSUME Init PROVE IInv
  OBVIOUS
<1>1. TypeOK
  BY ConstantFacts DEF Init, TypeOK, Versions, Never, NoData
<1>2. FieldsFresh
  BY ConstantFacts DEF Init, FieldsFresh, Versions
<1>3. Timely /\ NothingYet /\ CollectedFresh /\ CacheFresh /\ RepliesFresh /\ Refreshing
  BY ConstantFacts DEF Init, Timely, NothingYet, CollectedFresh, CacheFresh, RepliesFresh, Refreshing
<1> QED
  BY <1>1, <1>2, <1>3 DEF IInv

-----------------------------------------------------------------------------
(* The steps of a request *)

LEMMA RequestStep ==
    ASSUME IInv, NEW c \in Clients, Request(c)
    PROVE  IInv'
<1> USE DEF IInv
<1>1. c \in Threads /\ c # Generator
  BY ConstantFacts
<1>2. TypeOK'
  BY <1>1 DEF Request, Goto, TypeOK, external
<1>3. FieldsFresh' /\ CacheFresh'
  BY DEF Request, FieldsFresh, CacheFresh, Fresh, external
<1>4. Timely'
  BY <1>1, TypeFacts, ConstantFacts DEF Request, Goto, Timely, TypeOK
<1>5. NothingYet'
  BY <1>1 DEF Request, Goto, NothingYet, TypeOK
<1>6. CollectedFresh' /\ RepliesFresh' /\ Refreshing'
  BY <1>1, ConstantFacts DEF Request, Goto, CollectedFresh, RepliesFresh, Refreshing, Fresh, TypeOK, external
<1> QED
  BY <1>2, <1>3, <1>4, <1>5, <1>6

(* What a hit returns was fresh enough when its entry was about to expire. *)
LEMMA LookupStep ==
    ASSUME IInv, NEW c \in Clients, Lookup(c)
    PROVE  IInv'
<1> USE DEF IInv
<1>1. c \in Threads /\ c # Generator
  BY ConstantFacts
<1>2. TypeOK'
  BY <1>1, TypeFacts DEF Lookup, Goto, TypeOK, external
<1>3. FieldsFresh' /\ Timely' /\ CacheFresh'
  BY <1>1 DEF Lookup, Goto, FieldsFresh, Timely, CacheFresh, Fresh, TypeOK, external
<1>4. NothingYet'
  BY <1>1 DEF Lookup, Goto, NothingYet, TypeOK
<1>5. CollectedFresh'
  <2> SUFFICES ASSUME NEW d \in Clients, pc'[d] \in {"fetch", "store"}
               PROVE  Fresh(data[d], start[d])'
    BY DEF CollectedFresh
  <2>1. CASE d = c
    <3>1. data'[c] = NoData
      BY <2>1, <1>1 DEF Lookup, Goto, NothingYet, TypeOK
    <3> QED
      BY <3>1, <2>1 DEF Fresh, NoData
  <2>2. CASE d # c
    BY <2>2, <1>1, ConstantFacts DEF Lookup, Goto, CollectedFresh, Fresh, TypeOK, external
  <2> QED
    BY <2>1, <2>2
<1>6. RepliesFresh'
  <2> SUFFICES ASSUME NEW d \in Clients, pc'[d] = "reply"
               PROVE  Fresh(data[d], start[d] - TTL - MaxRun)'
    BY DEF RepliesFresh
  <2>1. CASE d = c
    <3>1. cache # NoEntry /\ data'[c] = cache.data
      BY <2>1, <1>1 DEF Lookup, Goto, TypeOK
    <3>2. start[c] - TTL - MaxRun <= cache.expires - TTL - MaxRun
      BY <3>1, <1>1, TypeFacts, ConstantFacts DEF Timely, CacheFresh
    <3>3. Fresh(cache.data, start[c] - TTL - MaxRun)
      BY <3>1, <3>2, <1>1, TypeFacts, ConstantFacts, FreshEarlier DEF CacheFresh
    <3> QED
      BY <3>1, <3>3, <2>1 DEF Lookup, Fresh, external
  <2>2. CASE d # c
    BY <2>2, <1>1, ConstantFacts DEF Lookup, Goto, RepliesFresh, Fresh, TypeOK, external
  <2> QED
    BY <2>1, <2>2
<1>7. Refreshing'
  BY <1>1, ConstantFacts DEF Lookup, Goto, Refreshing, TypeOK, external
<1> QED
  BY <1>2, <1>3, <1>4, <1>5, <1>6, <1>7

(* What a request stores was fresh when it began, at most MaxRun ago. *)
LEMMA StoreStep ==
    ASSUME IInv, NEW c \in Clients, Store(c)
    PROVE  IInv'
<1> USE DEF IInv, Store, StoreUntil
<1>1. c \in Threads /\ c # Generator
  BY ConstantFacts
<1>2. TypeOK'
  <2>1. cache' = NoEntry \/ cache' \in [data : [Keys -> Versions \cup {Missing}],
                                        expires : now'..(now' + TTL)]
    BY <1>1, ConstantFacts DEF TypeOK, external
  <2> QED
    BY <2>1, <1>1 DEF Goto, TypeOK, external
<1>3. FieldsFresh' /\ Timely' /\ NothingYet'
  BY <1>1 DEF Goto, FieldsFresh, Timely, NothingYet, TypeOK, external
<1>4. CollectedFresh'
  BY <1>1, ConstantFacts DEF Goto, CollectedFresh, Fresh, TypeOK, external
<1>5. Fresh(data[c], start[c])
  BY DEF CollectedFresh
<1>6. CacheFresh'
  <2>1. CASE cache' = [data |-> data[c], expires |-> now + TTL]
    <3>1. cache'.data = data[c] /\ cache'.expires = now + TTL /\ now' = now /\ stored' = stored
      BY <2>1 DEF external
    <3>2. cache'.expires - TTL - MaxRun <= start[c] /\ cache'.expires \in Int
      BY <3>1, <1>1, TypeFacts, ConstantFacts DEF Timely
    <3>3. Fresh(cache.data, cache.expires - TTL - MaxRun)'
      BY <3>1, <3>2, <1>5, <1>1, TypeFacts, ConstantFacts DEF Fresh
    <3> QED
      BY <3>1, <3>3, TypeFacts, ConstantFacts DEF CacheFresh
  <2>2. CASE UNCHANGED cache
    BY <2>2 DEF CacheFresh, Fresh, external
  <2> QED
    BY <2>1, <2>2
<1>7. RepliesFresh'
  <2> SUFFICES ASSUME NEW d \in Clients, pc'[d] = "reply"
               PROVE  Fresh(data[d], start[d] - TTL - MaxRun)'
    BY DEF RepliesFresh
  <2>1. Fresh(data[d], start[d] - TTL - MaxRun)
    <3>1. CASE d = c
      BY <3>1, <1>5, <1>1, TypeFacts, ConstantFacts, FreshEarlier
    <3>2. CASE d # c
      BY <3>2, <1>1, ConstantFacts DEF Goto, RepliesFresh, TypeOK
    <3> QED
      BY <3>1, <3>2
  <2> QED
    BY <2>1 DEF Fresh, external
<1>8. Refreshing'
  BY <1>1, ConstantFacts DEF Goto, Refreshing, TypeOK, external
<1> QED
  BY <1>2, <1>3, <1>4, <1>6, <1>7, <1>8

(* A thread that is done has nothing that could be stale. *)
LEMMA ReturnStep ==
    ASSUME IInv, NEW t \in Threads, Return(t), UNCHANGED <<external, cache, run, now>>
    PROVE  IInv'
<1> USE DEF IInv, Return, Goto
<1>1. TypeOK'
  BY ConstantFacts DEF TypeOK, external, NoData
<1>2. FieldsFresh' /\ CacheFresh'
  BY DEF FieldsFresh, CacheFresh, Fresh, external
<1>3. Timely'
  BY TypeFacts, ConstantFacts DEF Timely, TypeOK
<1>4. NothingYet'
  BY DEF NothingYet, TypeOK
<1>5. CollectedFresh' /\ RepliesFresh' /\ Refreshing'
  BY ConstantFacts DEF CollectedFresh, RepliesFresh, Refreshing, Fresh, TypeOK, external
<1> QED
  BY <1>1, <1>2, <1>3, <1>4, <1>5

-----------------------------------------------------------------------------
(* The steps of an aggregation *)

(* A field read now is not behind anything stored before. *)
LEMMA ReadKeyStep ==
    ASSUME IInv, NEW t \in Threads, NEW b \in Backends, ReadKey(t, b)
    PROVE  IInv'
<1> USE DEF IInv
<1>1. PICK k \in KeysOf[b] : data' = [data EXCEPT ![t][k] = field[FieldOf[k]]]
  BY DEF ReadKey
<1>2. k \in Keys /\ FieldOf[k] \in Fields
  BY KeyFacts
<1>3. UNCHANGED <<field, stored, outage, cache, pc, fellBack, run, now, start>> /\ pc[t] = "fetch"
  BY DEF ReadKey, external
<1>4. TypeOK'
  BY <1>1, <1>2, <1>3 DEF TypeOK
<1>5. FieldsFresh' /\ Timely' /\ CacheFresh'
  BY <1>3 DEF FieldsFresh, Timely, CacheFresh, Fresh
<1>6. NothingYet'
  BY <1>1, <1>3 DEF NothingYet, TypeOK
<1>7. CollectedFresh'
  <2> SUFFICES ASSUME NEW c \in Clients, pc[c] \in {"fetch", "store"},
                      NEW j \in Keys, NEW v \in Versions,
                      data'[c][j] # Missing, stored[v] < start[c]
               PROVE  data'[c][j] >= v
    BY <1>3 DEF CollectedFresh, Fresh
  <2>1. CASE c = t /\ j = k
    <3>1. data'[c][j] = field[FieldOf[k]]
      BY <2>1, <1>1, <1>2 DEF TypeOK
    <3>2. stored[v] # Never
      BY TypeFacts, ConstantFacts DEF Timely, TypeOK, Never
    <3> QED
      BY <3>1, <3>2, <1>2 DEF FieldsFresh
  <2>2. CASE ~(c = t /\ j = k)
    <3>1. data'[c][j] = data[c][j]
      BY <2>2, <1>1, ConstantFacts DEF TypeOK
    <3> QED
      BY <3>1 DEF CollectedFresh, Fresh
  <2> QED
    BY <2>1, <2>2
<1>8. RepliesFresh'
  <2> SUFFICES ASSUME NEW c \in Clients, pc[c] = "reply"
               PROVE  Fresh(data[c], start[c] - TTL - MaxRun)'
    BY <1>3 DEF RepliesFresh
  <2>1. data'[c] = data[c]
    BY <1>1, <1>3, ConstantFacts DEF TypeOK
  <2> QED
    BY <2>1, <1>3 DEF RepliesFresh, Fresh
<1>9. Refreshing'
  <2>1. CASE t = Generator
    BY <2>1, <1>1, <1>2, <1>3 DEF Refreshing, TypeOK
  <2>2. CASE t # Generator
    BY <2>2, <1>1, <1>3, ConstantFacts DEF Refreshing, TypeOK
  <2> QED
    BY <2>1, <2>2
<1> QED
  BY <1>4, <1>5, <1>6, <1>7, <1>8, <1>9

(* A fallback takes away values and adds none. *)
LEMMA FallBackStep ==
    ASSUME IInv, NEW t \in Threads, NEW b \in Backends, FallBack(t, b)
    PROVE  IInv'
<1> USE DEF IInv
<1>1. /\ data' = [data EXCEPT ![t] = [k \in Keys |-> IF k \in KeysOf[b] THEN Missing ELSE @[k]]]
      /\ fellBack' = [fellBack EXCEPT ![t] = @ \cup {b}]
      /\ outage' = now
      /\ UNCHANGED <<field, stored, cache, pc, run, now, start>>
      /\ pc[t] = "fetch"
  BY DEF FallBack, external
<1>2. \A u \in Threads, k \in Keys : data'[u][k] \in {Missing, data[u][k]}
  BY <1>1 DEF TypeOK
<1>3. \A u \in Threads : u # t => data'[u] = data[u]
  BY <1>1 DEF TypeOK
<1>4. TypeOK'
  BY <1>1 DEF TypeOK
<1>5. FieldsFresh' /\ Timely' /\ CacheFresh'
  BY <1>1 DEF FieldsFresh, Timely, CacheFresh, Fresh
<1>6. NothingYet'
  BY <1>1, <1>3 DEF NothingYet
<1>7. CollectedFresh' /\ RepliesFresh'
  BY <1>1, <1>2, ConstantFacts DEF CollectedFresh, RepliesFresh, Fresh
<1>8. Refreshing'
  BY <1>1, <1>2, ConstantFacts DEF Refreshing
<1> QED
  BY <1>4, <1>5, <1>6, <1>7, <1>8

(* The merge changes no value; a client's body is about to be stored, the  *)
(* generator's about to be broadcast.                                      *)
LEMMA AggregateStep ==
    ASSUME IInv, NEW t \in Threads, Aggregate(t)
    PROVE  IInv'
<1> USE DEF IInv
<1>1. /\ pc[t] = "fetch"
      /\ pc' = [pc EXCEPT ![t] = IF MergeFails(t) THEN "failed"
                                 ELSE IF t = Generator THEN "reply" ELSE "store"]
      /\ fellBack' = [fellBack EXCEPT ![t] = {}]
      /\ UNCHANGED <<field, stored, outage, cache, data, run, now, start>>
  BY DEF Aggregate, AggregateTo, Goto, external
<1>2. TypeOK'
  BY <1>1 DEF TypeOK
<1>3. FieldsFresh' /\ Timely' /\ NothingYet' /\ CacheFresh'
  BY <1>1 DEF FieldsFresh, Timely, NothingYet, CacheFresh, Fresh, TypeOK
<1>4. CollectedFresh' /\ RepliesFresh' /\ Refreshing'
  BY <1>1, ConstantFacts DEF CollectedFresh, RepliesFresh, Refreshing, Fresh, TypeOK
<1> QED
  BY <1>2, <1>3, <1>4

-----------------------------------------------------------------------------
(* The steps of the generator and of time *)

LEMMA GenerateStep ==
    ASSUME IInv, Generate
    PROVE  IInv'
<1> USE DEF IInv
<1>1. TypeOK'
  BY ConstantFacts DEF Generate, Goto, TypeOK, Versions, external
<1>2. FieldsFresh'
  BY TypeFacts DEF Generate, FieldsFresh, external
<1>3. Timely'
  BY TypeFacts, ConstantFacts DEF Generate, Goto, Timely, TypeOK
<1>4. NothingYet' /\ CacheFresh'
  BY ConstantFacts DEF Generate, Goto, NothingYet, CacheFresh, Fresh, TypeOK, external
<1>5. CollectedFresh' /\ RepliesFresh' /\ Refreshing'
  BY ConstantFacts DEF Generate, Goto, CollectedFresh, RepliesFresh, Refreshing, Fresh, TypeOK, external
<1> QED
  BY <1>1, <1>2, <1>3, <1>4, <1>5

(* The new value of a field is the latest of all. *)
LEMMA ModifyStep ==
    ASSUME IInv, NEW f \in Fields, Modify(f)
    PROVE  IInv'
<1> USE DEF IInv
<1>1. /\ pc[Generator] = "modify"
      /\ field' = [field EXCEPT ![f] = run]
      /\ UNCHANGED <<stored, outage, cache, pc, fellBack, data, start, run, now>>
  BY DEF Modify, locals
<1>2. TypeOK'
  BY <1>1 DEF TypeOK
<1>3. FieldsFresh'
  BY <1>1, TypeFacts DEF FieldsFresh, TypeOK
<1>4. Timely' /\ NothingYet' /\ CacheFresh' /\ CollectedFresh' /\ RepliesFresh'
  BY <1>1 DEF Timely, NothingYet, CacheFresh, CollectedFresh, RepliesFresh, Fresh
<1>5. Refreshing'
  BY <1>1 DEF Refreshing
<1> QED
  BY <1>2, <1>3, <1>4, <1>5

(* A run whose values are all stored now was not stored before any time    *)
(* that lies behind.                                                       *)
LEMMA RefreshStep ==
    ASSUME IInv, Refresh
    PROVE  IInv'
<1> USE DEF IInv
<1>1. /\ pc[Generator] = "modify" /\ \A f \in Fields : field[f] = run
      /\ pc' = [pc EXCEPT ![Generator] = "fetch"]
      /\ stored' = [stored EXCEPT ![run] = now]
      /\ UNCHANGED <<field, outage, cache, fellBack, data, run, now, start>>
  BY DEF Refresh, Goto
<1>2. \A c \in Clients : pc'[c] = pc[c]
  BY <1>1, ConstantFacts DEF TypeOK
<1>3. run \in Versions /\ \A v \in Versions : stored'[v] = IF v = run THEN now ELSE stored[v]
  BY <1>1 DEF TypeOK
<1>5. TypeOK'
  BY <1>1, ConstantFacts DEF TypeOK, Never
<1>6. FieldsFresh'
  BY <1>1, <1>3, TypeFacts DEF FieldsFresh
<1>7. Timely' /\ NothingYet'
  BY <1>1, TypeFacts, ConstantFacts DEF Timely, NothingYet, TypeOK
<1>8. CollectedFresh'
  <2> SUFFICES ASSUME NEW c \in Clients, pc[c] \in {"fetch", "store"}
               PROVE  Fresh(data[c], start[c])'
    BY <1>2 DEF CollectedFresh
  <2>1. Fresh(data[c], start[c]) /\ start[c] <= now /\ start[c] \in Int
    BY TypeFacts, ConstantFacts DEF CollectedFresh, Timely
  <2> QED
    BY <2>1, <1>3, <1>1, TypeFacts DEF Fresh
<1>9. CacheFresh'
  <2> SUFFICES ASSUME cache # NoEntry
               PROVE  Fresh(cache.data, cache.expires - TTL - MaxRun)'
    BY <1>1 DEF CacheFresh
  <2>1. cache.expires - TTL - MaxRun <= now /\ cache.expires \in Int
    BY TypeFacts, ConstantFacts DEF CacheFresh
  <2> QED
    BY <2>1, <1>3, <1>1, TypeFacts, ConstantFacts DEF CacheFresh, Fresh
<1>10. RepliesFresh'
  <2> SUFFICES ASSUME NEW c \in Clients, pc[c] = "reply"
               PROVE  Fresh(data[c], start[c] - TTL - MaxRun)'
    BY <1>2 DEF RepliesFresh
  <2>1. start[c] - TTL - MaxRun <= now /\ start[c] \in Int
    BY TypeFacts, ConstantFacts DEF Timely
  <2> QED
    BY <2>1, <1>3, <1>1, TypeFacts, ConstantFacts DEF RepliesFresh, Fresh
<1>11. Refreshing'
  <2>1. data'[Generator] = NoData
    BY <1>1, ConstantFacts DEF NothingYet
  <2> QED
    BY <2>1, <1>1 DEF Refreshing, NoData
<1> QED
  BY <1>5, <1>6, <1>7, <1>8, <1>9, <1>10, <1>11

(* Time passes only while every request has time left, and takes away an   *)
(* entry that has expired.                                                 *)
LEMMA TickStep ==
    ASSUME IInv, Tick
    PROVE  IInv'
<1> USE DEF IInv
<1>1. /\ now' = now + 1 /\ now < MaxTime
      /\ \A t \in Threads : pc[t] # "idle" => now - start[t] < MaxRun
      /\ cache' = IF cache # NoEntry /\ cache.expires <= now + 1 THEN NoEntry ELSE cache
      /\ UNCHANGED <<field, stored, outage, pc, fellBack, data, start, run>>
  BY DEF Tick, external, locals
<1>2. TypeOK'
  BY <1>1, ConstantFacts DEF TypeOK
<1>3. FieldsFresh' /\ Timely'
  BY <1>1, TypeFacts, ConstantFacts DEF FieldsFresh, Timely
<1>4. NothingYet' /\ CollectedFresh' /\ RepliesFresh' /\ Refreshing'
  BY <1>1 DEF NothingYet, CollectedFresh, RepliesFresh, Refreshing, Fresh
<1>5. CacheFresh'
  <2> SUFFICES ASSUME cache' # NoEntry
               PROVE  CacheFresh'
    BY DEF CacheFresh
  <2>1. cache' = cache /\ now + 1 < cache.expires
    BY <1>1, TypeFacts
  <2> QED
    BY <2>1, <1>1, TypeFacts, ConstantFacts DEF CacheFresh, Fresh
<1> QED
  BY <1>2, <1>3, <1>4, <1>5

-----------------------------------------------------------------------------
LEMMA NextInvariant == IInv /\ [Next]_vars => IInv'
<1> SUFFICES ASSUME IInv, [Next]_vars PROVE IInv'
  OBVIOUS
<1>1. ASSUME NEW c \in Clients, Request(c) \/ Serve(c) PROVE IInv'
  <2>1. CASE Request(c)
    BY <2>1, RequestStep
  <2>2. CASE Lookup(c)
    BY <2>2, LookupStep
  <2>3. CASE Store(c)
    BY <2>3, StoreStep
  <2>4. CASE Answer(c)
    BY <2>4, ReturnStep, ConstantFacts DEF Answer
  <2> QED
    BY <1>1, <2>1, <2>2, <2>3, <2>4 DEF Serve
<1>2. ASSUME NEW t \in Threads, NEW b \in Backends, ReadKey(t, b) \/ FallBack(t, b) PROVE IInv'
  BY <1>2, ReadKeyStep, FallBackStep
<1>3. ASSUME NEW t \in Threads, Aggregate(t) PROVE IInv'
  BY <1>3, AggregateStep
<1>4. ASSUME Generate PROVE IInv'
  BY <1>4, GenerateStep
<1>5. ASSUME NEW f \in Fields, Modify(f) PROVE IInv'
  BY <1>5, ModifyStep
<1>6. ASSUME Refresh PROVE IInv'
  BY <1>6, RefreshStep
<1>7. ASSUME EndRun PROVE IInv'
  BY <1>7, ReturnStep, ConstantFacts DEF EndRun
<1>8. ASSUME Tick PROVE IInv'
  BY <1>8, TickStep
<1>9. ASSUME UNCHANGED vars PROVE IInv'
  BY <1>9 DEF vars, IInv, TypeOK, FieldsFresh, Timely, NothingYet, CollectedFresh, CacheFresh,
              RepliesFresh, Refreshing, Fresh
<1> QED
  BY <1>1, <1>2, <1>3, <1>4, <1>5, <1>6, <1>7, <1>8, <1>9 DEF Next

LEMMA Invariance == Spec => []IInv
  BY InitInvariant, NextInvariant, PTL DEF Spec

-----------------------------------------------------------------------------
(* Outages: what a body lacks, a call that fell back not long ago took     *)
(* from it.                                                                *)

Whole(d, limit) == \A k \in Keys : d[k] = Missing => outage >= 0 /\ outage >= limit

OutageInv ==
    /\ outage <= now
    /\ \A c \in Clients : pc[c] \in {"idle", "lookup"} => fellBack[c] = {}
    /\ \A c \in Clients : pc[c] = "fetch" /\ fellBack[c] # {} => outage >= start[c]
    /\ \A c \in Clients : pc[c] = "store" => Whole(data[c], start[c])
    /\ cache # NoEntry => Whole(cache.data, cache.expires - TTL - MaxRun)
    /\ \A c \in Clients : pc[c] = "reply" => Whole(data[c], start[c] - TTL - MaxRun)

LEMMA OutageFacts ==
    ASSUME TypeOK
    PROVE  /\ outage \in Int
           /\ \A t \in Threads : start[t] \in Int /\ start[t] >= 0
  BY ConstantFacts DEF TypeOK

(* Each step keeps it, given what holds of times and of the cache. *)
LEMMA OutageStep == IInv /\ OutageInv /\ [Next]_vars => OutageInv'
<1> SUFFICES ASSUME IInv, OutageInv, [Next]_vars PROVE OutageInv'
  OBVIOUS
<1> USE ConstantFacts, TypeFacts, OutageFacts DEF IInv, Goto
<1>1. ASSUME NEW c \in Clients, Request(c) PROVE OutageInv'
  BY <1>1 DEF Request, OutageInv, Whole, TypeOK, external
<1>2. ASSUME NEW c \in Clients, Lookup(c) PROVE OutageInv'
  <2>1. \A d \in Clients : pc'[d] = "reply" => Whole(data[d], start[d] - TTL - MaxRun)'
    <3> SUFFICES ASSUME NEW d \in Clients, pc'[d] = "reply"
                 PROVE  Whole(data[d], start[d] - TTL - MaxRun)'
      OBVIOUS
    <3>1. CASE d = c
      <4>1. cache # NoEntry /\ data'[d] = cache.data /\ UNCHANGED <<outage, start>>
        BY <1>2, <3>1 DEF Lookup, TypeOK, external
      <4>2. start[d] - TTL - MaxRun <= cache.expires - TTL - MaxRun
        BY <4>1 DEF Timely, CacheFresh
      <4> QED
        BY <4>1, <4>2 DEF OutageInv, Whole
    <3>2. CASE d # c
      BY <1>2, <3>2 DEF Lookup, OutageInv, Whole, TypeOK, external
    <3> QED
      BY <3>1, <3>2
  <2> QED
    BY <1>2, <2>1 DEF Lookup, OutageInv, Whole, TypeOK, external
<1>3. ASSUME NEW c \in Clients, Store(c) PROVE OutageInv'
  <2>1. Whole(data[c], start[c]) /\ now <= start[c] + MaxRun
    BY <1>3 DEF Store, StoreUntil, OutageInv, Timely
  <2>2. /\ pc' = [pc EXCEPT ![c] = "reply"]
        /\ UNCHANGED <<field, stored, outage, fellBack, data, run, now, start>>
    BY <1>3 DEF Store, StoreUntil, external
  <2>3. cache' # NoEntry => Whole(cache.data, cache.expires - TTL - MaxRun)'
    <3>1. CASE cache' = [data |-> data[c], expires |-> now + TTL]
      <4>1. cache'.data = data[c] /\ cache'.expires = now + TTL
        BY <3>1
      <4>2. cache'.expires - TTL - MaxRun <= start[c] /\ cache'.expires \in Int
        BY <2>1, <4>1
      <4> QED
        BY <2>1, <2>2, <4>1, <4>2 DEF Whole
    <3>2. CASE UNCHANGED cache
      BY <2>2, <3>2 DEF OutageInv, Whole
    <3> QED
      BY <1>3, <3>1, <3>2 DEF Store, StoreUntil
  <2>4. \A d \in Clients : pc'[d] = "reply" => Whole(data[d], start[d] - TTL - MaxRun)'
    BY <2>1, <2>2 DEF OutageInv, Whole, TypeOK
  <2> QED
    BY <2>2, <2>3, <2>4 DEF OutageInv, Whole, TypeOK
<1>4. ASSUME NEW t \in Threads, Return(t), UNCHANGED <<external, cache, run, now>> PROVE OutageInv'
  BY <1>4 DEF Return, OutageInv, Whole, TypeOK, external
<1>5. ASSUME NEW t \in Threads, NEW b \in Backends, ReadKey(t, b) PROVE OutageInv'
  BY <1>5 DEF ReadKey, OutageInv, Whole, TypeOK, external
<1>6. ASSUME NEW t \in Threads, NEW b \in Backends, FallBack(t, b) PROVE OutageInv'
  <2>1. /\ pc[t] = "fetch" /\ outage' = now
        /\ fellBack' = [fellBack EXCEPT ![t] = @ \cup {b}]
        /\ \A d \in Clients : d # t => data'[d] = data[d]
        /\ UNCHANGED <<cache, pc, run, now, start>>
    BY <1>6 DEF FallBack, TypeOK
  <2>2. now >= outage /\ \A d \in Clients : now >= start[d]
    BY DEF OutageInv, Timely
  <2>3. \A d \in Clients : pc'[d] \in {"idle", "lookup"} => fellBack'[d] = {}
    BY <2>1 DEF OutageInv, TypeOK
  <2> QED
    BY <2>1, <2>2, <2>3 DEF OutageInv, Whole
<1>7. ASSUME NEW t \in Threads, Aggregate(t) PROVE OutageInv'
  <2>1. /\ pc[t] = "fetch"
        /\ pc' = [pc EXCEPT ![t] = IF MergeFails(t) THEN "failed"
                                   ELSE IF t = Generator THEN "reply" ELSE "store"]
        /\ fellBack' = [fellBack EXCEPT ![t] = {}]
        /\ UNCHANGED <<outage, cache, data, now, start>>
    BY <1>7 DEF Aggregate, AggregateTo, external
  <2>2. t \in Clients => Whole(data[t], start[t])
    <3> SUFFICES ASSUME t \in Clients, NEW k \in Keys, data[t][k] = Missing
                 PROVE  outage >= 0 /\ outage >= start[t]
      BY DEF Whole
    <3>1. PICK b \in Backends : k \in KeysOf[b]
      BY DEF Keys
    <3>2. b \in fellBack[t]
      BY <1>7, <3>1 DEF Aggregate, AggregateTo, Answered
    <3> QED
      BY <2>1, <3>2 DEF OutageInv
  <2> QED
    BY <2>1, <2>2 DEF OutageInv, Whole, TypeOK
<1>8. ASSUME Generate \/ (\E f \in Fields : Modify(f)) \/ Refresh PROVE OutageInv'
  <2>1. /\ UNCHANGED <<outage, cache, fellBack, data, now>>
        /\ \A c \in Clients : pc'[c] = pc[c] /\ start'[c] = start[c]
    BY <1>8 DEF Generate, Modify, Refresh, TypeOK, external, locals
  <2> QED
    BY <2>1 DEF OutageInv, Whole
<1>9. ASSUME Tick PROVE OutageInv'
  <2>1. /\ UNCHANGED <<outage, pc, fellBack, data, start>>
        /\ now' = now + 1
        /\ cache' # NoEntry => cache' = cache
    BY <1>9 DEF Tick, external, locals
  <2> QED
    BY <2>1 DEF OutageInv, Whole
<1>10. ASSUME UNCHANGED vars PROVE OutageInv'
  BY <1>10 DEF vars, OutageInv, Whole
<1> QED
  BY <1>1, <1>2, <1>3, <1>4, <1>5, <1>6, <1>7, <1>8, <1>9, <1>10
     DEF Next, Serve, Answer, EndRun

-----------------------------------------------------------------------------
(* The types hold in every reachable state; in particular an entry is      *)
(* stored for TTL at most and is gone when that has passed.                *)
THEOREM TypeCorrect == Spec => []TypeOK
<1>1. IInv => TypeOK
  BY DEF IInv
<1> QED
  BY Invariance, <1>1, PTL

(* A response carries no value that had been replaced for longer than the  *)
(* life of an entry and one request, for any number of overlapping         *)
(* requests and whichever of them find Redis or a backend failing.         *)
THEOREM StalenessBounded == Spec => []BoundedStaleness
<1>1. IInv => BoundedStaleness
  <2> SUFFICES ASSUME IInv, NEW c \in Clients, pc[c] = "reply",
                      NEW k \in Keys, NEW v \in Versions,
                      data[c][k] # Missing, stored[v] + TTL + MaxRun < start[c]
               PROVE  data[c][k] >= v
    BY DEF BoundedStaleness
  <2>1. stored[v] < start[c] - TTL - MaxRun
    BY TypeFacts, ConstantFacts DEF IInv
  <2> QED
    BY <2>1 DEF IInv, RepliesFresh, Fresh
<1> QED
  BY Invariance, <1>1, PTL

(* The refresh a generator run broadcasts shows that run's values.         *)
THEOREM RefreshCurrent == Spec => []RefreshCarriesUpdate
<1>1. IInv => RefreshCarriesUpdate
  BY DEF IInv, Refreshing, RefreshCarriesUpdate
<1> QED
  BY Invariance, <1>1, PTL

(* A response lacks a key only if some call has fallen back within the     *)
(* life of an entry and one request before it, for any backends.           *)
THEOREM OutagesPass == Spec => []OutagesForgotten
<1>1. Init => OutageInv
  BY ConstantFacts DEF Init, OutageInv
<1>2. IInv /\ OutageInv => OutagesForgotten
  <2> SUFFICES ASSUME IInv, OutageInv, NEW c \in Clients, pc[c] = "reply",
                      NEW k \in Keys, data[c][k] = Missing
               PROVE  outage >= 0 /\ outage + TTL + MaxRun >= start[c]
    BY DEF OutagesForgotten
  <2>1. outage >= 0 /\ outage >= start[c] - TTL - MaxRun
    BY DEF OutageInv, Whole
  <2> QED
    BY <2>1, ConstantFacts, OutageFacts DEF IInv
<1> QED
  BY Invariance, OutageStep, <1>1, <1>2, PTL DEF Spec
=============================================================================
