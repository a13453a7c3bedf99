----------------------------- MODULE Aggregator -----------------------------
(***************************************************************************)
(* The aggregation service: GET /api/aggregated served from a Redis cache  *)
(* or by asking the backends in parallel (AggregatorRoute), the backends'  *)
(* data (ExternalApiService), the cache (CacheService), the merge of the   *)
(* answers (MapAggregationStrategy) and the scheduled refresh              *)
(* (DataGeneratorService).                                                 *)
(*                                                                         *)
(* A value is represented by its version: the number of the generator run  *)
(* that wrote it.  The fields of ExternalApiService are plain Java fields  *)
(* without synchronisation, so a thread's accesses to them may take effect *)
(* in any order.  Redis and the circuit breakers are external: Redis may   *)
(* be unreachable for any call, and a backend's call may fall back at any  *)
(* time (a timeout, an error or an open breaker).                          *)
(***************************************************************************)
EXTENDS Integers, Sequences, Functions

CONSTANTS
    Clients,     \* HTTP request threads
    Generator,   \* the scheduler thread running generateData
    Recipients,  \* the backends in the order of application.yml
    TTL,         \* life of a cache entry
    MaxRun,      \* bound: how long a request or a refresh takes
    MaxVersion,  \* bound: generator runs
    MaxTime,     \* bound: time
    Missing,     \* value of a key the response does not carry
    NoEntry      \* the cache holds nothing

Backends == Range(Recipients)
Fields   == {"name", "status", "stock", "amount"}
Threads  == Clients \cup {Generator}
Versions == 0..MaxVersion

ASSUME AggregatorAssumption ==
    /\ Generator \notin Clients
    /\ {TTL, MaxRun, MaxVersion, MaxTime} \subseteq Nat
    /\ Missing \notin Int
    /\ Recipients \in Seq({"user", "order", "inventory"}) /\ Recipients # <<>>

(* The keys each backend contributes and the field each is read from.      *)
(* getUserData reads name twice, once for each of its keys.                *)
KeysOf  == [user |-> {"name", "email"}, order |-> {"amount", "status"},
            inventory |-> {"stockCount"}]
Keys    == UNION {KeysOf[b] : b \in Backends}
FieldOf == [name |-> "name", email |-> "name", amount |-> "amount",
            status |-> "status", stockCount |-> "stock"]
NoData  == [k \in Keys |-> Missing]

VARIABLES
    field,    \* ExternalApiService: field -> version it holds
    cache,    \* the entry 'aggregated_data': [data, expires] or NoEntry
    pc,       \* thread -> where it is
    fellBack, \* thread -> the backends whose call fell back
    data,     \* thread -> the body it has collected or is about to return
    run,      \* generator runs begun
    now,      \* time
    start,    \* thread -> when its request or refresh began
    stored,   \* history: generator run -> when its values were all stored, or Never
    outage    \* history: when a call last fell back, -1 if none has

external == <<field, stored, outage>>
locals   == <<pc, fellBack, data, start>>
vars     == <<field, cache, pc, fellBack, data, run, now, start, stored, outage>>

Never == MaxTime + 1

TypeOK ==
    /\ field \in [Fields -> Versions]
    /\ cache = NoEntry \/ cache \in [data : [Keys -> Versions \cup {Missing}],
                                     expires : now..(now + TTL)]
    /\ pc \in [Threads -> {"idle", "lookup", "modify", "fetch", "store", "reply", "failed"}]
    /\ fellBack \in [Threads -> SUBSET Backends]
    /\ data \in [Threads -> [Keys -> Versions \cup {Missing}]]
    /\ run \in Versions
    /\ now \in 0..MaxTime
    /\ start \in [Threads -> 0..MaxTime]
    /\ stored \in [Versions -> 0..Never]
    /\ outage \in -1..MaxTime

Init ==
    /\ field = [f \in Fields |-> 0]
    /\ cache = NoEntry
    /\ pc = [t \in Threads |-> "idle"]
    /\ fellBack = [t \in Threads |-> {}]
    /\ data = [t \in Threads |-> NoData]
    /\ run = 0
    /\ now = 0
    /\ start = [t \in Threads |-> 0]
    /\ stored = [v \in Versions |-> IF v = 0 THEN 0 ELSE Never]
    /\ outage = -1

Goto(t, l) == pc' = [pc EXCEPT ![t] = l]

(* Faulty: the body of one request is kept for the thread's next one. *)
ReturnKeeping(t) == /\ Goto(t, "idle")
                    /\ fellBack' = [fellBack EXCEPT ![t] = {}]
                    /\ start' = [start EXCEPT ![t] = 0]
                    /\ UNCHANGED data

(* The thread is done: its locals go. *)
Return(t) == /\ Goto(t, "idle")
             /\ fellBack' = [fellBack EXCEPT ![t] = {}]
             /\ data' = [data EXCEPT ![t] = NoData]
             /\ start' = [start EXCEPT ![t] = 0]

-----------------------------------------------------------------------------
(* GET /api/aggregated: direct:check-cache *)

Request(c) ==
    /\ pc[c] = "idle"
    /\ Goto(c, "lookup")
    /\ start' = [start EXCEPT ![c] = now]
    /\ UNCHANGED <<external, cache, fellBack, data, run, now>>

(* cacheService.get: an expired entry is gone, and an unreachable Redis is *)
(* a miss.                                                                 *)
Lookup(c) ==
    /\ pc[c] = "lookup"
    /\ \/ /\ cache # NoEntry
          /\ Goto(c, "reply")
          /\ data' = [data EXCEPT ![c] = cache.data]
       \/ /\ Goto(c, "fetch")
          /\ UNCHANGED data
    /\ UNCHANGED <<external, cache, fellBack, run, now, start>>

StoreUntil(c, expiry) ==
    /\ pc[c] = "store"
    /\ \/ cache' = [data |-> data[c], expires |-> expiry]
       \/ UNCHANGED cache
    /\ Goto(c, "reply")
    /\ UNCHANGED <<external, fellBack, data, run, now, start>>

(* Faulty: the entry is written without its expiry. *)
StoreForever(c) == StoreUntil(c, MaxTime + TTL)

(* Faulty: the unit of the expiry mistaken, the entry lives too long. *)
StoreLonger(c) == StoreUntil(c, now + 2 * TTL)

(* cacheService.put: the exception of an unreachable Redis is swallowed.   *)
Store(c) == StoreUntil(c, now + TTL)

(* The response, or the error an uncaught exception becomes. *)
Answer(c) ==
    /\ pc[c] \in {"reply", "failed"}
    /\ Return(c)
    /\ UNCHANGED <<external, cache, run, now>>

-----------------------------------------------------------------------------
(* direct:aggregate-data: the recipients are asked in parallel. *)

(* A backend's bean puts one of its keys into the map it will answer.      *)
ReadKey(t, b) ==
    /\ pc[t] = "fetch"
    /\ b \notin fellBack[t]
    /\ \E k \in KeysOf[b] :
         /\ data[t][k] = Missing
         /\ data' = [data EXCEPT ![t][k] = field[FieldOf[k]]]
    /\ UNCHANGED <<external, cache, pc, fellBack, run, now, start>>

Answered(t, b) == b \in fellBack[t] \/ \A k \in KeysOf[b] : data[t][k] # Missing

(* Faulty: without a timeout a call ends only when the backend does. *)
FallBackNever(t, b) == FALSE /\ UNCHANGED vars

(* onFallback: whatever the call was doing, the answer is "unavailable".   *)
FallBack(t, b) ==
    /\ pc[t] = "fetch"
    /\ ~Answered(t, b)
    /\ fellBack' = [fellBack EXCEPT ![t] = @ \cup {b}]
    /\ data' = [data EXCEPT ![t] = [k \in Keys |-> IF k \in KeysOf[b] THEN Missing ELSE @[k]]]
    /\ outage' = now
    /\ UNCHANGED <<field, stored, cache, pc, run, now, start>>

(* MapAggregationStrategy puts the later answers, in the recipients'       *)
(* order, into the map that the first one brought.  The map of a fallback  *)
(* is Map.of(...), which cannot be modified: putAll throws.                *)
MergeFails(t) == Recipients[1] \in fellBack[t] /\ Len(Recipients) > 1

AggregateTo(t, next) ==
    /\ pc[t] = "fetch"
    /\ \A b \in Backends : Answered(t, b)
    /\ Goto(t, IF MergeFails(t) THEN "failed" ELSE next)
    /\ fellBack' = [fellBack EXCEPT ![t] = {}]
    /\ UNCHANGED <<external, cache, data, run, now, start>>

Aggregate(t) == AggregateTo(t, IF t = Generator THEN "reply" ELSE "store")

-----------------------------------------------------------------------------
(* generateData *)

(* Faulty: the refresh is sent before the new values are stored. *)
GenerateStale ==
    /\ pc[Generator] = "idle"
    /\ run < MaxVersion
    /\ run' = run + 1
    /\ start' = [start EXCEPT ![Generator] = now]
    /\ Goto(Generator, "fetch")
    /\ UNCHANGED <<external, cache, fellBack, data, now>>

Generate ==
    /\ pc[Generator] = "idle"
    /\ run < MaxVersion
    /\ run' = run + 1
    /\ start' = [start EXCEPT ![Generator] = now]
    /\ Goto(Generator, "modify")
    /\ UNCHANGED <<external, cache, fellBack, data, now>>

(* modifyName, modifyStatus, modifyStock, modifyAmount *)
Modify(f) ==
    /\ pc[Generator] = "modify"
    /\ field[f] # run
    /\ field' = [field EXCEPT ![f] = run]
    /\ UNCHANGED <<stored, outage, cache, locals, run, now>>

(* sendBody("direct:mock-kafka-events", "REFRESH"), synchronously. *)
Refresh ==
    /\ pc[Generator] = "modify"
    /\ \A f \in Fields : field[f] = run
    /\ Goto(Generator, "fetch")
    /\ stored' = [stored EXCEPT ![run] = now]
    /\ UNCHANGED <<field, outage, cache, fellBack, data, run, now, start>>

(* The wire tap hands the response to the broadcast and the run goes on to *)
(* create its order; if the aggregation threw, neither happens.            *)
EndRun ==
    /\ pc[Generator] \in {"reply", "failed"}
    /\ Return(Generator)
    /\ UNCHANGED <<external, cache, run, now>>

-----------------------------------------------------------------------------
(* Time. *)

(* MaxRun is how long a request or a refresh takes at most. *)
Tick ==
    /\ now < MaxTime
    /\ \A t \in Threads : pc[t] # "idle" => now - start[t] < MaxRun
    /\ now' = now + 1
    /\ cache' = IF cache # NoEntry /\ cache.expires <= now + 1 THEN NoEntry ELSE cache
    /\ UNCHANGED <<external, locals, run>>

-----------------------------------------------------------------------------
Serve(c) == Lookup(c) \/ Store(c) \/ Answer(c)

Next == \/ \E c \in Clients : Request(c) \/ Serve(c)
        \/ \E t \in Threads, b \in Backends : ReadKey(t, b) \/ FallBack(t, b)
        \/ \E t \in Threads : Aggregate(t)
        \/ Generate \/ (\E f \in Fields : Modify(f)) \/ Refresh \/ EndRun
        \/ Tick

Spec == Init /\ [][Next]_vars

(* Running threads keep running and a call that does not answer times out. *)
(* Nothing is assumed of the backends, of Redis or of time.                *)
Fairness == \A c \in Clients : /\ WF_vars(Serve(c))
                               /\ WF_vars(Aggregate(c))
                               /\ \A b \in Backends : WF_vars(FallBack(c, b))

FairSpec == Spec /\ Fairness

-----------------------------------------------------------------------------
(* Whether it comes from the cache or from the backends, and whatever      *)
(* overlapping requests wrote into the cache in whatever order, a response *)
(* carries no value that had been replaced for longer than the life of a   *)
(* cache entry and one request, counted back from its request.             *)
BoundedStaleness ==
    \A c \in Clients : pc[c] = "reply" =>
        \A k \in Keys, v \in Versions :
            /\ data[c][k] # Missing
            /\ stored[v] + TTL + MaxRun < start[c]
            => data[c][k] >= v

(* A response with a fallback in the place of a backend's values is cached *)
(* like any other.  It is forgotten as fast as old values are: a response  *)
(* lacks a key only if some call has fallen back within the life of a      *)
(* cache entry and one request before it.                                  *)
OutagesForgotten ==
    \A c \in Clients : pc[c] = "reply" =>
        \A k \in Keys : data[c][k] = Missing =>
            outage >= 0 /\ outage + TTL + MaxRun >= start[c]

(* The refresh a generator run broadcasts shows the values of that run:    *)
(* what the dashboards are sent is never older than the event they are     *)
(* sent for.                                                               *)
RefreshCarriesUpdate ==
    pc[Generator] = "reply" =>
        \A k \in Keys : data[Generator][k] # Missing => data[Generator][k] = run

(* Every request is answered, although backends may hang and Redis come    *)
(* and go.                                                                 *)
RequestsAnswered == \A c \in Clients : pc[c] = "lookup" ~> pc[c] = "idle"

-----------------------------------------------------------------------------
(* README.md:21 promises circuit breakers and timeout isolation: a backend *)
(* that falls back degrades the response and does not fail it.             *)
FallbacksAreIsolated == \A t \in Threads : pc[t] # "failed"
=============================================================================
