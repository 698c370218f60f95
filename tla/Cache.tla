------------------------------- MODULE Cache -------------------------------
(***************************************************************************)
(* The cache of query results in Redis (lib/cache.js) and those who use    *)
(* it: searches of the marketplace, the dashboard, feature flags, the      *)
(* writers that invalidate keys, the store of the rate limiters, and the   *)
(* pages of the administrators, which talk to the client themselves.       *)
(*                                                                         *)
(* What a query returns is the number of writes it sees: a result that     *)
(* takes several queries is as old as the first of them, and the dashboard *)
(* asks a replica, which may lag behind (db/prisma-reader.js).  A command  *)
(* goes to a client that may be silent: its socket is dead and nobody      *)
(* knows.  Then only the deadline of the command ends the wait, if it has  *)
(* one, and the command itself may still be executed later.                *)
(***************************************************************************)
EXTENDS Naturals, FiniteSets

CONSTANTS
    Clients,     \* requests being served at once
    Keys,        \* kinds of keys: those that are cached
    MaxWrites,   \* bound on the writes
    MaxLate      \* bound on the late SETs on the wire at once

(* catalog:browse:..., shop:dashboard:..., flag:... and admin:autodukan_...*)
ASSUME CacheAssumption ==
    /\ Keys \subseteq {"browse", "dashboard", "flag", "admin"}
    /\ MaxWrites \in Nat /\ MaxLate \in Nat

VARIABLES
    data,    \* what the database would answer
    replica, \* what its replica would
    entry,   \* what Redis keeps for each key, Absent if nothing
    late,    \* SETs whose deadline has passed, still on the wire
    redis,   \* the client: ready, silent, or given up for good
    req      \* the requests being served

vars == <<data, replica, entry, late, redis, req>>
store == <<data, replica, entry, late, redis>>

Absent == 0

Idle == [op |-> "idle"]
Continue(c, q) == req' = [req EXCEPT ![c] = q]
Begin(c, q) == req[c] = Idle /\ Continue(c, q)
End(c) == Continue(c, Idle)

-----------------------------------------------------------------------------
(* getOrSet: a client that was given up is not asked.  The staged parts of *)
(* an administrator (GET /autodukan/stats, GET /autodukan/parts) are read  *)
(* alike, but where the client was given up they are an error at once.     *)
BeginRead(c) ==
    \E k \in Keys :
        /\ k = "admin" => redis # "failed"
        /\ Begin(c, [op |-> IF redis = "failed" THEN "compute" ELSE "get", key |-> k])
        /\ UNCHANGED store

Hit(c) ==
    /\ req[c].op = "get" /\ redis = "ready"
    /\ entry[req[c].key] # Absent
    /\ End(c)
    /\ UNCHANGED store

Miss(c) ==
    /\ req[c].op = "get" /\ redis = "ready"
    /\ entry[req[c].key] = Absent
    /\ Continue(c, [req[c] EXCEPT !.op = "compute"])
    /\ UNCHANGED store

(* What is seen of the writes for a key that was not cached.               *)
Queried(k) == IF k = "dashboard" THEN replica ELSE data

(* The queries may fail.                                                   *)
Compute(c) ==
    /\ req[c].op = "compute"
    /\ \/ Continue(c, [op |-> "set", key |-> req[c].key, value |-> Queried(req[c].key)])
       \/ End(c)
    /\ UNCHANGED store

Store(c) ==
    /\ req[c].op = "set" /\ redis = "ready"
    /\ entry' = [entry EXCEPT ![req[c].key] = req[c].value]
    /\ End(c)
    /\ UNCHANGED <<data, replica, late, redis>>

-----------------------------------------------------------------------------
(* An order of the marketplace invalidates what was browsed; a write to    *)
(* the inventory invalidates "shop:inventory:summary:", which no key       *)
(* begins with; nobody invalidates a flag.                                 *)
Patterns == {"browse", "summary"}
Matching(pattern) == IF pattern = "browse" THEN {"browse"} \cap Keys ELSE {}

Write(c) ==
    \E pattern \in Patterns :
        /\ data <= MaxWrites
        /\ data' = data + 1
        /\ Begin(c, IF redis = "failed" THEN Idle ELSE [op |-> "scan", pattern |-> pattern])
        /\ UNCHANGED <<replica, entry, late, redis>>

SetFlag ==
    /\ data <= MaxWrites
    /\ data' = data + 1
    /\ UNCHANGED <<replica, entry, late, redis, req>>

(* invalidatePattern: SCAN returns the keys, DEL deletes them.             *)
Scan(c) ==
    LET found == {k \in Matching(req[c].pattern) : entry[k] # Absent} IN
    /\ req[c].op = "scan" /\ redis = "ready"
    /\ IF found = {} THEN End(c) ELSE Continue(c, [op |-> "del", keys |-> found])
    /\ UNCHANGED store

Delete(c) ==
    /\ req[c].op = "del" /\ redis = "ready"
    /\ entry' = [k \in Keys |-> IF k \in req[c].keys THEN Absent ELSE entry[k]]
    /\ End(c)
    /\ UNCHANGED <<data, replica, late, redis>>

(* A rate limiter counts in Redis before the handler runs.  Its store was  *)
(* made when the program was loaded: it asks a client that was given up.   *)
BeginLimited(c) ==
    /\ Begin(c, [op |-> "limit"])
    /\ UNCHANGED store

(* GET /system-metrics: INFO, KEYS and a GET for each key that they return.*)
BeginMetrics(c) ==
    /\ redis # "failed"
    /\ Begin(c, [op |-> "metrics"])
    /\ UNCHANGED store

Replied(c) ==
    /\ req[c].op \in {"limit", "metrics"} /\ redis = "ready"
    /\ End(c)
    /\ UNCHANGED store

-----------------------------------------------------------------------------
(* withRedisTimeout: a command races a timer.  A reader then asks the      *)
(* database; whoever stored or invalidated goes on without; a limiter      *)
(* hands the error on, which answers the request.  The commands of the     *)
(* administrators' pages race nothing.                                     *)
Asking == {"get", "set", "scan", "del", "limit", "metrics"}
Guarded(q) == q.op # "metrics" /\ (q.op \in {"get", "compute", "set"} => q.key # "admin")
Deadline_KnownDead(c) == req[c].op \in Asking /\ Guarded(req[c]) /\ redis = "failed"
Deadline(c) == req[c].op \in Asking /\ Guarded(req[c])

GiveUpWaiting(c) ==
    /\ Deadline(c)
    /\ IF req[c].op = "get"
       THEN Continue(c, [req[c] EXCEPT !.op = "compute"]) /\ UNCHANGED late
       ELSE /\ End(c)
            /\ \/ UNCHANGED late
               \/ /\ req[c].op = "set" /\ redis # "failed"
                  /\ Cardinality(late) < MaxLate
                  /\ late' = late \cup {[key |-> req[c].key, value |-> req[c].value]}
    /\ UNCHANGED <<data, replica, entry, redis>>

(* A client that is given up rejects what it was asked: the page is an     *)
(* error.                                                                  *)
Reject(c) ==
    /\ req[c].op \in Asking /\ ~Guarded(req[c]) /\ redis = "failed"
    /\ End(c)
    /\ UNCHANGED store

(* The SET of a reader that went on is executed after all, or its socket   *)
(* is closed.                                                              *)
LateSet ==
    \E s \in late :
        /\ late' = late \ {s}
        /\ entry' = IF redis = "ready" THEN [entry EXCEPT ![s.key] = s.value] ELSE entry
        /\ UNCHANGED <<data, replica, redis, req>>

(* Every key is set with an expiry.                                        *)
Expiring_NotInvalidated == Keys \ {"browse"}
Expiring == Keys
Expire(k) ==
    /\ k \in Expiring
    /\ entry[k] # Absent
    /\ entry' = [entry EXCEPT ![k] = Absent]
    /\ UNCHANGED <<data, replica, late, redis, req>>

(* The replica receives some of the writes that it misses.                 *)
Replicate ==
    /\ replica' \in (replica + 1) .. data
    /\ UNCHANGED <<data, entry, late, redis, req>>

(* The connection dies unnoticed, comes back, or is tried three times in   *)
(* vain: then the process never connects again.                            *)
ConnectionChanges ==
    /\ redis # "failed"
    /\ redis' \in {"ready", "silent", "failed"}
    /\ UNCHANGED <<data, replica, entry, late, req>>

-----------------------------------------------------------------------------
Init ==
    /\ data = 1
    /\ replica = 1
    /\ entry = [k \in Keys |-> Absent]
    /\ late = {}
    /\ redis = "ready"
    /\ req = [c \in Clients |-> Idle]

Next ==
    \/ \E c \in Clients :
        \/ BeginRead(c) \/ Hit(c) \/ Miss(c) \/ Compute(c) \/ Store(c)
        \/ Write(c) \/ Scan(c) \/ Delete(c)
        \/ BeginLimited(c) \/ BeginMetrics(c) \/ Replied(c)
        \/ GiveUpWaiting(c) \/ Reject(c)
    \/ SetFlag
    \/ LateSet
    \/ \E k \in Keys : Expire(k)
    \/ Replicate
    \/ ConnectionChanges

(* Timers fire, queries end, keys expire and the replica receives what was *)
(* written.  Nothing is asked of Redis: it need not reply.                 *)
Fairness ==
    /\ \A c \in Clients :
        WF_vars(GiveUpWaiting(c)) /\ WF_vars(Compute(c)) /\ WF_vars(Reject(c))
    /\ \A k \in Keys : WF_vars(Expire(k))
    /\ WF_vars(Replicate)

Spec == Init /\ [][Next]_vars /\ Fairness

TypeOK ==
    /\ data \in Nat
    /\ replica \in 1 .. data
    /\ entry \in [Keys -> 0 .. data]
    /\ late \subseteq [key : Keys, value : Nat]
    /\ redis \in {"ready", "silent", "failed"}
    /\ req \in [Clients ->
         {Idle} \cup [op : {"get", "compute"}, key : Keys]
         \cup [op : {"set"}, key : Keys, value : Nat]
         \cup [op : {"scan"}, pattern : Patterns]
         \cup [op : {"del"}, keys : SUBSET Keys \ {{}}]
         \cup [op : {"limit", "metrics"}]]

(* A dead connection hangs nobody whose commands have a deadline: their    *)
(* requests are answered, though Redis never replies.                      *)
EveryoneAnswered == \A c \in Clients : req[c] # Idle /\ Guarded(req[c]) ~> req[c] = Idle

(* "Every command call MUST race against a manual deadline so a dead       *)
(* connection degrades ... instead of hanging the caller": false of the    *)
(* administrators' pages.                                                  *)
NobodyHangs == \A c \in Clients : req[c] # Idle ~> req[c] = Idle

(* A value computed before a write and stored after the invalidation, or   *)
(* from a replica that had not seen the write, stays only until it         *)
(* expires: when the writes end, so do the stale values.                   *)
Fresh == \A k \in Keys : entry[k] \in {Absent, data}
FreshInTheEnd == <>[]Fresh
=============================================================================
