----------------------------- MODULE RedisStore -----------------------------
(***************************************************************************)
(* The Redis backend (stores/redis/src/redis.c), for one feature kind.     *)
(* Every operation borrows a connection from a bounded pool, talks to the  *)
(* server in several round trips and returns the connection.  storeUpsert  *)
(* is optimistic: WATCH, read, compare, MULTI, HSET, EXEC, and again when  *)
(* EXEC finds the hash changed.  A connection keeps its WATCH and MULTI    *)
(* state on the server for whoever borrows it next.                        *)
(***************************************************************************)
EXTENDS Naturals, Sequences, FiniteSets, SequencesExt

CONSTANTS
    Clients,        \* threads, of this process or another, in a store call
    Conns,          \* connections
    PoolSizes,      \* values of config->poolSize to consider
    Keys, Versions, NULL,
    Marks,          \* values of a feature's deleted mark to consider
    Faults          \* commands may be refused and connections lost

ASSUME PoolAssumption ==
    /\ PoolSizes \subseteq 1..Cardinality(Conns) /\ Versions \subseteq Nat
    /\ Marks \subseteq BOOLEAN /\ Faults \in BOOLEAN
    /\ IsFiniteSet(Clients) /\ IsFiniteSet(Conns) /\ NULL \notin Conns

Feature == [version : Versions, deleted : Marks]
Collection == [Keys -> Feature \cup {NULL}]

ASSUME NULLAssumption == NULL \notin Feature

NoCall == [call |-> "none"]

VARIABLES
    hash, inited,   \* the server: the kind's hash and the $inited key
    watching, dirty,    \* per connection: WATCH is on; the hash has changed
                        \* since
    multi,          \* per connection: MULTI is open: "no", "open", "aborted"
    broken,         \* connections whose redisContext.err is set
    poolSize,       \* config->poolSize
    free, count,    \* Context.connections and Context.count
    pc, op, conn,   \* per client: its place, its call and its connection
    result          \* per client: what the call is about to return

server == <<hash, inited>>
session == <<watching, dirty, multi, broken>>
pool == <<free, count>>
vars == <<server, session, poolSize, pool, pc, op, conn, result>>

Init ==
    /\ hash = [k \in Keys |-> NULL] /\ inited = FALSE
    /\ watching = [x \in Conns |-> FALSE]
    /\ dirty = [x \in Conns |-> FALSE]
    /\ multi = [x \in Conns |-> "no"] /\ broken = {}
    /\ poolSize \in PoolSizes
    /\ free = <<>> /\ count = 0
    /\ pc = [c \in Clients |-> "idle"]
    /\ op = [c \in Clients |-> NoCall]
    /\ conn = [c \in Clients |-> NULL]
    /\ result = [c \in Clients |-> "none"]

Goto(c, place) == pc' = [pc EXCEPT ![c] = place]

-----------------------------------------------------------------------------
(* The pool.                                                               *)

Calls ==
    [call : {"upsert"}, key : Keys, feature : Feature]
      \cup [call : {"init"}, sets : Collection]
      \cup [call : {"get"}, key : Keys] \cup [call : {"all", "initialized"}]

call(c, what) ==
    /\ pc[c] = "idle"
    /\ op' = [op EXCEPT ![c] = what]
    /\ Goto(c, "borrow")
    /\ UNCHANGED <<server, session, pool, conn, result>>

borrowExisting(c) ==
    /\ pc[c] = "borrow" /\ free # <<>>
    /\ conn' = [conn EXCEPT ![c] = Head(free)]
    /\ free' = Tail(free)
    /\ Goto(c, "begin")
    /\ UNCHANGED <<server, session, count, op, result>>

PoolHasRoom == count < poolSize

\* count is raised before the attempt, outside of which the lock is free.
borrowNew(c) ==
    /\ pc[c] = "borrow" /\ free = <<>> /\ PoolHasRoom
    /\ count' = count + 1
    /\ Goto(c, "connect")
    /\ UNCHANGED <<server, session, free, op, conn, result>>

InUse == Range(free) \cup {conn[c] : c \in Clients}

\* A fresh connection; which of the unused ones stands for it is all the same.
connect(c) ==
    /\ pc[c] = "connect" /\ Conns \ InUse # {}
    /\ conn' = [conn EXCEPT ![c] = CHOOSE x \in Conns : x \notin InUse]
    /\ Goto(c, "begin")
    /\ UNCHANGED <<server, session, pool, op, result>>

\* Fault: a connection that never was is still counted.
connectFailsStillCounted(c) ==
    /\ pc[c] = "connect"
    /\ op' = [op EXCEPT ![c] = NoCall]
    /\ Goto(c, "idle")
    /\ UNCHANGED <<server, session, pool, conn, result>>

\* No connection: count is lowered, nobody is signalled and the call fails.
connectFails(c) ==
    /\ pc[c] = "connect"
    /\ count' = count - 1
    /\ op' = [op EXCEPT ![c] = NoCall]
    /\ Goto(c, "idle")
    /\ UNCHANGED <<server, session, free, conn, result>>

condWait(c) ==
    /\ pc[c] = "borrow" /\ free = <<>> /\ ~PoolHasRoom
    /\ Goto(c, "waiting")
    /\ UNCHANGED <<server, session, pool, op, conn, result>>

\* Fault: the wait has no time limit.
waitForever(c) == FALSE /\ UNCHANGED vars

\* LDi_cond_wait gives up after ten seconds, and the loop looks again.
waitTimesOut(c) ==
    /\ pc[c] = "waiting"
    /\ Goto(c, "borrow")
    /\ UNCHANGED <<server, session, pool, op, conn, result>>

\* LDi_cond_signal is a broadcast: every waiting thread looks again.
Signalled(places) ==
    [w \in Clients |-> IF places[w] = "waiting" THEN "borrow" ELSE places[w]]

\* Fault: a connection that failed is dropped but still counted.
CountAfterDrop == count

CountAfterDropped == count - 1

\* redisFree: the server forgets the connection.
Forgotten(x) ==
    /\ watching' = [watching EXCEPT ![x] = FALSE]
    /\ dirty' = [dirty EXCEPT ![x] = FALSE]
    /\ multi' = [multi EXCEPT ![x] = "no"]
    /\ broken' = broken \ {x}

\* returnConnection: keep the connection, or drop one that broke; the call
\* returns.
returnConnection(c) ==
    /\ pc[c] = "return"
    /\ IF conn[c] \in broken
         THEN count' = CountAfterDropped /\ Forgotten(conn[c]) /\ UNCHANGED free
         ELSE free' = <<conn[c]>> \o free /\ UNCHANGED <<count, session>>
    /\ conn' = [conn EXCEPT ![c] = NULL]
    /\ op' = [op EXCEPT ![c] = NoCall]
    /\ result' = [result EXCEPT ![c] = "none"]
    /\ pc' = Signalled([pc EXCEPT ![c] = "idle"])
    /\ UNCHANGED server

-----------------------------------------------------------------------------
(* The server's side of a connection.                                      *)

Mine(c) == conn[c]

\* The hash is written, whatever its value: every other connection that
\* watches it is dirty.  (DEL of a hash that is not there writes nothing.)
HashBecomes(new, x) ==
    LET written == \E k \in Keys : {hash[k], new[k]} # {NULL}
    IN  /\ hash' = new
        /\ dirty' = [y \in Conns |->
                       y # x /\ (dirty[y] \/ (watching[y] /\ written))]

\* EXEC ends the transaction and the WATCH.
TransactionEnds(x) ==
    /\ multi' = [multi EXCEPT ![x] = "no"]
    /\ watching' = [watching EXCEPT ![x] = FALSE]

Return(c, value) ==
    /\ result' = [result EXCEPT ![c] = value]
    /\ Goto(c, "return")

\* What a call returns for a reply it did not expect.
OnBadReply(c) == IF op[c].call = "initialized" THEN "yes" ELSE "failed"

\* The server answers with an error.  Inside MULTI that spoils the
\* transaction and leaves it open.
commandRefused(c) ==
    /\ Faults
    /\ pc[c] \in {"begin", "read", "multi", "queue"}
    /\ multi' = [multi EXCEPT ![Mine(c)] = IF @ = "open" THEN "aborted" ELSE @]
    /\ Return(c, OnBadReply(c))
    /\ UNCHANGED <<server, watching, dirty, broken, pool, op, conn>>

\* EXEC itself is refused, which ends the transaction.
execRefused(c) ==
    /\ Faults
    /\ pc[c] = "exec"
    /\ TransactionEnds(Mine(c))
    /\ dirty' = [dirty EXCEPT ![Mine(c)] = FALSE]
    /\ Return(c, "failed")
    /\ UNCHANGED <<server, broken, pool, op, conn>>

\* The connection breaks before the server has the command: a NULL reply,
\* which storeAll dereferences.
connectionLost(c) ==
    /\ Faults
    /\ pc[c] \in {"begin", "read", "multi", "queue", "exec"}
    /\ broken' = broken \cup {Mine(c)}
    /\ IF op[c].call = "all" THEN Goto(c, "crashed") /\ UNCHANGED result
                             ELSE Return(c, OnBadReply(c))
    /\ UNCHANGED <<server, watching, dirty, multi, pool, op, conn>>

\* A command met an open MULTI that an earlier borrower left: the reply is
\* an error or QUEUED, never what was expected.
meetsOpenMulti(c) ==
    /\ pc[c] = "begin" /\ multi[Mine(c)] # "no"
    /\ Return(c, OnBadReply(c))
    /\ UNCHANGED <<server, session, pool, op, conn>>

Begins(c, what) == pc[c] = "begin" /\ op[c].call = what /\ multi[Mine(c)] = "no"

-----------------------------------------------------------------------------
(* storeUpsertInternal.                                                    *)

watch(c) ==
    /\ Begins(c, "upsert")
    /\ watching' = [watching EXCEPT ![Mine(c)] = TRUE]
    /\ Goto(c, "read")
    /\ UNCHANGED <<server, dirty, multi, broken, pool, op, conn, result>>

\* Fault: versions are not compared.
ExistsNewerNever(existing, feature) == FALSE

\* A tombstone counts as no feature at all.
ExistsNewer(existing, feature) ==
    /\ existing # NULL
    /\ ~existing.deleted
    /\ existing.version >= feature.version

read(c) ==
    /\ pc[c] = "read"
    /\ IF ExistsNewer(hash[op[c].key], op[c].feature)
         THEN Return(c, "yes")
         ELSE Goto(c, "multi") /\ UNCHANGED result
    /\ UNCHANGED <<server, session, pool, op, conn>>

openMulti(c) ==
    /\ pc[c] = "multi"
    /\ multi' = [multi EXCEPT ![Mine(c)] = "open"]
    /\ Goto(c, "queue")
    /\ UNCHANGED <<server, watching, dirty, broken, pool, op, conn, result>>

\* HSET of an upsert; DEL, HSET and SET of an init.
queue(c) ==
    /\ pc[c] = "queue"
    /\ Goto(c, "exec")
    /\ UNCHANGED <<server, session, pool, op, conn, result>>

\* Fault: EXEC goes through although the hash has changed.
ConflictNever(x) == FALSE

Conflict(x) == watching[x] /\ dirty[x]

\* A nil reply: somebody changed the hash since WATCH, so start over.
execUpsert(c) ==
    /\ pc[c] = "exec" /\ op[c].call = "upsert"
    /\ TransactionEnds(Mine(c))
    /\ IF Conflict(Mine(c))
         THEN /\ dirty' = [dirty EXCEPT ![Mine(c)] = FALSE]
              /\ Goto(c, "begin")
              /\ UNCHANGED <<hash, result>>
         ELSE /\ HashBecomes([hash EXCEPT ![op[c].key] = op[c].feature], Mine(c))
              /\ Return(c, "yes")
    /\ UNCHANGED <<inited, broken, pool, op, conn>>

-----------------------------------------------------------------------------
(* storeInit, storeGet, storeAll and storeInitialized.                     *)

beginInit(c) ==
    /\ Begins(c, "init")
    /\ Goto(c, "multi")
    /\ UNCHANGED <<server, session, pool, op, conn, result>>

\* A nil reply is a failure here.
execInit(c) ==
    /\ pc[c] = "exec" /\ op[c].call = "init"
    /\ TransactionEnds(Mine(c))
    /\ IF Conflict(Mine(c))
         THEN /\ dirty' = [dirty EXCEPT ![Mine(c)] = FALSE]
              /\ Return(c, "failed")
              /\ UNCHANGED server
         ELSE /\ HashBecomes(op[c].sets, Mine(c))
              /\ inited' = TRUE
              /\ Return(c, "yes")
    /\ UNCHANGED <<broken, pool, op, conn>>

\* The connection breaks after EXEC was carried out: the call fails though
\* its write happened.
execAnswerLost(c) ==
    /\ Faults
    /\ pc[c] = "exec" /\ ~Conflict(Mine(c))
    /\ TransactionEnds(Mine(c))
    /\ IF op[c].call = "init"
         THEN HashBecomes(op[c].sets, Mine(c)) /\ inited' = TRUE
         ELSE /\ HashBecomes([hash EXCEPT ![op[c].key] = op[c].feature], Mine(c))
              /\ UNCHANGED inited
    /\ broken' = broken \cup {Mine(c)}
    /\ Return(c, "failed")
    /\ UNCHANGED <<pool, op, conn>>

\* HGET of storeGet and HGETALL of storeAll.
storeRead(c) ==
    /\ Begins(c, "get") \/ Begins(c, "all")
    /\ Return(c, "yes")
    /\ UNCHANGED <<server, session, pool, op, conn>>

storeInitialized(c) ==
    /\ Begins(c, "initialized")
    /\ Return(c, IF inited THEN "yes" ELSE "no")
    /\ UNCHANGED <<server, session, pool, op, conn>>

-----------------------------------------------------------------------------

\* What a call does once it has been made.
Step(c) ==
    /\ UNCHANGED poolSize
    /\ \/ borrowExisting(c) \/ borrowNew(c) \/ condWait(c)
       \/ connect(c) \/ connectFails(c)
       \/ waitTimesOut(c) \/ returnConnection(c)
       \/ commandRefused(c) \/ execRefused(c)
       \/ connectionLost(c) \/ execAnswerLost(c) \/ meetsOpenMulti(c)
       \/ watch(c) \/ read(c) \/ openMulti(c) \/ queue(c) \/ execUpsert(c)
       \/ beginInit(c) \/ execInit(c)
       \/ storeRead(c) \/ storeInitialized(c)

Crashed == \E c \in Clients : pc[c] = "crashed"

Next ==
    /\ ~Crashed
    /\ \E c \in Clients : Step(c) \/ \E what \in Calls : call(c, what)
    /\ UNCHANGED poolSize

\* Threads run, commands are answered or time out, and a timed wait ends.
\* No lock is fair: a thread may find the pool empty each time it looks.
Fairness == \A c \in Clients : WF_vars(~Crashed /\ Step(c))

Spec == Init /\ [][Next]_vars /\ Fairness

-----------------------------------------------------------------------------
(* Properties.                                                             *)

(* The pool never counts more connections than its size, however many      *)
(* threads open one at a time (borrowConnection).                          *)
TypeOK ==
    /\ hash \in Collection /\ inited \in BOOLEAN
    /\ watching \in [Conns -> BOOLEAN] /\ dirty \in [Conns -> BOOLEAN]
    /\ multi \in [Conns -> {"no", "open", "aborted"}] /\ broken \subseteq Conns
    /\ free \in Seq(Conns) /\ count \in 0..poolSize /\ poolSize \in PoolSizes
    /\ pc \in [Clients -> {"idle", "borrow", "connect", "waiting", "begin",
                           "read", "multi", "queue", "exec", "return", "crashed"}]
    /\ conn \in [Clients -> Conns \cup {NULL}]
    /\ result \in [Clients -> {"none", "yes", "no", "failed"}]

Holders == {c \in Clients : conn[c] # NULL}

(* The pool's count is exactly the connections it has given out, keeps or  *)
(* is about to open, and no two threads share one, whatever fails.         *)
PoolAccounted ==
    /\ count = Len(free) + Cardinality(Holders)
                 + Cardinality({c \in Clients : pc[c] = "connect"})
    /\ \A c, d \in Holders : c # d => conn[c] # conn[d]
    /\ \A c \in Holders : conn[c] \notin Range(free)
    /\ Cardinality(Range(free)) = Len(free)

\* A step other than the end of an init, which replaces everything.
NotInit ==
    \A c \in Clients : op[c].call = "init" => pc'[c] = pc[c] \/ pc[c] # "exec"

(* "Only deletes current if version is newer": however the round trips of  *)
(* several upserts interleave, and whatever fails between them, none       *)
(* replaces a feature by an older one or an older tombstone.               *)
NewerWins ==
    [][\A k \in Keys : (hash[k] # NULL /\ ~hash[k].deleted /\ NotInit)
         => hash'[k] # NULL /\ hash'[k].version >= hash[k].version]_vars

(* The same of tombstones: a deleted feature is not brought back by an     *)
(* older version.                                                          *)
TombstonesWin ==
    [][\A k \in Keys : (hash[k] # NULL /\ hash[k].deleted /\ NotInit)
         => hash'[k] # NULL /\ hash'[k].version >= hash[k].version]_vars

Asking(c) == pc[c] \in {"borrow", "connect", "waiting"}
OthersIdle(c) == \A d \in Clients \ {c} : pc[d] = "idle"

(* A failed connect gives its place in the pool up and signals nobody, yet *)
(* no waiting thread is stranded: it does not ask for a connection for     *)
(* ever while the others have stopped calling, but gets one or an answer.  *)
NobodyStranded == \A c \in Clients : []<>~(Asking(c) /\ OthersIdle(c))

(* storeInitialized: "True if the store is intialized, false otherwise".   *)
InitializedTruthful ==
    \A c \in Clients :
        (op[c].call = "initialized" /\ result[c] = "yes") => inited

(* storeAll: "True on success, False on failure".                          *)
AllReturns == ~Crashed

(* An operation fails only for an "error outside of expected               *)
(* functionality": here, none has happened.                                *)
InitSucceeds ==
    \A c \in Clients :
        (op[c].call = "init" /\ pc[c] = "return") => result[c] # "failed"

-----------------------------------------------------------------------------
(* The inductive invariant.                                                *)

\* Every step of a call is one of its call.
CallsInPlace ==
    /\ op \in [Clients -> Calls \cup {NoCall}]
    /\ \A c \in Clients :
         /\ conn[c] # NULL <=> pc[c] \notin {"idle", "borrow", "connect", "waiting"}
         /\ pc[c] = "read" => op[c].call = "upsert"
         /\ pc[c] \in {"multi", "queue", "exec"} => op[c].call \in {"upsert", "init"}

\* PoolAccounted, with the last conjunct said position by position.
Openers == {c \in Clients : pc[c] = "connect"}
PoolInv ==
    /\ count = Len(free) + Cardinality(Holders) + Cardinality(Openers)
    /\ \A c, d \in Holders : conn[c] = conn[d] => c = d
    /\ \A c \in Holders, i \in 1..Len(free) : free[i] # conn[c]
    /\ \A i, j \in 1..Len(free) : free[i] = free[j] => i = j

\* An upsert that has read the hash and not been told of a change since is
\* still right about it.
Upserting(c, places) == op[c].call = "upsert" /\ pc[c] \in places
StillRight(c) ==
    /\ Upserting(c, {"read", "multi", "queue", "exec"}) => watching[conn[c]]
    /\ (Upserting(c, {"multi", "queue", "exec"}) /\ ~dirty[conn[c]])
         => ~ExistsNewer(hash[op[c].key], op[c].feature)
WatchHolds == \A c \in Clients : StillRight(c)

Inv == TypeOK /\ CallsInPlace /\ PoolInv /\ WatchHolds

=============================================================================
