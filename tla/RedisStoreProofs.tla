-------------------------- MODULE RedisStoreProofs --------------------------
(***************************************************************************)
(* The pool's books balance and no upsert goes back, for any number of     *)
(* threads, connections, keys and versions and any failures.  Inv is       *)
(* inductive: it adds which places of a call hold a connection, and what   *)
(* an upsert knows of the hash between its read and its EXEC.              *)
(***************************************************************************)
EXTENDS RedisStore, FiniteSetTheorems, SequenceTheorems, TLAPS

(* Sets of threads can be counted, and a thread that joins or leaves one   *)
(* changes the count by one.                                               *)
LEMMA CountThreads ==
    ASSUME NEW S \in SUBSET Clients
    PROVE  /\ Cardinality(S) \in Nat
           /\ \A c \in Clients \ S : Cardinality(S \cup {c}) = Cardinality(S) + 1
           /\ \A c \in S : Cardinality(S \ {c}) = Cardinality(S) - 1
<1>1. IsFiniteSet(S)
  BY FS_Subset, PoolAssumption
<1> QED
  BY <1>1, FS_CardinalityType, FS_AddElement, FS_RemoveElement

(* The numbers of the invariant are natural.                               *)
LEMMA Numbers ==
    ASSUME TypeOK
    PROVE  /\ Len(free) \in Nat /\ count \in Nat /\ poolSize \in Nat
           /\ Cardinality(Holders) \in Nat /\ Cardinality(Openers) \in Nat
<1>1. Cardinality(Conns) \in Nat
  BY FS_CardinalityType, PoolAssumption
<1>2. poolSize \in Nat /\ count \in Nat
  BY <1>1, PoolAssumption DEF TypeOK
<1>3. Len(free) \in Nat
  BY DEF TypeOK
<1>4. Holders \in SUBSET Clients /\ Openers \in SUBSET Clients
  BY DEF Holders, Openers
<1> QED
  BY <1>2, <1>3, <1>4, CountThreads

(* At first the pool is empty and nobody calls.                            *)
LEMMA InitInv == Init => Inv
<1> SUFFICES ASSUME Init
             PROVE  Inv
  OBVIOUS
<1>0. Cardinality(Conns) \in Nat
  BY FS_CardinalityType, PoolAssumption
<1>1. TypeOK
  <2>1. poolSize \in PoolSizes /\ count \in 0..poolSize
    BY <1>0, PoolAssumption DEF Init
  <2>2. hash \in Collection /\ inited \in BOOLEAN
    BY DEF Init, Collection
  <2>3. free \in Seq(Conns)
    BY DEF Init
  <2> QED
    BY <2>1, <2>2, <2>3 DEF Init, TypeOK
<1>2. CallsInPlace
  BY DEF Init, CallsInPlace
<1>3. Holders = {} /\ Openers = {}
  BY DEF Init, Holders, Openers
<1>4. PoolInv
  BY <1>3, FS_EmptySet DEF Init, PoolInv
<1>5. WatchHolds
  BY DEF Init, WatchHolds, StillRight, Upserting, NoCall
<1> QED
  BY <1>1, <1>2, <1>4, <1>5 DEF Inv

-----------------------------------------------------------------------------
(* The steps that talk to the server move no connection.                   *)

Talking == {"begin", "read", "multi", "queue", "exec", "return", "crashed"}

(* A thread that goes from one place where it holds a connection to        *)
(* another leaves the pool's books alone.                                  *)
LEMMA TalkKeepsPool ==
    ASSUME Inv, NEW c \in Clients, pc[c] \in Talking, NEW p \in Talking,
           pc' = [pc EXCEPT ![c] = p],
           UNCHANGED <<pool, conn>>
    PROVE  PoolInv'
<1>1. Holders' = Holders
  BY DEF Holders
<1>2. Openers' = Openers
  BY DEF Inv, TypeOK, Openers, Talking
<1> QED
  BY <1>1, <1>2 DEF Inv, PoolInv, pool

(* It stays in a place of its call if the place is one.                    *)
LEMMA TalkKeepsCalls ==
    ASSUME Inv, NEW c \in Clients, pc[c] \in Talking, NEW p \in Talking,
           pc' = [pc EXCEPT ![c] = p],
           UNCHANGED <<op, conn>>,
           p = "read" => op[c].call = "upsert",
           p \in {"multi", "queue", "exec"} => op[c].call \in {"upsert", "init"}
    PROVE  CallsInPlace'
BY DEF Inv, TypeOK, CallsInPlace, Talking

(* What c does to its own connection is nothing to the others, as long as  *)
(* it leaves the hash alone.                                               *)
LEMMA TalkKeepsWatch ==
    ASSUME Inv, NEW c \in Clients, pc[c] \in Talking, NEW p \in Talking,
           pc' = [pc EXCEPT ![c] = p],
           UNCHANGED <<op, conn, hash>>,
           \A x \in Conns \ {conn[c]} : watching'[x] = watching[x] /\ dirty'[x] = dirty[x],
           StillRight(c)'
    PROVE  WatchHolds'
<1> SUFFICES ASSUME NEW d \in Clients, d # c
             PROVE  StillRight(d)'
  BY DEF WatchHolds
<1>1. pc'[d] = pc[d] /\ StillRight(d)
  BY DEF Inv, TypeOK, WatchHolds
<1>2. CASE pc[d] \in Talking
  <2>1. conn[d] \in Conns \ {conn[c]}
    BY <1>2 DEF Inv, TypeOK, CallsInPlace, PoolInv, Holders, Talking
  <2> QED
    BY <1>1, <2>1 DEF StillRight, Upserting, ExistsNewer
<1>3. CASE pc[d] \notin Talking
  BY <1>1, <1>3 DEF StillRight, Upserting, Talking
<1> QED
  BY <1>2, <1>3

(* A write makes every other connection that watches the hash dirty, so    *)
(* that nobody relies on what it read before.                              *)
LEMMA WriteKeepsWatch ==
    ASSUME Inv, NEW c \in Clients, pc[c] = "exec",
           pc' = [pc EXCEPT ![c] = "return"],
           UNCHANGED <<op, conn>>,
           watching' = [watching EXCEPT ![conn[c]] = FALSE],
           NEW new \in Collection, HashBecomes(new, conn[c])
    PROVE  WatchHolds'
<1> SUFFICES ASSUME NEW d \in Clients
             PROVE  StillRight(d)'
  BY DEF WatchHolds
<1>1. d # c => pc'[d] = pc[d] /\ StillRight(d)
  BY DEF Inv, TypeOK, WatchHolds
<1>2. CASE d = c \/ pc[d] \notin Talking
  <2>1. pc'[d] \notin {"read", "multi", "queue", "exec"}
    BY <1>1, <1>2 DEF Inv, TypeOK, Talking
  <2> QED
    BY <2>1 DEF StillRight, Upserting
<1>3. CASE d # c /\ pc[d] \in Talking
  <2>1. conn[d] \in Conns \ {conn[c]}
    BY <1>3 DEF Inv, TypeOK, CallsInPlace, PoolInv, Holders, Talking
  <2>2. watching'[conn[d]] = watching[conn[d]]
    BY <2>1 DEF Inv, TypeOK
  <2>3. ASSUME Upserting(d, {"multi", "queue", "exec"})', ~dirty'[conn[d]]
        PROVE  ~ExistsNewer(hash[op[d].key], op[d].feature)'
    <3>1. Upserting(d, {"multi", "queue", "exec"}) /\ watching[conn[d]]
      BY <1>1, <1>3, <2>3 DEF StillRight, Upserting
    <3>2. ~(\E k \in Keys : {hash[k], new[k]} # {NULL})
      BY <2>1, <2>3, <3>1 DEF HashBecomes
    <3>3. op[d].key \in Keys
      BY <3>1 DEF Inv, CallsInPlace, Upserting, Calls, NoCall
    <3>4. hash'[op[d].key] = NULL
      BY <3>2, <3>3 DEF HashBecomes
    <3> QED
      BY <3>4 DEF ExistsNewer
  <2> QED
    BY <1>1, <1>3, <2>2, <2>3 DEF StillRight, Upserting
<1> QED
  BY <1>2, <1>3

(* An upsert writes a feature of its call, an init a collection.           *)
LEMMA WrittenIsCollection ==
    ASSUME Inv, NEW c \in Clients, pc[c] = "exec"
    PROVE  /\ op[c].call = "upsert" =>
                /\ op[c].key \in Keys /\ op[c].feature \in Feature
                /\ [hash EXCEPT ![op[c].key] = op[c].feature] \in Collection
           /\ op[c].call = "init" => op[c].sets \in Collection
           /\ op[c].call \in {"upsert", "init"}
<1>1. op[c] \in Calls \cup {NoCall} /\ op[c].call \in {"upsert", "init"}
  BY DEF Inv, CallsInPlace
<1>2. op[c].call = "upsert" => op[c].key \in Keys /\ op[c].feature \in Feature
  BY <1>1 DEF Calls, NoCall
<1>3. op[c].call = "init" => op[c].sets \in Collection
  BY <1>1 DEF Calls, NoCall
<1>4. hash \in Collection
  BY DEF Inv, TypeOK
<1>5. op[c].call = "upsert" =>
        [hash EXCEPT ![op[c].key] = op[c].feature] \in Collection
  BY <1>2, <1>4 DEF Collection
<1> QED
  BY <1>1, <1>2, <1>3, <1>5

(* A thread in conversation has a connection.                              *)
LEMMA MineIsAConnection ==
    ASSUME Inv, NEW c \in Clients, pc[c] \in Talking
    PROVE  conn[c] \in Conns
BY DEF Inv, TypeOK, CallsInPlace, Talking

(* The server refuses, the connection breaks, or an open MULTI is in the   *)
(* way: the call is about to return, or has crashed.                       *)
LEMMA FailuresInv ==
    ASSUME Inv, UNCHANGED poolSize, NEW c \in Clients,
           commandRefused(c) \/ execRefused(c) \/ connectionLost(c) \/ meetsOpenMulti(c)
    PROVE  Inv'
<1> USE DEF Mine, Return, Goto, server, session
<1>1. pc[c] \in Talking
  BY DEF commandRefused, execRefused, connectionLost, meetsOpenMulti, Talking
<1>2. PICK p \in {"return", "crashed"} : pc' = [pc EXCEPT ![c] = p]
  BY DEF commandRefused, execRefused, connectionLost, meetsOpenMulti
<1>3. UNCHANGED <<pool, op, conn, hash, inited>>
  BY DEF commandRefused, execRefused, connectionLost, meetsOpenMulti
<1>4. PoolInv' /\ CallsInPlace'
  <2>1. p \in Talking
    BY DEF Talking
  <2> QED
    BY <1>1, <1>2, <1>3, <2>1, TalkKeepsPool, TalkKeepsCalls
<1>5. conn[c] \in Conns
  BY <1>1, MineIsAConnection
<1>6. \A x \in Conns \ {conn[c]} : watching'[x] = watching[x] /\ dirty'[x] = dirty[x]
  BY <1>5 DEF Inv, TypeOK, commandRefused, execRefused, TransactionEnds,
              connectionLost, meetsOpenMulti
<1>7. WatchHolds'
  <2>1. p \in Talking /\ StillRight(c)'
    BY <1>2 DEF Inv, TypeOK, Talking, StillRight, Upserting
  <2> QED
    BY <1>1, <1>2, <1>3, <1>6, <2>1, TalkKeepsWatch
<1>8. TypeOK'
  <2>1. multi' \in [Conns -> {"no", "open", "aborted"}]
    BY <1>5 DEF Inv, TypeOK, commandRefused, execRefused, TransactionEnds,
                connectionLost, meetsOpenMulti
  <2>2. watching' \in [Conns -> BOOLEAN] /\ dirty' \in [Conns -> BOOLEAN]
    BY <1>5 DEF Inv, TypeOK, commandRefused, execRefused, TransactionEnds,
                connectionLost, meetsOpenMulti
  <2>3. broken' \subseteq Conns
    BY <1>5 DEF Inv, TypeOK, commandRefused, execRefused, connectionLost, meetsOpenMulti
  <2>4. result' \in [Clients -> {"none", "yes", "no", "failed"}]
    BY DEF Inv, TypeOK, commandRefused, execRefused, connectionLost,
           meetsOpenMulti, OnBadReply
  <2>5. UNCHANGED <<free, count, conn, hash, inited, poolSize>>
    BY <1>3 DEF pool
  <2> QED
    BY <1>2, <2>1, <2>2, <2>3, <2>4, <2>5 DEF Inv, TypeOK
<1> QED
  BY <1>4, <1>7, <1>8 DEF Inv

(* The round trips of a call that change at most what its own connection   *)
(* watches or has open.                                                    *)
LEMMA RoundTripInv ==
    ASSUME Inv, UNCHANGED poolSize, NEW c \in Clients,
           \/ watch(c) \/ read(c) \/ openMulti(c) \/ queue(c) \/ beginInit(c)
           \/ storeRead(c) \/ storeInitialized(c)
    PROVE  Inv'
<1> USE DEF Mine, Return, Goto, Begins, server, session
<1>1. pc[c] \in Talking
  BY DEF watch, read, openMulti, queue, beginInit, storeRead, storeInitialized, Talking
<1>2. PICK p \in {"read", "multi", "queue", "exec", "return"} :
         pc' = [pc EXCEPT ![c] = p]
  BY DEF watch, read, openMulti, queue, beginInit, storeRead, storeInitialized
<1>3. UNCHANGED <<pool, op, conn, hash, inited, dirty, broken>>
  BY DEF watch, read, openMulti, queue, beginInit, storeRead, storeInitialized
<1>4. p \in Talking /\ conn[c] \in Conns /\ pc'[c] = p
  BY <1>1, <1>2, MineIsAConnection DEF Talking, Inv, TypeOK
<1>5. PoolInv'
  BY <1>1, <1>2, <1>3, <1>4, TalkKeepsPool
<1>6. CallsInPlace'
  <2>1. p = "read" => op[c].call = "upsert"
    BY <1>4 DEF Inv, TypeOK, watch, read, openMulti, queue, beginInit, storeRead,
                storeInitialized
  <2>2. p \in {"multi", "queue", "exec"} => op[c].call \in {"upsert", "init"}
    BY <1>4 DEF watch, read, openMulti, queue, beginInit, storeRead,
                storeInitialized, Inv, TypeOK, CallsInPlace
  <2> QED
    BY <1>1, <1>2, <1>3, <1>4, <2>1, <2>2, TalkKeepsCalls
<1>7. WatchHolds'
  <2>1. \A x \in Conns \ {conn[c]} : watching'[x] = watching[x] /\ dirty'[x] = dirty[x]
    BY <1>3, <1>4 DEF Inv, TypeOK, watch, read, openMulti, queue, beginInit,
                      storeRead, storeInitialized
  <2>2. StillRight(c)
    BY DEF Inv, WatchHolds
  <2>3. StillRight(c)'
    <3>1. CASE watch(c)
      <4>1. watching'[conn[c]] /\ pc'[c] = "read" /\ UNCHANGED conn
        BY <1>4, <3>1 DEF Inv, TypeOK, watch
      <4> QED
        BY <4>1 DEF StillRight, Upserting
    <3>2. CASE read(c)
      <4>1. /\ UNCHANGED <<watching, dirty, hash, op, conn>>
            /\ op[c].call = "upsert" /\ pc[c] = "read"
            /\ pc'[c] # "return" => ~ExistsNewer(hash[op[c].key], op[c].feature)
        BY <1>4, <3>2 DEF Inv, TypeOK, CallsInPlace, read
      <4>2. pc'[c] \in {"multi", "return"}
        BY <1>4, <3>2 DEF Inv, TypeOK, read
      <4> QED
        BY <2>2, <4>1, <4>2 DEF StillRight, Upserting, ExistsNewer
    <3>3. CASE openMulti(c) \/ queue(c)
      <4>1. UNCHANGED <<watching, dirty, hash, op, conn>>
        BY <3>3 DEF openMulti, queue
      <4>2. pc[c] \in {"multi", "queue"}
        BY <3>3 DEF openMulti, queue
      <4> QED
        BY <2>2, <4>1, <4>2 DEF StillRight, Upserting, ExistsNewer
    <3>4. CASE beginInit(c) \/ storeRead(c) \/ storeInitialized(c)
      <4>1. op'[c].call # "upsert"
        BY <1>3, <3>4 DEF beginInit, storeRead, storeInitialized
      <4> QED
        BY <4>1 DEF StillRight, Upserting
    <3> QED
      BY <3>1, <3>2, <3>3, <3>4
  <2> QED
    BY <1>1, <1>2, <1>3, <1>4, <2>1, <2>3, TalkKeepsWatch
<1>8. TypeOK'
  <2>1. multi' \in [Conns -> {"no", "open", "aborted"}]
    BY <1>4 DEF Inv, TypeOK, watch, read, openMulti, queue, beginInit,
                storeRead, storeInitialized
  <2>2. watching' \in [Conns -> BOOLEAN]
    BY <1>4 DEF Inv, TypeOK, watch, read, openMulti, queue, beginInit,
                storeRead, storeInitialized
  <2>3. result' \in [Clients -> {"none", "yes", "no", "failed"}]
    BY DEF Inv, TypeOK, watch, read, openMulti, queue, beginInit,
           storeRead, storeInitialized
  <2>4. UNCHANGED <<free, count>>
    BY <1>3 DEF pool
  <2> QED
    BY <1>2, <1>3, <2>1, <2>2, <2>3, <2>4 DEF Inv, TypeOK
<1> QED
  BY <1>5, <1>6, <1>7, <1>8 DEF Inv

(* EXEC: carried out, answered or not, it writes a collection; refused by  *)
(* the server because of a change, it writes nothing.                      *)
LEMMA ExecInv ==
    ASSUME Inv, UNCHANGED poolSize, NEW c \in Clients,
           execUpsert(c) \/ execInit(c) \/ execAnswerLost(c)
    PROVE  Inv'
<1> USE DEF Mine, Return, Goto, TransactionEnds, server, session
<1>1. pc[c] = "exec" /\ pc[c] \in Talking /\ conn[c] \in Conns
  BY MineIsAConnection DEF execUpsert, execInit, execAnswerLost, Talking
<1>2. PICK p \in {"begin", "return"} : pc' = [pc EXCEPT ![c] = p]
  BY DEF execUpsert, execInit, execAnswerLost
<1>3. /\ UNCHANGED <<pool, op, conn>>
      /\ multi' = [multi EXCEPT ![conn[c]] = "no"]
      /\ watching' = [watching EXCEPT ![conn[c]] = FALSE]
      /\ broken' \in {broken, broken \cup {conn[c]}}
      /\ inited' \in {inited, TRUE}
  BY DEF execUpsert, execInit, execAnswerLost
<1>4. p \in Talking
  BY DEF Talking
<1>5. PoolInv' /\ CallsInPlace'
  BY <1>1, <1>2, <1>3, <1>4, TalkKeepsPool, TalkKeepsCalls
<1>6. \/ hash' = hash /\ dirty' = [dirty EXCEPT ![conn[c]] = FALSE]
      \/ /\ pc' = [pc EXCEPT ![c] = "return"]
         /\ \E new \in Collection : HashBecomes(new, conn[c])
  <2>1. CASE execUpsert(c)
    BY <1>1, <2>1, WrittenIsCollection DEF execUpsert
  <2>2. CASE execInit(c)
    BY <1>1, <2>2, WrittenIsCollection DEF execInit
  <2>3. CASE execAnswerLost(c)
    BY <1>1, <2>3, WrittenIsCollection DEF execAnswerLost
  <2> QED
    BY <2>1, <2>2, <2>3
<1>7. WatchHolds'
  <2>1. CASE hash' = hash /\ dirty' = [dirty EXCEPT ![conn[c]] = FALSE]
    <3>1. \A x \in Conns \ {conn[c]} : watching'[x] = watching[x] /\ dirty'[x] = dirty[x]
      BY <1>1, <1>3, <2>1 DEF Inv, TypeOK
    <3>2. StillRight(c)'
      BY <1>2 DEF Inv, TypeOK, StillRight, Upserting
    <3> QED
      BY <1>1, <1>2, <1>3, <1>4, <2>1, <3>1, <3>2, TalkKeepsWatch
  <2>2. CASE /\ pc' = [pc EXCEPT ![c] = "return"]
             /\ \E new \in Collection : HashBecomes(new, conn[c])
    BY <1>1, <1>3, <2>2, WriteKeepsWatch
  <2> QED
    BY <1>6, <2>1, <2>2
<1>8. TypeOK'
  <2>1. hash' \in Collection /\ dirty' \in [Conns -> BOOLEAN]
    BY <1>6 DEF Inv, TypeOK, HashBecomes
  <2>2. multi' \in [Conns -> {"no", "open", "aborted"}]
    BY <1>3 DEF Inv, TypeOK
  <2>3. watching' \in [Conns -> BOOLEAN] /\ inited' \in BOOLEAN
    BY <1>3 DEF Inv, TypeOK
  <2>4. broken' \subseteq Conns
    BY <1>1, <1>3 DEF Inv, TypeOK
  <2>5. result' \in [Clients -> {"none", "yes", "no", "failed"}]
    BY DEF Inv, TypeOK, execUpsert, execInit, execAnswerLost
  <2>6. UNCHANGED <<free, count>>
    BY <1>3 DEF pool
  <2> QED
    BY <1>2, <1>3, <2>1, <2>2, <2>3, <2>4, <2>5, <2>6 DEF Inv, TypeOK
<1> QED
  BY <1>5, <1>7, <1>8 DEF Inv

-----------------------------------------------------------------------------
(* The steps of the pool.                                                  *)

(* Whoever is on the way to or from the pool relies on nothing.            *)
LEMMA PoolKeepsWatch ==
    ASSUME Inv,
           UNCHANGED hash,
           \A d \in Clients :
              \/ pc'[d] \notin {"read", "multi", "queue", "exec"}
              \/ /\ pc'[d] = pc[d] /\ op'[d] = op[d] /\ conn'[d] = conn[d]
                 /\ watching'[conn[d]] = watching[conn[d]]
                 /\ dirty'[conn[d]] = dirty[conn[d]]
    PROVE  WatchHolds'
<1> SUFFICES ASSUME NEW d \in Clients
             PROVE  StillRight(d)'
  BY DEF WatchHolds
<1>1. StillRight(d)
  BY DEF Inv, WatchHolds
<1> QED
  BY <1>1 DEF StillRight, Upserting, ExistsNewer

(* A call is made, a thread waits or looks again: no connection moves.     *)
LEMMA AskInv ==
    ASSUME Inv, UNCHANGED poolSize, NEW c \in Clients,
           (\E what \in Calls : call(c, what)) \/ condWait(c) \/ waitTimesOut(c)
    PROVE  Inv'
<1> USE DEF Goto, server, session, pool
<1>1. PICK p \in {"borrow", "waiting"} : pc' = [pc EXCEPT ![c] = p]
  BY DEF call, condWait, waitTimesOut
<1>2. /\ pc[c] \in {"idle", "borrow", "waiting"}
      /\ UNCHANGED <<server, session, pool, conn, result>>
      /\ \A d \in Clients \ {c} : op'[d] = op[d]
  BY DEF Inv, CallsInPlace, call, condWait, waitTimesOut
<1>3. op' \in [Clients -> Calls \cup {NoCall}]
  BY DEF Inv, CallsInPlace, call, condWait, waitTimesOut
<1>4. CallsInPlace'
  BY <1>1, <1>2, <1>3 DEF Inv, TypeOK, CallsInPlace
<1>5. PoolInv'
  <2>1. Holders' = Holders /\ Openers' = Openers
    BY <1>1, <1>2 DEF Inv, TypeOK, Holders, Openers
  <2> QED
    BY <1>2, <2>1 DEF Inv, PoolInv
<1>6. WatchHolds'
  BY <1>1, <1>2, PoolKeepsWatch DEF Inv, TypeOK
<1>7. TypeOK'
  BY <1>1, <1>2 DEF Inv, TypeOK
<1> QED
  BY <1>4, <1>5, <1>6, <1>7 DEF Inv

(* The first connection of the list goes to c.                             *)
LEMMA BorrowExistingInv ==
    ASSUME Inv, UNCHANGED poolSize, NEW c \in Clients, borrowExisting(c)
    PROVE  Inv'
<1> USE DEF Goto, server, session, pool
<1>1. /\ pc[c] = "borrow" /\ free # <<>> /\ free \in Seq(Conns)
      /\ conn[c] = NULL /\ free' = Tail(free)
      /\ pc' = [pc EXCEPT ![c] = "begin"]
      /\ conn' = [conn EXCEPT ![c] = Head(free)]
      /\ UNCHANGED <<server, session, count, op, result>>
  BY DEF Inv, TypeOK, CallsInPlace, borrowExisting
<1>2. /\ Head(free) = free[1] /\ Head(free) \in Conns
      /\ Tail(free) \in Seq(Conns) /\ Len(Tail(free)) = Len(free) - 1
      /\ \A i \in 1..Len(Tail(free)) : Tail(free)[i] = free[i + 1]
      /\ Len(free) \in Nat /\ 1 \in 1..Len(free)
  BY <1>1, HeadTailProperties
<1>3. Head(free) # NULL
  BY <1>2, PoolAssumption
<1>4. CallsInPlace'
  BY <1>1, <1>3 DEF Inv, TypeOK, CallsInPlace
<1>5. PoolInv'
  <2>1. Holders' = Holders \cup {c} /\ c \notin Holders /\ Holders \in SUBSET Clients
    BY <1>1, <1>3 DEF Inv, TypeOK, Holders
  <2>2. Openers' = Openers
    BY <1>1 DEF Inv, TypeOK, Openers
  <2>3. Cardinality(Holders') = Cardinality(Holders) + 1
    BY <2>1, CountThreads
  <2>4. count' = Len(free') + Cardinality(Holders') + Cardinality(Openers')
    BY <1>1, <1>2, <2>2, <2>3, Numbers DEF Inv, PoolInv
  <2>5. \A d \in Holders : conn'[d] = conn[d] /\ conn[d] # Head(free)
    BY <1>1, <1>2, <2>1 DEF Inv, TypeOK, PoolInv
  <2>6. conn'[c] = Head(free)
    BY <1>1 DEF Inv, TypeOK
  <2>7. \A d, e \in Holders' : conn'[d] = conn'[e] => d = e
    BY <2>1, <2>5, <2>6 DEF Inv, PoolInv
  <2>8. \A d \in Holders', i \in 1..Len(free') : free'[i] # conn'[d]
    BY <1>1, <1>2, <2>1, <2>5, <2>6 DEF Inv, PoolInv
  <2>9. \A i, j \in 1..Len(free') : free'[i] = free'[j] => i = j
    BY <1>1, <1>2 DEF Inv, PoolInv
  <2> QED
    BY <2>4, <2>7, <2>8, <2>9 DEF PoolInv
<1>6. WatchHolds'
  BY <1>1, PoolKeepsWatch DEF Inv, TypeOK
<1>7. TypeOK'
  BY <1>1, <1>2 DEF Inv, TypeOK
<1> QED
  BY <1>4, <1>5, <1>6, <1>7 DEF Inv

(* A place in the pool is taken for a connection to be, or given up.       *)
LEMMA CountedAheadInv ==
    ASSUME Inv, UNCHANGED poolSize, NEW c \in Clients, borrowNew(c) \/ connectFails(c)
    PROVE  Inv'
<1> USE DEF Goto, server, session, pool
<1>1. /\ conn[c] = NULL
      /\ UNCHANGED <<server, session, free, conn, result>>
      /\ \A d \in Clients \ {c} : op'[d] = op[d]
      /\ op' \in [Clients -> Calls \cup {NoCall}]
  BY DEF Inv, CallsInPlace, borrowNew, connectFails
<1>2. PICK p \in {"connect", "idle"} : pc' = [pc EXCEPT ![c] = p]
  BY DEF borrowNew, connectFails
<1>3. CallsInPlace'
  BY <1>1, <1>2 DEF Inv, TypeOK, CallsInPlace
<1>4. Holders' = Holders /\ Openers \in SUBSET Clients
  BY <1>1 DEF Holders, Openers
<1>5. /\ count' = Len(free') + Cardinality(Holders') + Cardinality(Openers')
      /\ count' \in 0..poolSize
  <2>1. CASE borrowNew(c)
    <3>1. Openers' = Openers \cup {c} /\ c \notin Openers
      BY <2>1 DEF Inv, TypeOK, Openers, borrowNew
    <3>2. Cardinality(Openers') = Cardinality(Openers) + 1
      BY <1>4, <3>1, CountThreads
    <3> QED
      BY <1>1, <1>4, <2>1, <3>2, Numbers DEF Inv, PoolInv, borrowNew, PoolHasRoom
  <2>2. CASE connectFails(c)
    <3>1. Openers' = Openers \ {c} /\ c \in Openers
      BY <2>2 DEF Inv, TypeOK, Openers, connectFails
    <3>2. Cardinality(Openers') = Cardinality(Openers) - 1
      BY <1>4, <3>1, CountThreads
    <3>3. Cardinality(Openers') \in Nat
      BY <1>4, <3>1, CountThreads
    <3>4. count' = count - 1 /\ count \in 0..poolSize
      BY <2>2 DEF Inv, TypeOK, connectFails
    <3> QED
      BY <1>1, <1>4, <3>2, <3>3, <3>4, Numbers DEF Inv, PoolInv
  <2> QED
    BY <2>1, <2>2
<1>6. PoolInv'
  BY <1>1, <1>4, <1>5 DEF Inv, PoolInv
<1>7. WatchHolds'
  BY <1>1, <1>2, PoolKeepsWatch DEF Inv, TypeOK
<1>8. TypeOK'
  BY <1>1, <1>2, <1>5 DEF Inv, TypeOK
<1> QED
  BY <1>3, <1>6, <1>7, <1>8 DEF Inv

(* A connection nobody has goes to c, which was counted already.           *)
LEMMA ConnectInv ==
    ASSUME Inv, UNCHANGED poolSize, NEW c \in Clients, connect(c)
    PROVE  Inv'
<1> USE DEF Goto, server, session, pool
<1> DEFINE x == CHOOSE y \in Conns : y \notin InUse
<1>1. /\ pc[c] = "connect" /\ conn[c] = NULL
      /\ pc' = [pc EXCEPT ![c] = "begin"]
      /\ conn' = [conn EXCEPT ![c] = x]
      /\ UNCHANGED <<server, session, pool, op, result>>
  BY DEF Inv, TypeOK, CallsInPlace, connect
<1>2. x \in Conns /\ x \notin InUse
  BY DEF connect
<1> HIDE DEF x
<1>3. x # NULL
  BY <1>2, PoolAssumption
<1>4. CallsInPlace'
  BY <1>1, <1>3 DEF Inv, TypeOK, CallsInPlace
<1>5. PoolInv'
  <2>1. Holders' = Holders \cup {c} /\ c \notin Holders /\ Holders \in SUBSET Clients
    BY <1>1, <1>3 DEF Inv, TypeOK, Holders
  <2>2. Openers' = Openers \ {c} /\ c \in Openers /\ Openers \in SUBSET Clients
    BY <1>1 DEF Inv, TypeOK, Openers
  <2>3. /\ Cardinality(Holders') = Cardinality(Holders) + 1
        /\ Cardinality(Openers') = Cardinality(Openers) - 1
    BY <2>1, <2>2, CountThreads
  <2>4. count' = Len(free') + Cardinality(Holders') + Cardinality(Openers')
    BY <1>1, <2>3, Numbers DEF Inv, PoolInv
  <2>5. \A i \in 1..Len(free) : free[i] # x
    <3>1. \A i \in 1..Len(free) : free[i] \in Range(free)
      BY DEF Inv, TypeOK, Range
    <3> QED
      BY <1>2, <3>1 DEF InUse
  <2>6. \A d \in Holders : conn'[d] = conn[d] /\ conn[d] # x
    BY <1>1, <1>2, <2>1 DEF Inv, TypeOK, InUse
  <2>7. conn'[c] = x
    BY <1>1 DEF Inv, TypeOK
  <2> QED
    BY <1>1, <2>1, <2>4, <2>5, <2>6, <2>7 DEF Inv, PoolInv
<1>6. WatchHolds'
  BY <1>1, PoolKeepsWatch DEF Inv, TypeOK
<1>7. TypeOK'
  BY <1>1, <1>2 DEF Inv, TypeOK
<1> QED
  BY <1>4, <1>5, <1>6, <1>7 DEF Inv

(* The connection goes back to the head of the list, or is dropped with    *)
(* its place in the pool; everybody who waits looks again.                 *)
LEMMA ReturnInv ==
    ASSUME Inv, UNCHANGED poolSize, NEW c \in Clients, returnConnection(c)
    PROVE  Inv'
<1> USE DEF Goto, server, pool
<1>1. /\ pc[c] = "return" /\ conn[c] \in Conns /\ conn[c] # NULL
      /\ conn' = [conn EXCEPT ![c] = NULL]
      /\ op' = [op EXCEPT ![c] = NoCall]
      /\ result' = [result EXCEPT ![c] = "none"]
      /\ UNCHANGED <<hash, inited>>
  BY DEF Inv, TypeOK, CallsInPlace, returnConnection
<1>2. /\ pc' \in [Clients -> {"idle", "borrow", "connect", "waiting", "begin",
                              "read", "multi", "queue", "exec", "return", "crashed"}]
      /\ pc'[c] = "idle"
      /\ \A d \in Clients \ {c} :
           pc'[d] = IF pc[d] = "waiting" THEN "borrow" ELSE pc[d]
  BY <1>1 DEF Inv, TypeOK, returnConnection, Signalled
<1>3. /\ conn' \in [Clients -> Conns \cup {NULL}] /\ conn'[c] = NULL
      /\ op' \in [Clients -> Calls \cup {NoCall}] /\ op'[c] = NoCall
      /\ \A d \in Clients \ {c} : conn'[d] = conn[d] /\ op'[d] = op[d]
  BY <1>1 DEF Inv, TypeOK, CallsInPlace
<1>4. CallsInPlace'
  BY <1>2, <1>3 DEF Inv, CallsInPlace
<1>5. /\ \A x \in Conns \ {conn[c]} : watching'[x] = watching[x] /\ dirty'[x] = dirty[x]
      /\ watching' \in [Conns -> BOOLEAN] /\ dirty' \in [Conns -> BOOLEAN]
      /\ multi' \in [Conns -> {"no", "open", "aborted"}] /\ broken' \subseteq Conns
  BY <1>1 DEF Inv, TypeOK, returnConnection, Forgotten, session
<1>6. /\ Holders' = Holders \ {c} /\ c \in Holders /\ Holders \in SUBSET Clients
      /\ Cardinality(Holders') = Cardinality(Holders) - 1
      /\ Cardinality(Holders') \in Nat
  <2>1. Holders' = Holders \ {c} /\ c \in Holders /\ Holders \in SUBSET Clients
    BY <1>1, <1>3 DEF Holders
  <2> QED
    BY <2>1, CountThreads
<1>7. Openers' = Openers
  BY <1>1, <1>2 DEF Openers
<1>8. PoolInv' /\ free' \in Seq(Conns) /\ count' \in 0..poolSize
  <2>1. CASE conn[c] \in broken
    <3>1. UNCHANGED free /\ count' = count - 1
      BY <2>1 DEF returnConnection, CountAfterDropped
    <3>2. /\ count' = Len(free') + Cardinality(Holders') + Cardinality(Openers')
          /\ count' \in 0..poolSize
      BY <1>6, <1>7, <3>1, Numbers DEF Inv, TypeOK, PoolInv
    <3> QED
      BY <1>3, <1>6, <3>1, <3>2 DEF Inv, TypeOK, PoolInv
  <2>2. CASE conn[c] \notin broken
    <3>1. free' = <<conn[c]>> \o free /\ count' = count /\ free \in Seq(Conns)
      BY <2>2 DEF Inv, TypeOK, returnConnection
    <3>2. <<conn[c]>> \in Seq(Conns) /\ Len(<<conn[c]>>) = 1 /\ <<conn[c]>>[1] = conn[c]
      BY <1>1
    <3>3. /\ free' \in Seq(Conns) /\ Len(free') = Len(free) + 1
          /\ \A i \in 1..Len(free') :
               free'[i] = IF i = 1 THEN conn[c] ELSE free[i - 1]
      BY <3>1, <3>2, ConcatProperties, Numbers DEF Inv
    <3>4. count' = Len(free') + Cardinality(Holders') + Cardinality(Openers')
      BY <1>6, <1>7, <3>1, <3>3, Numbers DEF Inv, PoolInv
    <3>5. \A d \in Holders', i \in 1..Len(free') : free'[i] # conn'[d]
      <4> SUFFICES ASSUME NEW d \in Holders', NEW i \in 1..Len(free')
                   PROVE  free'[i] # conn'[d]
        OBVIOUS
      <4>1. d \in Holders /\ d # c /\ conn'[d] = conn[d]
        BY <1>3, <1>6
      <4>2. conn[d] # conn[c] /\ \A j \in 1..Len(free) : free[j] # conn[d]
        BY <1>6, <4>1 DEF Inv, PoolInv
      <4> QED
        BY <3>3, <4>1, <4>2, Numbers DEF Inv
    <3>6. \A i, j \in 1..Len(free') : free'[i] = free'[j] => i = j
      <4>1. \A k \in 1..Len(free) : free[k] # conn[c]
        BY <1>6 DEF Inv, PoolInv
      <4>2. \A k, l \in 1..Len(free) : free[k] = free[l] => k = l
        BY DEF Inv, PoolInv
      <4>3. \A i \in 1..Len(free') : i = 1 \/ i - 1 \in 1..Len(free)
        BY <3>3, Numbers DEF Inv
      <4> QED
        BY <3>3, <4>1, <4>2, <4>3
    <3>7. \A d, e \in Holders' : conn'[d] = conn'[e] => d = e
      BY <1>3, <1>6 DEF Inv, PoolInv
    <3> QED
      BY <3>1, <3>3, <3>4, <3>5, <3>6, <3>7 DEF Inv, TypeOK, PoolInv
  <2> QED
    BY <2>1, <2>2
<1>9. WatchHolds'
  <2> SUFFICES ASSUME NEW d \in Clients, pc'[d] \in {"read", "multi", "queue", "exec"}
               PROVE  /\ pc'[d] = pc[d] /\ op'[d] = op[d] /\ conn'[d] = conn[d]
                      /\ watching'[conn[d]] = watching[conn[d]]
                      /\ dirty'[conn[d]] = dirty[conn[d]]
    BY <1>1, PoolKeepsWatch
  <2>1. d # c /\ pc'[d] = pc[d]
    BY <1>2
  <2>2. conn[d] \in Conns \ {conn[c]}
    BY <1>6, <2>1 DEF Inv, TypeOK, CallsInPlace, PoolInv, Holders
  <2> QED
    BY <1>3, <1>5, <2>1, <2>2
<1>10. TypeOK'
  <2>1. result' \in [Clients -> {"none", "yes", "no", "failed"}]
    BY <1>1 DEF Inv, TypeOK
  <2> QED
    BY <1>1, <1>2, <1>3, <1>5, <1>8, <2>1 DEF Inv, TypeOK
<1> QED
  BY <1>4, <1>8, <1>9, <1>10 DEF Inv

(* Inv is inductive.                                                       *)
LEMMA NextInv == Inv /\ [Next]_vars => Inv'
<1> SUFFICES ASSUME Inv, [Next]_vars
             PROVE  Inv'
  OBVIOUS
<1>1. ASSUME NEW c \in Clients, Step(c)
      PROVE  Inv'
  BY <1>1, FailuresInv, RoundTripInv, ExecInv, AskInv, BorrowExistingInv,
     CountedAheadInv, ConnectInv, ReturnInv DEF Step
<1>2. ASSUME NEW c \in Clients, NEW what \in Calls, call(c, what), UNCHANGED poolSize
      PROVE  Inv'
  BY <1>2, AskInv
<1>3. CASE UNCHANGED vars
  BY <1>3 DEF vars, server, session, pool, Inv, TypeOK, CallsInPlace, PoolInv,
              Holders, Openers, WatchHolds, StillRight, Upserting, ExistsNewer
<1> QED
  BY <1>1, <1>2, <1>3 DEF Next

-----------------------------------------------------------------------------
(* What follows from the invariant.                                        *)

(* Inv says what PoolAccounted says: a list without repetition has as many *)
(* members as its length.                                                  *)
LEMMA InvAccounts == Inv => PoolAccounted
<1> SUFFICES ASSUME Inv
             PROVE  PoolAccounted
  OBVIOUS
<1>1. free \in Seq(Conns) /\ free \in [1..Len(free) -> Conns] /\ Len(free) \in Nat
  BY DEF Inv, TypeOK
<1>2. Range(free) = {free[i] : i \in 1..Len(free)}
  BY <1>1 DEF Range
<1>3. Cardinality(Range(free)) = Len(free)
  <2>1. free \in [1..Len(free) -> Range(free)]
    BY <1>1, <1>2
  <2>2. free \in Bijection(1..Len(free), Range(free))
    BY <1>2, <2>1 DEF Inv, PoolInv, Bijection, Injection, Surjection, IsInjective
  <2>3. IsFiniteSet(1..Len(free)) /\ Cardinality(1..Len(free)) = Len(free)
    <3>1. 1 \in Int /\ Len(free) \in Int
      BY <1>1
    <3>2. /\ IsFiniteSet(1..Len(free))
          /\ Cardinality(1..Len(free)) = IF 1 > Len(free) THEN 0 ELSE Len(free) - 1 + 1
      BY <3>1, FS_Interval, Zenon
    <3> QED
      BY <1>1, <3>2
  <2> QED
    BY <2>2, <2>3, FS_Bijection DEF ExistsBijection
<1> QED
  BY <1>2, <1>3 DEF Inv, PoolInv, PoolAccounted, Openers

(* borrowConnection: the inductive invariant holds in every state.         *)
THEOREM InvHolds == Spec => []Inv
BY InitInv, NextInv, PTL DEF Spec

(* borrowConnection and returnConnection: the count of the pool is exactly *)
(* the connections lent, kept or being opened, each with one holder.       *)
THEOREM PoolBooksBalance == Spec => []PoolAccounted
BY InvHolds, InvAccounts, PTL

(* Of the steps that are not the end of an init, only an upsert's EXEC     *)
(* that is carried out changes the hash, and what it replaces is older.    *)
LEMMA StepNewerWins ==
    ASSUME Inv, Next
    PROVE  \A k \in Keys : (hash[k] # NULL /\ ~hash[k].deleted /\ NotInit)
             => hash'[k] # NULL /\ hash'[k].version >= hash[k].version
<1> SUFFICES ASSUME NEW k \in Keys, hash[k] # NULL, ~hash[k].deleted, NotInit
             PROVE  hash'[k] # NULL /\ hash'[k].version >= hash[k].version
  OBVIOUS
<1> USE DEF Mine, Return, Goto, TransactionEnds, server, session
<1>1. hash[k] \in Feature /\ hash[k].version \in Nat /\ hash \in [Keys -> Feature \cup {NULL}]
  BY PoolAssumption DEF Inv, TypeOK, Collection, Feature
<1>2. CASE UNCHANGED hash
  BY <1>1, <1>2
<1>3. ASSUME NEW c \in Clients, execUpsert(c) \/ execInit(c) \/ execAnswerLost(c),
             ~UNCHANGED hash
      PROVE  hash'[k] # NULL /\ hash'[k].version >= hash[k].version
  <2>1. pc[c] = "exec" /\ ~Conflict(conn[c])
    BY <1>3 DEF execUpsert, execInit, execAnswerLost
  <2>2. pc'[c] # pc[c]
    BY <1>3, <2>1 DEF Inv, TypeOK, execUpsert, execInit, execAnswerLost
  <2>3. op[c].call = "upsert" /\ op[c].key \in Keys /\ op[c].feature \in Feature
    BY <2>1, <2>2, WrittenIsCollection DEF NotInit
  <2>4. hash' = [hash EXCEPT ![op[c].key] = op[c].feature]
    BY <1>3, <2>3 DEF execUpsert, execInit, execAnswerLost, HashBecomes
  <2>5. ~ExistsNewer(hash[op[c].key], op[c].feature)
    BY <2>1, <2>3 DEF Inv, WatchHolds, StillRight, Upserting, Conflict
  <2>6. CASE op[c].key = k
    <3>1. hash'[k] = op[c].feature
      BY <1>1, <2>4, <2>6
    <3>2. op[c].feature # NULL /\ op[c].feature.version \in Nat
      BY <2>3, NULLAssumption, PoolAssumption DEF Feature
    <3>3. ~(hash[k].version >= op[c].feature.version)
      BY <2>5, <2>6 DEF ExistsNewer
    <3> QED
      BY <1>1, <3>1, <3>2, <3>3
  <2>7. CASE op[c].key # k
    BY <1>1, <2>3, <2>4, <2>7
  <2> QED
    BY <2>6, <2>7
<1>4. \/ UNCHANGED hash
      \/ \E c \in Clients : execUpsert(c) \/ execInit(c) \/ execAnswerLost(c)
  <2>1. ASSUME NEW c \in Clients, Step(c)
        PROVE  UNCHANGED hash \/ execUpsert(c) \/ execInit(c) \/ execAnswerLost(c)
    BY <2>1 DEF Step, borrowExisting, borrowNew, condWait, connect, connectFails,
         waitTimesOut, returnConnection, commandRefused, execRefused,
         connectionLost, meetsOpenMulti, watch, read, openMulti, queue,
         beginInit, storeRead, storeInitialized
  <2>2. ASSUME NEW c \in Clients, NEW what \in Calls, call(c, what)
        PROVE  UNCHANGED hash
    BY <2>2 DEF call
  <2> QED
    BY <2>1, <2>2 DEF Next
<1> QED
  BY <1>2, <1>3, <1>4

(* storeUpsertInternal: however the round trips of any number of upserts   *)
(* interleave and fail, no feature is replaced by an older one.            *)
THEOREM NoUpsertGoesBack == Spec => NewerWins
<1>1. Inv /\ [Next]_vars =>
        [\A k \in Keys : (hash[k] # NULL /\ ~hash[k].deleted /\ NotInit)
             => hash'[k] # NULL /\ hash'[k].version >= hash[k].version]_vars
  BY StepNewerWins
<1> QED
  BY <1>1, InvHolds, PTL DEF Spec, NewerWins

(* connect: whoever has a place in the pool finds a connection to open.    *)
(* The model's finite set of connections never runs out before the pool    *)
(* does, so connect is never held up by the model alone.                   *)
THEOREM ConnectNeverStarved ==
    ASSUME Inv, NEW c \in Clients, pc[c] = "connect"
    PROVE  Conns \ InUse # {}
<1> SUFFICES ASSUME Conns \subseteq InUse
             PROVE  FALSE
  OBVIOUS
<1> DEFINE lent == {conn[d] : d \in Holders}
           f == [d \in Holders |-> conn[d]]
<1>1. IsFiniteSet(Holders) /\ IsFiniteSet(Openers) /\ c \in Openers
  BY FS_Subset, PoolAssumption DEF Holders, Openers
<1>2. Cardinality(Openers) >= 1
  BY <1>1, FS_EmptySet, FS_CardinalityType
<1>3. IsFiniteSet(lent) /\ Cardinality(lent) <= Cardinality(Holders)
  <2>1. f \in Surjection(Holders, lent)
    BY DEF Surjection
  <2> QED
    BY <1>1, <2>1, FS_Surjection
<1>4. IsFiniteSet(Range(free)) /\ Cardinality(Range(free)) = Len(free)
  <2>1. Range(free) \in SUBSET Conns
    BY RangeOfSeq DEF Inv, TypeOK
  <2> QED
    BY <2>1, FS_Subset, PoolAssumption, InvAccounts DEF PoolAccounted
<1>5. IsFiniteSet(Range(free) \cup lent)
      /\ Cardinality(Range(free) \cup lent)
           = Len(free) + Cardinality(lent) - Cardinality(Range(free) \cap lent)
  BY <1>3, <1>4, FS_Union
<1>6. Conns \in SUBSET (Range(free) \cup lent)
  BY PoolAssumption DEF InUse, Holders, Inv, TypeOK
<1>7. Cardinality(Conns) <= Cardinality(Range(free) \cup lent)
  BY <1>5, <1>6, FS_Subset
<1>8. IsFiniteSet(Range(free) \cap lent)
  BY <1>3, FS_Intersection
<1>9. /\ Cardinality(Range(free) \cap lent) \in Nat /\ Cardinality(lent) \in Nat
      /\ Cardinality(Conns) \in Nat
  BY <1>3, <1>8, FS_CardinalityType, PoolAssumption
<1>10. count <= Cardinality(Conns)
  BY <1>9, PoolAssumption, Numbers DEF Inv, TypeOK
<1>11. count = Len(free) + Cardinality(Holders) + Cardinality(Openers)
  BY DEF Inv, PoolInv
<1> HIDE DEF lent
<1> QED
  BY <1>2, <1>3, <1>5, <1>7, <1>9, <1>10, <1>11, Numbers DEF Inv
=============================================================================
