---------------------------- MODULE EventStream ----------------------------
(***************************************************************************)
(* The server-sent-events parser (c-sdk-common/src/sse.c) under the        *)
(* streaming interface (streaming.c).  curl hands the stream over in       *)
(* chunks that end anywhere; the parser keeps the unfinished line, the     *)
(* name and the body of the event it is in the middle of, and gives every  *)
(* complete event to LDi_onEvent.  The parser outlives the connection.     *)
(*                                                                         *)
(* A byte stream is a sequence of tokens; a line is a few tokens and NL.   *)
(***************************************************************************)
EXTENDS Naturals, Sequences, FiniteSets

CONSTANTS
    Names,          \* event names: "put", "patch", "delete" and others
    Data,           \* what a data line may carry
    Garbage,        \* tokens that memory fresh from LDRealloc may hold
    CleanClose,     \* connections that follow a close begin with nothing
                    \* left in the parser
    MaxLines,       \* bound: lines the server sends on a connection
    MaxConnections  \* bound: connections

ASSUME StreamBounds == MaxLines \in Nat /\ MaxConnections \in Nat

NULL == <<>>
NL == "nl"
Lines ==
    {<<"event:", name>> : name \in Names} \cup {<<"data:", d>> : d \in Data}
      \cup {<<":">>, <<>>}

VARIABLES
    connected, connections,
    wire, lines,    \* sent and not yet received, and the lines sent so far
    buffer,         \* parser->buffer: its bytes, NULL when not allocated
    bufferSize,     \* parser->bufferSize
    eventName, eventBody,   \* of the event being read, NULL when not seen
    handled,        \* history: events handled with success since connecting
    received        \* history: tokens received since connecting

parserVars == <<connected, connections, wire, lines, buffer, bufferSize, eventName,
                eventBody, handled, received>>

\* LDSSEParserInitialize and the first connection.
ParserInit ==
    /\ connected = TRUE /\ connections = 1
    /\ wire = <<>> /\ lines = 0
    /\ buffer = NULL /\ bufferSize = 0
    /\ eventName = NULL /\ eventBody = NULL
    /\ handled = <<>> /\ received = <<>>

-----------------------------------------------------------------------------
(* LDi_onEvent: the status each handler returns for a body.  "json" is a   *)
(* body the handlers and the store accept; "js" and "on" are its halves;   *)
(* "nopath" lacks the path that patch and delete read and put does not;    *)
(* everything else does not parse or does not validate.                    *)

Accepted(body) == body \in {<<"json">>, <<"js", "on">>}

onPut(body) == Accepted(body) \/ body = <<"nopath">>
onPatch(body) == Accepted(body)
onDelete(body) == Accepted(body)

LDi_onEvent(name, body) ==
    CASE name = "put" -> onPut(body)
      [] name = "patch" -> onPatch(body)
      [] name = "delete" -> onDelete(body)
      [] OTHER -> TRUE

-----------------------------------------------------------------------------
(* LDi_processLine on the state [name, body, handled, ok].                 *)

\* Fault: the event's name is kept for the next event.
dispatchKeepsName(st) ==
    LET complete == st.name # NULL /\ st.body # NULL
        ok == complete => LDi_onEvent(st.name[1], st.body)
    IN  [st EXCEPT !.body = NULL, !.ok = ok,
           !.handled = IF complete /\ ok
                         THEN Append(@, <<st.name[1], st.body>>) ELSE @]

dispatch(st) ==
    LET complete == st.name # NULL /\ st.body # NULL
        ok == complete => LDi_onEvent(st.name[1], st.body)
    IN  [name |-> NULL, body |-> NULL, ok |-> ok,
         handled |-> IF complete /\ ok
                       THEN Append(st.handled, <<st.name[1], st.body>>)
                       ELSE st.handled]

LDi_processLine(st, line) ==
    CASE line = <<>> -> dispatch(st)
      [] line # <<>> /\ line[1] = "data:" ->
           [st EXCEPT !.body = @ \o Tail(line)]
      [] line # <<>> /\ line[1] = "event:" -> [st EXCEPT !.name = Tail(line)]
      [] OTHER -> st

-----------------------------------------------------------------------------
(* LDSSEParserProcess on the bytes in the buffer: line after line until    *)
(* one fails.                                                              *)

\* What memchr looking at byte i does to the loop's [consumed, st].
Advance(bytes, loop, i) ==
    IF bytes[i] = NL /\ loop.st.ok
    THEN [consumed |-> i,
          st |-> LDi_processLine(loop.st, SubSeq(bytes, loop.consumed + 1, i - 1))]
    ELSE loop

\* The loop after each byte.
processLines(bytes, st) ==
    LET loop[i \in 0..Len(bytes)] ==
          IF i = 0 THEN [consumed |-> 0, st |-> st] ELSE Advance(bytes, loop[i - 1], i)
    IN  loop

\* What the buffer holds before the chunk is copied to its end.  After
\* LDSSEParserDestroy it is reallocated at the size it had: its bytes are
\* whatever the memory held.
OldBytes ==
    IF Len(buffer) = bufferSize THEN {buffer}
    ELSE [1..bufferSize -> Garbage]

\* LDSSEParserDestroy, by way of done(): bufferSize is left as it is.
parserDestroyed(size) ==
    /\ buffer' = NULL /\ bufferSize' = size
    /\ eventName' = NULL /\ eventBody' = NULL

\* LDi_streamWriteCallback.  A line that fails ends the connection, with
\* all the bytes still counted in bufferSize.
LDSSEParserProcess(n) ==
    /\ connected
    /\ n <= Len(wire)
    /\ wire' = SubSeq(wire, n + 1, Len(wire))
    /\ \E old \in OldBytes :
         LET bytes == old \o SubSeq(wire, 1, n)
             loop == processLines(bytes, [name |-> eventName, body |-> eventBody,
                                          handled |-> handled, ok |-> TRUE])
             st == loop[Len(bytes)].st
             consumed == loop[Len(bytes)].consumed
         IN  /\ handled' = st.handled
             /\ received' = received \o SubSeq(wire, 1, n)
             /\ connected' = st.ok
             /\ IF st.ok
                  THEN /\ buffer' = SubSeq(bytes, consumed + 1, Len(bytes))
                       /\ bufferSize' = Len(bytes) - consumed
                       /\ eventName' = st.name /\ eventBody' = st.body
                  ELSE parserDestroyed(Len(bytes))
    /\ UNCHANGED <<connections, lines>>

-----------------------------------------------------------------------------
(* The server and the connection.                                          *)

serverSends(line) ==
    /\ connected /\ lines < MaxLines
    /\ Len(wire) <= 1
    /\ wire' = wire \o line \o <<NL>>
    /\ lines' = lines + 1
    /\ UNCHANGED <<connected, connections, buffer, bufferSize, eventName,
                   eventBody, handled, received>>

\* The transfer ends or is killed by the read timeout: done().
disconnect ==
    /\ connected
    /\ connected' = FALSE
    /\ parserDestroyed(bufferSize)
    /\ UNCHANGED <<connections, wire, lines, handled, received>>

reconnect ==
    /\ ~connected /\ connections < MaxConnections
    /\ CleanClose => bufferSize = 0
    /\ connected' = TRUE /\ connections' = connections + 1
    /\ wire' = <<>> /\ lines' = 0
    /\ handled' = <<>> /\ received' = <<>>
    /\ UNCHANGED <<buffer, bufferSize, eventName, eventBody>>

ParserNext ==
    \/ \E line \in Lines : serverSends(line)
    \/ \E n \in 1..Len(wire) : LDSSEParserProcess(n)
    \/ disconnect
    \/ reconnect

ParserSpec == ParserInit /\ [][ParserNext]_parserVars

-----------------------------------------------------------------------------
(* Properties.                                                             *)

(* The events of a byte stream, read off it all at once: each blank line   *)
(* ends an event, whose name is that of its last event line and whose body *)
(* is all its data lines; handling stops at the first event refused.       *)

NewLines(bytes) == {i \in DOMAIN bytes : bytes[i] = NL}

\* The last number of a set below i, or 0.
LastBefore(S, i) == CHOOSE j \in {0} \cup S : j < i /\ \A n \in S : n < i => n <= j

\* The numbers of a set in their order.
Ordered(S) ==
    [k \in 1..Cardinality(S) |->
       CHOOSE i \in {j \in S : Cardinality({n \in S : n < j}) = k - 1} : TRUE]

\* The line with byte i in it, or that ends with it, starts after this one.
LineBreak(bytes, i) == LastBefore(NewLines(bytes), i)
LineEnding(bytes, i) == SubSeq(bytes, LineBreak(bytes, i) + 1, i - 1)

Blanks(bytes) == {i \in NewLines(bytes) : LineBreak(bytes, i) = i - 1}

\* From the last blank line before byte b to b.
InEvent(bytes, i, b) == LastBefore(Blanks(bytes), b) < i /\ i < b

NameLines(bytes, b) ==
    {i \in NewLines(bytes) : /\ InEvent(bytes, i, b)
                             /\ LineBreak(bytes, i) < i - 1
                             /\ bytes[LineBreak(bytes, i) + 1] = "event:"}

BodyBytes(bytes, b) ==
    {i \in DOMAIN bytes : /\ InEvent(bytes, i, b)
                          /\ LineBreak(bytes, i) + 1 < i /\ bytes[i] # NL
                          /\ bytes[LineBreak(bytes, i) + 1] = "data:"}

NameAt(bytes, b) ==
    IF NameLines(bytes, b) = {} THEN NULL
    ELSE Tail(LineEnding(bytes, LastBefore(NameLines(bytes, b), b)))

BodyAt(bytes, b) ==
    LET places == Ordered(BodyBytes(bytes, b))
    IN  [k \in DOMAIN places |-> bytes[places[k]]]

CompleteAt(bytes, b) == NameAt(bytes, b) # NULL /\ BodyAt(bytes, b) # NULL
RefusedAt(bytes, b) ==
    CompleteAt(bytes, b) /\ ~LDi_onEvent(NameAt(bytes, b)[1], BodyAt(bytes, b))

Handled(bytes) ==
    {b \in Blanks(bytes) : /\ CompleteAt(bytes, b)
                           /\ \A c \in Blanks(bytes) : c <= b => ~RefusedAt(bytes, c)}

EventAt(bytes, b) == <<NameAt(bytes, b)[1], BodyAt(bytes, b)>>

EventsAt(bytes, S) ==
    LET places == Ordered(S)
    IN  [k \in DOMAIN places |-> EventAt(bytes, places[k])]

EventsOf(bytes) == EventsAt(bytes, Handled(bytes))

(* The name and the body of the event LDi_processLine is reading carry no  *)
(* prefix, and the buffer has the size the parser counts or is freed.      *)
ParserTypeOK ==
    /\ connected \in BOOLEAN /\ connections \in 1..MaxConnections
    /\ wire \in Seq(STRING) /\ lines \in 0..MaxLines
    /\ buffer \in Seq(STRING) /\ bufferSize \in Nat
    /\ eventName \in Seq(Names) /\ Len(eventName) <= 1
    /\ eventBody \in Seq(Data)
    /\ Len(buffer) \in {0, bufferSize}

(* Wherever curl cuts the stream into chunks, the handlers have been given *)
(* exactly the events of the bytes received on this connection.            *)
ChunkingIrrelevant == handled = EventsOf(received)

(* The first put of a connection reaches the store: the test of the        *)
(* streaming interface has it so on a fresh context, and a reconnect goes  *)
(* through the same path.                                                  *)
PutApplied ==
    LET put == <<"event:", "put", NL, "data:", "json", NL, NL>>
    IN  (connected /\ received = put) => handled = <<<<"put", <<"json">>>>>>

-----------------------------------------------------------------------------
(* The inductive invariant: the parser is where it would be had it met all *)
(* the bytes of the connection at once.                                    *)

Tokens == Names \cup Data \cup {"event:", "data:", ":", NL}

Fresh == [name |-> NULL, body |-> NULL, handled |-> <<>>, ok |-> TRUE]

\* The loop at the end of bytes given all at once.
AllAtOnce(bytes) == processLines(bytes, Fresh)[Len(bytes)]

ParserInv ==
    /\ wire \in Seq(Tokens) /\ received \in Seq(Tokens)
    /\ handled = AllAtOnce(received).st.handled
    /\ connected =>
         /\ AllAtOnce(received).st = [name |-> eventName, body |-> eventBody,
                                     handled |-> handled, ok |-> TRUE]
         /\ buffer = SubSeq(received, AllAtOnce(received).consumed + 1, Len(received))
         /\ bufferSize = Len(buffer)
    /\ ~connected => buffer = NULL /\ eventName = NULL /\ eventBody = NULL

=============================================================================
