--------------------------- MODULE ModelTransport ---------------------------
(***************************************************************************)
(* The model service in a process of its own: model_server.py with its     *)
(* three ports, ModelProcess that starts and stops it, and the clients of  *)
(* gateway/model_client.py, driven as bench of run_transports.py drives    *)
(* them, one client to a thread.                                           *)
(*                                                                         *)
(* An answer reaches a client in two parts: the length and the body of a   *)
(* binary frame, the head and the body of an HTTP or gRPC response.  A     *)
(* part carries the number of the call it answers, which nobody reads: the *)
(* code takes what comes next on the connection for its answer.            *)
(***************************************************************************)
EXTENDS Integers, Sequences, FiniteSets

CONSTANTS
    Caller,     \* threads, each with a client of its own
    Kind,       \* the client of each: "binary", "http" or "grpc"
    MaxCalls,   \* calls a thread makes
    MaxStarts   \* bound of the starts of the process

Kinds == {"binary", "http", "grpc"}

ASSUME TransportAssumption ==
    /\ IsFiniteSet(Caller)
    /\ Kind \in [Caller -> Kinds]
    /\ MaxCalls \in Nat /\ MaxStarts \in Nat

VARIABLES
    child,    \* the model process
    ports,    \* the ports it listens on
    starter,  \* where ModelProcess is
    starts,   \* starts so far
    at,       \* where a thread is in score
    calls,    \* calls a thread has begun
    wire,     \* a client's connection: parts owed by the server, parts to read
    got,      \* the call whose answer a thread took for its last call's
    local,    \* scores a thread has collected
    errors    \* errors of all threads

processVars == <<child, ports, starter, starts>>
resultVars == <<got, local, errors>>
vars == <<processVars, at, calls, wire, resultVars>>

Part == [call : Nat, part : {"head", "body"}, ok : BOOLEAN]

Wires == [state : {"none", "open", "cut"}, owed : Seq(Part), parts : Seq(Part)]

NoWire == [state |-> "none", owed |-> <<>>, parts |-> <<>>]

\* The server's end is closed: what it has sent may still be read.
Cut(w) == [state |-> "cut", owed |-> <<>>, parts |-> w.parts]

Answer(n, ok) == << [call |-> n, part |-> "head", ok |-> ok],
                    [call |-> n, part |-> "body", ok |-> ok] >>

Init ==
    /\ child = "none" /\ ports = {} /\ starter = "idle" /\ starts = 0
    /\ at = [c \in Caller |-> "idle"]
    /\ calls = [c \in Caller |-> 0]
    /\ wire = [c \in Caller |-> NoWire]
    /\ got = [c \in Caller |-> 0]
    /\ local = [c \in Caller |-> 0]
    /\ errors = 0

-----------------------------------------------------------------------------
\* The process is gone, and every connection with it.
Gone ==
    /\ child' = "dead"
    /\ ports' = {}
    /\ wire' = [c \in Caller |-> IF wire[c].state = "open"
                                 THEN Cut(wire[c])
                                 ELSE wire[c]]

\* ModelProcess.start, the spawning.
Spawn ==
    /\ starter \in {"idle", "failed"} /\ starts < MaxStarts
    /\ child' = "up" /\ ports' = {}
    /\ starter' = "waiting" /\ starts' = starts + 1
    /\ UNCHANGED <<at, calls, wire, resultVars>>

\* main of the server: three threads bind their ports, in any order.
Listen(p) ==
    /\ child = "up" /\ p \notin ports
    /\ ports' = ports \cup {p}
    /\ UNCHANGED <<child, starter, starts, at, calls, wire, resultVars>>

\* start returns: the binary port takes a connection.
Ready ==
    /\ starter = "waiting" /\ "binary" \in ports
    /\ starter' = "ready"
    /\ UNCHANGED <<child, ports, starts, at, calls, wire, resultVars>>

\* Mutant: the process is left alone.
GiveUpLeaving ==
    /\ starter = "waiting"
    /\ starter' = "failed"
    /\ UNCHANGED <<child, ports, starts, at, calls, wire, resultVars>>

\* Mutant: the port is tried for ever.
GiveUpNever == FALSE

\* start raises after wait_s, having stopped the process.
GiveUp ==
    /\ starter = "waiting"
    /\ starter' = "failed"
    /\ Gone
    /\ UNCHANGED <<starts, at, calls, resultVars>>

\* stop: terminate, wait, kill.
Stop ==
    /\ starter = "ready"
    /\ starter' = "idle"
    /\ Gone
    /\ UNCHANGED <<starts, at, calls, resultVars>>

Die ==
    /\ child = "up"
    /\ Gone
    /\ UNCHANGED <<starter, starts, at, calls, resultVars>>

-----------------------------------------------------------------------------
GoTo(c, from, to) ==
    /\ at[c] = from
    /\ at' = [at EXCEPT ![c] = to]

\* Mutant: the client keeps its connection.
FailKeeping(c) ==
    /\ at' = [at EXCEPT ![c] = "idle"]
    /\ errors' = errors + 1
    /\ UNCHANGED <<wire, got, local>>

\* score raises ModelTransportError.  The binary and the HTTP client drop their
\* connection, the channel its stream.
Fail(c) ==
    /\ at' = [at EXCEPT ![c] = "idle"]
    /\ errors' = errors + 1
    /\ wire' = [wire EXCEPT ![c] =
                  IF Kind[c] = "grpc" THEN [NoWire EXCEPT !.state = wire[c].state]
                  ELSE NoWire]
    /\ UNCHANGED <<got, local>>

\* A thread of bench calls score of its client.
Call(c) ==
    /\ calls[c] < MaxCalls
    /\ GoTo(c, "idle", "connect")
    /\ calls' = [calls EXCEPT ![c] = @ + 1]
    /\ got' = [got EXCEPT ![c] = 0]
    /\ UNCHANGED <<processVars, wire, local, errors>>

\* A connection a client holds is taken as it is; the binary client does not
\* notice that the other side closed it.
Held(c) ==
    \/ wire[c].state = "open"
    \/ wire[c].state = "cut" /\ Kind[c] = "binary"

Connect(c) ==
    /\ \/ /\ Held(c)
          /\ GoTo(c, "connect", "send")
          /\ UNCHANGED <<wire, resultVars>>
       \/ /\ ~Held(c) /\ Kind[c] \in ports
          /\ GoTo(c, "connect", "send")
          /\ wire' = [wire EXCEPT ![c] = [NoWire EXCEPT !.state = "open"]]
          /\ UNCHANGED resultVars
       \/ /\ ~Held(c) /\ Kind[c] \notin ports
          /\ at[c] = "connect"
          /\ Fail(c)
    /\ UNCHANGED <<processVars, calls>>

Send(c) ==
    /\ GoTo(c, "send", "head")
    /\ wire' = IF wire[c].state = "open"
               THEN [wire EXCEPT ![c].owed = @ \o Answer(calls[c], TRUE)]
               ELSE wire
    /\ UNCHANGED <<processVars, calls, resultVars>>

\* The thread of the server that has the connection sends the next part.
Serve(c) ==
    /\ wire[c].state = "open" /\ wire[c].owed # <<>>
    /\ wire' = [wire EXCEPT ![c] = [state |-> "open", owed |-> Tail(@.owed),
                                    parts |-> Append(@.parts, Head(@.owed))]]
    /\ UNCHANGED <<processVars, at, calls, resultVars>>

\* The scoring raises: the binary server closes the connection, the others
\* answer with an error.
ServeError(c) ==
    /\ wire[c].state = "open" /\ wire[c].owed # <<>>
    /\ Head(wire[c].owed).part = "head" /\ Head(wire[c].owed).ok
    /\ wire' = [wire EXCEPT ![c] =
                  IF Kind[c] = "binary" THEN Cut(@)
                  ELSE [@ EXCEPT !.owed = Answer(Head(wire[c].owed).call, FALSE)]]
    /\ UNCHANGED <<processVars, at, calls, resultVars>>

\* The head of the answer is read: the next part on the connection.
ReadHead(c) ==
    /\ wire[c].parts # <<>>
    /\ GoTo(c, "head", "body")
    /\ wire' = [wire EXCEPT ![c].parts = Tail(@)]
    /\ UNCHANGED <<processVars, calls, resultVars>>

\* The body is read and score returns, or raises on an error status, with the
\* connection kept in either case.
ReadBody(c) ==
    /\ wire[c].parts # <<>>
    /\ GoTo(c, "body", "idle")
    /\ wire' = [wire EXCEPT ![c].parts = Tail(@)]
    /\ LET body == Head(wire[c].parts)
       IN  IF body.ok THEN /\ got' = [got EXCEPT ![c] = body.call]
                           /\ local' = [local EXCEPT ![c] = @ + 1]
                           /\ UNCHANGED errors
                      ELSE errors' = errors + 1 /\ UNCHANGED <<got, local>>
    /\ UNCHANGED <<processVars, calls>>

\* Mutant: a body that has begun is waited for.
TimeOutOfHead(c) ==
    /\ at[c] \in {"connect", "send", "head"}
    /\ Fail(c)
    /\ UNCHANGED <<processVars, calls>>

\* The time-out of the socket, the deadline of the call, or the end of a
\* connection that was cut.
TimeOut(c) ==
    /\ at[c] \in {"connect", "send", "head", "body"}
    /\ Fail(c)
    /\ UNCHANGED <<processVars, calls>>

\* Mutant: a thread with an error reports nothing.
LeaveInSilence(c) ==
    /\ calls[c] = MaxCalls
    /\ GoTo(c, "idle", "left")
    /\ wire' = [wire EXCEPT ![c] = NoWire]
    /\ local' = [local EXCEPT ![c] = IF errors > 0 THEN 0 ELSE @]
    /\ UNCHANGED <<processVars, calls, got, errors>>

\* A thread of bench has made its calls: it hands its latencies over and closes
\* the client.
Leave(c) ==
    /\ calls[c] = MaxCalls
    /\ GoTo(c, "idle", "left")
    /\ wire' = [wire EXCEPT ![c] = NoWire]
    /\ UNCHANGED <<processVars, calls, resultVars>>

-----------------------------------------------------------------------------
Process == Spawn \/ (\E p \in Kinds : Listen(p)) \/ Ready \/ GiveUp \/ Stop \/ Die

Client(c) ==
    \/ Call(c) \/ Connect(c) \/ Send(c) \/ ReadHead(c) \/ ReadBody(c)
    \/ TimeOut(c) \/ Leave(c)

Server(c) == Serve(c) \/ ServeError(c)

Next == Process \/ \E c \in Caller : Client(c) \/ Server(c)

Spec == Init /\ [][Next]_vars

(***************************************************************************)
(* Fairness: threads are scheduled and time passes.  The server need never *)
(* answer, nor the process ever listen.                                    *)
(***************************************************************************)
FairSpec ==
    /\ Spec
    /\ WF_vars(Ready \/ GiveUp)
    /\ \A c \in Caller : WF_vars(Client(c))

-----------------------------------------------------------------------------
\* The values the variables range over; a client without a connection has
\* nothing to read.
TypeOK ==
    /\ child \in {"none", "up", "dead"} /\ ports \subseteq Kinds
    /\ starter \in {"idle", "waiting", "ready", "failed"}
    /\ starts \in 0 .. MaxStarts
    /\ at \in [Caller -> {"idle", "connect", "send", "head", "body", "left"}]
    /\ calls \in [Caller -> 0 .. MaxCalls]
    /\ got \in [Caller -> 0 .. MaxCalls] /\ local \in [Caller -> 0 .. MaxCalls]
    /\ errors \in Nat
    /\ wire \in [Caller -> Wires]
    /\ \A c \in Caller : wire[c].state = "none" => wire[c] = NoWire

\* A score is the answer to the call it is returned for, however many calls
\* before it timed out while the server was still at work on them.
AnswerBelongs == \A c \in Caller : got[c] \in {0, calls[c]}

\* When start has returned, the binary port of a living process takes
\* connections; when it has raised, or stop has returned, no process is left.
StartTells ==
    /\ starter = "ready" /\ child = "up" => "binary" \in ports
    /\ starter \in {"idle", "failed"} => child # "up"

\* The latencies the threads hand over, each with its place in the list of its
\* thread.
Latencies == {l \in Caller \X (1 .. MaxCalls) : l[2] <= local[l[1]]}

\* When the threads of bench are through, every call is in the table, as a
\* latency or as an error.
EveryCallCounted ==
    (\A c \in Caller : at[c] = "left") =>
        Cardinality(Latencies) + errors = Cardinality(Caller) * MaxCalls

\* A call ends, and start ends, whatever the server does or leaves undone.
CallEnds == \A c \in Caller : at[c] = "connect" ~> at[c] = "idle"

StartEnds == starter = "waiting" ~> starter \in {"ready", "failed"}
=============================================================================
