----------------------------- MODULE ServerLinks -----------------------------
(***************************************************************************)
(* How a node sends messages to one other node: ClientHandler keeps a weak *)
(* pointer to the connection it uses (network/client_handler.cc), a Server *)
(* is one connection with its queue of messages (network/asyncchannel.cc), *)
(* and the io threads run the handlers (common/context.cc). A Server lives *)
(* as long as a handler or a thread holds it. A step of a thread is what   *)
(* it does between two accesses that other threads can observe; accesses   *)
(* to the map and to the queue are atomic here, though the code reads them *)
(* outside the locks in places.                                            *)
(***************************************************************************)
EXTENDS Integers, Sequences, FiniteSets, Functions

CONSTANTS MaxThreads,   \* bound on cache.concurrency
          MaxMessages,  \* bound on the messages sent
          MaxFaults,    \* bound on refused, reset and broken connections
          NoServer

Thread  == 1 .. MaxThreads
Server  == 1 .. MaxMessages   \* no message opens more than one
Message == 1 .. MaxMessages   \* numbered as they are queued

ASSUME ThreadsAssumption  == MaxThreads \in Nat \ {0}
ASSUME MessagesAssumption == MaxMessages \in Nat
ASSUME FaultsAssumption   == MaxFaults \in Nat
ASSUME NoServerAssumption == NoServer \notin Server

VARIABLES
    concurrency, \* cache.concurrency: how many io threads were started
    running,     \* those that still run
    pc, at,      \* what each thread does next, and the Server it holds
    current,     \* the entry of current_servers for the node
    made,        \* how many Server objects were made
    op,          \* the asynchronous operation of a Server that is under way
    queue,       \* messages_queue
    is_writing,
    timer,       \* the ten seconds that keep an idle Server alive
    wire,        \* bytes the kernel took, not yet read by the other node
    sent,        \* each message's Server, and whether it was made for it
    got,         \* the messages as the other node's handlers saw them
    faults

thread == <<concurrency, running, pc, at>>
conns  == <<op, queue, is_writing, timer, wire>>
vars   == <<thread, conns, current, made, sent, got, faults>>
-----------------------------------------------------------------------------
Idle(t)  == t \in running /\ pc[t] = "idle"
Holds(t, s, step) ==
    /\ at' = [at EXCEPT ![t] = s]
    /\ pc' = [pc EXCEPT ![t] = step]
    /\ UNCHANGED <<concurrency, running>>
Continue(t, step) == Holds(t, at[t], step)
Return(t) == Holds(t, NoServer, "idle")

\* shared_from_this in a handler, the timer's copy, a locked weak pointer.
Alive(s) == op[s] # "none" \/ timer[s] \/ \E t \in Thread : at[t] = s

Sending == {t \in Thread : pc[t] \in {"erase", "open", "push"}}
-----------------------------------------------------------------------------
Init ==
    /\ concurrency \in Thread
    /\ running = 1 .. concurrency
    /\ pc = [t \in Thread |-> "idle"]
    /\ at = [t \in Thread |-> NoServer]
    /\ current = NoServer
    /\ made = 0
    /\ op = [s \in Server |-> "none"]
    /\ queue = [s \in Server |-> <<>>]
    /\ is_writing = [s \in Server |-> FALSE]
    /\ timer = [s \in Server |-> FALSE]
    /\ wire = [s \in Server |-> <<>>]
    /\ sent = <<>>
    /\ got = <<>>
    /\ faults = 0

\* Seeded fault: only a connection that is not writing is used again.
SendOnIdle(t) ==
    /\ Idle(t)
    /\ Len(sent) + Cardinality(Sending) < MaxMessages
    /\ CASE current = NoServer -> Continue(t, "open")
         [] current # NoServer /\ Alive(current) /\ ~is_writing[current] ->
                Holds(t, current, "push")
         [] OTHER -> Continue(t, "erase")
    /\ UNCHANGED <<conns, current, made, sent, got, faults>>

\* A handler of this node sends a message: is the last connection still on?
Send(t) ==
    /\ Idle(t)
    /\ Len(sent) + Cardinality(Sending) < MaxMessages
    /\ CASE current = NoServer -> Continue(t, "open")
         [] current # NoServer /\ Alive(current) -> Holds(t, current, "push")
         [] OTHER -> Continue(t, "erase")
    /\ UNCHANGED <<conns, current, made, sent, got, faults>>

Erase(t) ==
    /\ pc[t] = "erase"
    /\ current' = NoServer
    /\ Continue(t, "open")
    /\ UNCHANGED <<conns, made, sent, got, faults>>

\* make_shared<Server>, commit, and the coroutine that connects.
Open(t) ==
    /\ pc[t] = "open"
    /\ made' = made + 1
    /\ queue' = [queue EXCEPT ![made'] = Append(@, Len(sent) + 1)]
    /\ op' = [op EXCEPT ![made'] = "connecting"]
    /\ sent' = Append(sent, [server |-> made', first |-> TRUE])
    /\ Return(t)
    /\ UNCHANGED <<is_writing, timer, wire, current, got, faults>>

\* Server::do_write: the message joins the queue.
Push(t) ==
    /\ pc[t] = "push"
    /\ queue' = [queue EXCEPT ![at[t]] = Append(@, Len(sent) + 1)]
    /\ sent' = Append(sent, [server |-> at[t], first |-> FALSE])
    /\ Continue(t, "claim")
    /\ UNCHANGED <<op, is_writing, timer, wire, current, made, got, faults>>

\* Seeded fault: the flag is set, but its former value is not looked at.
ClaimAnyway(t) ==
    /\ pc[t] = "claim"
    /\ is_writing' = [is_writing EXCEPT ![at[t]] = TRUE]
    /\ Continue(t, "write")
    /\ UNCHANGED <<op, queue, timer, wire, current, made, sent, got, faults>>

\* is_writing.exchange(true), in do_write and in do_write_buffer.
Claim(t) ==
    /\ pc[t] = "claim"
    /\ IF is_writing[at[t]] THEN Return(t) ELSE Continue(t, "write")
    /\ is_writing' = [is_writing EXCEPT ![at[t]] = TRUE]
    /\ UNCHANGED <<op, queue, timer, wire, current, made, sent, got, faults>>

\* do_write_impl: async_write of the front, which an empty queue has not.
Write(t) ==
    /\ pc[t] = "write"
    /\ IF queue[at[t]] = <<>>
       THEN Continue(t, "undefined") /\ UNCHANGED op
       ELSE Return(t) /\ op' = [op EXCEPT ![at[t]] = "writing"]
    /\ UNCHANGED <<queue, is_writing, timer, wire, current, made, sent, got, faults>>
-----------------------------------------------------------------------------
\* A thread takes up Server s, whose operation has ended.
Resume(t, s, was, step) ==
    /\ Idle(t)
    /\ op[s] = was
    /\ op' = [op EXCEPT ![s] = "none"]
    /\ Holds(t, s, step)
    /\ UNCHANGED <<queue, is_writing, timer, wire, current, made, sent, got, faults>>

Connected(t, s)   == Resume(t, s, "connecting", "register")
Reconnected(t, s) == Resume(t, s, "reconnecting", "write")
OnWrite(t, s)     == Resume(t, s, "written", "pop")

\* Seeded fault: connect ends without do_write_buffer.
RegisterOnly(t) ==
    /\ pc[t] = "register"
    /\ current' = IF current = NoServer THEN at[t] ELSE current
    /\ Return(t)
    /\ UNCHANGED <<conns, made, sent, got, faults>>

\* current_servers.insert: an entry that is there stays, even an expired one.
Register(t) ==
    /\ pc[t] = "register"
    /\ current' = IF current = NoServer THEN at[t] ELSE current
    /\ Continue(t, "claim")
    /\ UNCHANGED <<conns, made, sent, got, faults>>

\* Seeded fault: a message that was written stays in the queue.
PopNothing(t) ==
    /\ pc[t] = "pop"
    /\ Continue(t, "next")
    /\ UNCHANGED <<conns, current, made, sent, got, faults>>

\* on_write without an error.
Pop(t) ==
    /\ pc[t] = "pop"
    /\ queue' = [queue EXCEPT ![at[t]] = Tail(@)]
    /\ Continue(t, "next")
    /\ UNCHANGED <<op, is_writing, timer, wire, current, made, sent, got, faults>>

\* Seeded faults: on_write goes on without looking, and it never goes on.
WriteNextUnchecked(t) ==
    /\ pc[t] = "next"
    /\ Continue(t, "write")
    /\ UNCHANGED <<conns, current, made, sent, got, faults>>
WriteNextNever(t) ==
    /\ pc[t] = "next"
    /\ Continue(t, "release")
    /\ timer' = [timer EXCEPT ![at[t]] = TRUE]
    /\ UNCHANGED <<op, queue, is_writing, wire, current, made, sent, got, faults>>

WriteNext(t) ==
    /\ pc[t] = "next"
    /\ IF queue[at[t]] # <<>>
       THEN Continue(t, "write") /\ UNCHANGED timer
       ELSE Continue(t, "release") /\ timer' = [timer EXCEPT ![at[t]] = TRUE]
    /\ UNCHANGED <<op, queue, is_writing, wire, current, made, sent, got, faults>>

\* Seeded fault: a thread that leaves does not let go of the Server.
ReleaseHolding(t) ==
    /\ pc[t] = "release"
    /\ is_writing' = [is_writing EXCEPT ![at[t]] = FALSE]
    /\ Continue(t, "idle")
    /\ UNCHANGED <<op, queue, timer, wire, current, made, sent, got, faults>>

Release(t) ==
    /\ pc[t] = "release"
    /\ is_writing' = [is_writing EXCEPT ![at[t]] = FALSE]
    /\ Return(t)
    /\ UNCHANGED <<op, queue, timer, wire, current, made, sent, got, faults>>
-----------------------------------------------------------------------------
(* The network, the clock and the other node.                              *)

\* All bytes of the message are with the kernel; its completion is pending.
Transmit(s) ==
    /\ op[s] = "writing"
    /\ op' = [op EXCEPT ![s] = "written"]
    /\ wire' = [wire EXCEPT ![s] = Append(@, Head(queue[s]))]
    /\ UNCHANGED <<thread, queue, is_writing, timer, current, made, sent, got, faults>>

\* read_coroutine of the other node, one for each connection.
Receive(s) ==
    /\ wire[s] # <<>>
    /\ got' = Append(got, Head(wire[s]))
    /\ wire' = [wire EXCEPT ![s] = Tail(@)]
    /\ UNCHANGED <<thread, op, queue, is_writing, timer, current, made, sent, faults>>

TimerEnds(s) ==
    /\ timer[s]
    /\ timer' = [timer EXCEPT ![s] = FALSE]
    /\ UNCHANGED <<thread, op, queue, is_writing, wire, current, made, sent, got, faults>>

Fault == faults < MaxFaults /\ faults' = faults + 1

\* connect rethrows the error, which ends the io thread that ran it.
Refused(t, s) ==
    /\ Fault
    /\ Idle(t)
    /\ op[s] = "connecting"
    /\ op' = [op EXCEPT ![s] = "none"]
    /\ running' = running \ {t}
    /\ UNCHANGED <<concurrency, pc, at, queue, is_writing, timer, wire, current, made, sent, got>>

\* on_write with connection_reset: what was not read is gone, the Server
\* reconnects and writes the front again.
Reset(t, s) ==
    /\ Fault
    /\ Idle(t)
    /\ op[s] = "writing"
    /\ op' = [op EXCEPT ![s] = "reconnecting"]
    /\ wire' = [wire EXCEPT ![s] = <<>>]
    /\ UNCHANGED <<thread, queue, is_writing, timer, current, made, sent, got>>

\* on_write with another error only logs: nothing holds the Server any more,
\* and is_writing keeps those who still do from writing.
Broken(t, s) ==
    /\ Fault
    /\ Idle(t)
    /\ op[s] = "writing"
    /\ op' = [op EXCEPT ![s] = "none"]
    /\ UNCHANGED <<thread, queue, is_writing, timer, wire, current, made, sent, got>>
-----------------------------------------------------------------------------
\* The rest of the handler a thread is in.
Proceed(t) ==
    \/ Erase(t) \/ Open(t) \/ Push(t) \/ Claim(t) \/ Write(t)
    \/ Register(t) \/ Pop(t) \/ WriteNext(t) \/ Release(t)

Complete(t) == \E s \in Server : Connected(t, s) \/ Reconnected(t, s) \/ OnWrite(t, s)
Fail(t)     == \E s \in Server : Refused(t, s) \/ Reset(t, s) \/ Broken(t, s)
Network     == \E s \in Server : Transmit(s) \/ Receive(s)
Clock       == \E s \in Server : TimerEnds(s)

Next ==
    \/ \E t \in Thread : Send(t) \/ Proceed(t) \/ Complete(t) \/ Fail(t)
    \/ Network \/ Clock

Spec == Init /\ [][Next]_vars

\* A thread finishes its handler, run() hands every completed operation to a
\* thread, and TCP delivers. Nothing makes a handler send.
FairSpec ==
    /\ Spec
    /\ \A t \in Thread : WF_vars(Proceed(t)) /\ WF_vars(Complete(t))
    /\ \A s \in Server : WF_vars(Transmit(s)) /\ WF_vars(Receive(s))
-----------------------------------------------------------------------------
\* The type invariant: a thread holds a Server exactly where it needs one.
TypeOK ==
    /\ concurrency \in Thread
    /\ running \subseteq 1 .. concurrency
    /\ pc \in [Thread -> {"idle", "erase", "open", "push", "claim", "write", "register",
                          "pop", "next", "release", "undefined"}]
    /\ at \in [Thread -> Server \cup {NoServer}]
    /\ \A t \in Thread : at[t] = NoServer <=> pc[t] \in {"idle", "erase", "open"}
    /\ current \in Server \cup {NoServer}
    /\ made \in 0 .. MaxMessages
    /\ op \in [Server -> {"none", "connecting", "writing", "written", "reconnecting"}]
    /\ queue \in [Server -> Seq(Message)]
    /\ is_writing \in [Server -> BOOLEAN]
    /\ timer \in [Server -> BOOLEAN]
    /\ wire \in [Server -> Seq(Message)]
    /\ sent \in Seq([server : Server, first : BOOLEAN])
    /\ got \in Seq(Message)
    /\ faults \in 0 .. MaxFaults

Writers(s) == {t \in Thread : at[t] = s /\ pc[t] \in {"write", "pop", "next", "release"}}
Outstanding(s) == op[s] \in {"writing", "written", "reconnecting"}

\* However many io threads there are, a socket has one async_write at a time
\* and one thread that decides on the next: two would mix their bytes.
OneWriter ==
    \A s \in Server : /\ \A t, u \in Writers(s) : t = u
                      /\ Outstanding(s) => Writers(s) = {}

\* With one io thread do_write_impl finds a message in the queue. With more a
\* writer may send a message between its push and the exchange that follows,
\* and front() of an empty queue is undefined.
FrontIsThere == concurrency = 1 => \A t \in Thread : pc[t] # "undefined"

\* A queue nobody is going to write from: with one io thread there is none,
\* and with more the next message takes what was left behind along.
Stranded(s) == queue[s] # <<>> /\ op[s] = "none" /\ \A t \in Thread : at[t] # s
NothingStranded ==
    faults = 0 => \A s \in Server : Stranded(s) => concurrency > 1 /\ ~is_writing[s]

\* b was sent after a and arrived without it.
Overtakes(b, a) ==
    a < b /\ \E j \in DOMAIN got : got[j] = b /\ \A i \in 1 .. j : got[i] # a

\* Messages over one connection are handled in the order they were sent. One
\* on a connection that is still there is overtaken only by a message on
\* another, and with one io thread only if its connection was opened for it.
\* With more, a thread that is late erases the entry of a new connection, and
\* then any message on that one may be overtaken. Nothing is said of a message
\* that is read late from a connection that was given up.
OvertakenOnlyAtOpening ==
    faults = 0 =>
        \A a, b \in DOMAIN sent : Overtakes(b, a) /\ Alive(sent[a].server) =>
            /\ sent[b].server # sent[a].server
            /\ sent[a].first \/ concurrency > 1

\* Each connection is a FIFO lane, whatever threads and faults do: no message
\* is handled twice, also when a reset makes a Server write one again.
OnWire(s) == op[s] = "written" \/ \E t \in Thread : at[t] = s /\ pc[t] = "pop"
Unsent(s) == IF ~Alive(s) THEN <<>> ELSE IF OnWire(s) THEN Tail(queue[s]) ELSE queue[s]
Lanes == INSTANCE MessageLanes WITH
    Lane <- Server, lane <- [s \in Server |-> wire[s] \o Unsent(s)], put <- Len(sent)
LanesSpec == Lanes!Spec

\* With one io thread and no fault every message arrives.
Delivered ==
    \A m \in Message :
        Len(sent) >= m ~> (m \in Range(got) \/ concurrency > 1 \/ faults > 0)
=============================================================================
