-------------------------- MODULE ServerLinksProofs --------------------------
(***************************************************************************)
(* Proofs about ServerLinks, for any number of io threads, messages and    *)
(* faults. is_writing is the lock of a chain of handlers: taken in Claim,  *)
(* it goes from a thread to the operation it starts and to whichever       *)
(* thread takes that operation up, until Release. The invariant says who   *)
(* holds it, and what is in the queue meanwhile.                           *)
(***************************************************************************)
EXTENDS ServerLinks, TLAPS, FiniteSetTheorems, SequenceTheorems

Somebody(s) == \E t \in Thread : at[t] = s

\* There is room for the messages of the handlers that are about to send.
Bounded == Len(sent) + Cardinality(Sending) <= MaxMessages /\ made <= Len(sent)

Started == \A t \in Thread : pc[t] # "idle" => t \in 1 .. concurrency

\* A Server that does not exist yet has no state and no holder.
Fresh == \A s \in Server : s > made =>
            /\ op[s] = "none" /\ queue[s] = <<>> /\ wire[s] = <<>>
            /\ ~is_writing[s] /\ ~timer[s] /\ current # s /\ ~Somebody(s)

\* Only its coroutine knows a Server that connects.
Connecting == \A s \in Server : op[s] = "connecting" =>
            queue[s] # <<>> /\ ~is_writing[s] /\ current # s /\ ~Somebody(s)

\* The message that is being written is still at the front.
FrontInWriting == \A s \in Server :
            Outstanding(s) \/ (\E t \in Thread : at[t] = s /\ pc[t] = "pop") => queue[s] # <<>>

\* is_writing is the lock of the chain of handlers that writes.
WriterHoldsLock == \A s \in Server : Writers(s) # {} \/ Outstanding(s) => is_writing[s]

\* A thread alone finds what it has pushed, and leaves no message behind.
Alone == concurrency = 1 => \A t \in Thread :
            /\ pc[t] # "undefined"
            /\ pc[t] \in {"claim", "write", "register"} => queue[at[t]] # <<>>
            /\ pc[t] = "release" => queue[at[t]] = <<>>

\* As long as nothing fails, the lock has a holder, and with one thread a
\* message in a queue has somebody who will write it.
Keepers(s) ==
    {t \in Thread : at[t] = s /\ pc[t] \in {"write", "pop", "next", "release", "undefined"}}
LockIsHeld == faults = 0 => \A s \in Server : is_writing[s] => Outstanding(s) \/ Keepers(s) # {}
NoneLeft == concurrency = 1 /\ faults = 0 =>
            \A s \in Server : queue[s] # <<>> => op[s] # "none" \/ Somebody(s)

IInv ==
    /\ TypeOK /\ Bounded /\ Started /\ Fresh /\ Connecting /\ FrontInWriting
    /\ OneWriter /\ WriterHoldsLock /\ Alone /\ LockIsHeld /\ NoneLeft
-----------------------------------------------------------------------------
\* Few threads are about to send.
LEMMA SendingFinite == IsFiniteSet(Sending) /\ Cardinality(Sending) \in Nat
<1>1. IsFiniteSet(Thread)
  BY FS_Interval, ThreadsAssumption DEF Thread
<1>2. Sending \in SUBSET Thread
  BY DEF Sending
<1> QED BY <1>1, <1>2, FS_Subset, FS_CardinalityType

LEMMA AppendNotEmpty ==
    ASSUME NEW q \in Seq(Message), NEW m \in Message
    PROVE  Append(q, m) # <<>>
BY AppendProperties

\* One thread fewer is about to send when one has sent.
LEMMA SendingLess ==
    ASSUME NEW t \in Sending, Sending' = Sending \ {t}
    PROVE  Cardinality(Sending) \in Nat \ {0} /\ Cardinality(Sending') = Cardinality(Sending) - 1
BY SendingFinite, FS_EmptySet, FS_RemoveElement

\* There is a number for the message of a thread that is about to send, and
\* for the Server it may open.
LEMMA SentFits ==
    ASSUME TypeOK, Bounded, Sending # {}
    PROVE  /\ Len(sent) \in Nat /\ Len(sent) + 1 \in Message /\ made + 1 \in Server
           /\ \A x \in [server : Server, first : BOOLEAN] : Len(Append(sent, x)) = Len(sent) + 1
<1>1. Len(sent) \in Nat
  BY LenProperties DEF TypeOK
<1>2. Cardinality(Sending) \in Nat \ {0}
  BY SendingFinite, FS_EmptySet
<1>3. Len(sent) + 1 <= MaxMessages /\ made + 1 <= MaxMessages /\ made \in Nat
  BY <1>1, <1>2, MessagesAssumption DEF Bounded, TypeOK
<1> QED BY <1>1, <1>3, MessagesAssumption, AppendProperties DEF Message, Server, TypeOK

\* A Server that a thread holds exists and is connected.
LEMMA HeldServer ==
    ASSUME IInv, NEW t \in Thread, pc[t] \notin {"idle", "erase", "open"}
    PROVE  /\ at[t] \in Server /\ at[t] <= made /\ op[at[t]] # "connecting"
           /\ t \in 1 .. concurrency
<1>1. at[t] \in Server
  BY DEF IInv, TypeOK
<1>2. at[t] <= made
  BY <1>1 DEF IInv, TypeOK, Fresh, Somebody, Server
<1>3. op[at[t]] # "connecting"
  BY <1>1 DEF IInv, Connecting, Somebody
<1>4. t \in 1 .. concurrency
  BY DEF IInv, Started
<1> QED BY <1>1, <1>2, <1>3, <1>4

LEMMA InitIInv == Init => IInv
<1> SUFFICES ASSUME Init PROVE IInv
  OBVIOUS
<1>1. Sending = {} /\ Cardinality(Sending) = 0
  BY FS_EmptySet DEF Init, Sending
<1>2. TypeOK
  BY ThreadsAssumption, MessagesAssumption, FaultsAssumption, NoServerAssumption
     DEF Init, TypeOK, Thread, Server, Message
<1>3. Bounded
  BY <1>1, MessagesAssumption DEF Init, Bounded
<1>4. Started /\ Fresh /\ Connecting /\ FrontInWriting /\ Alone
  BY NoServerAssumption
     DEF Init, Started, Fresh, Connecting, FrontInWriting, Alone, Outstanding, Somebody
<1>5. OneWriter /\ WriterHoldsLock /\ LockIsHeld /\ NoneLeft
  BY DEF Init, OneWriter, WriterHoldsLock, LockIsHeld, Keepers, NoneLeft, Outstanding, Writers
<1> QED BY <1>2, <1>3, <1>4, <1>5 DEF IInv
-----------------------------------------------------------------------------
(* The handlers that send.                                                 *)

\* A thread takes up a message to send: nothing but its place changes.
LEMMA SendKeeps == ASSUME IInv, NEW t \in Thread, Send(t) PROVE IInv'
<1> USE DEF IInv
<1>1. /\ UNCHANGED <<conns, current, made, sent, got, faults, concurrency, running>>
      /\ pc[t] = "idle" /\ at[t] = NoServer /\ t \in 1 .. concurrency
      /\ Len(sent) + Cardinality(Sending) < MaxMessages
  BY DEF Send, Idle, Holds, Continue, TypeOK
<1>2. PICK x \in Server \cup {NoServer}, step \in {"erase", "open", "push"} :
          /\ Holds(t, x, step)
          /\ step # "push" => x = NoServer
          /\ step = "push" => x \in Server /\ x = current /\ Alive(x)
  <2>1. CASE current = NoServer
    BY <1>1, <2>1 DEF Send, Continue
  <2>2. CASE current # NoServer /\ Alive(current)
    BY <1>1, <2>2 DEF Send, Continue, TypeOK
  <2>3. CASE current # NoServer /\ ~Alive(current)
    BY <1>1, <2>3 DEF Send, Continue
  <2> QED BY <2>1, <2>2, <2>3
<1>3. /\ at' = [at EXCEPT ![t] = x]
      /\ pc' = [pc EXCEPT ![t] = step]
  BY <1>2 DEF Holds
<1>4. TypeOK'
  BY <1>1, <1>2, <1>3, NoServerAssumption DEF TypeOK, conns
<1>5. Bounded'
  <2>1. Sending' = Sending \cup {t} /\ t \notin Sending
    BY <1>1, <1>3 DEF Sending, TypeOK
  <2>2. Cardinality(Sending') = Cardinality(Sending) + 1
    BY <2>1, SendingFinite, FS_AddElement
  <2> QED BY <1>1, <2>2, SendingFinite, MessagesAssumption DEF Bounded, TypeOK
<1>6. \A s \in Server : Somebody(s)' => Somebody(s) \/ s = x
  BY <1>3 DEF Somebody, TypeOK
<1>7. Fresh' /\ Connecting'
  BY <1>1, <1>2, <1>6, NoServerAssumption DEF Fresh, Connecting, conns
<1>8. \A u \in Thread : pc[u] \in {"write", "pop", "next", "release", "undefined"}
                     \/ pc'[u] \in {"write", "pop", "next", "release", "undefined"}
         => pc'[u] = pc[u] /\ at'[u] = at[u]
  BY <1>1, <1>3 DEF TypeOK
<1>9. FrontInWriting'
  BY <1>1, <1>8 DEF FrontInWriting, Outstanding, conns
<1>10. \A s \in Server : Writers(s)' = Writers(s) /\ Keepers(s)' = Keepers(s)
  BY <1>8 DEF Writers, Keepers
<1>11. OneWriter' /\ WriterHoldsLock' /\ LockIsHeld'
  BY <1>1, <1>10 DEF OneWriter, WriterHoldsLock, LockIsHeld, Outstanding, conns
<1>12. Started' /\ Alone'
  BY <1>1, <1>3 DEF Started, Alone, TypeOK, conns
<1>13. NoneLeft'
  BY <1>1, <1>3, NoServerAssumption DEF NoneLeft, Somebody, TypeOK, conns, Server
<1> QED BY <1>4, <1>5, <1>7, <1>9, <1>11, <1>12, <1>13

\* An expired connection is forgotten.
LEMMA EraseKeeps == ASSUME IInv, NEW t \in Thread, Erase(t) PROVE IInv'
<1> USE DEF IInv
<1>1. /\ UNCHANGED <<op, queue, is_writing, timer, wire, made, sent, got, faults, concurrency,
                     running, at>>
      /\ pc[t] = "erase" /\ pc' = [pc EXCEPT ![t] = "open"] /\ current' = NoServer
  BY DEF Erase, Continue, Holds, TypeOK, conns
<1>2. TypeOK'
  BY <1>1, NoServerAssumption DEF TypeOK
<1>3. Bounded'
  <2>1. Sending' = Sending
    BY <1>1 DEF Sending, TypeOK
  <2> QED BY <1>1, <2>1 DEF Bounded
<1>4. \A s \in Server : Writers(s)' = Writers(s) /\ Keepers(s)' = Keepers(s)
  BY <1>1 DEF Writers, Keepers, TypeOK
<1>5. Started' /\ Alone'
  BY <1>1, <1>2, NoServerAssumption DEF TypeOK, Server, Started, Alone, FrontInWriting,
     Connecting, Outstanding, Somebody
<1>6. Fresh' /\ Connecting'
  BY <1>1, <1>2, NoServerAssumption DEF TypeOK, Server, Fresh, Connecting, Somebody
<1>7. FrontInWriting'
  BY <1>1, <1>2, NoServerAssumption DEF TypeOK, Server, FrontInWriting, OneWriter, Writers,
     Fresh, Connecting, Outstanding, Somebody
<1>8. OneWriter' /\ WriterHoldsLock' /\ LockIsHeld'
  BY <1>1, <1>2, <1>4, NoServerAssumption DEF TypeOK, Server, OneWriter, WriterHoldsLock,
     Fresh, Connecting, Outstanding, LockIsHeld
<1>9. NoneLeft'
  BY <1>1, <1>2, <1>4, NoServerAssumption DEF TypeOK, Server, NoneLeft, LockIsHeld, Alone,
     Started, Fresh, Somebody, Outstanding
<1> QED BY <1>2, <1>3, <1>5, <1>6, <1>7, <1>8, <1>9

\* A new Server has one message, and only its coroutine knows it.
LEMMA OpenKeeps == ASSUME IInv, NEW t \in Thread, Open(t) PROVE IInv'
<1> USE DEF IInv
<1>0. /\ Cardinality(Sending) \in Nat \ {0} /\ Cardinality(Sending') = Cardinality(Sending) - 1
      /\ Len(sent) \in Nat /\ Len(sent) + 1 \in Message /\ made + 1 \in Server
  <2>1. t \in Sending /\ Sending' = Sending \ {t}
    BY DEF Sending, Open, Return, Holds, TypeOK
  <2>2. Cardinality(Sending) \in Nat \ {0} /\ Cardinality(Sending') = Cardinality(Sending) - 1
    BY <2>1, SendingLess
  <2> QED BY <2>1, <2>2, SentFits
<1>1. /\ UNCHANGED <<is_writing, timer, wire, current, got, faults, concurrency, running, at>>
      /\ pc[t] = "open" /\ pc' = [pc EXCEPT ![t] = "idle"] /\ at[t] = NoServer
      /\ made' = made + 1 /\ made' \in Server /\ Len(sent) + 1 \in Message
      /\ queue' = [queue EXCEPT ![made'] = Append(@, Len(sent) + 1)]
      /\ op' = [op EXCEPT ![made'] = "connecting"]
      /\ sent' = Append(sent, [server |-> made', first |-> TRUE])
  BY <1>0 DEF Open, Return, Holds, TypeOK
<1>2. TypeOK'
  <2>1. sent' \in Seq([server : Server, first : BOOLEAN])
    BY <1>1 DEF TypeOK
  <2>2. queue' \in [Server -> Seq(Message)]
    BY <1>1 DEF TypeOK
  <2> QED BY <1>1, <2>1, <2>2, NoServerAssumption DEF TypeOK, Server
<1>3. Bounded'
  <2>1. Len(sent') = Len(sent) + 1
    BY <1>1, AppendProperties DEF TypeOK, Server
  <2> QED BY <1>0, <1>1, <2>1 DEF Bounded, TypeOK
<1>4. \A s \in Server : Writers(s)' = Writers(s) /\ Keepers(s)' = Keepers(s)
  BY <1>1 DEF Writers, Keepers, TypeOK
<1>5. Started'
  BY <1>1, <1>2, NoServerAssumption DEF TypeOK, Server, Started
<1>6. Alone'
  BY <1>1, <1>2 DEF TypeOK, Alone, Started
<1>7. Fresh'
  BY <1>1, <1>2, NoServerAssumption DEF TypeOK, Server, Fresh, Connecting, Somebody
<1>8. Connecting'
  <2>1. queue'[made'] # <<>>
    BY <1>1, AppendNotEmpty DEF TypeOK
  <2>2. ~is_writing[made'] /\ current # made' /\ ~Somebody(made')
    BY <1>1 DEF Fresh, TypeOK
  <2>3. \A s \in Server : Somebody(s)' = Somebody(s)
    BY <1>1 DEF Somebody
  <2> QED BY <1>1, <2>1, <2>2, <2>3 DEF Connecting, TypeOK
<1>9. FrontInWriting'
  BY <1>1, <1>2, NoServerAssumption DEF TypeOK, Server, FrontInWriting, OneWriter, Writers,
     Fresh, Connecting, Outstanding, Somebody
<1>10. OneWriter' /\ WriterHoldsLock'
  BY <1>1, <1>2, <1>4, NoServerAssumption DEF TypeOK, Server, OneWriter, WriterHoldsLock,
     Fresh, Connecting, Outstanding
<1>11. LockIsHeld'
  <2>1. ~is_writing[made']
    BY <1>1 DEF Fresh, TypeOK
  <2> QED BY <1>1, <1>4, <2>1 DEF LockIsHeld, Outstanding, TypeOK
<1>12. NoneLeft'
  BY <1>1, <1>2, <1>4, NoServerAssumption DEF TypeOK, Server, NoneLeft, LockIsHeld, Alone,
     Started, Fresh, Somebody, Outstanding
<1> QED BY <1>2, <1>3, <1>5, <1>6, <1>7, <1>8, <1>9, <1>10, <1>11, <1>12

\* A message joins the queue of a Server that its sender holds.
LEMMA PushKeeps == ASSUME IInv, NEW t \in Thread, Push(t) PROVE IInv'
<1> USE DEF IInv
<1>0. /\ Cardinality(Sending) \in Nat \ {0} /\ Cardinality(Sending') = Cardinality(Sending) - 1
      /\ Len(sent) \in Nat /\ Len(sent) + 1 \in Message /\ made + 1 \in Server
  <2>1. t \in Sending /\ Sending' = Sending \ {t}
    BY DEF Sending, Push, Continue, Holds, TypeOK
  <2>2. Cardinality(Sending) \in Nat \ {0} /\ Cardinality(Sending') = Cardinality(Sending) - 1
    BY <2>1, SendingLess
  <2> QED BY <2>1, <2>2, SentFits
<1>1. /\ UNCHANGED <<op, is_writing, timer, wire, current, made, got, faults, concurrency,
                     running, at>>
      /\ pc[t] = "push" /\ pc' = [pc EXCEPT ![t] = "claim"]
      /\ at[t] \in Server /\ at[t] <= made /\ op[at[t]] # "connecting" /\ t \in 1 .. concurrency
      /\ Len(sent) + 1 \in Message
      /\ queue' = [queue EXCEPT ![at[t]] = Append(@, Len(sent) + 1)]
      /\ sent' = Append(sent, [server |-> at[t], first |-> FALSE])
  BY <1>0, HeldServer DEF Push, Continue, Holds, TypeOK
<1>2. TypeOK'
  <2>1. sent' \in Seq([server : Server, first : BOOLEAN])
    BY <1>1 DEF TypeOK
  <2>2. queue' \in [Server -> Seq(Message)]
    BY <1>1 DEF TypeOK
  <2> QED BY <1>1, <2>1, <2>2, NoServerAssumption DEF TypeOK, Server
<1>3. Bounded'
  <2>1. Len(sent') = Len(sent) + 1
    BY <1>1, AppendProperties DEF TypeOK, Server
  <2> QED BY <1>0, <1>1, <2>1 DEF Bounded, TypeOK
<1>4. \A s \in Server : Writers(s)' = Writers(s) /\ Keepers(s)' = Keepers(s)
  BY <1>1 DEF Writers, Keepers, TypeOK
<1>5. Started'
  BY <1>1, <1>2, NoServerAssumption DEF TypeOK, Server, Started
<1>6. Alone'
  <2>1. queue'[at[t]] # <<>> /\ \A s \in Server : queue[s] # <<>> => queue'[s] # <<>>
    BY <1>1, AppendNotEmpty DEF TypeOK
  <2>2. concurrency = 1 => \A u \in Thread : pc[u] # "idle" => u = t
    BY <1>1 DEF Started, TypeOK
  <2> QED BY <1>1, <2>1, <2>2 DEF Alone, TypeOK
<1>7. Fresh' /\ Connecting'
  BY <1>1, <1>2, NoServerAssumption DEF TypeOK, Server, Fresh, Connecting, Somebody
<1>8. FrontInWriting'
  <2>1. \A s \in Server : queue[s] # <<>> => queue'[s] # <<>>
    BY <1>1, AppendNotEmpty DEF TypeOK
  <2> QED BY <1>1, <2>1 DEF FrontInWriting, Outstanding, TypeOK
<1>9. OneWriter' /\ WriterHoldsLock' /\ LockIsHeld'
  BY <1>1, <1>2, <1>4, NoServerAssumption DEF TypeOK, Server, OneWriter, WriterHoldsLock,
     Fresh, Connecting, Outstanding, LockIsHeld
<1>10. NoneLeft'
  BY <1>1, <1>2, <1>4, NoServerAssumption DEF TypeOK, Server, NoneLeft, LockIsHeld, Alone,
     Started, Fresh, Somebody, Outstanding
<1> QED BY <1>2, <1>3, <1>5, <1>6, <1>7, <1>8, <1>9, <1>10

\* Who finds the lock taken leaves the message to its holder.
LEMMA ClaimTakenKeeps ==
    ASSUME IInv, NEW t \in Thread, Claim(t), is_writing[at[t]]
    PROVE  IInv'
<1> USE DEF IInv
<1>0. is_writing' = is_writing
  BY HeldServer DEF Claim, TypeOK
<1>1. /\ UNCHANGED <<op, queue, is_writing, timer, wire, current, made, sent, got, faults,
                     concurrency, running>>
      /\ pc[t] = "claim" /\ is_writing[at[t]]
      /\ at[t] \in Server /\ at[t] <= made /\ op[at[t]] # "connecting" /\ t \in 1 .. concurrency
      /\ at' = [at EXCEPT ![t] = NoServer] /\ pc' = [pc EXCEPT ![t] = "idle"]
  BY <1>0, HeldServer DEF Claim, Return, Holds, TypeOK
<1>2. TypeOK'
  BY <1>1, NoServerAssumption DEF TypeOK
<1>3. Bounded'
  <2>1. Sending' = Sending
    BY <1>1 DEF Sending, TypeOK
  <2> QED BY <1>1, <2>1 DEF Bounded
<1>4. \A s \in Server : Writers(s)' = Writers(s) /\ Keepers(s)' = Keepers(s)
  BY <1>1 DEF Writers, Keepers, TypeOK
<1>5. Started' /\ Alone'
  BY <1>1, <1>2, NoServerAssumption DEF TypeOK, Server, Started, Alone, FrontInWriting,
     Connecting, Outstanding, Somebody
<1>6. Fresh' /\ Connecting'
  BY <1>1, <1>2, NoServerAssumption DEF TypeOK, Server, Fresh, Connecting, Somebody
<1>7. FrontInWriting'
  BY <1>1, <1>2, NoServerAssumption DEF TypeOK, Server, FrontInWriting, OneWriter, Writers,
     Fresh, Connecting, Outstanding, Somebody
<1>8. OneWriter' /\ WriterHoldsLock' /\ LockIsHeld'
  BY <1>1, <1>2, <1>4, NoServerAssumption DEF TypeOK, Server, OneWriter, WriterHoldsLock,
     Fresh, Connecting, Outstanding, LockIsHeld
<1>9. NoneLeft'
  <2>1. SUFFICES ASSUME concurrency = 1, faults = 0, queue[at[t]] # <<>> PROVE op[at[t]] # "none"
    BY <1>1, NoServerAssumption DEF NoneLeft, Somebody, TypeOK
  <2>2. \A u \in Thread : pc[u] # "idle" => u = t
    BY <1>1, <2>1 DEF Started, TypeOK
  <2>3. Keepers(at[t]) = {}
    BY <1>1, <2>2 DEF Keepers
  <2> QED BY <1>1, <2>1, <2>3 DEF LockIsHeld, Outstanding
<1> QED BY <1>2, <1>3, <1>5, <1>6, <1>7, <1>8, <1>9

\* Who finds the lock free has it.
LEMMA ClaimFreeKeeps ==
    ASSUME IInv, NEW t \in Thread, Claim(t), ~is_writing[at[t]]
    PROVE  IInv'
<1> USE DEF IInv
<1>1. /\ UNCHANGED <<op, queue, timer, wire, current, made, sent, got, faults, concurrency,
                     running, at>>
      /\ pc[t] = "claim" /\ ~is_writing[at[t]] /\ pc' = [pc EXCEPT ![t] = "write"]
      /\ at[t] \in Server /\ at[t] <= made /\ op[at[t]] # "connecting" /\ t \in 1 .. concurrency
      /\ is_writing' = [is_writing EXCEPT ![at[t]] = TRUE]
  BY HeldServer DEF Claim, Continue, Holds, TypeOK
<1>2. TypeOK'
  BY <1>1, NoServerAssumption DEF TypeOK
<1>3. Bounded'
  <2>1. Sending' = Sending
    BY <1>1 DEF Sending, TypeOK
  <2> QED BY <1>1, <2>1 DEF Bounded
<1>4. /\ Writers(at[t])' = Writers(at[t]) \cup {t} /\ Keepers(at[t])' = Keepers(at[t]) \cup {t}
      /\ \A s \in Server \ {at[t]} : Writers(s)' = Writers(s) /\ Keepers(s)' = Keepers(s)
  BY <1>1 DEF Writers, Keepers, TypeOK
<1>5. Started' /\ Alone'
  BY <1>1, <1>2, NoServerAssumption DEF TypeOK, Server, Started, Alone, FrontInWriting,
     Connecting, Outstanding, Somebody
<1>6. Fresh' /\ Connecting'
  BY <1>1, <1>2, NoServerAssumption DEF TypeOK, Server, Fresh, Connecting, Somebody
<1>7. FrontInWriting'
  BY <1>1, <1>2, NoServerAssumption DEF TypeOK, Server, FrontInWriting, OneWriter, Writers,
     Fresh, Connecting, Outstanding, Somebody
<1>8. WriterHoldsLock'
  BY <1>1, <1>2, <1>4, NoServerAssumption DEF TypeOK, Server, WriterHoldsLock, Fresh,
     Connecting, OneWriter, Outstanding
<1>9. OneWriter'
  <2>1. Writers(at[t]) = {} /\ ~Outstanding(at[t])'
    BY <1>1 DEF OneWriter, WriterHoldsLock, Outstanding, TypeOK
  <2>2. \A s \in Server \ {at[t]} : Outstanding(s)' = Outstanding(s)
    BY <1>1 DEF Outstanding, TypeOK
  <2> QED BY <1>1, <1>4, <2>1, <2>2 DEF OneWriter
<1>10. LockIsHeld'
  <2>1. \A s \in Server \ {at[t]} : Outstanding(s)' = Outstanding(s)
    BY <1>1 DEF Outstanding, TypeOK
  <2> QED BY <1>1, <1>4, <2>1 DEF LockIsHeld, TypeOK
<1>11. NoneLeft'
  BY <1>1, <1>2, <1>4, NoServerAssumption DEF TypeOK, Server, NoneLeft, LockIsHeld, Alone,
     Started, Fresh, Somebody, Outstanding
<1> QED BY <1>2, <1>3, <1>5, <1>6, <1>7, <1>8, <1>9, <1>10, <1>11

\* There is no front to write.
LEMMA WriteNothingKeeps ==
    ASSUME IInv, NEW t \in Thread, Write(t), queue[at[t]] = <<>>
    PROVE  IInv'
<1> USE DEF IInv
<1>1. /\ UNCHANGED <<op, queue, is_writing, timer, wire, current, made, sent, got, faults,
                     concurrency, running, at>>
      /\ pc[t] = "write" /\ pc' = [pc EXCEPT ![t] = "undefined"] /\ queue[at[t]] = <<>>
      /\ at[t] \in Server /\ at[t] <= made /\ op[at[t]] # "connecting" /\ t \in 1 .. concurrency
  BY HeldServer DEF Write, Continue, Holds, TypeOK
<1>2. TypeOK'
  BY <1>1, NoServerAssumption DEF TypeOK
<1>3. Bounded'
  <2>1. Sending' = Sending
    BY <1>1 DEF Sending, TypeOK
  <2> QED BY <1>1, <2>1 DEF Bounded
<1>4. \A s \in Server : Writers(s)' = Writers(s) \ {t} /\ Keepers(s)' = Keepers(s)
  BY <1>1 DEF Writers, Keepers, TypeOK
<1>5. Started' /\ Alone'
  BY <1>1, <1>2, NoServerAssumption DEF TypeOK, Server, Started, Alone, FrontInWriting,
     Connecting, Outstanding, Somebody
<1>6. Fresh' /\ Connecting'
  BY <1>1, <1>2, NoServerAssumption DEF TypeOK, Server, Fresh, Connecting, Somebody
<1>7. FrontInWriting'
  BY <1>1, <1>2, NoServerAssumption DEF TypeOK, Server, FrontInWriting, OneWriter, Writers,
     Fresh, Connecting, Outstanding, Somebody
<1>8. OneWriter' /\ WriterHoldsLock' /\ LockIsHeld'
  BY <1>1, <1>2, <1>4, NoServerAssumption DEF TypeOK, Server, OneWriter, WriterHoldsLock,
     Fresh, Connecting, Outstanding, LockIsHeld
<1>9. NoneLeft'
  BY <1>1, <1>2, <1>4, NoServerAssumption DEF TypeOK, Server, NoneLeft, LockIsHeld, Alone,
     Started, Fresh, Somebody, Outstanding
<1> QED BY <1>2, <1>3, <1>5, <1>6, <1>7, <1>8, <1>9

\* Writing starts: the lock goes from the thread to the operation.
LEMMA WriteFrontKeeps ==
    ASSUME IInv, NEW t \in Thread, Write(t), queue[at[t]] # <<>>
    PROVE  IInv'
<1> USE DEF IInv
<1>1. /\ UNCHANGED <<queue, is_writing, timer, wire, current, made, sent, got, faults,
                     concurrency, running>>
      /\ pc[t] = "write" /\ queue[at[t]] # <<>>
      /\ at[t] \in Server /\ at[t] <= made /\ op[at[t]] # "connecting" /\ t \in 1 .. concurrency
      /\ op' = [op EXCEPT ![at[t]] = "writing"]
      /\ at' = [at EXCEPT ![t] = NoServer] /\ pc' = [pc EXCEPT ![t] = "idle"]
  BY HeldServer DEF Write, Return, Holds, TypeOK
<1>2. TypeOK'
  BY <1>1, NoServerAssumption DEF TypeOK
<1>3. Bounded'
  <2>1. Sending' = Sending
    BY <1>1 DEF Sending, TypeOK
  <2> QED BY <1>1, <2>1 DEF Bounded
<1>4. /\ \A s \in Server : Writers(s)' = Writers(s) \ {t} /\ Keepers(s)' = Keepers(s) \ {t}
      /\ \A s \in Server \ {at[t]} : t \notin Keepers(s)
      /\ t \in Writers(at[t])
  BY <1>1, NoServerAssumption DEF Writers, Keepers, TypeOK
<1>5. Started' /\ Alone'
  BY <1>1, <1>2, NoServerAssumption DEF TypeOK, Server, Started, Alone, FrontInWriting,
     Connecting, Outstanding, Somebody
<1>6. Fresh' /\ Connecting'
  BY <1>1, <1>2, NoServerAssumption DEF TypeOK, Server, Fresh, Connecting, Somebody
<1>7. FrontInWriting'
  BY <1>1, <1>2, NoServerAssumption DEF TypeOK, Server, FrontInWriting, OneWriter, Writers,
     Fresh, Connecting, Outstanding, Somebody
<1>8. OneWriter' /\ WriterHoldsLock' /\ LockIsHeld'
  BY <1>1, <1>2, <1>4, NoServerAssumption DEF TypeOK, Server, OneWriter, WriterHoldsLock,
     Fresh, Connecting, Outstanding, LockIsHeld
<1>9. NoneLeft'
  BY <1>1, <1>2, <1>4, NoServerAssumption DEF TypeOK, Server, NoneLeft, LockIsHeld, Alone,
     Started, Fresh, Somebody, Outstanding
<1> QED BY <1>2, <1>3, <1>5, <1>6, <1>7, <1>8, <1>9

\* The connection becomes the one that messages to the node use.
LEMMA RegisterKeeps == ASSUME IInv, NEW t \in Thread, Register(t) PROVE IInv'
<1> USE DEF IInv
<1>1. /\ UNCHANGED <<op, queue, is_writing, timer, wire, made, sent, got, faults, concurrency,
                     running, at>>
      /\ pc[t] = "register" /\ pc' = [pc EXCEPT ![t] = "claim"] /\ current' \in {current, at[t]}
      /\ at[t] \in Server /\ at[t] <= made /\ op[at[t]] # "connecting" /\ t \in 1 .. concurrency
  BY HeldServer DEF Register, Continue, Holds, TypeOK, conns
<1>2. TypeOK'
  BY <1>1, NoServerAssumption DEF TypeOK
<1>3. Bounded'
  <2>1. Sending' = Sending
    BY <1>1 DEF Sending, TypeOK
  <2> QED BY <1>1, <2>1 DEF Bounded
<1>4. \A s \in Server : Writers(s)' = Writers(s) /\ Keepers(s)' = Keepers(s)
  BY <1>1 DEF Writers, Keepers, TypeOK
<1>5. Started' /\ Alone'
  BY <1>1, <1>2, NoServerAssumption DEF TypeOK, Server, Started, Alone, FrontInWriting,
     Connecting, Outstanding, Somebody
<1>6. Fresh' /\ Connecting'
  BY <1>1, <1>2, NoServerAssumption DEF TypeOK, Server, Fresh, Connecting, Somebody
<1>7. FrontInWriting'
  BY <1>1, <1>2, NoServerAssumption DEF TypeOK, Server, FrontInWriting, OneWriter, Writers,
     Fresh, Connecting, Outstanding, Somebody
<1>8. OneWriter' /\ WriterHoldsLock' /\ LockIsHeld'
  BY <1>1, <1>2, <1>4, NoServerAssumption DEF TypeOK, Server, OneWriter, WriterHoldsLock,
     Fresh, Connecting, Outstanding, LockIsHeld
<1>9. NoneLeft'
  BY <1>1, <1>2, <1>4, NoServerAssumption DEF TypeOK, Server, NoneLeft, LockIsHeld, Alone,
     Started, Fresh, Somebody, Outstanding
<1> QED BY <1>2, <1>3, <1>5, <1>6, <1>7, <1>8, <1>9

\* What was written leaves the queue.
LEMMA PopKeeps == ASSUME IInv, NEW t \in Thread, Pop(t) PROVE IInv'
<1> USE DEF IInv
<1>1. /\ UNCHANGED <<op, is_writing, timer, wire, current, made, sent, got, faults,
                     concurrency, running, at>>
      /\ pc[t] = "pop" /\ pc' = [pc EXCEPT ![t] = "next"]
      /\ at[t] \in Server /\ at[t] <= made /\ op[at[t]] # "connecting" /\ t \in 1 .. concurrency
      /\ queue[at[t]] # <<>> /\ queue' = [queue EXCEPT ![at[t]] = Tail(@)]
  BY HeldServer DEF Pop, Continue, Holds, TypeOK, FrontInWriting
<1>2. TypeOK'
  BY <1>1, NoServerAssumption DEF TypeOK
<1>3. Bounded'
  <2>1. Sending' = Sending
    BY <1>1 DEF Sending, TypeOK
  <2> QED BY <1>1, <2>1 DEF Bounded
<1>4. \A s \in Server : Writers(s)' = Writers(s) /\ Keepers(s)' = Keepers(s)
  BY <1>1 DEF Writers, Keepers, TypeOK
<1>5. Started' /\ Alone'
  BY <1>1, <1>2, NoServerAssumption DEF TypeOK, Server, Started, Alone, FrontInWriting,
     Connecting, Outstanding, Somebody
<1>6. Fresh' /\ Connecting'
  BY <1>1, <1>2, NoServerAssumption DEF TypeOK, Server, Fresh, Connecting, Somebody
<1>7. FrontInWriting'
  BY <1>1, <1>2, NoServerAssumption DEF TypeOK, Server, FrontInWriting, OneWriter, Writers,
     Fresh, Connecting, Outstanding, Somebody
<1>8. OneWriter' /\ WriterHoldsLock' /\ LockIsHeld'
  BY <1>1, <1>2, <1>4, NoServerAssumption DEF TypeOK, Server, OneWriter, WriterHoldsLock,
     Fresh, Connecting, Outstanding, LockIsHeld
<1>9. NoneLeft'
  BY <1>1, <1>2, <1>4, NoServerAssumption DEF TypeOK, Server, NoneLeft, LockIsHeld, Alone,
     Started, Fresh, Somebody, Outstanding
<1> QED BY <1>2, <1>3, <1>5, <1>6, <1>7, <1>8, <1>9

\* The holder of the lock goes on with the next message.
LEMMA NextGoesOnKeeps ==
    ASSUME IInv, NEW t \in Thread, WriteNext(t), queue[at[t]] # <<>>
    PROVE  IInv'
<1> USE DEF IInv
<1>1. /\ UNCHANGED <<op, queue, is_writing, timer, wire, current, made, sent, got, faults,
                     concurrency, running, at>>
      /\ pc[t] = "next" /\ pc' = [pc EXCEPT ![t] = "write"] /\ queue[at[t]] # <<>>
      /\ at[t] \in Server /\ at[t] <= made /\ op[at[t]] # "connecting" /\ t \in 1 .. concurrency
  BY HeldServer DEF WriteNext, Continue, Holds, TypeOK
<1>2. TypeOK'
  BY <1>1, NoServerAssumption DEF TypeOK
<1>3. Bounded'
  <2>1. Sending' = Sending
    BY <1>1 DEF Sending, TypeOK
  <2> QED BY <1>1, <2>1 DEF Bounded
<1>4. \A s \in Server : Writers(s)' = Writers(s) /\ Keepers(s)' = Keepers(s)
  BY <1>1 DEF Writers, Keepers, TypeOK
<1>5. Started' /\ Alone'
  BY <1>1, <1>2, NoServerAssumption DEF TypeOK, Server, Started, Alone, FrontInWriting,
     Connecting, Outstanding, Somebody
<1>6. Fresh' /\ Connecting'
  BY <1>1, <1>2, NoServerAssumption DEF TypeOK, Server, Fresh, Connecting, Somebody
<1>7. FrontInWriting'
  BY <1>1, <1>2, NoServerAssumption DEF TypeOK, Server, FrontInWriting, OneWriter, Writers,
     Fresh, Connecting, Outstanding, Somebody
<1>8. OneWriter' /\ WriterHoldsLock' /\ LockIsHeld'
  BY <1>1, <1>2, <1>4, NoServerAssumption DEF TypeOK, Server, OneWriter, WriterHoldsLock,
     Fresh, Connecting, Outstanding, LockIsHeld
<1>9. NoneLeft'
  BY <1>1, <1>2, <1>4, NoServerAssumption DEF TypeOK, Server, NoneLeft, LockIsHeld, Alone,
     Started, Fresh, Somebody, Outstanding
<1> QED BY <1>2, <1>3, <1>5, <1>6, <1>7, <1>8, <1>9

\* The holder of the lock has nothing more to write.
LEMMA NextLetsGoKeeps ==
    ASSUME IInv, NEW t \in Thread, WriteNext(t), queue[at[t]] = <<>>
    PROVE  IInv'
<1> USE DEF IInv
<1>1. /\ UNCHANGED <<op, queue, is_writing, wire, current, made, sent, got, faults,
                     concurrency, running, at>>
      /\ pc[t] = "next" /\ pc' = [pc EXCEPT ![t] = "release"] /\ queue[at[t]] = <<>>
      /\ at[t] \in Server /\ at[t] <= made /\ op[at[t]] # "connecting" /\ t \in 1 .. concurrency
      /\ timer' = [timer EXCEPT ![at[t]] = TRUE]
  BY HeldServer DEF WriteNext, Continue, Holds, TypeOK
<1>2. TypeOK'
  BY <1>1, NoServerAssumption DEF TypeOK
<1>3. Bounded'
  <2>1. Sending' = Sending
    BY <1>1 DEF Sending, TypeOK
  <2> QED BY <1>1, <2>1 DEF Bounded
<1>4. \A s \in Server : Writers(s)' = Writers(s) /\ Keepers(s)' = Keepers(s)
  BY <1>1 DEF Writers, Keepers, TypeOK
<1>5. Started' /\ Alone'
  BY <1>1, <1>2, NoServerAssumption DEF TypeOK, Server, Started, Alone, FrontInWriting,
     Connecting, Outstanding, Somebody
<1>6. Fresh' /\ Connecting'
  BY <1>1, <1>2, NoServerAssumption DEF TypeOK, Server, Fresh, Connecting, Somebody
<1>7. FrontInWriting'
  BY <1>1, <1>2, NoServerAssumption DEF TypeOK, Server, FrontInWriting, OneWriter, Writers,
     Fresh, Connecting, Outstanding, Somebody
<1>8. OneWriter' /\ WriterHoldsLock' /\ LockIsHeld'
  BY <1>1, <1>2, <1>4, NoServerAssumption DEF TypeOK, Server, OneWriter, WriterHoldsLock,
     Fresh, Connecting, Outstanding, LockIsHeld
<1>9. NoneLeft'
  BY <1>1, <1>2, <1>4, NoServerAssumption DEF TypeOK, Server, NoneLeft, LockIsHeld, Alone,
     Started, Fresh, Somebody, Outstanding
<1> QED BY <1>2, <1>3, <1>5, <1>6, <1>7, <1>8, <1>9

\* The lock is free again.
LEMMA ReleaseKeeps == ASSUME IInv, NEW t \in Thread, Release(t) PROVE IInv'
<1> USE DEF IInv
<1>1. /\ UNCHANGED <<op, queue, timer, wire, current, made, sent, got, faults, concurrency,
                     running>>
      /\ pc[t] = "release"
      /\ at[t] \in Server /\ at[t] <= made /\ op[at[t]] # "connecting" /\ t \in 1 .. concurrency
      /\ is_writing' = [is_writing EXCEPT ![at[t]] = FALSE]
      /\ at' = [at EXCEPT ![t] = NoServer] /\ pc' = [pc EXCEPT ![t] = "idle"]
  BY HeldServer DEF Release, Return, Holds, TypeOK
<1>2. TypeOK'
  BY <1>1, NoServerAssumption DEF TypeOK
<1>3. Bounded'
  <2>1. Sending' = Sending
    BY <1>1 DEF Sending, TypeOK
  <2> QED BY <1>1, <2>1 DEF Bounded
<1>4. /\ \A s \in Server : Writers(s)' = Writers(s) \ {t} /\ Keepers(s)' = Keepers(s) \ {t}
      /\ \A s \in Server \ {at[t]} : t \notin Keepers(s)
      /\ t \in Writers(at[t])
  BY <1>1, NoServerAssumption DEF Writers, Keepers, TypeOK
<1>5. Started' /\ Alone'
  BY <1>1, <1>2, NoServerAssumption DEF TypeOK, Server, Started, Alone, FrontInWriting,
     Connecting, Outstanding, Somebody
<1>6. Fresh' /\ Connecting'
  BY <1>1, <1>2, NoServerAssumption DEF TypeOK, Server, Fresh, Connecting, Somebody
<1>7. FrontInWriting'
  BY <1>1, <1>2, NoServerAssumption DEF TypeOK, Server, FrontInWriting, OneWriter, Writers,
     Fresh, Connecting, Outstanding, Somebody
<1>8. OneWriter' /\ WriterHoldsLock' /\ LockIsHeld'
  BY <1>1, <1>2, <1>4, NoServerAssumption DEF TypeOK, Server, OneWriter, WriterHoldsLock,
     Fresh, Connecting, Outstanding, LockIsHeld
<1>9. NoneLeft'
  BY <1>1, <1>2, <1>4, NoServerAssumption DEF TypeOK, Server, NoneLeft, LockIsHeld, Alone,
     Started, Fresh, Somebody, Outstanding
<1> QED BY <1>2, <1>3, <1>5, <1>6, <1>7, <1>8, <1>9

\* A thread takes up a Server that is connected.
LEMMA ConnectedKeeps ==
    ASSUME IInv, NEW t \in Thread, NEW s \in Server, Connected(t, s)
    PROVE  IInv'
<1> USE DEF IInv
<1>1. /\ UNCHANGED <<queue, is_writing, timer, wire, current, made, sent, got, faults,
                     concurrency, running>>
      /\ pc[t] = "idle" /\ at[t] = NoServer /\ t \in 1 .. concurrency /\ op[s] = "connecting"
      /\ op' = [op EXCEPT ![s] = "none"] /\ at' = [at EXCEPT ![t] = s]
      /\ pc' = [pc EXCEPT ![t] = "register"]
  BY DEF Connected, Resume, Idle, Holds, TypeOK
<1>2. TypeOK'
  BY <1>1, NoServerAssumption DEF TypeOK
<1>3. Bounded'
  <2>1. Sending' = Sending
    BY <1>1 DEF Sending, TypeOK
  <2> QED BY <1>1, <2>1 DEF Bounded
<1>4. \A r \in Server : Writers(r)' = Writers(r) /\ Keepers(r)' = Keepers(r)
  BY <1>1, NoServerAssumption DEF Writers, Keepers, TypeOK
<1>5. Started' /\ Alone'
  BY <1>1, <1>2, NoServerAssumption DEF TypeOK, Server, Started, Alone, FrontInWriting,
     Connecting, Outstanding, Somebody
<1>6. Fresh' /\ Connecting'
  BY <1>1, <1>2, NoServerAssumption DEF TypeOK, Server, Fresh, Connecting, Somebody
<1>7. FrontInWriting'
  BY <1>1, <1>2, NoServerAssumption DEF TypeOK, Server, FrontInWriting, OneWriter, Writers,
     Fresh, Connecting, Outstanding, Somebody
<1>8. OneWriter' /\ WriterHoldsLock' /\ LockIsHeld'
  BY <1>1, <1>2, <1>4, NoServerAssumption DEF TypeOK, Server, OneWriter, WriterHoldsLock,
     Fresh, Connecting, Outstanding, LockIsHeld
<1>9. NoneLeft'
  BY <1>1, <1>2, <1>4, NoServerAssumption DEF TypeOK, Server, NoneLeft, LockIsHeld, Alone,
     Started, Fresh, Somebody, Outstanding
<1> QED BY <1>2, <1>3, <1>5, <1>6, <1>7, <1>8, <1>9

\* A thread takes up a Server that is connected again, and the lock.
LEMMA ReconnectedKeeps ==
    ASSUME IInv, NEW t \in Thread, NEW s \in Server, Reconnected(t, s)
    PROVE  IInv'
<1> USE DEF IInv
<1>1. /\ UNCHANGED <<queue, is_writing, timer, wire, current, made, sent, got, faults,
                     concurrency, running>>
      /\ pc[t] = "idle" /\ at[t] = NoServer /\ t \in 1 .. concurrency /\ op[s] = "reconnecting"
      /\ op' = [op EXCEPT ![s] = "none"] /\ at' = [at EXCEPT ![t] = s]
      /\ pc' = [pc EXCEPT ![t] = "write"]
  BY DEF Reconnected, Resume, Idle, Holds, TypeOK
<1>2. TypeOK'
  BY <1>1, NoServerAssumption DEF TypeOK
<1>3. Bounded'
  <2>1. Sending' = Sending
    BY <1>1 DEF Sending, TypeOK
  <2> QED BY <1>1, <2>1 DEF Bounded
<1>4. /\ Writers(s)' = Writers(s) \cup {t} /\ Keepers(s)' = Keepers(s) \cup {t}
      /\ \A r \in Server \ {s} : Writers(r)' = Writers(r) /\ Keepers(r)' = Keepers(r)
  BY <1>1, NoServerAssumption DEF Writers, Keepers, TypeOK
<1>5. Started' /\ Alone'
  BY <1>1, <1>2, NoServerAssumption DEF TypeOK, Server, Started, Alone, FrontInWriting,
     Connecting, Outstanding, Somebody
<1>6. Fresh' /\ Connecting'
  BY <1>1, <1>2, NoServerAssumption DEF TypeOK, Server, Fresh, Connecting, Somebody
<1>7. FrontInWriting'
  BY <1>1, <1>2, NoServerAssumption DEF TypeOK, Server, FrontInWriting, OneWriter, Writers,
     Fresh, Connecting, Outstanding, Somebody
<1>8. WriterHoldsLock'
  BY <1>1, <1>2, <1>4, NoServerAssumption DEF TypeOK, Server, WriterHoldsLock, Fresh,
     Connecting, OneWriter, Outstanding
<1>9. OneWriter'
  <2>1. Writers(s) = {} /\ ~Outstanding(s)'
    BY <1>1 DEF OneWriter, WriterHoldsLock, Outstanding, TypeOK
  <2>2. \A r \in Server \ {s} : Outstanding(r)' = Outstanding(r)
    BY <1>1 DEF Outstanding, TypeOK
  <2> QED BY <1>1, <1>4, <2>1, <2>2 DEF OneWriter
<1>10. LockIsHeld'
  <2>1. \A r \in Server \ {s} : Outstanding(r)' = Outstanding(r)
    BY <1>1 DEF Outstanding, TypeOK
  <2> QED BY <1>1, <1>4, <2>1 DEF LockIsHeld, TypeOK
<1>11. NoneLeft'
  BY <1>1, <1>2, <1>4, NoServerAssumption DEF TypeOK, Server, NoneLeft, LockIsHeld, Alone,
     Started, Fresh, Somebody, Outstanding
<1> QED BY <1>2, <1>3, <1>5, <1>6, <1>7, <1>8, <1>9, <1>10, <1>11

\* A thread takes up a Server that has written, and the lock.
LEMMA OnWriteKeeps ==
    ASSUME IInv, NEW t \in Thread, NEW s \in Server, OnWrite(t, s)
    PROVE  IInv'
<1> USE DEF IInv
<1>1. /\ UNCHANGED <<queue, is_writing, timer, wire, current, made, sent, got, faults,
                     concurrency, running>>
      /\ pc[t] = "idle" /\ at[t] = NoServer /\ t \in 1 .. concurrency /\ op[s] = "written"
      /\ op' = [op EXCEPT ![s] = "none"] /\ at' = [at EXCEPT ![t] = s]
      /\ pc' = [pc EXCEPT ![t] = "pop"]
  BY DEF OnWrite, Resume, Idle, Holds, TypeOK
<1>2. TypeOK'
  BY <1>1, NoServerAssumption DEF TypeOK
<1>3. Bounded'
  <2>1. Sending' = Sending
    BY <1>1 DEF Sending, TypeOK
  <2> QED BY <1>1, <2>1 DEF Bounded
<1>4. /\ Writers(s)' = Writers(s) \cup {t} /\ Keepers(s)' = Keepers(s) \cup {t}
      /\ \A r \in Server \ {s} : Writers(r)' = Writers(r) /\ Keepers(r)' = Keepers(r)
  BY <1>1, NoServerAssumption DEF Writers, Keepers, TypeOK
<1>5. Started' /\ Alone'
  BY <1>1, <1>2, NoServerAssumption DEF TypeOK, Server, Started, Alone, FrontInWriting,
     Connecting, Outstanding, Somebody
<1>6. Fresh' /\ Connecting'
  BY <1>1, <1>2, NoServerAssumption DEF TypeOK, Server, Fresh, Connecting, Somebody
<1>7. FrontInWriting'
  BY <1>1, <1>2, NoServerAssumption DEF TypeOK, Server, FrontInWriting, OneWriter, Writers,
     Fresh, Connecting, Outstanding, Somebody
<1>8. WriterHoldsLock'
  BY <1>1, <1>2, <1>4, NoServerAssumption DEF TypeOK, Server, WriterHoldsLock, Fresh,
     Connecting, OneWriter, Outstanding
<1>9. OneWriter'
  <2>1. Writers(s) = {} /\ ~Outstanding(s)'
    BY <1>1 DEF OneWriter, WriterHoldsLock, Outstanding, TypeOK
  <2>2. \A r \in Server \ {s} : Outstanding(r)' = Outstanding(r)
    BY <1>1 DEF Outstanding, TypeOK
  <2> QED BY <1>1, <1>4, <2>1, <2>2 DEF OneWriter
<1>10. LockIsHeld'
  <2>1. \A r \in Server \ {s} : Outstanding(r)' = Outstanding(r)
    BY <1>1 DEF Outstanding, TypeOK
  <2> QED BY <1>1, <1>4, <2>1 DEF LockIsHeld, TypeOK
<1>11. NoneLeft'
  BY <1>1, <1>2, <1>4, NoServerAssumption DEF TypeOK, Server, NoneLeft, LockIsHeld, Alone,
     Started, Fresh, Somebody, Outstanding
<1> QED BY <1>2, <1>3, <1>5, <1>6, <1>7, <1>8, <1>9, <1>10, <1>11

\* The kernel has the message that is at the front.
LEMMA TransmitKeeps == ASSUME IInv, NEW s \in Server, Transmit(s) PROVE IInv'
<1> USE DEF IInv
<1>1. /\ UNCHANGED <<concurrency, running, pc, at, queue, is_writing, timer, current, made,
                     sent, got, faults>>
      /\ op[s] = "writing" /\ op' = [op EXCEPT ![s] = "written"] /\ queue[s] # <<>>
      /\ wire' = [wire EXCEPT ![s] = Append(@, Head(queue[s]))]
  BY DEF Transmit, FrontInWriting, Outstanding, thread
<1>2. TypeOK'
  <2>1. wire' \in [Server -> Seq(Message)]
    BY <1>1 DEF TypeOK
  <2> QED BY <1>1, <2>1 DEF TypeOK
<1>3. Bounded'
  <2>1. Sending' = Sending
    BY <1>1 DEF Sending, TypeOK
  <2> QED BY <1>1, <2>1 DEF Bounded
<1>4. \A r \in Server : Writers(r)' = Writers(r) /\ Keepers(r)' = Keepers(r)
  BY <1>1 DEF Writers, Keepers, TypeOK
<1>5. Started' /\ Alone'
  BY <1>1, <1>2, NoServerAssumption DEF TypeOK, Server, Started, Alone, FrontInWriting,
     Connecting, Outstanding, Somebody
<1>6. Fresh' /\ Connecting'
  BY <1>1, <1>2, NoServerAssumption DEF TypeOK, Server, Fresh, Connecting, Somebody
<1>7. FrontInWriting'
  BY <1>1, <1>2, NoServerAssumption DEF TypeOK, Server, FrontInWriting, OneWriter, Writers,
     Fresh, Connecting, Outstanding, Somebody
<1>8. OneWriter' /\ WriterHoldsLock' /\ LockIsHeld'
  BY <1>1, <1>2, <1>4, NoServerAssumption DEF TypeOK, Server, OneWriter, WriterHoldsLock,
     Fresh, Connecting, Outstanding, LockIsHeld
<1>9. NoneLeft'
  BY <1>1, <1>2, <1>4, NoServerAssumption DEF TypeOK, Server, NoneLeft, LockIsHeld, Alone,
     Started, Fresh, Somebody, Outstanding
<1> QED BY <1>2, <1>3, <1>5, <1>6, <1>7, <1>8, <1>9

\* The other node reads a message.
LEMMA ReceiveKeeps == ASSUME IInv, NEW s \in Server, Receive(s) PROVE IInv'
<1> USE DEF IInv
<1>1. /\ UNCHANGED <<concurrency, running, pc, at, op, queue, is_writing, timer, current,
                     made, sent, faults>>
      /\ wire[s] # <<>> /\ wire' = [wire EXCEPT ![s] = Tail(@)]
      /\ got' = Append(got, Head(wire[s]))
  BY DEF Receive, thread
<1>2. TypeOK'
  <2>1. wire' \in [Server -> Seq(Message)] /\ got' \in Seq(Message)
    BY <1>1 DEF TypeOK
  <2> QED BY <1>1, <2>1 DEF TypeOK
<1>3. Bounded'
  <2>1. Sending' = Sending
    BY <1>1 DEF Sending, TypeOK
  <2> QED BY <1>1, <2>1 DEF Bounded
<1>4. \A r \in Server : Writers(r)' = Writers(r) /\ Keepers(r)' = Keepers(r)
  BY <1>1 DEF Writers, Keepers, TypeOK
<1>5. Started' /\ Alone'
  BY <1>1, <1>2, NoServerAssumption DEF TypeOK, Server, Started, Alone, FrontInWriting,
     Connecting, Outstanding, Somebody
<1>6. Fresh' /\ Connecting'
  BY <1>1, <1>2, NoServerAssumption DEF TypeOK, Server, Fresh, Connecting, Somebody
<1>7. FrontInWriting'
  BY <1>1, <1>2, NoServerAssumption DEF TypeOK, Server, FrontInWriting, OneWriter, Writers,
     Fresh, Connecting, Outstanding, Somebody
<1>8. OneWriter' /\ WriterHoldsLock' /\ LockIsHeld'
  BY <1>1, <1>2, <1>4, NoServerAssumption DEF TypeOK, Server, OneWriter, WriterHoldsLock,
     Fresh, Connecting, Outstanding, LockIsHeld
<1>9. NoneLeft'
  BY <1>1, <1>2, <1>4, NoServerAssumption DEF TypeOK, Server, NoneLeft, LockIsHeld, Alone,
     Started, Fresh, Somebody, Outstanding
<1> QED BY <1>2, <1>3, <1>5, <1>6, <1>7, <1>8, <1>9

\* The timer lets go of a Server.
LEMMA TimerEndsKeeps == ASSUME IInv, NEW s \in Server, TimerEnds(s) PROVE IInv'
<1> USE DEF IInv
<1>1. /\ UNCHANGED <<concurrency, running, pc, at, op, queue, is_writing, wire, current, made,
                     sent, got, faults>>
      /\ timer[s] /\ timer' = [timer EXCEPT ![s] = FALSE]
  BY DEF TimerEnds, thread
<1>2. TypeOK'
  BY <1>1 DEF TypeOK
<1>3. Bounded'
  <2>1. Sending' = Sending
    BY <1>1 DEF Sending, TypeOK
  <2> QED BY <1>1, <2>1 DEF Bounded
<1>4. \A r \in Server : Writers(r)' = Writers(r) /\ Keepers(r)' = Keepers(r)
  BY <1>1 DEF Writers, Keepers, TypeOK
<1>5. Started' /\ Alone'
  BY <1>1, <1>2, NoServerAssumption DEF TypeOK, Server, Started, Alone, FrontInWriting,
     Connecting, Outstanding, Somebody
<1>6. Fresh' /\ Connecting'
  BY <1>1, <1>2, NoServerAssumption DEF TypeOK, Server, Fresh, Connecting, Somebody
<1>7. FrontInWriting'
  BY <1>1, <1>2, NoServerAssumption DEF TypeOK, Server, FrontInWriting, OneWriter, Writers,
     Fresh, Connecting, Outstanding, Somebody
<1>8. OneWriter' /\ WriterHoldsLock' /\ LockIsHeld'
  BY <1>1, <1>2, <1>4, NoServerAssumption DEF TypeOK, Server, OneWriter, WriterHoldsLock,
     Fresh, Connecting, Outstanding, LockIsHeld
<1>9. NoneLeft'
  BY <1>1, <1>2, <1>4, NoServerAssumption DEF TypeOK, Server, NoneLeft, LockIsHeld, Alone,
     Started, Fresh, Somebody, Outstanding
<1> QED BY <1>2, <1>3, <1>5, <1>6, <1>7, <1>8, <1>9

\* What an operation that fails leaves behind.
LEMMA FailKeeps == ASSUME IInv, NEW t \in Thread, Fail(t) PROVE IInv'
<1> USE DEF IInv
<1>1. PICK s \in Server :
          /\ UNCHANGED <<concurrency, pc, at, queue, is_writing, timer, current, made, sent,
                         got>>
          /\ faults < MaxFaults /\ faults' = faults + 1 /\ running' \subseteq running
          /\ wire' \in {wire, [wire EXCEPT ![s] = <<>>]}
          /\ \/ op[s] \in {"connecting", "writing"} /\ op' = [op EXCEPT ![s] = "none"]
             \/ op[s] = "writing" /\ op' = [op EXCEPT ![s] = "reconnecting"]
  BY DEF Fail, Refused, Reset, Broken, Fault, thread
<1>2. TypeOK'
  <2>1. faults' \in 0 .. MaxFaults
    BY <1>1, FaultsAssumption DEF TypeOK
  <2>2. wire' \in [Server -> Seq(Message)]
    <3>1. <<>> \in Seq(Message)
      BY EmptySeq
    <3> QED BY <1>1, <3>1 DEF TypeOK
  <2>3. running' \subseteq 1 .. concurrency'
    BY <1>1 DEF TypeOK
  <2> QED BY <1>1, <2>1, <2>2, <2>3 DEF TypeOK
<1>3. Bounded'
  <2>1. Sending' = Sending
    BY <1>1 DEF Sending, TypeOK
  <2> QED BY <1>1, <2>1 DEF Bounded
<1>4. \A r \in Server : Writers(r)' = Writers(r) /\ Keepers(r)' = Keepers(r)
  BY <1>1 DEF Writers, Keepers, TypeOK
<1>5. Started' /\ Alone'
  BY <1>1, <1>2, NoServerAssumption DEF TypeOK, Server, Started, Alone, FrontInWriting,
     Connecting, Outstanding, Somebody
<1>6. Fresh' /\ Connecting'
  BY <1>1, <1>2, NoServerAssumption DEF TypeOK, Server, Fresh, Connecting, Somebody
<1>7. FrontInWriting'
  BY <1>1, <1>2, NoServerAssumption DEF TypeOK, Server, FrontInWriting, OneWriter, Writers,
     Fresh, Connecting, Outstanding, Somebody
<1>8. OneWriter' /\ WriterHoldsLock'
  BY <1>1, <1>2, <1>4, NoServerAssumption DEF TypeOK, Server, OneWriter, WriterHoldsLock,
     Fresh, Connecting, Outstanding
<1>9. LockIsHeld'
  BY <1>1 DEF LockIsHeld, TypeOK
<1>10. NoneLeft'
  BY <1>1 DEF NoneLeft, TypeOK
<1> QED BY <1>2, <1>3, <1>5, <1>6, <1>7, <1>8, <1>9, <1>10
-----------------------------------------------------------------------------
(* The invariant and what follows from it.                                 *)

\* A handler's step is one of those above.
LEMMA ProceedKeeps == ASSUME IInv, NEW t \in Thread, Proceed(t) PROVE IInv'
<1>1. CASE Claim(t)
  BY <1>1, ClaimTakenKeeps, ClaimFreeKeeps
<1>2. CASE Write(t)
  BY <1>2, WriteNothingKeeps, WriteFrontKeeps
<1>3. CASE WriteNext(t)
  BY <1>3, NextGoesOnKeeps, NextLetsGoKeeps
<1> QED BY <1>1, <1>2, <1>3, EraseKeeps, OpenKeeps, PushKeeps, RegisterKeeps, PopKeeps,
           ReleaseKeeps DEF Proceed

LEMMA StutterKeeps == ASSUME IInv, UNCHANGED vars PROVE IInv'
<1>1. UNCHANGED <<concurrency, running, pc, at, op, queue, is_writing, timer, wire, current,
                  made, sent, got, faults>>
  BY DEF vars, thread, conns
<1> QED BY <1>1 DEF IInv, TypeOK, Bounded, Sending, Started, Fresh, Connecting,
           FrontInWriting,
           OneWriter, WriterHoldsLock, Alone, LockIsHeld, NoneLeft, Outstanding, Writers,
           Keepers, Somebody

LEMMA StepKeeps == IInv /\ [Next]_vars => IInv'
<1> SUFFICES ASSUME IInv, [Next]_vars PROVE IInv'
  OBVIOUS
<1>1. CASE \E t \in Thread : Complete(t)
  BY <1>1, ConnectedKeeps, ReconnectedKeeps, OnWriteKeeps DEF Complete
<1>2. CASE Network \/ Clock
  BY <1>2, TransmitKeeps, ReceiveKeeps, TimerEndsKeeps DEF Network, Clock
<1> QED BY <1>1, <1>2, SendKeeps, ProceedKeeps, FailKeeps, StutterKeeps DEF Next

\* The strengthened invariant of the links.
THEOREM Invariance == Spec => []IInv
BY InitIInv, StepKeeps, PTL DEF Spec

\* Type correctness; in particular the thread that pops finds a message.
THEOREM TypeCorrect == Spec => []TypeOK
<1>1. IInv => TypeOK
  BY DEF IInv
<1> QED BY <1>1, Invariance, PTL

\* Whatever the threads and the faults do, a socket has one async_write at a
\* time and one thread that decides on the next (do_write, on_write).
THEOREM OneWriterAlways == Spec => []OneWriter
<1>1. IInv => OneWriter
  BY DEF IInv
<1> QED BY <1>1, Invariance, PTL

\* With one io thread do_write_impl never asks an empty queue for its front.
THEOREM FrontIsThereAlways == Spec => []FrontIsThere
<1>1. IInv => FrontIsThere
  BY DEF IInv, Alone, FrontIsThere
<1> QED BY <1>1, Invariance, PTL

\* As long as nothing fails, one io thread leaves no message behind, and more
\* leave none behind that the next message would not take along.
THEOREM NothingStrandedAlways == Spec => []NothingStranded
<1>1. IInv => NothingStranded
  <2> SUFFICES ASSUME IInv, faults = 0, NEW s \in Server, Stranded(s)
               PROVE  concurrency > 1 /\ ~is_writing[s]
    BY DEF NothingStranded
  <2>1. queue[s] # <<>> /\ op[s] = "none" /\ ~Somebody(s)
    BY DEF Stranded, Somebody
  <2>2. concurrency > 1
    BY <2>1, ThreadsAssumption DEF IInv, NoneLeft, TypeOK, Thread
  <2>3. ~Outstanding(s) /\ Keepers(s) = {}
    BY <2>1 DEF Outstanding, Keepers, Somebody
  <2> QED BY <2>2, <2>3 DEF IInv, LockIsHeld
<1> QED BY <1>1, Invariance, PTL
-----------------------------------------------------------------------------
(* The refinement of MessageLanes.                                         *)
Carried(s) == wire[s] \o Unsent(s)

\* A sequence in two parts, one of which may be lost.
LEMMA Parts ==
    ASSUME NEW w \in Seq(Message), NEW u \in Seq(Message),
           NEW x \in {w, <<>>}, NEW y \in {u, <<>>}
    PROVE  \E before, last \in 0 .. Len(w \o u) : x \o y = SubSeq(w \o u, before + 1, last)
<1>1. /\ w \o u \in Seq(Message) /\ Len(w \o u) = Len(w) + Len(u)
      /\ Len(w) \in Nat /\ Len(u) \in Nat
  BY ConcatProperties, LenProperties
<1> DEFINE all == 0 .. Len(w \o u)
<1>2. 0 \in all /\ Len(w) \in all /\ Len(w \o u) \in all
  BY <1>1
<1>3. /\ SubSeq(w \o u, 0 + 1, Len(w \o u)) = w \o u
      /\ SubSeq(w \o u, 0 + 1, Len(w)) = w
      /\ SubSeq(w \o u, Len(w) + 1, Len(w \o u)) = u
      /\ SubSeq(w \o u, 0 + 1, 0) = <<>>
  <2>1. SubSeq(w \o u, 0 + 1, Len(w \o u)) = w \o u
    BY <1>1, SubSeqFull
  <2>2. SubSeq(w \o u, 0 + 1, 0) = <<>>
    BY SubSeqEmpty
  <2>3. SubSeq(w \o u, 0 + 1, Len(w)) = w
    OBVIOUS
  <2>4. SubSeq(w \o u, Len(w) + 1, Len(w \o u)) = u
    OBVIOUS
  <2> QED BY <2>1, <2>2, <2>3, <2>4
<1>4. CASE x = w /\ y = u
  <2> WITNESS 0 \in all, Len(w \o u) \in all
  <2> QED BY <1>3, <1>4
<1>5. CASE x = w /\ y = <<>>
  <2>1. x \o y = w
    BY <1>5, ConcatEmptySeq
  <2> WITNESS 0 \in all, Len(w) \in all
  <2> QED BY <1>3, <2>1
<1>6. CASE x = <<>> /\ y = u
  <2>1. x \o y = u
    BY <1>6, ConcatEmptySeq
  <2> WITNESS Len(w) \in all, Len(w \o u) \in all
  <2> QED BY <1>3, <2>1
<1>7. CASE x = <<>> /\ y = <<>>
  <2>1. x \o y = <<>>
    BY <1>7, ConcatEmptySeq, EmptySeq
  <2> WITNESS 0 \in all, 0 \in all
  <2> QED BY <1>3, <2>1
<1> QED BY <1>4, <1>5, <1>6, <1>7

LEMMA CarriedType ==
    ASSUME IInv, NEW s \in Server
    PROVE  wire[s] \in Seq(Message) /\ Unsent(s) \in Seq(Message) /\ Carried(s) \in Seq(Message)
<1>1. wire[s] \in Seq(Message) /\ queue[s] \in Seq(Message)
  BY DEF IInv, TypeOK
<1>2. OnWire(s) => queue[s] # <<>>
  BY DEF IInv, FrontInWriting, OnWire, Outstanding
<1>3. Unsent(s) \in Seq(Message)
  BY <1>1, <1>2, EmptySeq, HeadTailProperties DEF Unsent
<1> QED BY <1>1, <1>3, ConcatProperties DEF Carried

\* Where wire and queue stay, what is carried changes only by a death.
LEMMA Unseen ==
    ASSUME UNCHANGED <<wire, queue, got, sent>>,
           \A s \in Server : (Alive(s)' <=> Alive(s)) /\ (OnWire(s)' <=> OnWire(s))
    PROVE  UNCHANGED Lanes!vars
<1>1. \A s \in Server : wire'[s] \o Unsent(s)' = wire[s] \o Unsent(s)
  BY DEF Unsent
<1> QED BY <1>1 DEF Lanes!vars

\* A Server that breaks or dies loses a part of what it carries.
LEMMA Loses ==
    ASSUME IInv, NEW s \in Server, UNCHANGED <<queue, got, sent>>,
           wire' \in {wire, [wire EXCEPT ![s] = <<>>]},
           \A r \in Server : OnWire(r)' <=> OnWire(r),
           \A r \in Server \ {s} : Alive(r)' <=> Alive(r),
           Alive(s)' => Alive(s)
    PROVE  Lanes!Lose(s)
<1>1. wire'[s] \in {wire[s], <<>>} /\ \A r \in Server \ {s} : wire'[r] = wire[r]
  BY DEF IInv, TypeOK
<1>2. Unsent(s)' \in {Unsent(s), <<>>} /\ \A r \in Server \ {s} : Unsent(r)' = Unsent(r)
  BY DEF Unsent
<1>3. \E before, last \in 0 .. Len(wire[s] \o Unsent(s)) :
          wire'[s] \o Unsent(s)' = SubSeq(wire[s] \o Unsent(s), before + 1, last)
  <2> DEFINE w == wire[s]
             u == Unsent(s)
             x == wire'[s]
             y == Unsent(s)'
  <2>1. w \in Seq(Message) /\ u \in Seq(Message)
    BY CarriedType
  <2>2. x \in {w, <<>>} /\ y \in {u, <<>>}
    BY <1>1, <1>2
  <2> HIDE DEF w, u, x, y
  <2>3. \E before, last \in 0 .. Len(w \o u) : x \o y = SubSeq(w \o u, before + 1, last)
    BY <2>1, <2>2, Parts
  <2> QED BY <2>3 DEF w, u, x, y
<1>4. PICK before \in 0 .. Len(Carried(s)), last \in 0 .. Len(Carried(s)) :
          Carried(s)' = SubSeq(Carried(s), before + 1, last)
  BY <1>3 DEF Carried
<1>5. \A r \in Server \ {s} : Carried(r)' = Carried(r)
  BY <1>1, <1>2 DEF Carried
<1>6. [r \in Server |-> Carried(r)]' =
          [[r \in Server |-> Carried(r)] EXCEPT ![s] = SubSeq(@, before + 1, last)]
  BY <1>4, <1>5
<1> QED BY <1>4, <1>6 DEF Lanes!Lose, Carried

LEMMA InitLanes == Init => Lanes!Init
<1> SUFFICES ASSUME Init PROVE Lanes!Init
  OBVIOUS
<1>1. \A s \in Server : wire[s] \o Unsent(s) = <<>>
  BY NoServerAssumption, ConcatEmptySeq, EmptySeq DEF Init, Unsent, Alive, Server
<1>2. Len(sent) = 0
  BY EmptySeq DEF Init
<1> QED BY <1>1, <1>2 DEF Lanes!Init, Init

\* Steps of a thread between two accesses to the wire or to a queue.
LEMMA SendUnseen == ASSUME IInv, NEW t \in Thread, Send(t) PROVE UNCHANGED Lanes!vars
<1>1. /\ UNCHANGED <<op, timer, wire, queue, got, sent>> /\ at[t] = NoServer /\ pc[t] = "idle"
      /\ pc'[t] # "pop"
      /\ \/ at' = at
         \/ current \in Server /\ Alive(current) /\ at' = [at EXCEPT ![t] = current]
      /\ \A u \in Thread \ {t} : pc'[u] = pc[u]
  BY DEF Send, Idle, Continue, Holds, IInv, TypeOK, conns
<1>2. \A s \in Server : Alive(s)' <=> Alive(s)
  BY <1>1, NoServerAssumption DEF Alive, IInv, TypeOK
<1>3. \A s \in Server : OnWire(s)' <=> OnWire(s)
  BY <1>1, NoServerAssumption DEF OnWire, IInv, TypeOK
<1> QED BY <1>1, <1>2, <1>3, Unseen

\* Neither the holders of Servers nor what they carry change.
LEMMA PlaceUnseen ==
    ASSUME IInv, NEW t \in Thread,
           NEW step \in {"open", "claim", "write", "release", "undefined"},
           UNCHANGED <<at, op, wire, queue, got, sent>>,
           pc[t] # "pop", pc' = [pc EXCEPT ![t] = step],
           \/ timer' = timer
           \/ timer' = [timer EXCEPT ![at[t]] = TRUE] /\ at[t] \in Server
    PROVE  UNCHANGED Lanes!vars
<1>1. \A s \in Server : Alive(s)' <=> Alive(s)
  BY DEF Alive, IInv, TypeOK
<1>2. \A s \in Server : OnWire(s)' <=> OnWire(s)
  BY DEF OnWire, IInv, TypeOK
<1> QED BY <1>1, <1>2, Unseen

LEMMA EraseUnseen == ASSUME IInv, NEW t \in Thread, Erase(t) PROVE UNCHANGED Lanes!vars
<1>1. /\ UNCHANGED <<at, op, wire, queue, got, sent>> /\ timer' = timer
      /\ pc[t] # "pop" /\ pc' = [pc EXCEPT ![t] = "open"]
  BY DEF Erase, Continue, Holds, IInv, TypeOK, conns
<1> QED BY <1>1, PlaceUnseen

LEMMA RegisterUnseen == ASSUME IInv, NEW t \in Thread, Register(t) PROVE UNCHANGED Lanes!vars
<1>1. /\ UNCHANGED <<at, op, wire, queue, got, sent>> /\ timer' = timer
      /\ pc[t] # "pop" /\ pc' = [pc EXCEPT ![t] = "claim"]
  BY DEF Register, Continue, Holds, IInv, TypeOK, conns
<1> QED BY <1>1, PlaceUnseen

LEMMA WriteNextUnseen ==
    ASSUME IInv, NEW t \in Thread, WriteNext(t)
    PROVE  UNCHANGED Lanes!vars
<1>1. PICK step \in {"write", "release"} :
          /\ UNCHANGED <<at, op, wire, queue, got, sent>>
          /\ pc[t] # "pop" /\ pc' = [pc EXCEPT ![t] = step]
          /\ \/ timer' = timer
             \/ timer' = [timer EXCEPT ![at[t]] = TRUE] /\ at[t] \in Server
  BY HeldServer DEF WriteNext, Continue, Holds, IInv, TypeOK
<1> QED BY <1>1, PlaceUnseen

LEMMA ClaimFreeUnseen ==
    ASSUME IInv, NEW t \in Thread, Claim(t), ~is_writing[at[t]] PROVE UNCHANGED Lanes!vars
<1>1. /\ UNCHANGED <<at, op, wire, queue, got, sent>> /\ timer' = timer
      /\ pc[t] # "pop" /\ pc' = [pc EXCEPT ![t] = "write"]
  BY DEF Claim, Continue, Holds, IInv, TypeOK, conns
<1> QED BY <1>1, PlaceUnseen

\* The lock goes from a thread to the operation that it starts.
LEMMA WriteUnseen == ASSUME IInv, NEW t \in Thread, Write(t) PROVE UNCHANGED Lanes!vars
<1>1. CASE queue[at[t]] = <<>>
  <2>1. /\ UNCHANGED <<at, op, wire, queue, got, sent>> /\ timer' = timer
        /\ pc[t] # "pop" /\ pc' = [pc EXCEPT ![t] = "undefined"]
    BY <1>1 DEF Write, Continue, Holds, IInv, TypeOK
  <2> QED BY <2>1, PlaceUnseen
<1>2. CASE queue[at[t]] # <<>>
  <2>1. /\ UNCHANGED <<timer, wire, queue, got, sent>>
        /\ op' = [op EXCEPT ![at[t]] = "writing"] /\ at[t] \in Server
        /\ at' = [at EXCEPT ![t] = NoServer] /\ pc' = [pc EXCEPT ![t] = "idle"] /\ pc[t] = "write"
    BY <1>2, HeldServer DEF Write, Return, Holds
  <2>2. op[at[t]] # "written"
    BY <2>1 DEF IInv, OneWriter, Outstanding, Writers
  <2>3. \A s \in Server : Alive(s)' <=> Alive(s)
    BY <2>1, NoServerAssumption DEF Alive, IInv, TypeOK
  <2>4. \A s \in Server : OnWire(s)' <=> OnWire(s)
    BY <2>1, <2>2, NoServerAssumption DEF OnWire, IInv, TypeOK
  <2> QED BY <2>1, <2>3, <2>4, Unseen
<1> QED BY <1>1, <1>2

\* A thread takes up a Server, which its operation kept alive.
LEMMA CompleteUnseen == ASSUME IInv, NEW t \in Thread, Complete(t) PROVE UNCHANGED Lanes!vars
<1>1. PICK s \in Server :
          /\ UNCHANGED <<timer, wire, queue, got, sent>>
          /\ at[t] = NoServer /\ pc[t] = "idle" /\ op[s] # "none"
          /\ op' = [op EXCEPT ![s] = "none"] /\ at' = [at EXCEPT ![t] = s]
          /\ \E step : /\ pc' = [pc EXCEPT ![t] = step]
                       /\ step = "pop" <=> op[s] = "written"
  BY DEF Complete, Connected, Reconnected, OnWrite, Resume, Idle, Holds, IInv, TypeOK
<1>2. \A r \in Server : Alive(r)' <=> Alive(r)
  BY <1>1, NoServerAssumption DEF Alive, IInv, TypeOK
<1>3. \A r \in Server : OnWire(r)' <=> OnWire(r)
  BY <1>1, NoServerAssumption DEF OnWire, IInv, TypeOK
<1> QED BY <1>1, <1>2, <1>3, Unseen

\* on_write removes from the queue what the wire has.
LEMMA PopUnseen == ASSUME IInv, NEW t \in Thread, Pop(t) PROVE UNCHANGED Lanes!vars
<1>1. /\ UNCHANGED <<at, op, timer, wire, got, sent>>
      /\ pc[t] = "pop" /\ pc' = [pc EXCEPT ![t] = "next"] /\ at[t] \in Server
      /\ queue' = [queue EXCEPT ![at[t]] = Tail(@)]
  BY HeldServer DEF Pop, Continue, Holds, IInv, TypeOK
<1>2. \A s \in Server : Alive(s)' <=> Alive(s)
  BY <1>1 DEF Alive
<1>3. OnWire(at[t]) /\ ~OnWire(at[t])' /\ Alive(at[t])
  BY <1>1 DEF OnWire, Alive, IInv, TypeOK, OneWriter, Writers, Outstanding
<1>4. \A s \in Server \ {at[t]} : OnWire(s)' <=> OnWire(s)
  BY <1>1 DEF OnWire, IInv, TypeOK
<1>5. \A s \in Server : Unsent(s)' = Unsent(s)
  BY <1>1, <1>2, <1>3, <1>4 DEF Unsent, IInv, TypeOK
<1> QED BY <1>1, <1>5 DEF Lanes!vars

\* The front of the queue becomes the end of the wire.
LEMMA MoveFront ==
    ASSUME NEW w \in Seq(Message), NEW q \in Seq(Message), q # <<>>
    PROVE  Append(w, Head(q)) \o Tail(q) = w \o q
OBVIOUS

LEMMA TransmitUnseen == ASSUME IInv, NEW s \in Server, Transmit(s) PROVE UNCHANGED Lanes!vars
<1>1. /\ UNCHANGED <<at, pc, timer, queue, got, sent>>
      /\ op[s] = "writing" /\ op' = [op EXCEPT ![s] = "written"]
      /\ wire' = [wire EXCEPT ![s] = Append(@, Head(queue[s]))]
  BY DEF Transmit, thread
<1>2. \A r \in Server : Alive(r)' <=> Alive(r)
  BY <1>1 DEF Alive, IInv, TypeOK
<1>3. ~OnWire(s) /\ OnWire(s)' /\ Alive(s) /\ queue[s] # <<>>
  BY <1>1 DEF OnWire, Alive, IInv, TypeOK, OneWriter, Writers, Outstanding, FrontInWriting
<1>4. \A r \in Server \ {s} : OnWire(r)' <=> OnWire(r)
  BY <1>1 DEF OnWire, IInv, TypeOK
<1>5. Unsent(s) = queue[s] /\ Unsent(s)' = Tail(queue[s])
  BY <1>1, <1>2, <1>3 DEF Unsent
<1>6. wire'[s] \o Unsent(s)' = wire[s] \o Unsent(s)
  <2>1. wire[s] \in Seq(Message) /\ queue[s] \in Seq(Message) /\ wire \in [Server -> Seq(Message)]
    BY DEF IInv, TypeOK
  <2>2. wire'[s] = Append(wire[s], Head(queue[s]))
    BY <1>1, <2>1
  <2>3. Append(wire[s], Head(queue[s])) \o Tail(queue[s]) = wire[s] \o queue[s]
    BY <1>3, <2>1, MoveFront
  <2> QED BY <1>5, <2>2, <2>3
<1>7. \A r \in Server \ {s} : wire'[r] \o Unsent(r)' = wire[r] \o Unsent(r)
  BY <1>1, <1>2, <1>4 DEF Unsent, IInv, TypeOK
<1> QED BY <1>1, <1>6, <1>7 DEF Lanes!vars
-----------------------------------------------------------------------------
\* A thread that lets go of a Server may be the last one that held it.
LEMMA LetsGo ==
    ASSUME IInv, NEW t \in Thread, at[t] \in Server, pc[t] # "pop",
           UNCHANGED <<op, timer, wire, queue, got, sent>>, Return(t)
    PROVE  Lanes!Next
<1> PICK s \in Server : s = at[t]
  OBVIOUS
<1>1. at' = [at EXCEPT ![t] = NoServer] /\ pc' = [pc EXCEPT ![t] = "idle"]
  BY DEF Return, Holds
<1>2. /\ \A r \in Server : OnWire(r)' <=> OnWire(r)
      /\ \A r \in Server \ {s} : Alive(r)' <=> Alive(r)
      /\ Alive(s)
  BY <1>1, NoServerAssumption DEF OnWire, Alive, IInv, TypeOK
<1>3. Lanes!Lose(s)
  BY <1>2, Loses
<1> QED BY <1>3 DEF Lanes!Next

LEMMA ClaimTakenLoses ==
    ASSUME IInv, NEW t \in Thread, Claim(t), is_writing[at[t]] PROVE Lanes!Next
BY LetsGo, HeldServer DEF Claim

LEMMA ReleaseLoses == ASSUME IInv, NEW t \in Thread, Release(t) PROVE Lanes!Next
BY LetsGo, HeldServer DEF Release

LEMMA TimerLoses == ASSUME IInv, NEW s \in Server, TimerEnds(s) PROVE Lanes!Next
<1>1. /\ UNCHANGED <<at, pc, op, wire, queue, got, sent>>
      /\ timer[s] /\ timer' = [timer EXCEPT ![s] = FALSE]
  BY DEF TimerEnds, thread
<1>2. /\ \A r \in Server : OnWire(r)' <=> OnWire(r)
      /\ \A r \in Server \ {s} : Alive(r)' <=> Alive(r)
      /\ Alive(s)
  BY <1>1 DEF OnWire, Alive, IInv, TypeOK
<1>3. Lanes!Lose(s)
  BY <1>1, <1>2, Loses
<1> QED BY <1>3 DEF Lanes!Next

LEMMA FailLoses == ASSUME IInv, NEW t \in Thread, Fail(t) PROVE Lanes!Next
<1>1. PICK s \in Server :
          /\ UNCHANGED <<pc, at, queue, timer, sent, got>>
          /\ wire' \in {wire, [wire EXCEPT ![s] = <<>>]}
          /\ op[s] \in {"connecting", "writing"}
          /\ op' \in {[op EXCEPT ![s] = "none"], [op EXCEPT ![s] = "reconnecting"]}
  BY DEF Fail, Refused, Reset, Broken, thread
<1>2. /\ \A r \in Server : OnWire(r)' <=> OnWire(r)
      /\ \A r \in Server \ {s} : Alive(r)' <=> Alive(r)
      /\ Alive(s)
  BY <1>1 DEF OnWire, Alive, IInv, TypeOK
<1>3. Lanes!Lose(s)
  BY <1>1, <1>2, Loses
<1> QED BY <1>3 DEF Lanes!Next

\* The other node takes the first message of the wire.
LEMMA TakeFront ==
    ASSUME NEW w \in Seq(Message), NEW u \in Seq(Message), w # <<>>
    PROVE  w \o u # <<>> /\ Head(w \o u) = Head(w) /\ Tail(w \o u) = Tail(w) \o u
OBVIOUS

LEMMA ReceiveTakes == ASSUME IInv, NEW s \in Server, Receive(s) PROVE Lanes!Take(s)
<1>1. /\ UNCHANGED <<at, pc, op, timer, queue, sent>>
      /\ wire[s] # <<>> /\ wire' = [wire EXCEPT ![s] = Tail(@)]
      /\ got' = Append(got, Head(wire[s]))
  BY DEF Receive, thread
<1>2. \A r \in Server : Unsent(r)' = Unsent(r)
  BY <1>1 DEF Unsent, Alive, OnWire
<1>3. /\ Carried(s) # <<>> /\ Head(Carried(s)) = Head(wire[s])
      /\ Tail(Carried(s)) = Tail(wire[s]) \o Unsent(s)
  BY <1>1, CarriedType, TakeFront DEF Carried
<1>4. /\ Carried(s)' = Tail(Carried(s))
      /\ \A r \in Server \ {s} : Carried(r)' = Carried(r)
  BY <1>1, <1>2, <1>3 DEF Carried, IInv, TypeOK
<1>5. [r \in Server |-> Carried(r)]' = [[r \in Server |-> Carried(r)] EXCEPT ![s] = Tail(@)]
  BY <1>4
<1> QED BY <1>1, <1>3, <1>5 DEF Lanes!Take, Carried

\* A message joins the end of a queue, and of what its Server carries.
LEMMA JoinBack ==
    ASSUME NEW w \in Seq(Message), NEW u \in Seq(Message), NEW m \in Message
    PROVE  /\ w \o Append(u, m) = Append(w \o u, m)
           /\ u # <<>> => Tail(Append(u, m)) = Append(Tail(u), m)
OBVIOUS

LEMMA Puts ==
    ASSUME IInv, NEW s \in Server, NEW m \in Message, m = Len(sent) + 1,
           Len(sent') = m, UNCHANGED <<wire, got>>,
           Unsent(s)' = Append(Unsent(s), m),
           \A r \in Server \ {s} : Unsent(r)' = Unsent(r)
    PROVE  Lanes!Put(s)
<1>1. /\ Carried(s)' = Append(Carried(s), m)
      /\ \A r \in Server \ {s} : Carried(r)' = Carried(r)
  BY CarriedType, JoinBack DEF Carried
<1>2. [r \in Server |-> Carried(r)]' = [[r \in Server |-> Carried(r)] EXCEPT ![s] = Append(@, m)]
  BY <1>1
<1> QED BY <1>2 DEF Lanes!Put, Carried

LEMMA OpenPuts ==
    ASSUME IInv, NEW t \in Thread, Open(t)
    PROVE  \E s \in Server : s = made + 1 /\ Lanes!Put(s)
<1>1. /\ made + 1 \in Server /\ Len(sent) + 1 \in Message /\ Len(sent') = Len(sent) + 1
      /\ UNCHANGED <<at, timer, wire, got>> /\ pc[t] = "open" /\ pc' = [pc EXCEPT ![t] = "idle"]
  BY SentFits DEF Open, Return, Holds, IInv, TypeOK, Sending
<1> PICK s \in Server, m \in Message : s = made + 1 /\ m = Len(sent) + 1
  BY <1>1
<1>2. queue' = [queue EXCEPT ![s] = Append(@, m)] /\ op' = [op EXCEPT ![s] = "connecting"]
  BY DEF Open
<1>3. queue[s] = <<>> /\ op[s] = "none" /\ ~timer[s] /\ ~Somebody(s)
  BY DEF IInv, Fresh, TypeOK
<1>4. /\ ~Alive(s) /\ Alive(s)' /\ ~OnWire(s)' /\ queue'[s] = Append(<<>>, m)
      /\ \A r \in Server \ {s} : (Alive(r)' <=> Alive(r)) /\ (OnWire(r)' <=> OnWire(r))
  BY <1>1, <1>2, <1>3 DEF Alive, OnWire, Somebody, IInv, TypeOK
<1>5. Unsent(s)' = Append(Unsent(s), m)
  BY <1>4 DEF Unsent
<1>6. \A r \in Server \ {s} : Unsent(r)' = Unsent(r)
  BY <1>2, <1>4 DEF Unsent, IInv, TypeOK
<1> QED BY <1>1, <1>5, <1>6, Puts

LEMMA PushPuts ==
    ASSUME IInv, NEW t \in Thread, Push(t)
    PROVE  \E s \in Server : s = at[t] /\ Lanes!Put(s)
<1>1. /\ at[t] \in Server /\ Len(sent) + 1 \in Message /\ Len(sent') = Len(sent) + 1
      /\ UNCHANGED <<at, op, timer, wire, got>>
      /\ pc[t] = "push" /\ pc' = [pc EXCEPT ![t] = "claim"]
  BY SentFits, HeldServer DEF Push, Continue, Holds, IInv, TypeOK, Sending
<1> PICK s \in Server, m \in Message : s = at[t] /\ m = Len(sent) + 1
  BY <1>1
<1>2. queue' = [queue EXCEPT ![s] = Append(@, m)]
  BY DEF Push
<1>3. /\ \A r \in Server : (Alive(r)' <=> Alive(r)) /\ (OnWire(r)' <=> OnWire(r))
      /\ Alive(s)
  BY <1>1 DEF Alive, OnWire, IInv, TypeOK
<1>4. OnWire(s) => queue[s] # <<>>
  BY DEF IInv, FrontInWriting, OnWire, Outstanding
<1>5. queue[s] \in Seq(Message) /\ queue'[s] = Append(queue[s], m)
  BY <1>2 DEF IInv, TypeOK
<1>6. Unsent(s)' = Append(Unsent(s), m)
  BY <1>3, <1>4, <1>5, JoinBack DEF Unsent
<1>7. \A r \in Server \ {s} : Unsent(r)' = Unsent(r)
  BY <1>2, <1>3 DEF Unsent, IInv, TypeOK
<1> QED BY <1>1, <1>6, <1>7, Puts
-----------------------------------------------------------------------------
\* A step of a thread, the network or the clock is one of the lanes, or none.
LEMMA LaneStep == ASSUME IInv, [Next]_vars PROVE [Lanes!Next]_(Lanes!vars)
<1>1. CASE \E t \in Thread : Proceed(t)
  <2>1. PICK t \in Thread : Proceed(t)
    BY <1>1
  <2>2. CASE Claim(t)
    BY <2>2, ClaimFreeUnseen, ClaimTakenLoses
  <2>3. CASE Open(t) \/ Push(t)
    BY <2>3, OpenPuts, PushPuts DEF Lanes!Next
  <2> QED BY <2>1, <2>2, <2>3, EraseUnseen, WriteUnseen, RegisterUnseen, PopUnseen,
             WriteNextUnseen, ReleaseLoses DEF Proceed
<1>2. CASE Network \/ Clock
  <2>1. CASE \E s \in Server : Receive(s)
    BY <2>1, ReceiveTakes DEF Lanes!Next
  <2> QED BY <1>2, <2>1, TransmitUnseen, TimerLoses DEF Network, Clock
<1>3. CASE UNCHANGED vars
  BY <1>3, Unseen DEF vars, thread, conns, Alive, OnWire
<1> QED BY <1>1, <1>2, <1>3, SendUnseen, CompleteUnseen, FailLoses DEF Next

\* Whatever threads and faults do, every connection is a FIFO lane that may
\* break: messages come out of it in the order they were put in, each once.
THEOREM Refinement == Spec => LanesSpec
<1>1. IInv /\ [Next]_vars => [Lanes!Next]_(Lanes!vars)
  BY LaneStep
<1> QED BY InitLanes, <1>1, Invariance, PTL DEF Spec, LanesSpec, Lanes!Spec
-----------------------------------------------------------------------------
(* The order in which messages are handled. What the Servers carry and what *)
(* the other node has got is in the order in which it was sent, for each    *)
(* Server; as long as nothing fails, a Server that is still there has lost  *)
(* nothing; and with one io thread a message that used a connection used    *)
(* the latest one, as all that came after it do.                            *)
Lane == [s \in Server |-> Carried(s)]

Ordered(lane, msgs, seen) ==
    /\ \A i \in DOMAIN seen : seen[i] \in DOMAIN msgs
    /\ \A s \in Server : \A k \in DOMAIN lane[s] :
          lane[s][k] \in DOMAIN msgs /\ msgs[lane[s][k]].server = s
    /\ \A i, j \in DOMAIN seen :
          i < j /\ msgs[seen[i]].server = msgs[seen[j]].server => seen[i] < seen[j]
    /\ \A s \in Server : \A i \in DOMAIN seen : \A k \in DOMAIN lane[s] :
          msgs[seen[i]].server = s => seen[i] < lane[s][k]
    /\ \A s \in Server : \A k, l \in DOMAIN lane[s] : k < l => lane[s][k] < lane[s][l]
InOrder == Ordered(Lane, sent, got)

Opened == \A a \in DOMAIN sent : sent[a].server <= made

Present(lane, seen, s, a) ==
    (\E i \in DOMAIN seen : seen[i] = a) \/ (\E k \in DOMAIN lane[s] : lane[s][k] = a)
NoneLost == faults = 0 =>
    \A a \in DOMAIN sent : Alive(sent[a].server) => Present(Lane, got, sent[a].server, a)

OnTheLatest ==
    \A a \in DOMAIN sent : ~sent[a].first /\ Alive(sent[a].server) =>
        /\ sent[a].server = current
        /\ \A b \in DOMAIN sent : a < b => sent[b].server = current
AboutToSend ==
    \A t \in Thread : /\ pc[t] = "push" => at[t] = current
                      /\ pc[t] = "erase" => current \in Server /\ ~Alive(current)
                      /\ pc[t] = "open" => current = NoServer
Latest == concurrency = 1 => OnTheLatest /\ AboutToSend

OrderInv == IInv /\ InOrder /\ Opened /\ NoneLost /\ Latest

Messages == Seq([server : Server, first : BOOLEAN])

LEMMA LaneType == ASSUME IInv PROVE Lane \in [Server -> Seq(Message)]
BY CarriedType DEF Lane

\* What is left when a lane breaks keeps its order.
LEMMA LoseOrdered ==
    ASSUME NEW c \in [Server -> Seq(Message)], NEW m \in Messages, NEW g \in Seq(Message),
           Ordered(c, m, g), NEW l \in Server,
           NEW before \in 0 .. Len(c[l]), NEW last \in 0 .. Len(c[l])
    PROVE  Ordered([c EXCEPT ![l] = SubSeq(@, before + 1, last)], m, g)
<1> DEFINE d == [c EXCEPT ![l] = SubSeq(@, before + 1, last)]
<1>1. /\ Len(c[l]) \in Nat /\ DOMAIN c[l] = 1 .. Len(c[l])
      /\ \A k \in DOMAIN d[l] : k + before \in DOMAIN c[l] /\ d[l][k] = c[l][k + before]
      /\ DOMAIN d[l] \subseteq Nat
  <2>1. Len(c[l]) \in Nat /\ DOMAIN c[l] = 1 .. Len(c[l])
    BY LenProperties
  <2>2. d[l] = SubSeq(c[l], before + 1, last)
    OBVIOUS
  <2> QED BY <2>1, <2>2, SubSeqProperties
<1>2. \A s \in Server \ {l} : d[s] = c[s]
  OBVIOUS
<1> HIDE DEF d
<1>3. \A s \in Server : \A k \in DOMAIN d[s] : \E j \in DOMAIN c[s] : d[s][k] = c[s][j]
  <2> SUFFICES ASSUME NEW s \in Server, NEW k \in DOMAIN d[s]
               PROVE  \E j \in DOMAIN c[s] : d[s][k] = c[s][j]
    OBVIOUS
  <2>1. CASE s = l
    BY <1>1, <2>1
  <2>2. CASE s # l
    BY <1>2, <2>2
  <2> QED BY <2>1, <2>2
<1>4. /\ \A s \in Server : \A k \in DOMAIN d[s] : d[s][k] \in DOMAIN m /\ m[d[s][k]].server = s
      /\ \A s \in Server : \A i \in DOMAIN g : \A k \in DOMAIN d[s] :
            m[g[i]].server = s => g[i] < d[s][k]
  BY <1>3 DEF Ordered
<1>5. \A s \in Server : \A k, j \in DOMAIN d[s] : k < j => d[s][k] < d[s][j]
  <2> SUFFICES ASSUME NEW k \in DOMAIN d[l], NEW j \in DOMAIN d[l], k < j
               PROVE  d[l][k] < d[l][j]
    BY <1>2 DEF Ordered
  <2>1. k + before \in DOMAIN c[l] /\ j + before \in DOMAIN c[l] /\ k + before < j + before
    BY <1>1
  <2> QED BY <1>1, <2>1 DEF Ordered
<1>6. Ordered(d, m, g)
  BY <1>4, <1>5 DEF Ordered
<1> QED BY <1>6 DEF d

\* The first message of a lane comes after all that came out of it before.
LEMMA TakeOrdered ==
    ASSUME NEW c \in [Server -> Seq(Message)], NEW m \in Messages, NEW g \in Seq(Message),
           Ordered(c, m, g), NEW l \in Server, c[l] # <<>>
    PROVE  Ordered([c EXCEPT ![l] = Tail(@)], m, Append(g, Head(c[l])))
<1> DEFINE d == [c EXCEPT ![l] = Tail(@)]
           h == Append(g, Head(c[l]))
<1>1. /\ Len(c[l]) \in Nat /\ DOMAIN c[l] = 1 .. Len(c[l]) /\ Head(c[l]) = c[l][1]
      /\ 1 \in DOMAIN c[l]
      /\ \A k \in DOMAIN d[l] : k + 1 \in DOMAIN c[l] /\ d[l][k] = c[l][k + 1] /\ k \in Nat \ {0}
  BY LenProperties, HeadTailProperties, EmptySeq
<1>2. \A s \in Server \ {l} : d[s] = c[s]
  OBVIOUS
<1>3. /\ Len(g) \in Nat /\ DOMAIN g = 1 .. Len(g) /\ DOMAIN h = 1 .. Len(g) + 1
      /\ h[Len(g) + 1] = c[l][1] /\ \A i \in DOMAIN g : h[i] = g[i]
  BY <1>1, LenProperties, AppendProperties
<1> HIDE DEF d, h
<1>4. \A i \in DOMAIN h : i \in DOMAIN g \/ i = Len(g) + 1
  BY <1>3
<1>5. /\ \A i \in DOMAIN h : h[i] \in DOMAIN m
      /\ \A s \in Server : \A k \in DOMAIN d[s] : d[s][k] \in DOMAIN m /\ m[d[s][k]].server = s
  <2>1. \A s \in Server : \A k \in DOMAIN d[s] : \E j \in DOMAIN c[s] : d[s][k] = c[s][j]
    <3> SUFFICES ASSUME NEW s \in Server, NEW k \in DOMAIN d[s]
                 PROVE  \E j \in DOMAIN c[s] : d[s][k] = c[s][j]
      OBVIOUS
    <3>1. CASE s = l
      BY <1>1, <3>1
    <3>2. CASE s # l
      BY <1>2, <3>2
    <3> QED BY <3>1, <3>2
  <2>2. \A i \in DOMAIN h : h[i] \in DOMAIN m
    BY <1>1, <1>3, <1>4 DEF Ordered
  <2> QED BY <2>1, <2>2 DEF Ordered
<1>6. \A i, j \in DOMAIN h : i < j /\ m[h[i]].server = m[h[j]].server => h[i] < h[j]
  <2> SUFFICES ASSUME NEW i \in DOMAIN h, NEW j \in DOMAIN h, i < j,
                      m[h[i]].server = m[h[j]].server
               PROVE  h[i] < h[j]
    OBVIOUS
  <2>1. i \in DOMAIN g
    BY <1>3
  <2>2. CASE j \in DOMAIN g
    BY <1>3, <2>1, <2>2 DEF Ordered
  <2>3. CASE j = Len(g) + 1
    BY <1>1, <1>3, <2>1, <2>3 DEF Ordered
  <2> QED BY <1>4, <2>2, <2>3
<1>7. \A s \in Server : \A i \in DOMAIN h : \A k \in DOMAIN d[s] :
          m[h[i]].server = s => h[i] < d[s][k]
  <2> SUFFICES ASSUME NEW s \in Server, NEW i \in DOMAIN h, NEW k \in DOMAIN d[s],
                      m[h[i]].server = s
               PROVE  h[i] < d[s][k]
    OBVIOUS
  <2>1. CASE i \in DOMAIN g
    BY <1>1, <1>2, <1>3, <2>1 DEF Ordered
  <2>2. CASE i = Len(g) + 1
    <3>1. s = l
      BY <1>1, <1>3, <2>2 DEF Ordered
    <3>2. k + 1 \in DOMAIN c[l] /\ 1 < k + 1
      BY <1>1, <3>1
    <3> QED BY <1>1, <1>3, <2>2, <3>1, <3>2 DEF Ordered
  <2> QED BY <1>4, <2>1, <2>2
<1>8. \A s \in Server : \A k, j \in DOMAIN d[s] : k < j => d[s][k] < d[s][j]
  <2> SUFFICES ASSUME NEW k \in DOMAIN d[l], NEW j \in DOMAIN d[l], k < j
               PROVE  d[l][k] < d[l][j]
    BY <1>2 DEF Ordered
  <2>1. k + 1 \in DOMAIN c[l] /\ j + 1 \in DOMAIN c[l] /\ k + 1 < j + 1
    BY <1>1
  <2> QED BY <1>1, <2>1 DEF Ordered
<1>9. Ordered(d, m, h)
  BY <1>5, <1>6, <1>7, <1>8 DEF Ordered
<1> QED BY <1>9 DEF d, h

\* A new message comes after all others.
LEMMA PutOrdered ==
    ASSUME NEW c \in [Server -> Seq(Message)], NEW m \in Messages, NEW g \in Seq(Message),
           Ordered(c, m, g), NEW l \in Server,
           NEW e \in [server : Server, first : BOOLEAN], e.server = l, Len(m) + 1 \in Message
    PROVE  Ordered([c EXCEPT ![l] = Append(@, Len(m) + 1)], Append(m, e), g)
<1> DEFINE d == [c EXCEPT ![l] = Append(@, Len(m) + 1)]
           n == Append(m, e)
<1>1. /\ Len(m) \in Nat /\ DOMAIN m = 1 .. Len(m) /\ DOMAIN n = 1 .. Len(m) + 1
      /\ n[Len(m) + 1] = e /\ \A a \in DOMAIN m : n[a] = m[a]
  BY LenProperties, AppendProperties DEF Messages
<1>2. /\ Len(c[l]) \in Nat /\ DOMAIN c[l] = 1 .. Len(c[l]) /\ DOMAIN d[l] = 1 .. Len(c[l]) + 1
      /\ d[l][Len(c[l]) + 1] = Len(m) + 1 /\ \A k \in DOMAIN c[l] : d[l][k] = c[l][k]
  BY LenProperties, AppendProperties
<1>3. \A s \in Server \ {l} : d[s] = c[s]
  OBVIOUS
<1> HIDE DEF d, n
<1>4. /\ \A i \in DOMAIN g : g[i] \in DOMAIN n /\ n[g[i]] = m[g[i]] /\ g[i] < Len(m) + 1
      /\ \A s \in Server : \A k \in DOMAIN c[s] :
            c[s][k] \in DOMAIN n /\ n[c[s][k]] = m[c[s][k]] /\ c[s][k] < Len(m) + 1
  BY <1>1 DEF Ordered
<1>5. \A s \in Server : \A k \in DOMAIN d[s] :
          \/ k \in DOMAIN c[s] /\ d[s][k] = c[s][k]
          \/ s = l /\ k = Len(c[l]) + 1 /\ d[s][k] = Len(m) + 1
  <2> SUFFICES ASSUME NEW s \in Server, NEW k \in DOMAIN d[s]
               PROVE  \/ k \in DOMAIN c[s] /\ d[s][k] = c[s][k]
                      \/ s = l /\ k = Len(c[l]) + 1 /\ d[s][k] = Len(m) + 1
    OBVIOUS
  <2>1. CASE s = l
    BY <1>2, <2>1
  <2>2. CASE s # l
    BY <1>3, <2>2
  <2> QED BY <2>1, <2>2
<1>6. \A s \in Server : \A k \in DOMAIN d[s] : d[s][k] \in DOMAIN n /\ n[d[s][k]].server = s
  <2>1. Len(m) + 1 \in DOMAIN n /\ n[Len(m) + 1].server = l
    BY <1>1
  <2> QED BY <1>4, <1>5, <2>1 DEF Ordered
<1>7. \A i, j \in DOMAIN g : i < j /\ n[g[i]].server = n[g[j]].server => g[i] < g[j]
  BY <1>4 DEF Ordered
<1>8. \A s \in Server : \A i \in DOMAIN g : \A k \in DOMAIN d[s] :
          n[g[i]].server = s => g[i] < d[s][k]
  <2> SUFFICES ASSUME NEW s \in Server, NEW i \in DOMAIN g, NEW k \in DOMAIN d[s],
                      n[g[i]].server = s
               PROVE  g[i] < d[s][k]
    OBVIOUS
  <2>1. m[g[i]].server = s /\ g[i] < Len(m) + 1
    BY <1>4
  <2>2. CASE k \in DOMAIN c[s] /\ d[s][k] = c[s][k]
    BY <2>1, <2>2 DEF Ordered
  <2> QED BY <1>5, <2>1, <2>2
<1>9. \A s \in Server : \A k, j \in DOMAIN d[s] : k < j => d[s][k] < d[s][j]
  <2> SUFFICES ASSUME NEW s \in Server, NEW k \in DOMAIN d[s], NEW j \in DOMAIN d[s], k < j
               PROVE  d[s][k] < d[s][j]
    OBVIOUS
  <2>1. k \in DOMAIN c[s] /\ d[s][k] = c[s][k]
    <3>1. ~(s = l /\ k = Len(c[l]) + 1)
      BY <1>2
    <3> QED BY <1>5, <3>1
  <2>2. CASE j \in DOMAIN c[s] /\ d[s][j] = c[s][j]
    BY <2>1, <2>2 DEF Ordered
  <2>3. CASE s = l /\ j = Len(c[l]) + 1
    BY <1>2, <1>4, <2>1, <2>3
  <2> QED BY <1>5, <2>2, <2>3
<1>10. Ordered(d, n, g)
  BY <1>4, <1>6, <1>7, <1>8, <1>9 DEF Ordered
<1> QED BY <1>10 DEF d, n

\* Every step but those that send leaves alone what was sent.
LEMMA OnlySenders ==
    ASSUME IInv, [Next]_vars
    PROVE  (\E t \in Thread : Open(t) \/ Push(t)) \/ UNCHANGED <<sent, made>>
<1>1. CASE \E t \in Thread : Proceed(t)
  BY <1>1 DEF Proceed, Erase, Claim, Write, Register, Pop, WriteNext, Release
<1>2. CASE \E t \in Thread : Send(t) \/ Complete(t) \/ Fail(t)
  BY <1>2 DEF Send, Complete, Connected, Reconnected, OnWrite, Resume, Fail, Refused, Reset, Broken
<1>3. CASE Network \/ Clock \/ UNCHANGED vars
  BY <1>3 DEF Network, Clock, Transmit, Receive, TimerEnds, vars
<1> QED BY <1>1, <1>2, <1>3 DEF Next

LEMMA SentTyped ==
    ASSUME IInv
    PROVE  /\ DOMAIN sent = 1 .. Len(sent) /\ Len(sent) \in Nat
           /\ \A a \in DOMAIN sent : sent[a] \in [server : Server, first : BOOLEAN]
<1> DEFINE R == [server : Server, first : BOOLEAN]
<1> HIDE DEF R
<1>1. sent \in Seq(R)
  BY DEF R, IInv, TypeOK
<1>2. DOMAIN sent = 1 .. Len(sent) /\ Len(sent) \in Nat /\ \A a \in 1 .. Len(sent) : sent[a] \in R
  BY <1>1, LenProperties, ElementOfSeq
<1> QED BY <1>2 DEF R

LEMMA InOrderStays ==
    ASSUME IInv, [Next]_vars, InOrder, Opened PROVE InOrder' /\ Opened'
<1>1. Lane \in [Server -> Seq(Message)] /\ sent \in Messages /\ got \in Seq(Message)
  BY LaneType DEF IInv, TypeOK, Messages
<1>2. InOrder' <=> Ordered(Lane', sent', got')
  BY DEF InOrder, Ordered
<1>3. CASE UNCHANGED <<sent, made>>
  <2>1. Ordered(Lane', sent', got')
    <3>1. CASE UNCHANGED Lanes!vars
      BY <1>3, <3>1 DEF Lanes!vars, Lane, Carried, InOrder
    <3>2. CASE Lanes!Next
      <4>1. PICK s \in Server : Lanes!Put(s) \/ Lanes!Take(s) \/ Lanes!Lose(s)
        BY <3>2 DEF Lanes!Next
      <4>2. ~Lanes!Put(s)
        BY <1>1, <1>3, LenProperties DEF Lanes!Put, Messages
      <4>3. CASE Lanes!Take(s)
        <5>1. /\ Lane[s] # <<>> /\ got' = Append(got, Head(Lane[s]))
              /\ Lane' = [Lane EXCEPT ![s] = Tail(@)]
          BY <4>3 DEF Lanes!Take, Lane, Carried
        <5> QED BY <1>1, <1>3, <5>1, TakeOrdered DEF InOrder
      <4>4. CASE Lanes!Lose(s)
        <5>1. PICK before \in 0 .. Len(Lane[s]), last \in 0 .. Len(Lane[s]) :
                  Lane' = [Lane EXCEPT ![s] = SubSeq(@, before + 1, last)]
          BY <4>4 DEF Lanes!Lose, Lane, Carried
        <5>2. Ordered([Lane EXCEPT ![s] = SubSeq(@, before + 1, last)], sent, got)
          BY <1>1, LoseOrdered DEF InOrder
        <5>3. got' = got
          BY <4>4 DEF Lanes!Lose
        <5> QED BY <1>3, <5>1, <5>2, <5>3
      <4> QED BY <4>1, <4>2, <4>3, <4>4
    <3> QED BY <3>1, <3>2, LaneStep
  <2> QED BY <1>2, <1>3, <2>1 DEF Opened
<1>4. ASSUME NEW s \in Server, NEW e \in [server : Server, first : BOOLEAN],
             Lanes!Put(s), e.server = s, sent' = Append(sent, e), Sending # {},
             s <= made', made <= made', made' \in Nat
      PROVE  InOrder' /\ Opened'
  <2>1. Len(sent) + 1 \in Message /\ made \in Nat
    BY <1>4, SentFits DEF IInv, TypeOK
  <2>2. Lane' = [Lane EXCEPT ![s] = Append(@, Len(sent) + 1)] /\ got' = got
    BY <1>4 DEF Lanes!Put, Lane, Carried
  <2>3. Ordered(Lane', sent', got')
    BY <1>1, <1>4, <2>1, <2>2, PutOrdered DEF InOrder
  <2>4. \A a \in DOMAIN sent' : (a \in DOMAIN sent /\ sent'[a] = sent[a]) \/ sent'[a] = e
    BY <1>1, <1>4, AppendProperties, LenProperties DEF Messages
  <2>5. \A a \in DOMAIN sent : sent[a].server <= made /\ sent[a].server \in Nat
    BY SentTyped DEF Opened, Server
  <2>6. Opened'
    BY <1>4, <2>1, <2>4, <2>5 DEF Opened, Server
  <2> QED BY <1>2, <2>3, <2>6
<1>5. ASSUME NEW t \in Thread, Open(t) PROVE InOrder' /\ Opened'
  <2>1. Sending # {}
    BY <1>5 DEF Open, Sending
  <2>2. PICK s \in Server : s = made + 1 /\ Lanes!Put(s)
    BY <1>5, OpenPuts
  <2>3. sent' = Append(sent, [server |-> s, first |-> TRUE]) /\ made' = s
    BY <1>5, <2>2 DEF Open
  <2>4. made' \in Nat /\ s <= made' /\ made <= made'
    BY <2>2, <2>3 DEF IInv, TypeOK, Server
  <2> DEFINE e == [server |-> s, first |-> TRUE]
  <2>5. e \in [server : Server, first : BOOLEAN] /\ e.server = s
    OBVIOUS
  <2> HIDE DEF e
  <2>6. sent' = Append(sent, e)
    BY <2>3 DEF e
  <2> QED BY <1>4, <2>1, <2>2, <2>4, <2>5, <2>6
<1>6. ASSUME NEW t \in Thread, Push(t) PROVE InOrder' /\ Opened'
  <2>1. Sending # {}
    BY <1>6 DEF Push, Sending
  <2>2. PICK s \in Server : s = at[t] /\ Lanes!Put(s)
    BY <1>6, PushPuts
  <2>3. sent' = Append(sent, [server |-> s, first |-> FALSE]) /\ made' = made
    BY <1>6, <2>2 DEF Push
  <2>4. pc[t] = "push"
    BY <1>6 DEF Push
  <2>5. made' \in Nat /\ s <= made' /\ made <= made'
    <3>1. made \in Nat
      BY DEF IInv, TypeOK
    <3>2. at[t] <= made
      BY <2>4, HeldServer
    <3> QED BY <2>2, <2>3, <3>1, <3>2
  <2> DEFINE e == [server |-> s, first |-> FALSE]
  <2>6. e \in [server : Server, first : BOOLEAN] /\ e.server = s
    OBVIOUS
  <2> HIDE DEF e
  <2>7. sent' = Append(sent, e)
    BY <2>3 DEF e
  <2> QED BY <1>4, <2>1, <2>2, <2>5, <2>6, <2>7
<1> QED BY <1>3, <1>5, <1>6, OnlySenders

\* A Server that nobody holds any more is gone for good.
LEMMA NoneRises ==
    ASSUME IInv, [Next]_vars, NEW s \in Server, ~Alive(s),
           (\A t \in Thread : ~Open(t)) \/ s # made + 1
    PROVE  ~Alive(s)'
<1> SUFFICES op'[s] = "none" /\ ~timer'[s] /\ \A u \in Thread : at'[u] # s
  BY DEF Alive
<1>1. /\ op[s] = "none" /\ ~timer[s] /\ \A u \in Thread : at[u] # s
      /\ s # NoServer
      /\ at \in [Thread -> Server \cup {NoServer}] /\ DOMAIN op = Server /\ DOMAIN timer = Server
  BY NoServerAssumption DEF Alive, IInv, TypeOK
<1>2. CASE \E t \in Thread : Proceed(t)
  <2>1. PICK t \in Thread : Proceed(t)
    BY <1>2
  <2>2. CASE Open(t)
    BY <1>1, <2>2 DEF Open, Return, Holds
  <2>3. CASE Erase(t) \/ Push(t) \/ Claim(t) \/ Register(t) \/ Pop(t) \/ Release(t)
    BY <1>1, <2>3 DEF Erase, Push, Claim, Register, Pop, Release, Continue, Return, Holds, conns
  <2>4. CASE Write(t)
    BY <1>1, <2>4 DEF Write, Continue, Return, Holds
  <2>5. CASE WriteNext(t)
    BY <1>1, <2>5 DEF WriteNext, Continue, Holds
  <2> QED BY <2>1, <2>2, <2>3, <2>4, <2>5 DEF Proceed
<1>3. CASE \E t \in Thread : Send(t)
  <2>1. PICK t \in Thread : Send(t)
    BY <1>3
  <2>2. UNCHANGED <<op, timer>>
    BY <2>1 DEF Send, conns
  <2>3. at' = [at EXCEPT ![t] = at[t]] \/ (Alive(current) /\ at' = [at EXCEPT ![t] = current])
    <3>1. CASE current = NoServer
      BY <2>1, <3>1 DEF Send, Continue, Holds
    <3>2. CASE current # NoServer /\ Alive(current)
      BY <2>1, <3>2 DEF Send, Holds
    <3>3. CASE current # NoServer /\ ~Alive(current)
      BY <2>1, <3>3 DEF Send, Continue, Holds
    <3> QED BY <3>1, <3>2, <3>3
  <2> QED BY <1>1, <2>2, <2>3
<1>4. CASE \E t \in Thread : Complete(t)
  <2>1. PICK t \in Thread, r \in Server :
            /\ op[r] # "none" /\ op' = [op EXCEPT ![r] = "none"]
            /\ timer' = timer /\ at' = [at EXCEPT ![t] = r]
    BY <1>4 DEF Complete, Connected, Reconnected, OnWrite, Resume, Holds
  <2> QED BY <1>1, <2>1
<1>5. CASE \E t \in Thread : Fail(t)
  <2>1. PICK r \in Server, o \in {"none", "reconnecting"} :
            op[r] # "none" /\ op' = [op EXCEPT ![r] = o] /\ UNCHANGED <<timer, at>>
    BY <1>5 DEF Fail, Refused, Reset, Broken, thread
  <2> QED BY <1>1, <2>1
<1>6. CASE Network \/ Clock \/ UNCHANGED vars
  BY <1>1, <1>6 DEF Network, Clock, Transmit, Receive, TimerEnds, vars, thread, conns
<1> QED BY <1>2, <1>3, <1>4, <1>5, <1>6 DEF Next

\* In these steps a Server that stays alive carries what it carried.
LEMMA StaysWhole ==
    ASSUME IInv, [Next]_vars, faults' = 0, NEW s \in Server, Alive(s), Alive(s)',
           UNCHANGED <<sent, got>>
    PROVE  Carried(s)' = Carried(s)
<1>1. ASSUME UNCHANGED Lanes!vars PROVE Carried(s)' = Carried(s)
  <2>1. Lane' = Lane
    BY <1>1 DEF Lanes!vars, Lane, Carried
  <2>2. Lane'[s] = Carried(s)' /\ Lane[s] = Carried(s)
    BY DEF Lane
  <2> QED BY <2>1, <2>2
<1>2. ASSUME UNCHANGED <<wire, queue>>, OnWire(s)' <=> OnWire(s) PROVE Carried(s)' = Carried(s)
  BY <1>2 DEF Carried, Unsent
<1>3. CASE \E t \in Thread : Proceed(t)
  <2>1. PICK t \in Thread : Proceed(t)
    BY <1>3
  <2>2. CASE Claim(t) \/ Release(t)
    <3>1. /\ pc[t] \in {"claim", "release"} /\ UNCHANGED <<wire, queue, op>>
          /\ \E x : at' = [at EXCEPT ![t] = x]
          /\ \E step \in {"idle", "write"} : pc' = [pc EXCEPT ![t] = step]
      BY <2>2 DEF Claim, Release, Continue, Return, Holds
    <3>2. OnWire(s)' <=> OnWire(s)
      BY <3>1 DEF OnWire, IInv, TypeOK
    <3> QED BY <1>2, <3>1, <3>2
  <2>3. ~Open(t) /\ ~Push(t)
    BY SentTyped, AppendProperties DEF Open, Push, IInv, TypeOK
  <2> QED BY <1>1, <2>1, <2>2, <2>3, EraseUnseen, WriteUnseen, RegisterUnseen, PopUnseen,
             WriteNextUnseen DEF Proceed
<1>4. CASE \E t \in Thread : Fail(t)
  BY <1>4 DEF Fail, Refused, Reset, Broken, Fault, IInv, TypeOK
<1>5. CASE Network
  <2>1. \A r \in Server : ~Receive(r)
    BY AppendProperties, LenProperties DEF Receive, IInv, TypeOK
  <2> QED BY <1>1, <1>5, <2>1, TransmitUnseen DEF Network
<1>6. CASE Clock \/ UNCHANGED vars
  <2>1. UNCHANGED <<wire, queue, op, pc, at>>
    BY <1>6 DEF Clock, TimerEnds, vars, thread, conns
  <2> QED BY <1>2, <2>1 DEF OnWire
<1> QED BY <1>1, <1>3, <1>4, <1>5, <1>6, SendUnseen, CompleteUnseen DEF Next

\* What is present stays so when a message is taken from or put on a lane.
LEMMA TakePresent ==
    ASSUME NEW c \in [Server -> Seq(Message)], NEW g \in Seq(Message), NEW l \in Server,
           c[l] # <<>>, NEW s \in Server, NEW a, Present(c, g, s, a)
    PROVE  Present([c EXCEPT ![l] = Tail(@)], Append(g, Head(c[l])), s, a)
<1> DEFINE d == [c EXCEPT ![l] = Tail(@)]
           h == Append(g, Head(c[l]))
<1>1. /\ Len(c[l]) \in Nat /\ DOMAIN c[l] = 1 .. Len(c[l]) /\ Head(c[l]) = c[l][1]
      /\ \A k \in DOMAIN c[l] : k # 1 => k - 1 \in DOMAIN d[l] /\ d[l][k - 1] = c[l][k]
  BY LenProperties, HeadTailProperties, EmptySeq
<1>2. \A r \in Server \ {l} : d[r] = c[r]
  OBVIOUS
<1>3. /\ Len(g) + 1 \in DOMAIN h /\ h[Len(g) + 1] = c[l][1]
      /\ \A i \in DOMAIN g : i \in DOMAIN h /\ h[i] = g[i]
  BY <1>1, LenProperties, AppendProperties
<1> HIDE DEF d, h
<1>4. Present(d, h, s, a)
  <2>1. CASE \E i \in DOMAIN g : g[i] = a
    BY <1>3, <2>1 DEF Present
  <2>2. CASE \E k \in DOMAIN c[s] : c[s][k] = a
    <3>1. PICK k \in DOMAIN c[s] : c[s][k] = a
      BY <2>2
    <3>2. CASE s # l
      BY <1>2, <3>1, <3>2 DEF Present
    <3>3. CASE s = l /\ k = 1
      BY <1>3, <3>1, <3>3 DEF Present
    <3>4. CASE s = l /\ k # 1
      BY <1>1, <3>1, <3>4 DEF Present
    <3> QED BY <3>2, <3>3, <3>4
  <2> QED BY <2>1, <2>2 DEF Present
<1> QED BY <1>4 DEF d, h

LEMMA PutPresent ==
    ASSUME NEW c \in [Server -> Seq(Message)], NEW g, NEW l \in Server, NEW m \in Message
    PROVE  /\ Present([c EXCEPT ![l] = Append(@, m)], g, l, m)
           /\ \A s \in Server : \A a :
                Present(c, g, s, a) => Present([c EXCEPT ![l] = Append(@, m)], g, s, a)
<1> DEFINE d == [c EXCEPT ![l] = Append(@, m)]
<1>1. /\ Len(c[l]) + 1 \in DOMAIN d[l] /\ d[l][Len(c[l]) + 1] = m
      /\ \A k \in DOMAIN c[l] : k \in DOMAIN d[l] /\ d[l][k] = c[l][k]
  BY LenProperties, AppendProperties
<1>2. \A s \in Server \ {l} : d[s] = c[s]
  OBVIOUS
<1> HIDE DEF d
<1>3. Present(d, g, l, m)
  BY <1>1 DEF Present
<1>4. ASSUME NEW s \in Server, NEW a, Present(c, g, s, a) PROVE Present(d, g, s, a)
  <2>1. CASE s = l
    BY <1>1, <1>4, <2>1 DEF Present
  <2>2. CASE s # l
    BY <1>2, <1>4, <2>2 DEF Present
  <2> QED BY <2>1, <2>2
<1> QED BY <1>3, <1>4 DEF d

LEMMA FaultsAdd == ASSUME IInv, [Next]_vars, faults' = 0 PROVE faults = 0
<1>1. CASE \E t \in Thread : Proceed(t)
  BY <1>1 DEF Proceed, Erase, Open, Push, Claim, Write, Register, Pop, WriteNext, Release
<1>2. CASE \E t \in Thread : Send(t) \/ Complete(t)
  BY <1>2 DEF Send, Complete, Connected, Reconnected, OnWrite, Resume
<1>3. CASE \E t \in Thread : Fail(t)
  BY <1>3 DEF Fail, Refused, Reset, Broken, Fault, IInv, TypeOK
<1>4. CASE Network \/ Clock \/ UNCHANGED vars
  BY <1>4 DEF Network, Clock, Transmit, Receive, TimerEnds, vars
<1> QED BY <1>1, <1>2, <1>3, <1>4 DEF Next

\* As long as nothing fails, no message of a Server that is alive gets lost.
LEMMA NoneLostStays ==
    ASSUME IInv, InOrder, Opened, [Next]_vars, NoneLost PROVE NoneLost'
<1> SUFFICES ASSUME faults' = 0, NEW a \in DOMAIN sent', Alive(sent[a].server)'
             PROVE  Present(Lane', got', sent'[a].server, a)
  BY DEF NoneLost, Present
<1>1. faults = 0 /\ Lane \in [Server -> Seq(Message)] /\ got \in Seq(Message)
  BY FaultsAdd, LaneType DEF IInv, TypeOK
<1>2. ASSUME a \in DOMAIN sent, sent'[a] = sent[a]
      PROVE  /\ sent[a].server \in Server /\ Alive(sent[a].server)
             /\ Present(Lane, got, sent[a].server, a)
  <2>1. PICK s \in Server : s = sent[a].server
    BY <1>2, SentTyped
  <2>2. s # made + 1
    BY <1>2, <2>1 DEF Opened, IInv, TypeOK, Server
  <2>3. Alive(s)'
    BY <1>2, <2>1 DEF Alive
  <2>4. Alive(s)
    BY <2>2, <2>3, NoneRises
  <2> QED BY <1>1, <1>2, <2>1, <2>4 DEF NoneLost
<1>3. CASE UNCHANGED <<sent, got>>
  <2>1. PICK s \in Server : s = sent[a].server
    BY <1>2, <1>3
  <2>2. Alive(s) /\ Present(Lane, got, s, a)
    BY <1>2, <1>3, <2>1
  <2>5. Alive(s)'
    BY <1>3, <2>1 DEF Alive
  <2>3. Carried(s)' = Carried(s)
    BY <1>3, <2>2, <2>5, StaysWhole
  <2>4. Lane'[s] = Lane[s]
    BY <2>3 DEF Lane
  <2> QED BY <1>3, <2>1, <2>2, <2>4 DEF Present
<1>4. ASSUME NEW r \in Server, Receive(r)
      PROVE  Present(Lane', got', sent'[a].server, a)
  <2>1. /\ Lane[r] # <<>> /\ Lane' = [Lane EXCEPT ![r] = Tail(@)]
        /\ got' = Append(got, Head(Lane[r]))
    BY <1>4, ReceiveTakes DEF Lanes!Take, Lane, Carried
  <2>2. sent' = sent
    BY <1>4 DEF Receive
  <2>3. sent[a].server \in Server /\ Present(Lane, got, sent[a].server, a)
    BY <1>2, <2>2
  <2>4. Present([Lane EXCEPT ![r] = Tail(@)], Append(got, Head(Lane[r])), sent[a].server, a)
    BY <1>1, <2>1, <2>3, TakePresent
  <2> QED BY <2>1, <2>2, <2>4
<1>5. ASSUME NEW s \in Server, NEW b \in BOOLEAN, Lanes!Put(s), Sending # {},
             sent' = Append(sent, [server |-> s, first |-> b])
      PROVE  Present(Lane', got', sent'[a].server, a)
  <2>1. PICK m \in Message : m = Len(sent) + 1
    BY <1>5, SentFits DEF IInv
  <2>2. Lane' = [Lane EXCEPT ![s] = Append(@, m)] /\ got' = got
    BY <1>5, <2>1 DEF Lanes!Put, Lane, Carried
  <2>3. \/ a \in DOMAIN sent /\ sent'[a] = sent[a]
        \/ a = m /\ sent'[a].server = s
    BY <1>5, <2>1, SentTyped, AppendProperties DEF IInv, TypeOK
  <2>4. CASE a \in DOMAIN sent /\ sent'[a] = sent[a]
    BY <1>1, <1>2, <2>2, <2>4, PutPresent
  <2>5. CASE a = m /\ sent'[a].server = s
    BY <1>1, <2>2, <2>5, PutPresent
  <2> QED BY <2>3, <2>4, <2>5
<1>6. ASSUME NEW t \in Thread, Open(t) PROVE Present(Lane', got', sent'[a].server, a)
  <2>1. PICK s \in Server : s = made + 1 /\ Lanes!Put(s)
    BY <1>6, OpenPuts
  <2>2. Sending # {} /\ sent' = Append(sent, [server |-> s, first |-> TRUE])
    BY <1>6, <2>1 DEF Open, Sending
  <2> QED BY <1>5, <2>1, <2>2
<1>7. ASSUME NEW t \in Thread, Push(t) PROVE Present(Lane', got', sent'[a].server, a)
  <2>1. PICK s \in Server : s = at[t] /\ Lanes!Put(s)
    BY <1>7, PushPuts
  <2>2. Sending # {} /\ sent' = Append(sent, [server |-> s, first |-> FALSE])
    BY <1>7, <2>1 DEF Push, Sending
  <2> QED BY <1>5, <2>1, <2>2
<1>8. ASSUME \A t \in Thread : ~Open(t) /\ ~Push(t), \A r \in Server : ~Receive(r)
      PROVE  UNCHANGED <<sent, got>>
  BY <1>8 DEF Next, Send, Proceed, Erase, Claim, Write, Register, Pop, WriteNext, Release,
     Complete, Connected, Reconnected, OnWrite, Resume, Fail, Refused, Reset, Broken,
     Network, Transmit, Clock, TimerEnds, vars
<1> QED BY <1>3, <1>4, <1>6, <1>7, <1>8

\* With one io thread, a message uses the latest connection that is there.
LEMMA LatestStays == ASSUME IInv, Opened, [Next]_vars, Latest PROVE Latest'
<1> SUFFICES ASSUME concurrency = 1, concurrency' = 1 PROVE OnTheLatest' /\ AboutToSend'
  <2>1. concurrency' = concurrency
    BY DEF Next, Send, Proceed, Erase, Open, Push, Claim, Write, Register, Pop, WriteNext,
       Release, Holds, Continue, Return,
       Complete, Connected, Reconnected, OnWrite, Resume, Fail, Refused, Reset, Broken,
       Network, Transmit, Receive, Clock, TimerEnds, vars, thread
  <2> QED BY <2>1 DEF Latest
<1>1. OnTheLatest /\ AboutToSend /\ current \in Server \cup {NoServer} /\ made \in Nat
  BY DEF Latest, IInv, TypeOK
<1>2. \A t, u \in Thread : pc[t] # "idle" /\ pc[u] # "idle" => t = u
  BY DEF IInv, Started
<1>3. /\ \A a \in DOMAIN sent : sent[a].server \in Server /\ sent[a].server # made + 1
      /\ current \in Server => current # made + 1
  <2>1. \A a \in DOMAIN sent : sent[a].server \in Server
    BY SentTyped
  <2>2. \A a \in DOMAIN sent : sent[a].server # made + 1
    BY <1>1, <2>1 DEF Opened, Server
  <2>3. current \in Server => current # made + 1
    BY <1>1 DEF Server, IInv, Fresh
  <2> QED BY <2>1, <2>2, <2>3
\* Steps that neither send nor change the entry.
<1>4. ASSUME UNCHANGED <<sent, current>>, \A t \in Thread : ~Open(t),
             \A t \in Thread : pc'[t] \in {"push", "erase", "open"} =>
                 \/ pc'[t] = pc[t] /\ at'[t] = at[t]
                 \/ pc'[t] = "push" /\ at'[t] = current
                 \/ pc'[t] = "erase" /\ current \in Server /\ ~Alive(current)
                 \/ pc'[t] = "open" /\ current = NoServer
      PROVE  OnTheLatest' /\ AboutToSend'
  <2>1. OnTheLatest'
    <3> SUFFICES ASSUME NEW a \in DOMAIN sent, ~sent[a].first, Alive(sent[a].server)'
                 PROVE  /\ sent[a].server = current
                        /\ \A b \in DOMAIN sent : a < b => sent[b].server = current
      BY <1>4 DEF OnTheLatest
    <3>1. PICK s \in Server : s = sent[a].server
      BY <1>3
    <3>2. Alive(s)
      BY <1>4, <3>1, NoneRises
    <3> QED BY <1>1, <3>1, <3>2 DEF OnTheLatest
  <2>2. AboutToSend'
    <3> SUFFICES ASSUME NEW t \in Thread
                 PROVE  /\ pc'[t] = "push" => at'[t] = current
                        /\ pc'[t] = "erase" => current \in Server /\ ~Alive(current)'
                        /\ pc'[t] = "open" => current = NoServer
      BY <1>4 DEF AboutToSend
    <3>1. current \in Server /\ ~Alive(current) => ~Alive(current)'
      BY <1>4, NoneRises
    <3> QED BY <1>1, <1>4, <3>1 DEF AboutToSend
  <2> QED BY <2>1, <2>2
<1>5. CASE \E t \in Thread : Proceed(t)
  <2>1. PICK t \in Thread : Proceed(t)
    BY <1>5
  <2>2. \A u \in Thread \ {t} : pc[u] = "idle"
    <3>1. pc[t] # "idle"
      BY <2>1 DEF Proceed, Erase, Open, Push, Claim, Write, Register, Pop, WriteNext, Release
    <3> QED BY <1>2, <3>1
  <2>3. CASE Erase(t)
    <3>1. /\ UNCHANGED <<sent, op, timer, at>> /\ current' = NoServer
          /\ pc[t] = "erase" /\ pc' = [pc EXCEPT ![t] = "open"]
      BY <2>3 DEF Erase, Continue, Holds, conns, IInv, TypeOK
    <3>2. OnTheLatest'
      BY <1>1, <3>1 DEF OnTheLatest, AboutToSend, Alive
    <3>3. \A u \in Thread : pc'[u] \in {"idle", "open"}
      BY <2>2, <3>1 DEF IInv, TypeOK
    <3>4. AboutToSend'
      BY <3>1, <3>3 DEF AboutToSend
    <3> QED BY <3>2, <3>4
  <2>4. CASE Open(t)
    <3>1. PICK s \in Server : s = made + 1
      BY <2>4, OpenPuts
    <3>2. /\ current = NoServer /\ current' = NoServer /\ pc' = [pc EXCEPT ![t] = "idle"]
          /\ sent' = Append(sent, [server |-> s, first |-> TRUE])
      BY <1>1, <2>4, <3>1 DEF Open, AboutToSend, Return, Holds
    <3>3. \A a \in DOMAIN sent' : ~sent'[a].first => a \in DOMAIN sent /\ sent'[a] = sent[a]
      BY <3>2, SentTyped, AppendProperties DEF IInv, TypeOK
    <3>4. ASSUME NEW a \in DOMAIN sent', ~sent'[a].first PROVE ~Alive(sent[a].server)'
      <4>1. PICK r \in Server : r = sent[a].server /\ r = sent'[a].server
        BY <1>3, <3>3, <3>4
      <4>2. ~Alive(r)
        BY <1>1, <3>2, <3>3, <3>4, <4>1, NoServerAssumption DEF OnTheLatest
      <4>3. ~Alive(r)'
        BY <1>3, <3>3, <3>4, <4>1, <4>2, NoneRises
      <4> QED BY <4>1, <4>3 DEF Alive
    <3>5. OnTheLatest'
      BY <3>4 DEF OnTheLatest
    <3>6. AboutToSend'
      BY <2>2, <3>2 DEF AboutToSend, IInv, TypeOK
    <3> QED BY <3>5, <3>6
  <2>5. CASE Push(t)
    <3>1. PICK s \in Server : s = at[t]
      BY <2>5, PushPuts
    <3>2. /\ current = s /\ current' = s /\ pc' = [pc EXCEPT ![t] = "claim"]
          /\ sent' = Append(sent, [server |-> s, first |-> FALSE]) /\ UNCHANGED <<at, op, timer>>
      BY <1>1, <2>5, <3>1 DEF Push, AboutToSend, Continue, Holds, IInv, TypeOK
    <3>3. /\ \A a \in DOMAIN sent' : \/ a \in DOMAIN sent /\ sent'[a] = sent[a]
                                     \/ a = Len(sent) + 1 /\ sent'[a].server = s
          /\ \A a \in DOMAIN sent : a < Len(sent) + 1
          /\ DOMAIN sent' = 1 .. Len(sent) + 1
      <4> DEFINE e == [server |-> s, first |-> FALSE]
      <4>1. e \in [server : Server, first : BOOLEAN] /\ e.server = s
        OBVIOUS
      <4> HIDE DEF e
      <4>2. sent' = Append(sent, e)
        BY <3>2 DEF e
      <4>3. /\ DOMAIN sent' = 1 .. Len(sent) + 1 /\ sent'[Len(sent) + 1] = e
            /\ \A a \in 1 .. Len(sent) : sent'[a] = sent[a]
        BY <4>1, <4>2, SentTyped, AppendProperties DEF IInv, TypeOK
      <4> QED BY <4>1, <4>3, SentTyped
    <3>4. OnTheLatest'
      <4> SUFFICES ASSUME NEW a \in DOMAIN sent', ~sent'[a].first, Alive(sent[a].server)'
                   PROVE  /\ sent'[a].server = s
                          /\ \A b \in DOMAIN sent' : a < b => sent'[b].server = s
        BY <3>2 DEF OnTheLatest
      <4>1. CASE a \in DOMAIN sent /\ sent'[a] = sent[a]
        <5>1. Alive(sent[a].server)
          BY <3>2, <4>1 DEF Alive
        <5>2. sent[a].server = s /\ \A b \in DOMAIN sent : a < b => sent[b].server = s
          BY <1>1, <3>2, <4>1, <5>1 DEF OnTheLatest
        <5> QED BY <3>3, <4>1, <5>2
      <4>2. CASE a = Len(sent) + 1 /\ sent'[a].server = s
        <5>1. \A b \in DOMAIN sent' : ~(a < b)
          BY <3>3, <4>2, SentTyped
        <5> QED BY <4>2, <5>1
      <4> QED BY <3>3, <4>1, <4>2
    <3>5. AboutToSend'
      BY <2>2, <3>2 DEF AboutToSend, IInv, TypeOK
    <3> QED BY <3>4, <3>5
  <2>6. CASE Register(t)
    <3>1. /\ UNCHANGED <<sent, op, timer, at>> /\ current' \in {current, at[t]}
          /\ current' # current => current = NoServer
          /\ pc' = [pc EXCEPT ![t] = "claim"]
      BY <2>6 DEF Register, Continue, Holds, conns, IInv, TypeOK
    <3>2. OnTheLatest'
      <4>1. CASE current' = current
        BY <1>1, <3>1, <4>1 DEF OnTheLatest, Alive
      <4>2. CASE current = NoServer
        <5>1. \A a \in DOMAIN sent : ~sent[a].first => ~Alive(sent[a].server)
          BY <1>1, <1>3, <4>2, NoServerAssumption DEF OnTheLatest
        <5> QED BY <3>1, <5>1 DEF OnTheLatest, Alive
      <4> QED BY <3>1, <4>1, <4>2
    <3>3. AboutToSend'
      BY <2>2, <3>1 DEF AboutToSend, IInv, TypeOK
    <3> QED BY <3>2, <3>3
  <2>7. CASE Claim(t) \/ Write(t) \/ Pop(t) \/ WriteNext(t) \/ Release(t)
    <3>1. /\ UNCHANGED <<sent, current>>
          /\ \E step : step \notin {"push", "erase", "open"} /\ pc' = [pc EXCEPT ![t] = step]
          /\ pc[t] \notin {"idle", "open"}
      BY <2>7 DEF Claim, Write, Pop, WriteNext, Release, Continue, Return, Holds
    <3>2. \A u \in Thread : ~Open(u)
      BY <2>2, <3>1 DEF Open
    <3>3. \A u \in Thread : pc'[u] \notin {"push", "erase", "open"}
      BY <2>2, <3>1 DEF IInv, TypeOK
    <3> QED BY <1>4, <3>1, <3>2, <3>3
  <2> QED BY <2>1, <2>3, <2>4, <2>5, <2>6, <2>7 DEF Proceed
<1>6. CASE \E t \in Thread : Send(t)
  <2>1. PICK t \in Thread : Send(t)
    BY <1>6
  <2>2. UNCHANGED <<sent, current>> /\ pc[t] = "idle"
    BY <2>1 DEF Send, Idle
  <2>3. \/ Holds(t, at[t], "open") /\ current = NoServer
        \/ Holds(t, at[t], "erase") /\ current # NoServer /\ ~Alive(current)
        \/ Holds(t, current, "push")
    <3>1. CASE current = NoServer
      BY <2>1, <3>1 DEF Send, Continue
    <3>2. CASE current # NoServer /\ Alive(current)
      BY <2>1, <3>2 DEF Send
    <3>3. CASE current # NoServer /\ ~Alive(current)
      BY <2>1, <3>3 DEF Send, Continue
    <3> QED BY <3>1, <3>2, <3>3
  <2>4. \A u \in Thread : ~Open(u)
    BY <2>2, <2>3 DEF Open, Return, Holds, IInv, TypeOK
  <2>5. \A u \in Thread : pc'[u] \in {"push", "erase", "open"} =>
             \/ pc'[u] = pc[u] /\ at'[u] = at[u]
             \/ pc'[u] = "push" /\ at'[u] = current
             \/ pc'[u] = "erase" /\ current \in Server /\ ~Alive(current)
             \/ pc'[u] = "open" /\ current = NoServer
    BY <1>1, <2>3 DEF Holds, IInv, TypeOK
  <2> QED BY <1>4, <2>2, <2>4, <2>5
<1>7. CASE \E t \in Thread : Complete(t) \/ Fail(t)
  <2>1. UNCHANGED <<sent, current>>
    BY <1>7 DEF Complete, Connected, Reconnected, OnWrite, Resume, Fail, Refused, Reset, Broken
  <2>2. \A u \in Thread : pc'[u] \in {"push", "erase", "open"} => pc'[u] = pc[u] /\ at'[u] = at[u]
    BY <1>7 DEF Complete, Connected, Reconnected, OnWrite, Resume, Holds, Fail, Refused, Reset,
       Broken, thread, IInv, TypeOK
  <2>3. \A u \in Thread : ~Open(u)
    BY <2>1, SentTyped, AppendProperties DEF Open, IInv, TypeOK
  <2> QED BY <1>4, <2>1, <2>2, <2>3
<1>8. CASE Network \/ Clock \/ UNCHANGED vars
  <2>1. UNCHANGED <<sent, current, pc, at>>
    BY <1>8 DEF Network, Transmit, Receive, Clock, TimerEnds, vars, thread
  <2>2. \A u \in Thread : ~Open(u)
    BY <2>1, SentTyped, AppendProperties DEF Open, IInv, TypeOK
  <2> QED BY <1>4, <2>1, <2>2
<1> QED BY <1>5, <1>6, <1>7, <1>8 DEF Next

LEMMA OrderKept == OrderInv /\ [Next]_vars => OrderInv'
BY InOrderStays, NoneLostStays, LatestStays, StepKeeps DEF OrderInv

\* Messages over one connection arrive in the order they were sent, and as
\* long as nothing fails only a message whose connection was opened for it is
\* overtaken, on a node with one io thread, while the connection is there
\* (do_write's queue, and the entry of current_servers in ClientHandler).
THEOREM OvertakenOnlyAtOpeningAlways == Spec => []OvertakenOnlyAtOpening
<1>1. OrderInv => OvertakenOnlyAtOpening
  <2> SUFFICES ASSUME OrderInv, faults = 0, NEW a \in DOMAIN sent, NEW b \in DOMAIN sent,
                      Overtakes(b, a), Alive(sent[a].server)
               PROVE  /\ sent[b].server # sent[a].server
                      /\ sent[a].first \/ concurrency > 1
    BY DEF OvertakenOnlyAtOpening
  <2>1. PICK s \in Server : s = sent[a].server
    BY SentTyped DEF OrderInv
  <2>2. PICK j \in DOMAIN got : got[j] = b /\ \A i \in 1 .. j : got[i] # a
    BY DEF Overtakes
  <2>3. a < b /\ a \in Nat /\ b \in Nat
    BY SentTyped DEF Overtakes, OrderInv
  <2>4. sent[b].server # s
    <3> SUFFICES ASSUME sent[b].server = s PROVE FALSE
      OBVIOUS
    <3>1. Present(Lane, got, s, a)
      BY <2>1 DEF OrderInv, NoneLost
    <3>2. CASE \E i \in DOMAIN got : got[i] = a
      <4>1. PICK i \in DOMAIN got : got[i] = a
        BY <3>2
      <4>2. j < i
        BY <2>2, <4>1, LenProperties DEF OrderInv, IInv, TypeOK
      <4> QED BY <2>1, <2>2, <2>3, <4>1, <4>2 DEF OrderInv, InOrder, Ordered
    <3>3. CASE \E k \in DOMAIN Lane[s] : Lane[s][k] = a
      BY <2>1, <2>2, <2>3, <3>3 DEF OrderInv, InOrder, Ordered
    <3> QED BY <3>1, <3>2, <3>3 DEF Present
  <2>5. sent[a].first \/ concurrency > 1
    <3>1. CASE concurrency = 1
      BY <2>1, <2>3, <2>4, <3>1 DEF OrderInv, Latest, OnTheLatest
    <3>2. CASE concurrency # 1
      BY <3>2, ThreadsAssumption DEF OrderInv, IInv, TypeOK, Thread
    <3> QED BY <3>1, <3>2
  <2> QED BY <2>1, <2>4, <2>5
<1>2. Init => OrderInv
  <2> SUFFICES ASSUME Init PROVE OrderInv
    OBVIOUS
  <2>1. /\ DOMAIN sent = {} /\ DOMAIN got = {}
        /\ \A s \in Server : Lane[s] = <<>> /\ DOMAIN Lane[s] = {}
    BY InitLanes, EmptySeq DEF Init, Lanes!Init, Lane, Carried
  <2>2. InOrder /\ Opened /\ NoneLost /\ OnTheLatest
    BY <2>1 DEF InOrder, Ordered, Opened, NoneLost, OnTheLatest
  <2>3. AboutToSend
    BY DEF Init, AboutToSend
  <2> QED BY <2>2, <2>3, InitIInv DEF OrderInv, Latest
<1> QED BY <1>1, <1>2, OrderKept, PTL DEF Spec
=============================================================================
