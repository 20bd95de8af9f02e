-------------------------------- MODULE Interp ---------------------------------
(***************************************************************************)
(* The scheduler of the byte code interpreter, interp.c, with the network  *)
(* interface below it and the server of test_net.s above it: a daemon      *)
(* accepts connections and spawns a responder for each, which sends back   *)
(* what it reads.  That server reads characters; here a responder may read *)
(* several at a time, as with net_read_shtring, and close its connection.  *)
(* Contexts are in the root block and survive a crash, connections do not. *)
(***************************************************************************)
EXTENDS Net

CONSTANTS
  NUMBER_OF_CONTEXT_PRIORITIES,
  DaemonPriority, ResponderPriority,
  jiffies_between_yields,
  Lengths,                  \* of what a responder reads at a time
  MaxConnects, MaxSent,     \* bounds: connections of peers, characters of each
  MaxCrashes                \* bound

Priorities == 0 .. NUMBER_OF_CONTEXT_PRIORITIES - 1
ASSUME InterpAssumption ==
  /\ DaemonPriority \in Priorities /\ ResponderPriority \in Priorities
  /\ jiffies_between_yields \in Nat

VARIABLES
  pc,          \* where interp is: run, poll, wake, pick, returned or failed
  cont,        \* the context that runs, or NoContext
  jiffies_until_yield,
  left,        \* number_of_wakeups_left
  flushed,     \* flushed_batch_during_wakeups
  root,        \* what is in the root block: contexts, blocked_threads, ...
  net,
  connects, crashes    \* counted, for the bounds

vars == <<pc, cont, jiffies_until_yield, left, flushed, root, net, connects, crashes>>
envVars == <<connects, crashes>>

NoContext == [thread_id |-> NULL_WORD, priority |-> 0, bcode |-> "none", handle |-> 0, n |-> 0, text |-> <<>>]
Context(id, priority, bcode, h, n) ==
  [thread_id |-> id, priority |-> priority, bcode |-> bcode, handle |-> h, n |-> n, text |-> <<>>]
EmptyRoot ==
  [contexts |-> [p \in Priorities |-> <<>>], blocked_threads |-> {},
   highest_thread_id |-> 0, suspended |-> NoContext]

Init ==
  /\ pc = "run" /\ cont = Context(0, DaemonPriority, "daemon", 0, 0)
  /\ jiffies_until_yield = jiffies_between_yields
  /\ left = 0 /\ flushed = FALSE
  /\ root = EmptyRoot
  /\ net = net_init
  /\ connects = 0 /\ crashes = 0

InsertLast(r, c) == [r EXCEPT !.contexts[c.priority] = Append(@, c)]

--------------------------------------------------------------------------------
(* The ends of a byte code sequence.  They leave pc, cont, the jiffies and *)
(* the root block r in memory.                                             *)
YIELD_CONT(r, c) ==
  /\ pc' = "poll" /\ cont' = NoContext /\ root' = InsertLast(r, c)
  /\ jiffies_until_yield' = jiffies_between_yields
RUN_CONT(r, c) ==
  \/ jiffies_until_yield <= 0 /\ YIELD_CONT(r, c)
  \/ /\ jiffies_until_yield > 0 /\ jiffies_until_yield' = jiffies_until_yield - 1
     /\ pc' = "run" /\ cont' = c /\ root' = r
DIE_CONT == pc' = "poll" /\ cont' = NoContext /\ UNCHANGED <<root, jiffies_until_yield>>
BLOCK_CONT ==
  /\ pc' = "poll" /\ cont' = NoContext /\ root' = [root EXCEPT !.blocked_threads = @ \cup {cont}]
  /\ UNCHANGED jiffies_until_yield
Fails == pc' = "failed" /\ UNCHANGED <<cont, jiffies_until_yield, root>>

(* Mutant: the suspended context stays in the root block.                  *)
KeepSuspended(r) == r
DropSuspended(r) == [r EXCEPT !.suspended = NoContext]

(* interp(NULL_PTR, ...) on the root block r that flush_batch committed;   *)
(* init_interp has called net_init.  What happened between that commit and *)
(* the crash leaves no trace, so the crash follows the commit.             *)
CrashAndRecover(r) ==
  /\ crashes < MaxCrashes /\ crashes' = crashes + 1
  /\ net' = net_init /\ left' = 0 /\ flushed' = FALSE
  /\ root' = DropSuspended(r)
  /\ cont' = r.suspended /\ pc' = IF r.suspended = NoContext THEN "poll" ELSE "run"
  /\ jiffies_until_yield' = jiffies_between_yields
  /\ UNCHANGED connects

(* The label flush_and_run_cont: the registers are in the root block while *)
(* flush_batch runs.                                                       *)
CrashInFlush == pc = "run" /\ CrashAndRecover([root EXCEPT !.suspended = cont])

--------------------------------------------------------------------------------
(* The byte code sequences.  A call on a connection that is not there is   *)
(* one on a handle from before a crash.                                    *)
Runs(bcode) == pc = "run" /\ cont.bcode = bcode
Sequence(r) ==
  /\ net' = r.net
  /\ UNCHANGED <<left, flushed, envVars>>

daemon ==
  /\ Runs("daemon")
  /\ \/ \E h \in Free(net) :
          Sequence(Returns(net_listen(net, h), "none"))
            /\ RUN_CONT(root, [cont EXCEPT !.bcode = "daemon#1", !.handle = h])
     \/ Sequence(Returns(net, "errno")) /\ DIE_CONT

(* INSN(spawn): with the next thread_id, into the queue of its priority.   *)
spawn(bcode, h, n, priority) ==
  InsertLast([root EXCEPT !.highest_thread_id = @ + 1],
             Context(root.highest_thread_id + 1, priority, bcode, h, n))

DaemonAfter(r, h) ==
  /\ Sequence(r)
  /\ CASE r.error = "blocked" -> BLOCK_CONT
       [] r.error = "errno" -> DIE_CONT
       [] r.error = "assert" -> Fails
       [] r.error = "none" -> \E n \in Lengths : RUN_CONT(spawn("responder#1", h, n, ResponderPriority), cont)
daemon1 ==
  /\ Runs("daemon#1")
  /\ \E h \in IF Free(net) = {} THEN {0} ELSE Free(net) :
       DaemonAfter(net_accept(net, cont.thread_id, cont.handle, h), h)

Responder1After(r) ==
  /\ Sequence(r)
  /\ CASE r.error = "blocked" -> BLOCK_CONT
       [] r.error \in {"errno", "eof"} -> DIE_CONT
       [] r.error = "assert" -> Fails
       [] r.error = "none" -> RUN_CONT(root, [cont EXCEPT !.bcode = "responder#2", !.text = @ \o r.bytes])
responder1 ==
  /\ Runs("responder#1")
  /\ Responder1After(net_read_mem(net, cont.thread_id, cont.handle, cont.n))

(* NET_ALLOCATION_ERROR: FLUSH_AND_RETRY_CONT for the rest of the string.  *)
(* After the flush there is memory for it.                                 *)
Responder1Retries(r) ==
  /\ Sequence(r)
  /\ cont' = [cont EXCEPT !.text = r.bytes, !.n = @ - Len(r.bytes)]
  /\ jiffies_until_yield' = jiffies_until_yield - 1 /\ UNCHANGED <<pc, root>>
responder1retry ==
  /\ Runs("responder#1") /\ cont.text = <<>> /\ CanRead(net, cont.handle, cont.n)
  /\ \E k \in 1 .. cont.n - 1 : Responder1Retries(net_read_shtring_short(net, cont.handle, cont.n, k))

Responder2After(r) ==
  /\ Sequence(r)
  /\ CASE r.error = "blocked" -> BLOCK_CONT
       [] r.error = "errno" -> DIE_CONT
       [] r.error = "assert" -> Fails
       [] r.error = "none" ->
            \/ \E n \in Lengths : RUN_CONT(root, [cont EXCEPT !.bcode = "responder#1", !.n = n, !.text = <<>>])
            \/ RUN_CONT(root, [cont EXCEPT !.bcode = "close", !.n = 0, !.text = <<>>])
responder2 ==
  /\ Runs("responder#2")
  /\ Responder2After(net_write_mem(net, cont.thread_id, cont.handle, cont.text))

(* INSN(net_close) asserts that there was no error.                        *)
CloseAfter(r) ==
  /\ Sequence(r)
  /\ CASE r.error = "blocked" -> BLOCK_CONT
       [] r.error \in {"errno", "assert"} -> Fails
       [] r.error = "none" -> DIE_CONT
close ==
  /\ Runs("close")
  /\ CloseAfter(net_close(net, cont.thread_id, cont.handle))

--------------------------------------------------------------------------------
(* The label die_cont.                                                     *)
Poll ==
  /\ pc = "poll" /\ pc' = "wake"
  /\ net' = net_number_of_wakeups(net) /\ left' = net'.wakeups /\ flushed' = FALSE
  /\ UNCHANGED <<cont, jiffies_until_yield, root, envVars>>

FlushDuringWakeups ==
  /\ pc = "wake" /\ left > 0
  /\ \/ flushed' = TRUE /\ UNCHANGED <<pc, cont, jiffies_until_yield, left, root, net, envVars>>
     \/ CrashAndRecover(root)

WokenContexts(thread_id) == {c \in root.blocked_threads : c.thread_id = thread_id}
WakeUpBy(r) ==
  /\ net' = r.net /\ left' = left - 1
  /\ \/ /\ WokenContexts(r.thread_id) = {} /\ Fails
     \/ \E c \in WokenContexts(r.thread_id) :
          /\ root' = InsertLast([root EXCEPT !.blocked_threads = @ \ {c}], c)
          /\ UNCHANGED <<pc, cont, jiffies_until_yield>>
WakeUp ==
  /\ pc = "wake" /\ left > 0
  /\ WakeUpBy(net_get_wakeup(net))
  /\ UNCHANGED <<flushed, envVars>>

AfterWakeups ==
  /\ pc = "wake" /\ left = 0 /\ pc' = IF flushed THEN "poll" ELSE "pick"
  /\ UNCHANGED <<cont, jiffies_until_yield, left, flushed, root, net, envVars>>

Ready == {p \in Priorities : root.contexts[p] # <<>>}
Pick ==
  /\ pc = "pick"
  /\ \/ /\ Ready # {} /\ pc' = "run"
        /\ cont' = Head(root.contexts[Max(Ready)])
        /\ root' = [root EXCEPT !.contexts[Max(Ready)] = Tail(@)]
     \/ /\ Ready = {} /\ pc' = IF root.blocked_threads # {} THEN "poll" ELSE "returned"
        /\ UNCHANGED <<cont, root>>
  /\ UNCHANGED <<jiffies_until_yield, left, flushed, net, envVars>>

--------------------------------------------------------------------------------
Connected(h) == net.connection[h].status \in {"CONNECTED", "CLOSING"}
Listening == \E h \in Handles : net.connection[h].status = "LISTENING"
Peers(n) == net' = n /\ UNCHANGED <<pc, cont, jiffies_until_yield, left, flushed, root, crashes>>
Peer ==
  \/ /\ Listening /\ connects < MaxConnects /\ net.backlog < MaxBacklog
     /\ Peers(PeerConnect(net)) /\ connects' = connects + 1
  \/ /\ UNCHANGED connects
     /\ \E h \in Handles :
          /\ Connected(h) /\ ~ net.sock[h].reset
          /\ \/ ~ net.sock[h].eof /\ net.sock[h].sent < MaxSent /\ Peers(PeerSend(net, h))
             \/ ~ net.sock[h].eof /\ Peers(PeerClose(net, h))
             \/ net.sock[h].eof /\ Peers(PeerReset(net, h))
Receive ==
  \E h \in Handles :
    /\ Connected(h) /\ ~ net.sock[h].eof /\ net.sock[h].out # <<>>
    /\ Peers(PeerReceive(net, h)) /\ UNCHANGED connects

Sequences == daemon \/ daemon1 \/ responder1 \/ responder1retry \/ responder2 \/ close
Interpreter ==
  \/ Sequences
  \/ Poll \/ FlushDuringWakeups \/ WakeUp \/ AfterWakeups \/ Pick
Next == Interpreter \/ CrashInFlush \/ Peer \/ Receive

(* The interpreter goes on until it returns or fails: WF_vars(Interpreter) *)
(* with the states where a step of it is enabled spelt out.  The peers     *)
(* read what arrives.                                                      *)
InterpreterRuns == []<>(pc \in {"returned", "failed"}) \/ []<><<Interpreter>>_vars
Spec == Init /\ [][Next]_vars /\ InterpreterRuns /\ WF_vars(Receive)

--------------------------------------------------------------------------------
(* The contexts in a root block and one that runs.                         *)
ContextsIn(r, c) ==
  FlattenSeq([p \in 1 .. NUMBER_OF_CONTEXT_PRIORITIES |-> r.contexts[p - 1]])
    \o SetToSeq(r.blocked_threads) \o SelectSeq(<<r.suspended, c>>, LAMBDA x : x # NoContext)
OneEach(s) == \A i, j \in DOMAIN s : i # j => s[i].thread_id # s[j].thread_id
Served(s, h) == {i \in DOMAIN s : s[i].handle = h}

(* A thread is in one place only, also after a recovery, and a connection  *)
(* has one thread: no two of them share what it sends.                     *)
OneThreadEach ==
  /\ OneEach(ContextsIn(root, cont))
  /\ \A h \in Handles : Connected(h) => Cardinality(Served(ContextsIn(root, cont), h)) = 1

(* Select gets open descriptors only, and a blocked thread is the one its  *)
(* connection will wake.  The handles that survive a crash are stale.      *)
BlockedThreadsPolled ==
  (pc # "failed" /\ crashes = 0) =>
    /\ (net.read_set \cup net.write_set) \cap Free(net) = {}
    /\ \A c \in root.blocked_threads :
         /\ net.connection[c.handle].thread_id = c.thread_id
         /\ \/ c.handle \in net.read_set \cup net.write_set
            \/ left > 0 /\ c.handle \in Wakeable(net)

(* No thread is lost between the queues of contexts, the trie of blocked   *)
(* threads, the registers, the root block and the table of connections,    *)
(* and none is there twice: yield_cont, block_cont, the wakeups and        *)
(* recover_cont move threads between them, and net.c knows whom to wake.   *)
NoThreadLost == OneThreadEach /\ BlockedThreadsPolled

InHand(h) ==
  FlattenSeq([i \in DOMAIN ContextsIn(root, cont) |->
    LET c == ContextsIn(root, cont)[i] IN IF c.handle = h THEN c.text ELSE <<>>])

(* What a peer sent comes back in order, once, none missing: it is in the  *)
(* sockets, the buffers and the context of the responder.                  *)
StreamsIntact ==
  \A h \in Handles :
    (net.connection[h].status = "CONNECTED" /\ ~ net.sock[h].reset /\ pc # "failed") =>
      net.sock[h].rcvd \o net.sock[h].out \o BytesIn(net.connection[h].write_buffer) \o InHand(h)
        \o BytesIn(net.connection[h].read_buffer) \o net.sock[h].in = [i \in 1 .. net.sock[h].sent |-> i]

(* The bytes that are too few for what the responder of h wants to read.   *)
Awaited(h) ==
  IF \E c \in root.blocked_threads : c.handle = h /\ c.bcode = "responder#1"
  THEN net.connection[h].read_buffer.bytes_in_buffer ELSE 0

(* A peer that reads gets back what it sent, unless its connection ends or *)
(* the responder waits for more: net_number_of_wakeups goes on with what   *)
(* net_write_mem left in the buffer, and every wakeup reaches its thread.  *)
EchoReturns ==
  \A h \in Handles, k \in 1 .. MaxSent :
    (net.connection[h].status = "CONNECTED" /\ net.sock[h].sent = k) ~>
      \/ pc = "failed" \/ net.connection[h].status # "CONNECTED" \/ net.sock[h].eof
      \/ Len(net.sock[h].rcvd) + Awaited(h) >= k
================================================================================
