--------------------------------- MODULE Net -----------------------------------
(***************************************************************************)
(* The network interface, net.c: the table of connections, the sets of     *)
(* descriptors for select, the wakeups of one poll.  A call is an operator *)
(* from the state of the interface to [net, error, ...]; error is "none",  *)
(* "blocked" (NET_BLOCKED), "eof" (NET_EOF), "errno" (a system error) or   *)
(* "assert" (an assertion fails).  The sockets are external.               *)
(***************************************************************************)
EXTENDS NetBuffer

CONSTANTS
  Handles,                  \* of connections; as many descriptors can be open
  write_block_threshold,
  SocketRoom,               \* bytes a socket takes before writev blocks
  MaxBacklog,               \* of connections that wait for net_accept
  NULL_WORD

ASSUME NetAssumption ==
  /\ Handles \subseteq Nat /\ IsFiniteSet(Handles)
  /\ write_block_threshold \in Nat /\ SocketRoom \in Nat \ {0} /\ MaxBacklog \in Nat

(* A descriptor is known by the handle of its connection.                  *)
NoConnection ==
  [status |-> "NONE", thread_id |-> NULL_WORD, error |-> "none",
   read_buffer |-> reset_buffer, write_buffer |-> reset_buffer]

(* in: bytes that arrived; out: bytes on their way to the peer; eof: the   *)
(* peer closed; reset: what is sent and received now fails; sent, rcvd:    *)
(* what the peer did so far.                                               *)
NoSocket == [in |-> <<>>, out |-> <<>>, eof |-> FALSE, reset |-> FALSE, sent |-> 0, rcvd |-> <<>>]

net_init ==
  [connection |-> [h \in Handles |-> NoConnection], sock |-> [h \in Handles |-> NoSocket], backlog |-> 0,
   read_set |-> {}, write_set |-> {}, return_read_set |-> {}, return_write_set |-> {},
   wakeups |-> 0]

Free(n) == {h \in Handles : n.connection[h].status = "NONE"}
Open(n, h, status) == [n EXCEPT !.connection[h] = [NoConnection EXCEPT !.status = status]]

destroy_connection(n, h) ==
  [n EXCEPT !.connection[h] = NoConnection, !.sock[h] = NoSocket,
            !.read_set = @ \ {h}, !.write_set = @ \ {h},
            !.return_read_set = @ \ {h}, !.return_write_set = @ \ {h}]

Returns(n, error) == [net |-> n, error |-> error]

(* The error that net_number_of_wakeups met; all errors it keeps are fatal. *)
PendingError(n, h) == Returns(destroy_connection(n, h), n.connection[h].error)
ReportError(n, h) == Returns([n EXCEPT !.connection[h].error = "none"], n.connection[h].error)

--------------------------------------------------------------------------------
Room(n, h) == SocketRoom - Len(n.sock[h].out)

(* write_from_buffer on the connection's buffer, now b.                    *)
Written(n, h, w) ==
  [n EXCEPT !.connection[h].write_buffer = w.buffer, !.sock[h].out = @ \o w.bytes]
WriteResult(n, h) ==
  IF n.sock[h].reset /\ n.connection[h].write_buffer.bytes_in_buffer > 0 THEN "errno"
  ELSE IF n.connection[h].write_buffer.bytes_in_buffer > Room(n, h) THEN "blocked" ELSE "none"
WriteOut(n, h) ==
  IF n.sock[h].reset THEN n
  ELSE Written(n, h, write_from_buffer(n.connection[h].write_buffer, Room(n, h)))

(* The end of net_write_mem: data that stays in the buffer does not block. *)
AfterWrite(n, h, thread_id, error) ==
  CASE error = "none" -> Returns([n EXCEPT !.write_set = @ \ {h}], "none")
    [] error = "blocked" ->
         Returns([n EXCEPT !.write_set = @ \cup {h}, !.connection[h].thread_id = thread_id], "none")
    [] error = "errno" -> Returns(destroy_connection(n, h), "errno")
CopyAndWrite(n, h, thread_id) == AfterWrite(WriteOut(n, h), h, thread_id, WriteResult(n, h))

net_write_mem(n, thread_id, h, bytes) ==
  LET c == n.connection[h] IN
  IF c.error # "none" THEN PendingError(n, h)
  ELSE IF c.status # "CONNECTED" THEN Returns(n, "assert")
  ELSE IF c.write_buffer.bytes_in_buffer > write_block_threshold THEN Returns(n, "blocked")
  ELSE CopyAndWrite([n EXCEPT !.connection[h].write_buffer = copy_to_buffer(@, bytes)], h, thread_id)

--------------------------------------------------------------------------------
(* The end of net_read_mem and net_read_shtring; n has what could be read  *)
(* in its buffer.                                                          *)
Delivered(n, h, r) ==
  [net |-> [n EXCEPT !.connection[h].read_buffer = r.buffer, !.read_set = @ \ {h}],
   error |-> "none", bytes |-> r.bytes]
AfterRead(n, h, thread_id, number_of_bytes) ==
  LET b == n.connection[h].read_buffer IN
  IF b.bytes_in_buffer >= number_of_bytes THEN Delivered(n, h, copy_from_buffer(b, number_of_bytes))
  ELSE IF n.sock[h].reset THEN Returns(destroy_connection(n, h), "errno")
  ELSE IF n.sock[h].eof THEN Returns(destroy_connection(n, h), "eof")
  ELSE Returns([n EXCEPT !.read_set = @ \cup {h}, !.connection[h].thread_id = thread_id], "blocked")
Filled(n, h, r) == [n EXCEPT !.connection[h].read_buffer = r.buffer, !.sock[h].in = r.left]

net_read_mem(n, thread_id, h, number_of_bytes) ==
  LET c == n.connection[h] IN
  IF c.error # "none" THEN PendingError(n, h)
  ELSE IF c.status # "CONNECTED" THEN Returns(n, "assert")
  ELSE AfterRead(Filled(n, h, read_to_buffer(c.read_buffer, n.sock[h].in, number_of_bytes)),
                 h, thread_id, number_of_bytes)

(* net_read_shtring when make_shtring finds memory for k bytes only; there *)
(* is enough in the buffer or the socket.                                  *)
ShortOfMemory(n, h, r, k) == Delivered(Filled(n, h, r), h, copy_from_buffer(r.buffer, k))
CanRead(n, h, number_of_bytes) ==
  /\ n.connection[h].status = "CONNECTED" /\ n.connection[h].error = "none"
  /\ n.connection[h].read_buffer.bytes_in_buffer + Len(n.sock[h].in) >= number_of_bytes
net_read_shtring_short(n, h, number_of_bytes, k) ==
  ShortOfMemory(n, h, read_to_buffer(n.connection[h].read_buffer, n.sock[h].in, number_of_bytes), k)

--------------------------------------------------------------------------------
(* The caller says which handle new_connection_data finds free.            *)
net_listen(n, h) == Open(n, h, "LISTENING")

net_accept(n, thread_id, h, new_handle) ==
  IF n.connection[h].error # "none" THEN ReportError(n, h)
  ELSE IF n.connection[h].status # "LISTENING" THEN Returns(n, "assert")
  ELSE IF n.backlog = 0
  THEN Returns([n EXCEPT !.read_set = @ \cup {h}, !.connection[h].thread_id = thread_id], "blocked")
  ELSE IF new_handle \notin Handles THEN Returns(n, "errno")
  ELSE Returns(Open([n EXCEPT !.read_set = @ \ {h}, !.backlog = @ - 1], new_handle, "CONNECTED"), "none")

(* Blocked once while data is in the buffer.  The descriptor is closed but *)
(* not taken out of the sets.                                              *)
net_close(n, thread_id, h) ==
  LET c == n.connection[h] IN
  IF c.error # "none" THEN ReportError(n, h)
  ELSE IF c.status = "NONE" THEN Returns(n, "assert")
  ELSE IF c.write_buffer.bytes_in_buffer > 0 /\ c.status = "CONNECTED"
  THEN Returns([n EXCEPT !.connection[h].status = "CLOSING", !.connection[h].thread_id = thread_id,
                         !.write_set = @ \cup {h}], "blocked")
  ELSE Returns([n EXCEPT !.connection[h] = NoConnection, !.sock[h] = NoSocket], "none")

--------------------------------------------------------------------------------
(* What select finds.                                                      *)
Readable(n, h) ==
  \/ n.connection[h].status = "LISTENING" /\ n.backlog > 0
  \/ n.sock[h].in # <<>> \/ n.sock[h].eof \/ n.sock[h].reset
Writable(n, h) == Room(n, h) > 0 \/ n.sock[h].reset

(* Mutant: a write that blocks again is not polled any more.               *)
NotPolledAgain(n, h) ==
  [n EXCEPT !.write_set = @ \ {h}, !.return_write_set = @ \ {h}, !.wakeups = @ - 1]
StillBlocked(n, h) ==
  [n EXCEPT !.write_set = @ \cup {h}, !.return_write_set = @ \ {h}, !.wakeups = @ - 1]
(* A writable connection in net_number_of_wakeups.                         *)
ResumeWrite(n, h) ==
  LET error == WriteResult(n, h)
      w == WriteOut(n, h) IN
  CASE error = "none" -> [w EXCEPT !.write_set = @ \ {h}]
    [] error = "blocked" -> StillBlocked(w, h)
    [] error = "errno" ->
         [w EXCEPT !.return_write_set = @ \ {h}, !.return_read_set = @ \ {h},
                   !.connection[h].error = "errno",
                   !.wakeups = IF h \in n.return_read_set THEN @ - 1 ELSE @]

Selected(n) ==
  LET r == {h \in n.read_set : Readable(n, h)}
      w == {h \in n.write_set : Writable(n, h)} IN
  [n EXCEPT !.return_read_set = r, !.return_write_set = w,
            !.wakeups = Cardinality(r) + Cardinality(w)]
ResumeWrites(n) ==
  FoldSet(LAMBDA h, m : ResumeWrite(m, h), n,
          {h \in n.return_write_set : n.connection[h].status = "CONNECTED"})

(* With a closed descriptor in a set select fails: no wakeups.             *)
net_number_of_wakeups(n) ==
  IF (n.read_set \cup n.write_set) \cap Free(n) # {}
  THEN [n EXCEPT !.return_read_set = n.read_set, !.return_write_set = n.write_set,
                 !.wakeups = 0]
  ELSE ResumeWrites(Selected(n))

(* The connections net_get_wakeup may return next.  Those below its cursor *)
(* wakeup_handle have nothing left to return.                              *)
Wakeable(n) ==
  {h \in Handles : /\ n.connection[h].status # "NONE"
                   /\ \/ h \in n.return_read_set \cup n.return_write_set
                      \/ n.connection[h].error # "none"}
Acknowledged(n, h) ==
  IF n.connection[h].error # "none" THEN n
  ELSE IF h \in n.return_read_set
  THEN [n EXCEPT !.read_set = @ \ {h}, !.return_read_set = @ \ {h}]
  ELSE [n EXCEPT !.write_set = @ \ {h}, !.return_write_set = @ \ {h}]
WakeupOf(n, h) ==
  [net |-> [Acknowledged(n, h) EXCEPT !.wakeups = @ - 1],
   thread_id |-> n.connection[h].thread_id]
net_get_wakeup(n) == WakeupOf(n, Min(Wakeable(n)))

--------------------------------------------------------------------------------
(* The peers.  A peer numbers the bytes it sends.                          *)
PeerConnect(n) == [n EXCEPT !.backlog = @ + 1]
PeerSend(n, h) == [n EXCEPT !.sock[h].in = Append(@, n.sock[h].sent + 1), !.sock[h].sent = @ + 1]
PeerReceive(n, h) == [n EXCEPT !.sock[h].rcvd = Append(@, Head(n.sock[h].out)), !.sock[h].out = Tail(@)]
PeerClose(n, h) == [n EXCEPT !.sock[h].eof = TRUE]
PeerReset(n, h) == [n EXCEPT !.sock[h].reset = TRUE, !.sock[h].in = <<>>, !.sock[h].out = <<>>]
================================================================================
