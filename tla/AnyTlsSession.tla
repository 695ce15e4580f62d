--------------------------- MODULE AnyTlsSession ---------------------------
(***************************************************************************)
(* One AnyTLS session as a server runs it, crates/anytls/src/session.rs,   *)
(* with the logical streams of stream.rs and the handler of server.rs.     *)
(* The session task multiplexes streams over one transport: it receives    *)
(* frames of the peer, messages of the streams and notices of dropped      *)
(* streams, and passes what it writes to a writer through a bounded queue. *)
(* Payload is numbered, so that order and loss are visible.                *)
(***************************************************************************)
EXTENDS Naturals, SequencesExt, FiniteSets

CONSTANTS MaxSid,       \* the largest stream id the peer uses
          MaxStreams,   \* streams of a session, MAX_STREAMS in the code
          Credits,      \* receive budget, RECEIVE_BYTES in the code, in units of one frame
          QueueSize,    \* of the queues of messages and of writes, 64 and 16 in the code
          MaxData       \* payload frames in each direction of a stream

ASSUME SessionAssumption ==
  /\ MaxSid \in Nat /\ MaxStreams \in Nat \ {0} /\ Credits \in Nat
  /\ QueueSize \in Nat \ {0} /\ MaxData \in Nat

Sid == 1 .. MaxSid

VARIABLES
  run,        \* the session task: select, send or flush (one write), dropping, ended
  write,      \* the write being sent: its frames and who waits for it
  entries,    \* streams known to the session
  nextSid,    \* the last stream id the peer opened
  stopping,   \* the server drains
  messages,   \* queue of the streams' messages
  dropped,    \* queue of dropped streams
  writes,     \* queue to the writer
  wire,       \* the frames written to the transport
  stream,     \* the logical stream in the hands of its handler
  flushing,   \* the acknowledgement a stream waits for
  sent,       \* payload frames the stream accepted
  flushed,    \* payload frames covered by an acknowledged flush
  incoming,   \* payload received and not yet read
  got,        \* payload read
  error,      \* status.error is set
  ending,     \* how reading ended
  peerSent,   \* payload the peer sent while the session knew the stream
  peerFin     \* the session took a FIN of the peer

loop  == <<run, write, entries, nextSid>>
users == <<stream, flushing, sent, flushed>>
input == <<incoming, got, ending>>
peer  == <<peerSent, peerFin>>
svars == <<loop, stopping, messages, dropped, writes, wire, users, input, error, peer>>

Nobody  == [kind |-> "nobody", sid |-> 0]
NoWrite == [frames |-> <<>>, wait |-> FALSE, for |-> Nobody]
Frame   == [cmd : {"synack", "refuse", "psh", "fin"}, sid : Sid, n : 0 .. MaxData]
Waiter  == [kind : {"nobody", "publish", "flush", "close"}, sid : 0 .. MaxSid]
Write   == [frames : Seq(Frame), wait : BOOLEAN, for : Waiter]
Message == [kind : {"data", "flush", "close"}, sid : Sid, n : 0 .. MaxData]

\* Types of the session, its streams and its queues, which stay within their capacity.
SessionTypeOK ==
  /\ run \in {"select", "send", "flush", "dropping", "ended"} /\ write \in Write
  /\ entries \subseteq Sid /\ nextSid \in 0 .. MaxSid /\ stopping \in BOOLEAN
  /\ messages \in Seq(Message) /\ dropped \in Seq(Sid) /\ writes \in Seq(Write)
  /\ Len(messages) <= QueueSize /\ Len(writes) <= QueueSize
  /\ wire \in Seq(Frame)
  /\ stream \in [Sid -> {"none", "open", "shut", "dropped"}]
  /\ flushing \in [Sid -> {"no", "flush", "close"}]
  /\ sent \in [Sid -> 0 .. MaxData] /\ flushed \in [Sid -> 0 .. MaxData]
  /\ incoming \in [Sid -> Seq(1 .. MaxData)] /\ got \in [Sid -> 0 .. MaxData]
  /\ error \subseteq Sid /\ ending \in [Sid -> {"no", "clean", "error"}]
  /\ peerSent \in [Sid -> 0 .. MaxData] /\ peerFin \subseteq Sid

SessionInit ==
  /\ run = "select" /\ write = NoWrite /\ entries = {} /\ nextSid = 0 /\ stopping = FALSE
  /\ messages = <<>> /\ dropped = <<>> /\ writes = <<>> /\ wire = <<>>
  /\ stream = [i \in Sid |-> "none"] /\ flushing = [i \in Sid |-> "no"]
  /\ sent = [i \in Sid |-> 0] /\ flushed = [i \in Sid |-> 0]
  /\ incoming = [i \in Sid |-> <<>>] /\ got = [i \in Sid |-> 0]
  /\ error = {} /\ ending = [i \in Sid |-> "no"]
  /\ peerSent = [i \in Sid |-> 0] /\ peerFin = {}

Gone == run = "ended"

\* Frames that were received and are still held by a stream; each holds one unit of credit.
Held == FoldFunction(LAMBDA q, n : n + Len(q), 0, incoming)

-----------------------------------------------------------------------------
(* The session task writes.                                                 *)

FrameOf(cmd, i, n) == [cmd |-> cmd, sid |-> i, n |-> n]

\* self.send(frames): wait for room in the queue; flush_frames also waits for the writer.
Sending(frames, wait, for) ==
  /\ run' = "send"
  /\ write' = [frames |-> frames, wait |-> wait, for |-> for]

\* Mistake: a stream that arrives while the server drains is not handed to anyone.
PublishForgets(i) ==
  /\ stream' = [stream EXCEPT ![i] = IF stopping THEN "none" ELSE "open"] /\ UNCHANGED dropped

\* The handler gets the stream, or drops it when the server drains.
Publish(i) ==
  /\ stream' = [stream EXCEPT ![i] = IF stopping THEN "dropped" ELSE "open"]
  /\ dropped' = IF stopping THEN Append(dropped, i) ELSE dropped

\* Resume whoever waits for the write.
Answered(for, ok) ==
  CASE for.kind = "flush" ->
         /\ flushing' = [flushing EXCEPT ![for.sid] = "no"]
         /\ flushed' = IF ok THEN [flushed EXCEPT ![for.sid] = sent[for.sid]] ELSE flushed
         /\ UNCHANGED <<stream, dropped>>
    [] for.kind = "close" ->
         /\ flushing' = [flushing EXCEPT ![for.sid] = "no"] /\ UNCHANGED <<flushed, stream, dropped>>
    [] for.kind = "publish" -> Publish(for.sid) /\ UNCHANGED <<flushing, flushed>>
    [] OTHER -> UNCHANGED <<flushing, flushed, stream, dropped>>

\* The write is queued.  An acknowledged flush is answered by the writer, a FIN is waited for, and
\* anything else is done.
Queue ==
  /\ run = "send" /\ Len(writes) < QueueSize
  /\ writes' = Append(writes, write)
  /\ IF write.wait \/ write.for.kind = "flush" THEN UNCHANGED <<users, dropped>>
     ELSE Answered(write.for, TRUE) /\ UNCHANGED sent
  /\ IF write.wait THEN run' = "flush" /\ UNCHANGED write
     ELSE run' = "select" /\ write' = NoWrite
  /\ UNCHANGED <<entries, nextSid, stopping, messages, wire, input, error, peer>>

\* The writer took a write; it is answered once it is on the transport.
Written ==
  /\ run \in {"select", "send", "flush"} /\ writes # <<>>
  /\ LET w == Head(writes) IN
     /\ wire' = wire \o w.frames
     /\ IF w.wait \/ w.for.kind = "flush" THEN Answered(w.for, TRUE) /\ UNCHANGED sent
        ELSE UNCHANGED <<users, dropped>>
     /\ IF w.wait THEN run' = "select" /\ write' = NoWrite
        ELSE UNCHANGED <<run, write>>
  /\ writes' = Tail(writes)
  /\ UNCHANGED <<entries, nextSid, stopping, messages, input, error, peer>>

\* Session::close of a stream the session knows: set its error if there is one, write a FIN.
CloseStream(i, failed, for) ==
  /\ entries' = entries \ {i}
  /\ error' = IF failed THEN error \cup {i} ELSE error
  /\ Sending(<<FrameOf("fin", i, 0)>>, TRUE, for)

-----------------------------------------------------------------------------
(* The session task receives.                                               *)

\* SYN: ids must increase; a stream beyond the limit is refused.
PeerSyn(i) ==
  /\ run = "select"
  /\ IF i <= nextSid THEN run' = "dropping" /\ UNCHANGED <<write, entries, nextSid>>
     ELSE /\ nextSid' = i
          /\ IF Cardinality(entries) >= MaxStreams
             THEN /\ Sending(<<FrameOf("refuse", i, 0), FrameOf("fin", i, 0)>>, FALSE, Nobody)
                  /\ UNCHANGED entries
             ELSE /\ entries' = entries \cup {i}
                  /\ Sending(<<FrameOf("synack", i, 0)>>, FALSE, [kind |-> "publish", sid |-> i])
  /\ UNCHANGED <<stopping, messages, dropped, writes, wire, users, input, error, peer>>

\* PSH: hand the payload to the stream; close the stream if the budget is used up or nobody reads.
\* Payload for a stream the session does not know has no effect.
PeerPsh(i) ==
  /\ run = "select" /\ i \in entries /\ peerSent[i] < MaxData
  /\ peerSent' = [peerSent EXCEPT ![i] = @ + 1]
  /\ IF Held < Credits /\ stream[i] # "dropped"
     THEN /\ incoming' = [incoming EXCEPT ![i] = Append(@, peerSent'[i])]
          /\ UNCHANGED <<loop, error>>
     ELSE CloseStream(i, TRUE, Nobody) /\ UNCHANGED <<nextSid, incoming>>
  /\ UNCHANGED <<stopping, messages, dropped, writes, wire, users, got, ending, peerFin>>

\* FIN: forget the stream, keep what it received, write nothing.
PeerFinish(i) ==
  /\ run = "select" /\ i \in entries
  /\ entries' = entries \ {i} /\ peerFin' = peerFin \cup {i}
  /\ UNCHANGED <<run, write, nextSid, stopping, messages, dropped, writes, wire, users, input,
                 error, peerSent>>

\* Data of a stream the session forgot is dropped.
HandleData(m) ==
  IF m.sid \in entries THEN Sending(<<FrameOf("psh", m.sid, m.n)>>, FALSE, Nobody)
  ELSE UNCHANGED <<run, write>>

\* Mistake: a flush is acknowledged without passing through the writer.
HandleFlushNow(m) == Answered([kind |-> "flush", sid |-> m.sid], TRUE) /\ UNCHANGED <<run, write>>

\* A flush follows the stream's data through the writer, or fails.
HandleFlush(m) ==
  IF m.sid \in entries
  THEN /\ Sending(<<>>, FALSE, [kind |-> "flush", sid |-> m.sid])
       /\ UNCHANGED <<stream, flushing, flushed, dropped>>
  ELSE Answered([kind |-> "flush", sid |-> m.sid], FALSE) /\ UNCHANGED <<run, write>>

HandleClose(m) ==
  IF m.sid \in entries
  THEN /\ CloseStream(m.sid, FALSE, [kind |-> "close", sid |-> m.sid])
       /\ UNCHANGED <<stream, flushing, flushed, dropped>>
  ELSE Answered([kind |-> "close", sid |-> m.sid], TRUE) /\ UNCHANGED <<entries, error, run, write>>

Handle ==
  /\ run = "select" /\ messages # <<>>
  /\ messages' = Tail(messages)
  /\ LET m == Head(messages) IN
     \/ /\ m.kind = "data" /\ HandleData(m)
        /\ UNCHANGED <<entries, error, stream, flushing, flushed, dropped>>
     \/ m.kind = "flush" /\ HandleFlush(m) /\ UNCHANGED <<entries, error>>
     \/ m.kind = "close" /\ HandleClose(m)
  /\ UNCHANGED <<nextSid, stopping, writes, wire, sent, input, peer>>


HandleDropped ==
  /\ run = "select" /\ dropped # <<>>
  /\ dropped' = Tail(dropped)
  /\ IF Head(dropped) \in entries THEN CloseStream(Head(dropped), FALSE, Nobody)
     ELSE UNCHANGED <<run, write, entries, error>>
  /\ UNCHANGED <<nextSid, stopping, messages, writes, wire, users, input, peer>>

\* A draining session without streams returns.
Return ==
  /\ run = "select" /\ stopping /\ entries = {}
  /\ run' = "dropping"
  /\ UNCHANGED <<write, entries, nextSid, stopping, messages, dropped, writes, wire, users, input,
                 error, peer>>

\* Transport error, alert, write timeout or cancellation.  A stream that was not published is
\* dropped with the future.
Fail ==
  /\ run \in {"select", "send", "flush"}
  /\ run' = "dropping"
  /\ stream' = IF write.for.kind = "publish" THEN [stream EXCEPT ![write.for.sid] = "dropped"] ELSE stream
  /\ UNCHANGED <<write, entries, nextSid, stopping, messages, dropped, writes, wire, flushing, sent,
                 flushed, input, error, peer>>

\* Mistake: streams are not told that the session failed.
DropSilent ==
  /\ run = "dropping" /\ UNCHANGED error
  /\ run' = "ended" /\ entries' = {} /\ write' = NoWrite
  /\ messages' = <<>> /\ dropped' = <<>> /\ writes' = <<>>
  /\ flushing' = [i \in Sid |-> "no"]
  /\ UNCHANGED <<nextSid, stopping, wire, stream, sent, flushed, input, peer>>

\* Session::drop sets the error of every stream; then the entries and queues are dropped, which
\* fails whoever waits for an acknowledgement.
Drop ==
  /\ run = "dropping" /\ error' = error \cup entries
  /\ run' = "ended" /\ entries' = {} /\ write' = NoWrite
  /\ messages' = <<>> /\ dropped' = <<>> /\ writes' = <<>>
  /\ flushing' = [i \in Sid |-> "no"]
  /\ UNCHANGED <<nextSid, stopping, wire, stream, sent, flushed, input, peer>>

-----------------------------------------------------------------------------
(* The streams, in the hands of their handlers.                             *)

Closed(i) == i \notin entries

\* poll_read: the next payload; at the end an error if one is set.
Read(i) ==
  /\ stream[i] \in {"open", "shut"} /\ ending[i] = "no"
  /\ IF incoming[i] # <<>>
     THEN /\ got' = [got EXCEPT ![i] = Head(incoming[i])]
          /\ incoming' = [incoming EXCEPT ![i] = Tail(@)] /\ UNCHANGED ending
     ELSE /\ Closed(i)
          /\ ending' = [ending EXCEPT ![i] = IF i \in error THEN "error" ELSE "clean"]
          /\ UNCHANGED <<incoming, got>>
  /\ UNCHANGED <<loop, stopping, messages, dropped, writes, wire, users, error, peer>>

Post(kind, i) ==
  /\ ~Gone /\ Len(messages) < QueueSize
  /\ messages' = Append(messages, [kind |-> kind, sid |-> i, n |-> sent'[i]])

\* poll_write
WriteData(i) ==
  /\ stream[i] = "open" /\ ~Closed(i) /\ flushing[i] = "no" /\ sent[i] < MaxData
  /\ sent' = [sent EXCEPT ![i] = @ + 1]
  /\ Post("data", i)
  /\ UNCHANGED <<loop, stopping, dropped, writes, wire, stream, flushing, flushed, input, error, peer>>

\* poll_flush
Flush(i) ==
  /\ stream[i] = "open" /\ ~Closed(i) /\ flushing[i] = "no" /\ flushed[i] < sent[i]
  /\ flushing' = [flushing EXCEPT ![i] = "flush"] /\ UNCHANGED sent
  /\ Post("flush", i)
  /\ UNCHANGED <<loop, stopping, dropped, writes, wire, stream, flushed, input, error, peer>>

\* poll_shutdown; on a closed stream it succeeds without a message.
Shutdown(i) ==
  /\ stream[i] = "open" /\ ~Closed(i) /\ flushing[i] = "no"
  /\ stream' = [stream EXCEPT ![i] = "shut"]
  /\ flushing' = [flushing EXCEPT ![i] = "close"] /\ UNCHANGED sent
  /\ Post("close", i)
  /\ UNCHANGED <<loop, stopping, dropped, writes, wire, flushed, input, error, peer>>

\* LogicalStream::drop frees the payload that was not read.
DropStream(i) ==
  /\ stream[i] \in {"open", "shut"}
  /\ stream' = [stream EXCEPT ![i] = "dropped"]
  /\ dropped' = IF Gone THEN dropped ELSE Append(dropped, i)
  /\ incoming' = [incoming EXCEPT ![i] = <<>>]
  /\ flushing' = [flushing EXCEPT ![i] = "no"]
  /\ UNCHANGED <<loop, stopping, messages, writes, wire, sent, flushed, got, ending, error, peer>>

Stop ==
  /\ ~stopping /\ stopping' = TRUE
  /\ UNCHANGED <<loop, messages, dropped, writes, wire, users, input, error, peer>>

SessionNext ==
  \/ Queue \/ Written \/ Handle \/ HandleDropped \/ Return \/ Fail \/ Drop \/ Stop
  \/ \E i \in Sid : \/ PeerSyn(i) \/ PeerPsh(i) \/ PeerFinish(i)
                    \/ Read(i) \/ WriteData(i) \/ Flush(i) \/ Shutdown(i) \/ DropStream(i)

SessionSpec == SessionInit /\ [][SessionNext]_svars

\* Tasks are polled and select is fair among its branches; handlers drop their streams.
SessionFairness ==
  /\ WF_svars(Queue) /\ WF_svars(Written) /\ WF_svars(Drop)
  /\ SF_svars(Handle) /\ SF_svars(HandleDropped) /\ SF_svars(Return)
  /\ \A i \in Sid : WF_svars(stopping /\ DropStream(i))

SessionFairSpec == SessionSpec /\ SessionFairness

-----------------------------------------------------------------------------
(* Properties.                                                              *)

WireOf(i) == SelectSeq(wire, LAMBDA f : f.sid = i)


\* A flush that succeeds covers everything the stream accepted before it: nothing was dropped on the
\* way because the session forgot the stream.
FlushedIsWritten ==
  \A i \in Sid : flushed[i] <= Len(SelectSeq(WireOf(i), LAMBDA f : f.cmd = "psh"))

\* A reader sees a clean end only after the peer's FIN, with all payload before it, or after its own
\* shutdown.  A failed session or an exhausted budget is never taken for a complete stream.
CleanEndIsComplete ==
  \A i \in Sid : ending[i] = "clean" =>
    stream[i] = "shut" \/ stream[i] = "dropped" \/ (i \in peerFin /\ got[i] = peerSent[i])

\* A draining session ends once its handlers dropped their streams.
DrainReturns == stopping ~> Gone
=============================================================================
