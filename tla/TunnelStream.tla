------------------------------ MODULE TunnelStream ------------------------------
(***************************************************************************)
(* One Visitor's bytes from end to end: the Visitor's TCP connection, the  *)
(* Server's proxy, the Tunnel stream, the Client's handler and the backend *)
(* (src/src/proxy.rs, src/src/tunnel/stream.rs,                            *)
(* src/src/client/tunnel_stream.rs, src/src/tunnel_framing.rs).  Each      *)
(* direction has a near end, which copies from TCP into the stream, and a  *)
(* far end, which copies out of it.                                        *)
(***************************************************************************)
EXTENDS Naturals, Sequences, SequencesExt

CONSTANTS
  Addresses, Hello,  \* what the Server sends first: the Visitor's addresses, the ClientHello
  MaxBytes           \* bytes each peer sends behind the ClientHello

\* A byte is its number; the two parts of the frame are no bytes of a peer.
ASSUME BytesAssumption == MaxBytes \in Nat /\ Addresses # Hello /\ {Addresses, Hello} \cap Nat = {}

Directions == {"request", "response"}

VARIABLES
  service,   \* of the selected ServiceConfig: terminate, header (proxy_protocol)
  sent,      \* per direction: bytes its source has sent
  tcp,       \* per direction: the TCP stream into the near end: data, end (open, fin, reset)
  near,      \* per direction: TunnelWriteHalf and the copy before it
  wire,      \* per direction: the bytes inside the Tunnel: data, end, stopped
  far,       \* per direction: running, done
  out,       \* per direction: bytes delivered over TCP, whether it ended, whether its reader left
  handler,   \* where TunnelConnectionStreamHandler::handle is
  cut        \* the work was revoked, the handler cancelled or the connection lost

proxyVars == <<service, sent, tcp, near, wire, far, out, handler, cut>>

\* encode_tunnel_stream: the Server sends the addresses and the buffered
\* ClientHello first.
Frame == <<Addresses, Hello>>

\* The halves are separate futures of join!: a send half that ended without
\* FIN was dropped.
StreamInit ==
  /\ service \in [terminate : BOOLEAN, header : BOOLEAN]
  /\ sent = [d \in Directions |-> 0]
  /\ tcp = [d \in Directions |-> [data |-> <<>>, end |-> "open"]]
  /\ near = [d \in Directions |->
               [state |-> IF d = "request" THEN "idle" ELSE "off", chunk |-> <<>>,
                held |-> IF d = "request" THEN Frame ELSE <<>>]]
  /\ wire = [d \in Directions |-> [data |-> <<>>, end |-> "open", stopped |-> FALSE]]
  /\ far = [d \in Directions |-> IF d = "request" THEN "off" ELSE "running"]
  /\ out = [d \in Directions |-> [data |-> <<>>, ended |-> FALSE, left |-> FALSE]]
  /\ handler = "intake" /\ cut = FALSE

-----------------------------------------------------------------------------
\* The two peers outside the Tunnel.  The backend is there once connected.

Other(d) == IF d = "request" THEN "response" ELSE "request"
Attached(d) == d = "request" \/ near[d].state # "off"

PeerSends(d) ==
  /\ Attached(d) /\ tcp[d].end = "open" /\ sent[d] < MaxBytes
  /\ sent' = [sent EXCEPT ![d] = @ + 1]
  /\ tcp' = [tcp EXCEPT ![d].data = Append(@, sent[d] + 1)]
  /\ UNCHANGED <<service, near, wire, far, out, handler, cut>>

PeerFinishes(d) ==
  /\ Attached(d) /\ tcp[d].end = "open"
  /\ tcp' = [tcp EXCEPT ![d].end = "fin"]
  /\ UNCHANGED <<service, sent, near, wire, far, out, handler, cut>>

\* The peer stops reading: later writes to it fail.
PeerLeaves(d) ==
  /\ Attached(d) /\ tcp[d].end = "fin" /\ ~out[Other(d)].left
  /\ out' = [out EXCEPT ![Other(d)].left = TRUE]
  /\ UNCHANGED <<service, sent, tcp, near, wire, far, handler, cut>>

PeerResets(d) ==
  /\ Attached(d) /\ tcp[d].end = "open"
  /\ tcp' = [tcp EXCEPT ![d] = [data |-> <<>>, end |-> "reset"]]
  /\ out' = [out EXCEPT ![Other(d)].left = TRUE]
  /\ UNCHANGED <<service, sent, near, wire, far, handler, cut>>

-----------------------------------------------------------------------------
(***************************************************************************)
(* Dropping halves.  A send half dropped before FIN completed resets its   *)
(* stream, and the peer may never see what was in flight; a dropped        *)
(* receive half stops its peer.                                            *)
(***************************************************************************)

\* Mutant: Quinn's own drop finishes the stream.
DropEndImplicit == "fin"
DropEnd == "reset"

NearLive(d) == near[d].state \in {"idle", "writing", "finishing"}
Dropped(half) == [half EXCEPT !.state = "dropped", !.chunk = <<>>, !.held = <<>>]
Reset(w, kept) == [w EXCEPT !.end = DropEnd, !.data = SubSeq(@, 1, kept)]

\* In terminate mode copy_bidirectional ends both directions with the first
\* error; the directions of proxy_tcp_over_tunnel are joined.
\* Mutant: try_join.
FailureEndsBothAlways == TRUE
FailureEndsBoth == service.terminate

\* Both halves of the side that owns the near end of d and the far end of the
\* other direction are dropped.
DropSide(d) ==
  /\ near' = [near EXCEPT ![d] = IF NearLive(d) THEN Dropped(@) ELSE @]
  /\ \E kept \in 0..Len(wire[d].data) :
       wire' = [wire EXCEPT ![d] = IF NearLive(d) THEN Reset(@, kept) ELSE @,
                            ![Other(d)].stopped = @ \/ far[Other(d)] # "done"]
  /\ far' = [far EXCEPT ![Other(d)] = "done"]
  /\ out' = [out EXCEPT ![Other(d)].ended = TRUE]

-----------------------------------------------------------------------------
\* The near end: copy, then TunnelWriteHalf.

\* copy reads a chunk; the write before it may be in flight, but the frame is
\* flushed.
NearReads(d) ==
  /\ near[d].state \in {"idle", "writing"} /\ near[d].chunk # Frame
  /\ near[d].held = <<>> /\ tcp[d].data # <<>>
  /\ near' = [near EXCEPT ![d].held = <<Head(tcp[d].data)>>]
  /\ tcp' = [tcp EXCEPT ![d].data = Tail(@)]
  /\ UNCHANGED <<service, sent, wire, far, out, handler, cut>>

\* poll_write: it accepts the bytes as soon as the write before is complete.
NearWrites(d) ==
  /\ near[d].state = "idle" /\ near[d].held # <<>>
  /\ near' = [near EXCEPT ![d] = [state |-> "writing", chunk |-> near[d].held, held |-> <<>>]]
  /\ UNCHANGED <<service, sent, tcp, wire, far, out, handler, cut>>

\* poll_pending_write.
WriteCompletes(d) ==
  /\ near[d].state = "writing" /\ ~wire[d].stopped
  /\ near' = [near EXCEPT ![d].state = "idle", ![d].chunk = <<>>]
  /\ wire' = [wire EXCEPT ![d].data = @ \o near[d].chunk]
  /\ UNCHANGED <<service, sent, tcp, far, out, handler, cut>>

\* poll_shutdown, at the end of the copy, behind the write in flight.
NearFinishes(d) ==
  /\ near[d].state = "idle" /\ near[d].held = <<>>
  /\ tcp[d].data = <<>> /\ tcp[d].end = "fin"
  /\ near' = [near EXCEPT ![d].state = "finishing", ![d].chunk = <<>>]
  /\ UNCHANGED <<service, sent, tcp, wire, far, out, handler, cut>>

FinishCompletes(d) ==
  /\ near[d].state = "finishing" /\ ~wire[d].stopped
  /\ near' = [near EXCEPT ![d].state = "finished"]
  /\ wire' = [wire EXCEPT ![d].end = "fin"]
  /\ UNCHANGED <<service, sent, tcp, far, out, handler, cut>>

\* The read failed, or the peer stopped the stream under a write or FIN.
NearFails(d) ==
  /\ \/ near[d].state \in {"idle", "writing"} /\ tcp[d].end = "reset"
     \/ near[d].state \in {"writing", "finishing"} /\ wire[d].stopped
  /\ IF d = "response" /\ FailureEndsBoth
     THEN DropSide(d)
     ELSE /\ near' = [near EXCEPT ![d] = Dropped(@)]
          /\ \E kept \in 0..Len(wire[d].data) :
               wire' = [wire EXCEPT ![d] = Reset(@, kept)]
          /\ UNCHANGED <<far, out>>
  /\ UNCHANGED <<service, sent, tcp, handler, cut>>

-----------------------------------------------------------------------------
\* The far end: TunnelReadHalf and the copy behind it.

Running(d) == far[d] = "running" /\ (d = "request" => handler = "proxy")

FarCopies(d) ==
  /\ Running(d) /\ wire[d].data # <<>> /\ ~out[d].left
  /\ out' = [out EXCEPT ![d].data = Append(@, Head(wire[d].data))]
  /\ wire' = [wire EXCEPT ![d].data = Tail(@)]
  /\ UNCHANGED <<service, sent, tcp, near, far, handler, cut>>

\* End of file: the TCP write half is shut down.
FarFinishes(d) ==
  /\ Running(d) /\ wire[d].data = <<>> /\ wire[d].end = "fin"
  /\ far' = [far EXCEPT ![d] = "done"]
  /\ out' = [out EXCEPT ![d].ended = TRUE]
  /\ UNCHANGED <<service, sent, tcp, near, wire, handler, cut>>

\* The stream was reset, the reader of its bytes has left, or terminated TLS
\* ended without close_notify.  The dropped TCP half ends its direction too.
FarFails(d) ==
  /\ Running(d)
  /\ \/ wire[d].end = "reset"
     \/ wire[d].data # <<>> /\ out[d].left
     \/ service.terminate /\ d = "request" /\ wire[d].data = <<>> /\ wire[d].end = "fin"
  /\ IF d = "request" /\ FailureEndsBoth
     THEN DropSide("response")
     ELSE /\ far' = [far EXCEPT ![d] = "done"]
          /\ wire' = [wire EXCEPT ![d].stopped = TRUE]
          /\ out' = [out EXCEPT ![d].ended = TRUE]
          /\ UNCHANGED near
  /\ UNCHANGED <<service, sent, tcp, handler, cut>>

-----------------------------------------------------------------------------
(***************************************************************************)
(* TunnelConnectionStreamHandler::handle before it proxies.  The stream is *)
(* still whole there: dropping it resets the response and stops the        *)
(* request.                                                                *)
(***************************************************************************)

\* read_tunnel_stream: the frame, within client_hello_timeout.
Intake ==
  /\ handler = "intake" /\ IsPrefix(Frame, wire["request"].data)
  /\ handler' = IF service.terminate THEN "handshake" ELSE "connect"
  /\ wire' = [wire EXCEPT !["request"].data = SubSeq(@, Len(Frame) + 1, Len(@))]
  /\ UNCHANGED <<service, sent, tcp, near, far, out, cut>>

\* TLS termination replays the ClientHello to the acceptor.
Handshake ==
  /\ handler = "handshake" /\ handler' = "connect"
  /\ UNCHANGED <<service, sent, tcp, near, wire, far, out, cut>>

\* What the backend is given before any copied byte.
Preamble ==
  (IF service.header THEN <<Addresses>> ELSE <<>>)
    \o (IF service.terminate THEN <<>> ELSE <<Hello>>)

\* connect_backend and write_backend_with_timeout.
ConnectBackend ==
  /\ handler = "connect" /\ handler' = "proxy"
  /\ near' = [near EXCEPT !["response"].state = "idle"]
  /\ far' = [far EXCEPT !["request"] = "running"]
  /\ out' = [out EXCEPT !["request"].data = Preamble]
  /\ UNCHANGED <<service, sent, tcp, wire, cut>>

Abandon ==
  /\ handler' = "done"
  /\ near' = [near EXCEPT !["response"].state = "dropped"]
  /\ wire' = [wire EXCEPT !["request"].stopped = TRUE, !["response"].end = DropEnd]
  /\ far' = [far EXCEPT !["request"] = "done"]

\* A timeout, an invalid or cut off frame, no service, no TLS configuration,
\* a failed handshake, a backend that does not answer; or a served challenge.
HandlerEnds ==
  /\ handler \in {"intake", "handshake", "connect"}
  /\ Abandon
  /\ UNCHANGED <<service, sent, tcp, out, cut>>

-----------------------------------------------------------------------------
(***************************************************************************)
(* The Server's work is revoked (ActiveVisitorWork::run drops the proxy),  *)
(* the Client's handler is cancelled, or the connection is lost.           *)
(***************************************************************************)
ServerCut ==
  /\ ~cut /\ cut' = TRUE
  /\ DropSide("request")
  /\ UNCHANGED <<service, sent, tcp, handler>>

ClientCut ==
  /\ ~cut /\ cut' = TRUE /\ handler # "done"
  /\ IF handler = "proxy" THEN DropSide("response") /\ handler' = "done"
                          ELSE Abandon /\ UNCHANGED out
  /\ UNCHANGED <<service, sent, tcp>>

ProxyStep(d) ==
  \/ NearReads(d) \/ NearWrites(d) \/ WriteCompletes(d) \/ NearFinishes(d) \/ FinishCompletes(d)
  \/ NearFails(d) \/ FarCopies(d) \/ FarFinishes(d) \/ FarFails(d)

PeerStep(d) == PeerSends(d) \/ PeerFinishes(d) \/ PeerLeaves(d) \/ PeerResets(d)

StreamNext ==
  \/ \E d \in Directions : ProxyStep(d) \/ PeerStep(d)
  \/ Intake \/ Handshake \/ ConnectBackend \/ HandlerEnds
  \/ ServerCut \/ ClientCut

\* The two directions are polled independently; the peers, the handler's
\* outcome and the cuts are free.
StreamSpec ==
  /\ StreamInit /\ [][StreamNext]_proxyVars
  /\ \A d \in Directions :
       /\ WF_proxyVars(NearReads(d) \/ NearWrites(d) \/ WriteCompletes(d) \/ NearFinishes(d)
                       \/ FinishCompletes(d) \/ NearFails(d))
       /\ WF_proxyVars(FarCopies(d) \/ FarFinishes(d) \/ FarFails(d))

-----------------------------------------------------------------------------
StreamTypeOK ==
  /\ sent \in [Directions -> 0..MaxBytes]
  /\ \A d \in Directions :
       /\ tcp[d].end \in {"open", "fin", "reset"} /\ wire[d].end \in {"open", "fin", "reset"}
       /\ near[d].state \in {"off", "idle", "writing", "finishing", "finished", "dropped"}
       /\ far[d] \in {"off", "running", "done"}
  /\ handler \in {"intake", "handshake", "connect", "proxy", "done"}

Sent(n) == [i \in 1..n |-> i]
Whole(d) == (IF d = "request" THEN Preamble ELSE <<>>) \o Sent(sent[d])

\* No byte is lost, doubled or moved on its way through the two copies, the
\* write in flight and the replayed ClientHello; and a Tunnel stream ends with
\* FIN only behind all of its source's bytes and its source's own FIN: an
\* aborted Visitor never looks like a clean end (stream.rs).
StreamFaithful ==
  /\ StreamTypeOK
  /\ \A d \in Directions :
       /\ IsPrefix(out[d].data, Whole(d))
       /\ wire[d].end = "fin" =>
            /\ tcp[d].end = "fin" /\ tcp[d].data = <<>> /\ near[d].held = <<>>
            /\ far[d] = "running" /\ wire[d].data = <<>> /\ handler = "proxy"
                 => out[d].data = Whole(d)

\* The failed request must not cancel the response (proxy.rs): what a backend
\* sent and finished reaches a Visitor that still reads, whatever became of
\* the request, unless the stream was cut.
ResponseDelivered ==
  /\ ~service.terminate /\ handler = "proxy" /\ tcp["response"].end = "fin"
  ~> \/ out["response"].data = Whole("response") /\ out["response"].ended
     \/ cut \/ out["response"].left
================================================================================
