------------------------------ MODULE Adapters ------------------------------
(***************************************************************************)
(* The write side of a client connection (server/ws/internal/adapters):    *)
(* WriteMessage passes a message over a channel to the Write goroutine,    *)
(* which writes it to the connection; Close ends both.                     *)
(*                                                                         *)
(* A websocket's channel is bounded; Close closes the close channel and    *)
(* then the connection.  A webtransport stream's channel has no buffer,    *)
(* and Close closes that channel too: a send on it panics from then on.    *)
(*                                                                         *)
(* A call of WriteMessage stands for the message it sends.  The context of *)
(* a message handler is done when the close channel is closed              *)
(* (customCancelContext); a broadcast's is never (context.WithoutCancel).  *)
(***************************************************************************)
EXTENDS Naturals, Sequences

CONSTANTS
    Calls,          \* WriteMessage calls
    Cancellable,    \* the ones with the connection's context
    Capacity,       \* WebSocketWriteBufferSize
    Ping,           \* the ping frame
    Reader          \* the goroutine of HandleWS, which closes after Read

ASSUME AdapterAssumption ==
    /\ Cancellable \subseteq Calls
    /\ Capacity \in Nat \ {0}
    /\ Ping \notin Calls /\ Reader \notin Calls

Closers == Calls \cup {Reader}

VARIABLES
    kind,       \* websocket or webtransport
    pc,         \* where each call, and the Reader, is
    out,        \* the buffer of the websocket's channel
    wpc,        \* where the Write goroutine is
    hand,       \* the message it received
    wrErr,      \* the error of the last write: none, gone (isConnClosedErr), other
    closed,     \* the closed flag
    closes,     \* how often closeChannel was closed
    ends,       \* how often the rest of Close ran: conn.Close, or close(out)
    peer,       \* whether the client is still there
    accepted,   \* history: the messages the channel took, in order
    wire,       \* history: the messages written to the client, in order
    failed,     \* history: a write has failed
    waited      \* history: the calls that found no case of their select ready

vars == <<kind, pc, out, wpc, hand, wrErr, closed, closes, ends, peer,
          accepted, wire, failed, waited>>
closeVars == <<closed, closes, ends>>
queueVars == <<out, accepted>>
writerVars == <<wpc, hand, wrErr, wire, failed>>

IsWebsocket == kind = "websocket"

Init ==
    /\ kind \in {"websocket", "webtransport"}
    /\ pc = [p \in Closers |-> IF p = Reader THEN "read" ELSE "idle"]
    /\ out = <<>>
    /\ wpc = "select"
    /\ hand = Ping
    /\ wrErr = "none"
    /\ closed = FALSE
    /\ closes = 0
    /\ ends = 0
    /\ peer = TRUE
    /\ accepted = <<>>
    /\ wire = <<>>
    /\ failed = FALSE
    /\ waited = {}

-----------------------------------------------------------------------------
(* Mutated forms: the bugs the properties below would catch.               *)

\* Close does not look at what the compare-and-swap returns.
CloseSwapAlways(p) ==
    /\ pc[p] = "close"
    /\ closed' = TRUE
    /\ pc' = [pc EXCEPT ![p] = "closeChan"]
    /\ UNCHANGED <<kind, closes, ends, queueVars, writerVars, peer, waited>>

\* The inner select does not watch the context.
WriteCancelNever(m) == FALSE /\ UNCHANGED vars

\* The writer ends although the adapter is open.
WriterStopEarly ==
    /\ wpc = "select"
    /\ wpc' = "done"
    /\ UNCHANGED <<kind, pc, queueVars, hand, wrErr, wire, failed, closeVars, peer, waited>>

-----------------------------------------------------------------------------
(* WriteMessage returns at once when it finds the close channel (or, on a  *)
(* stream, the flag) set; with nil or with the error of the context.       *)
WriteEnter(m) ==
    /\ pc[m] = "idle"
    /\ LET refused == IF IsWebsocket THEN closes > 0 ELSE closed
       IN  pc' = [pc EXCEPT ![m] = IF refused THEN "returned" ELSE "check"]
    /\ UNCHANGED <<kind, queueVars, writerVars, closeVars, peer, waited>>

(* After a write has failed because the client is gone the adapter is      *)
(* closed instead.                                                         *)
WriteCheck(m) ==
    /\ pc[m] = "check"
    /\ pc' = [pc EXCEPT ![m] = IF wrErr = "gone" THEN "close" ELSE "select"]
    /\ UNCHANGED <<kind, queueVars, writerVars, closeVars, peer, waited>>

(* The select, websocket: the channel has room.                            *)
WriteQueue(m) ==
    /\ IsWebsocket /\ pc[m] = "select" /\ Len(out) < Capacity
    /\ out' = Append(out, m)
    /\ accepted' = Append(accepted, m)
    /\ pc' = [pc EXCEPT ![m] = "returned"]
    /\ UNCHANGED <<kind, writerVars, closeVars, peer, waited>>

(* The select, stream: the Write goroutine takes the message; it ends if   *)
(* its context is done or the client is known to be gone.                  *)
WriteHand(m) ==
    /\ ~IsWebsocket /\ pc[m] \in {"select", "wait"} /\ wpc = "select" /\ ends = 0
    /\ hand' = m
    /\ wpc' = IF closes > 0 \/ wrErr = "gone" THEN "done" ELSE "frame"
    /\ accepted' = Append(accepted, m)
    /\ pc' = [pc EXCEPT ![m] = "returned"]
    /\ UNCHANGED <<kind, out, wrErr, wire, failed, closeVars, peer, waited>>

(* The select: a handler's context is done.  A stream's select watches the *)
(* close channel itself, a websocket's does not.                           *)
WriteCancel(m) ==
    /\ pc[m] \in {"select", "wait"} /\ closes > 0
    /\ m \in Cancellable \/ ~IsWebsocket
    /\ pc' = [pc EXCEPT ![m] = "returned"]
    /\ UNCHANGED <<kind, queueVars, writerVars, closeVars, peer, waited>>

(* The select, stream: no case is ready, the call waits.                   *)
WriteWait(m) ==
    /\ ~IsWebsocket /\ pc[m] = "select" /\ wpc # "select" /\ closes = 0 /\ ends = 0
    /\ pc' = [pc EXCEPT ![m] = "wait"]
    /\ waited' = waited \cup {m}
    /\ UNCHANGED <<kind, queueVars, writerVars, closeVars, peer>>

(* The select, stream: one that begins after out was closed may choose the *)
(* send; one that waits is woken by the channel that is closed first.      *)
WritePanic(m) ==
    /\ ~IsWebsocket /\ ends > 0
    /\ pc[m] = "select" \/ (pc[m] = "wait" /\ closes = 0)
    /\ pc' = [pc EXCEPT ![m] = "panicked"]
    /\ UNCHANGED <<kind, queueVars, writerVars, closeVars, peer, waited>>

-----------------------------------------------------------------------------
(* The Write goroutine ends: on a websocket with the close channel, on a   *)
(* stream when the range finds out closed.                                 *)
WriterStop ==
    /\ wpc = "select"
    /\ IF IsWebsocket THEN closes > 0 ELSE ends > 0
    /\ wpc' = "done"
    /\ UNCHANGED <<kind, pc, queueVars, hand, wrErr, wire, failed, closeVars, peer, waited>>

(* The ticker: a ping is queued unless the channel is full.                *)
WriterPing ==
    /\ IsWebsocket /\ wpc = "select" /\ Len(out) < Capacity
    /\ out' = Append(out, Ping)
    /\ UNCHANGED <<kind, pc, accepted, writerVars, closeVars, peer, waited>>

WriterTake ==
    /\ IsWebsocket /\ wpc = "select" /\ out # <<>>
    /\ wpc' = IF wrErr = "gone" THEN "done" ELSE "frame"
    /\ hand' = Head(out)
    /\ out' = Tail(out)
    /\ UNCHANGED <<kind, pc, wrErr, closeVars, peer, accepted, wire, failed, waited>>

(* Nothing is written once the adapter is closed.                          *)
WriterFrame ==
    /\ wpc = "frame"
    /\ wpc' = IF closes > 0 \/ (IsWebsocket /\ closed) THEN "select" ELSE "write"
    /\ UNCHANGED <<kind, pc, queueVars, hand, wrErr, wire, failed, closeVars, peer, waited>>

(* The write succeeds, if only into the buffers of a client that is gone.  *)
(* A websocket's wrErr is that of the last write, a stream's the last one. *)
WriterWrite ==
    /\ wpc = "write" /\ ends = 0
    /\ wpc' = "select"
    /\ wrErr' = IF IsWebsocket THEN "none" ELSE wrErr
    /\ wire' = IF hand = Ping \/ ~peer THEN wire ELSE Append(wire, hand)
    /\ failed' = (failed \/ ~peer)
    /\ UNCHANGED <<kind, pc, queueVars, hand, closeVars, peer, waited>>

(* It fails: by the write deadline, or because the client or our own Close *)
(* ended the connection.                                                   *)
WriterFail ==
    /\ wpc = "write"
    /\ wpc' = "select"
    /\ \/ (ends = 0 \/ ~IsWebsocket) /\ wrErr' = "other"
       \/ (ends > 0 \/ ~peer) /\ wrErr' = "gone"
    /\ failed' = TRUE
    /\ UNCHANGED <<kind, pc, queueVars, hand, wire, closeVars, peer, waited>>

-----------------------------------------------------------------------------
(* Close, called by the Reader when Read has returned and by WriteMessage. *)
CloseSwap(p) ==
    /\ pc[p] = "close"
    /\ closed' = TRUE
    /\ pc' = [pc EXCEPT ![p] = IF closed THEN "returned" ELSE "closeChan"]
    /\ UNCHANGED <<kind, closes, ends, queueVars, writerVars, peer, waited>>

CloseChan(p) ==
    /\ pc[p] = "closeChan"
    /\ closes' = closes + 1
    /\ pc' = [pc EXCEPT ![p] = "closeEnd"]
    /\ UNCHANGED <<kind, closed, ends, queueVars, writerVars, peer, waited>>

(* Websocket: the closing frame and conn.Close.  Stream: close(out), then  *)
(* the session or the stream.                                              *)
CloseEnd(p) ==
    /\ pc[p] = "closeEnd"
    /\ ends' = ends + 1
    /\ pc' = [pc EXCEPT ![p] = "returned"]
    /\ UNCHANGED <<kind, closed, closes, queueVars, writerVars, peer, waited>>

(* Read returns: the client said goodbye, the read failed or timed out, or *)
(* the context is done.                                                    *)
ReadEnd ==
    /\ pc[Reader] = "read"
    /\ pc' = [pc EXCEPT ![Reader] = "close"]
    /\ UNCHANGED <<kind, queueVars, writerVars, closeVars, peer, waited>>

PeerGone ==
    /\ peer
    /\ peer' = FALSE
    /\ UNCHANGED <<kind, pc, queueVars, writerVars, closeVars, waited>>

-----------------------------------------------------------------------------
WriteStep(m) == WriteCheck(m) \/ WriteCancel(m) \/ WriteWait(m) \/ WritePanic(m)
CloseStep(p) == CloseSwap(p) \/ CloseChan(p) \/ CloseEnd(p)

Next ==
    \/ \E m \in Calls : WriteEnter(m) \/ WriteQueue(m) \/ WriteHand(m) \/ WriteStep(m)
    \/ \E p \in Closers : CloseStep(p)
    \/ WriterStop \/ WriterTake \/ WriterFrame \/ WriterWrite \/ WriterFail \/ WriterPing
    \/ ReadEnd \/ PeerGone

Spec == Init /\ [][Next]_vars

(* Running goroutines go on.  A sender that waits for room is served in    *)
(* turn by the channel, so it is not overtaken for ever.  A write ends by  *)
(* its deadline, a read ends when the connection does.                     *)
Fairness ==
    /\ \A m \in Calls : WF_vars(WriteStep(m)) /\ SF_vars(WriteQueue(m) \/ WriteHand(m))
    /\ \A p \in Closers : WF_vars(CloseStep(p))
    /\ WF_vars(WriterStop \/ WriterTake) /\ WF_vars(WriterFrame)
    /\ WF_vars(WriterWrite \/ WriterFail)
    /\ WF_vars(ReadEnd /\ (~peer \/ ends > 0))

FairSpec == Spec /\ Fairness

-----------------------------------------------------------------------------
(* No channel is closed twice, which would panic, although the Reader and  *)
(* every WriteMessage that saw the client gone race for Close.             *)
ClosedOnce == closes <= 1 /\ ends <= 1

(* A call that was waiting for the writer when Close began does not panic: *)
(* closeChannel wakes it before out is closed.                             *)
WaitersSurviveClose == \A m \in waited : pc[m] # "panicked"

(* Both: whoever closes the adapter, and whenever, closing it harms nobody *)
(* who was waiting and is done once.                                       *)
CloseHarmless == ClosedOnce /\ WaitersSurviveClose

(* Every WriteMessage returns, however the connection ends and whatever    *)
(* the other goroutines do.  The one exception is a broadcast on a         *)
(* websocket, whose context is never cancelled: it may wait for ever once  *)
(* the writer has ended with the channel full, as the inner select does    *)
(* not watch closeChannel.                                                 *)
WritesReturn ==
    \A m \in Calls :
       pc[m] = "check"
         ~> \/ pc[m] \in {"returned", "panicked"}
            \/ IsWebsocket /\ m \notin Cancellable /\ wpc = "done" /\ Len(out) = Capacity

(* A message WriteMessage accepted reaches the client unless a write fails *)
(* or the adapter is closed.                                               *)
AcceptedIsWritten ==
    \A m \in Calls :
       (\E i \in 1..Len(accepted) : accepted[i] = m)
         ~> ((\E i \in 1..Len(wire) : wire[i] = m) \/ failed \/ closed)
=============================================================================
