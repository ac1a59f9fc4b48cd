------------------------------ MODULE Framing ------------------------------
(***************************************************************************)
(* The TCP connections between shims and controller below the level of     *)
(* messages: connecting, accepting, blocking sends, and how each side cuts *)
(* what one recv() returned into lines.  A connection stands for one start *)
(* of a shim.                                                              *)
(*                                                                         *)
(* A message travels as three pieces: the first part of its JSON text, the *)
(* rest of it, and the newline, so that a stream can be cut inside the     *)
(* text, between text and newline, and between messages.  A position in a  *)
(* stream is the number of pieces before it.                               *)
(***************************************************************************)
EXTENDS Naturals, Sequences

CONSTANTS Conns,          \* starts of shims, each with its connection
          Cap,            \* pieces the buffers of one direction hold
          BufSize,        \* pieces one recv() returns (BUF_SIZE, 1024*8)
          Backlog,        \* connections that wait for accept()
          MaxMsgs,        \* bound: messages of one connection and direction,
          MaxDown, MaxUp  \* and of each

ASSUME FramingAssumption ==
  /\ {Cap, BufSize, Backlog, MaxMsgs} \subseteq Nat \ {0}
  /\ MaxDown \in [Conns -> 0 .. MaxMsgs] /\ MaxUp \in [Conns -> 0 .. MaxMsgs]

\* What a message says does not matter here: the sender numbers its messages.
\* The first one of a shim is "register".
Msgs == 1 .. MaxMsgs
Register == 1

VARIABLES
  listener,     \* the socket of TCPTransport.run: "down", "up" or "gone"
  backlog,      \* connections it has not accepted
  conn,         \* TCPConnection: "none", "pending", "open" (in _connections), "closed"
  task,         \* its task: "none", "run", "dead" (exception) or "done"
  shim,         \* the process: "off", "run" or "dead"
  sock,         \* is client.sock a socket (and not None)?
  upSent, upW, upR, upGot,         \* to the controller: messages sent, pieces written
  downSent, downW, downR, downGot  \* and read, messages handled; and to the shim

ctl  == <<listener, backlog, conn, task>>
prc  == <<shim, sock>>
up   == <<upSent, upW, upR, upGot>>
down == <<downSent, downW, downR, downGot>>
vars == <<ctl, prc, up, down>>

Init == /\ listener = "down" /\ backlog = << >>
        /\ conn = [c \in Conns |-> "none"] /\ task = [c \in Conns |-> "none"]
        /\ shim = [c \in Conns |-> "off"]  /\ sock = [c \in Conns |-> FALSE]
        /\ upSent   = [c \in Conns |-> << >>] /\ upGot   = [c \in Conns |-> << >>]
        /\ downSent = [c \in Conns |-> << >>] /\ downGot = [c \in Conns |-> << >>]
        /\ upW   = [c \in Conns |-> 0] /\ upR   = [c \in Conns |-> 0]
        /\ downW = [c \in Conns |-> 0] /\ downR = [c \in Conns |-> 0]

-----------------------------------------------------------------------------
(* Streams.                                                                *)

Pieces == 3

\* send() of a blocking socket returns when the buffers have taken all of it.
Unwritten(s, w) == w < Pieces * Len(s)
Write(s, r)     == IF Pieces * Len(s) <= r + Cap THEN Pieces * Len(s) ELSE r + Cap

\* The controller is one thread: while it is in send() no task runs.
CtlBlocked(c)  == conn[c] = "open" /\ Unwritten(downSent[c], downW[c])
Controller     == \A c \in Conns : ~CtlBlocked(c)
ShimBlocked(c) == /\ shim[c] = "run" /\ conn[c] \in {"pending", "open"}
                  /\ Unwritten(upSent[c], upW[c])
Shim(c)        == shim[c] = "run" /\ ~ShimBlocked(c)

\* What one recv() can return: any part of what has been written.
Chunks(w, r) == {e \in r + 1 .. r + BufSize : e <= w}

\* data.split('\n') of the pieces from r to e.  The first line is the rest of
\* a message if r is not between two; FirstWhole is the first message whose
\* text is all there, if it is there at all.
FirstWhole(r) == (r + Pieces - 1) \div Pieces + 1
CutInText(p)  == p % Pieces = 1
\* Messages with their newline, and with all of their text, before e.
Lines(e)      == e \div Pieces
Texts(e)      == (e + 1) \div Pieces

-----------------------------------------------------------------------------
(* Connecting.                                                             *)

\* launch, TCPTransport.run up to its loop.
Listen == /\ listener = "down" /\ Controller
          /\ listener' = "up"
          /\ UNCHANGED <<backlog, conn, task, prc, up, down>>

\* ClientComm.__init__ and register_machine.  Nothing is tried again.
Start(c) ==
  /\ shim[c] = "off"
  /\ shim' = [shim EXCEPT ![c] = "run"]
  /\ \/ /\ listener = "up" /\ Len(backlog) < Backlog
        /\ backlog' = Append(backlog, c)
        /\ conn' = [conn EXCEPT ![c] = "pending"]
        /\ sock' = [sock EXCEPT ![c] = TRUE]
        /\ upSent' = [upSent EXCEPT ![c] = <<Register>>]
        /\ upW' = [upW EXCEPT ![c] = Write(<<Register>>, 0)]
     \/ /\ listener # "up"                       \* connection refused
        /\ UNCHANGED <<backlog, conn, sock, upSent, upW>>
  /\ UNCHANGED <<listener, task, upR, upGot, down>>

\* Mutant: the task of a new connection is not started.
AcceptOnly ==
  /\ listener = "up" /\ backlog # << >> /\ Controller
  /\ conn' = [conn EXCEPT ![Head(backlog)] = "open"]
  /\ backlog' = Tail(backlog)
  /\ UNCHANGED <<listener, task, prc, up, down>>

\* The loop of TCPTransport.run.  An exception of accept() or of
\* _get_socket_name ends it and closes the listener.
Accept ==
  /\ listener = "up" /\ backlog # << >> /\ Controller
  /\ \/ /\ conn' = [conn EXCEPT ![Head(backlog)] = "open"]
        /\ task' = [task EXCEPT ![Head(backlog)] = "run"]
        /\ backlog' = Tail(backlog)
        /\ UNCHANGED listener
     \/ /\ listener' = "gone"
        /\ conn' = [c \in Conns |-> IF conn[c] = "pending" THEN "closed" ELSE conn[c]]
        /\ backlog' = << >>
        /\ UNCHANGED task
  /\ UNCHANGED <<prc, up, down>>

-----------------------------------------------------------------------------
(* To the shim.                                                            *)

\* send_msg, send_mb_msg and send_raw: the connection that registered, if it
\* has not been forgotten.
SendMsg(c) ==
  /\ Controller /\ upGot[c] # << >> /\ conn[c] = "open"
  /\ Len(downSent[c]) < MaxDown[c]
  /\ LET s == Append(downSent[c], Len(downSent[c]) + 1) IN
     /\ downSent' = [downSent EXCEPT ![c] = s]
     /\ downW' = [downW EXCEPT ![c] = Write(s, downR[c])]
  /\ UNCHANGED <<ctl, prc, up, downR, downGot>>

ContinueSend(c) ==
  /\ CtlBlocked(c) /\ downW[c] < downR[c] + Cap
  /\ downW' = [downW EXCEPT ![c] = Write(downSent[c], downR[c])]
  /\ UNCHANGED <<ctl, prc, up, downSent, downR, downGot>>

\* Mutant: the exception is caught and that is all.
SendErrorIgnored(c) == CtlBlocked(c) /\ UNCHANGED vars

\* send() raises or sends a part only: _close, and the rest is never sent.
\* _forget takes the connection out of the set that send_mb_msg goes through,
\* which raises there and ends the task that sends: that of a connection, whose
\* handler sends, or one that is not among these, as the timer of Slick.
SendError(c) ==
  /\ CtlBlocked(c)
  /\ conn' = [conn EXCEPT ![c] = "closed"]
  /\ \/ UNCHANGED task
     \/ \E d \in Conns : /\ task[d] = "run" /\ upGot[d] # << >>
                          /\ task' = [task EXCEPT ![d] = "dead"]
  /\ UNCHANGED <<listener, backlog, prc, up, down>>

\* Mutant: lines that cannot be parsed are skipped.
DecodeSkip(c) ==
  /\ Shim(c) /\ sock[c]
  /\ \E e \in Chunks(downW[c], downR[c]) :
       /\ downR' = [downR EXCEPT ![c] = e]
       /\ downGot' = [downGot EXCEPT ![c] =
                        @ \o SubSeq(downSent[c], FirstWhole(downR[c]), Lines(e))]
       /\ UNCHANGED shim
  /\ UNCHANGED <<ctl, sock, up, downSent, downW>>

\* Mutant: only the first line is looked at.
DecodeFirst(c) ==
  /\ Shim(c) /\ sock[c]
  /\ \E e \in Chunks(downW[c], downR[c]) :
       /\ downR' = [downR EXCEPT ![c] = e]
       /\ downGot' = [downGot EXCEPT ![c] =
                        IF downR[c] % Pieces = 0 /\ Lines(e) > Lines(downR[c])
                          THEN Append(@, downSent[c][FirstWhole(downR[c])]) ELSE @]
       /\ UNCHANGED shim
  /\ UNCHANGED <<ctl, sock, up, downSent, downW>>

\* Shim.decode, recv_data_basic and decode_msg_and_call, on every data packet.
\* The last line is dropped, whole or not.  A line that is no JSON text, an
\* empty one included, raises, and so may a handler; the process ends.
Decode(c) ==
  /\ Shim(c) /\ sock[c]
  /\ \E e \in Chunks(downW[c], downR[c]) :
       /\ downR' = [downR EXCEPT ![c] = e]
       /\ IF downR[c] % Pieces # 0
          THEN /\ shim' = [shim EXCEPT ![c] = IF Lines(e) > Lines(downR[c]) THEN "dead" ELSE @]
               /\ UNCHANGED downGot
          ELSE \E n \in FirstWhole(downR[c]) - 1 .. Lines(e) :
                 /\ downGot' = [downGot EXCEPT ![c] =
                                  @ \o SubSeq(downSent[c], FirstWhole(downR[c]), n)]
                 /\ \/ n = Lines(e) /\ UNCHANGED shim
                    \/ /\ n > FirstWhole(downR[c]) - 1         \* the handler of n raises
                       /\ shim' = [shim EXCEPT ![c] = "dead"]
  /\ UNCHANGED <<ctl, sock, up, downSent, downW>>

-----------------------------------------------------------------------------
(* To the controller.                                                      *)

\* raise_trigger and send_data_basic; errors are ignored.
RaiseTrigger(c) ==
  /\ Shim(c) /\ sock[c] /\ conn[c] # "closed"
  /\ Len(upSent[c]) < MaxUp[c]
  /\ LET s == Append(upSent[c], Len(upSent[c]) + 1) IN
     /\ upSent' = [upSent EXCEPT ![c] = s]
     /\ upW' = [upW EXCEPT ![c] = Write(s, upR[c])]
  /\ UNCHANGED <<ctl, prc, down, upR, upGot>>

ContinueTrigger(c) ==
  /\ ShimBlocked(c) /\ upW[c] < upR[c] + Cap
  /\ upW' = [upW EXCEPT ![c] = Write(upSent[c], upR[c])]
  /\ UNCHANGED <<ctl, prc, down, upSent, upR, upGot>>

\* Mutant: an ended task is told apart from a closed connection no more.
AfterChunkClosed(c) == conn[c]

\* The task ends when the connection was closed meanwhile.
AfterChunk(c) == IF conn[c] = "open" THEN "run" ELSE "done"

\* Mutant: the rest of a line is dropped.
TaskRecvDrop(c) ==
  /\ task[c] = "run" /\ Controller
  /\ \E e \in Chunks(upW[c], upR[c]) :
       /\ upR' = [upR EXCEPT ![c] = e]
       /\ upGot' = [upGot EXCEPT ![c] = @ \o SubSeq(upSent[c], FirstWhole(upR[c]), Lines(e))]
       /\ task' = [task EXCEPT ![c] = AfterChunk(c)]
  /\ UNCHANGED <<listener, backlog, conn, prc, down, upSent, upW>>

\* TCPConnection.run and process_messages.  The last line counts too; empty
\* lines are skipped, other text that is no JSON raises, and so may a handler.
\* The task is de-scheduled then, its connection stays in _connections.
TaskRecv(c) ==
  /\ task[c] = "run" /\ Controller
  /\ \E e \in Chunks(upW[c], upR[c]) :
       /\ upR' = [upR EXCEPT ![c] = e]
       /\ IF CutInText(upR[c])
          THEN task' = [task EXCEPT ![c] = "dead"] /\ UNCHANGED upGot
          ELSE \E n \in FirstWhole(upR[c]) - 1 .. Texts(e) :
                 /\ upGot' = [upGot EXCEPT ![c] =
                                @ \o SubSeq(upSent[c], FirstWhole(upR[c]), n)]
                 /\ \/ /\ n = Texts(e)
                       /\ task' = [task EXCEPT ![c] = IF CutInText(e) THEN "dead"
                                                                      ELSE AfterChunk(c)]
                    \/ /\ n > FirstWhole(upR[c]) - 1           \* the handler of n raises
                       /\ task' = [task EXCEPT ![c] = "dead"]
  /\ UNCHANGED <<listener, backlog, conn, prc, down, upSent, upW>>

\* recv() returns nothing: the shim has ended or the connection was closed.
TaskEof(c) ==
  /\ task[c] = "run" /\ Controller /\ upR[c] = upW[c]
  /\ shim[c] = "dead" \/ conn[c] = "closed"
  /\ conn' = [conn EXCEPT ![c] = "closed"]
  /\ task' = [task EXCEPT ![c] = "done"]
  /\ UNCHANGED <<listener, backlog, prc, up, down>>

-----------------------------------------------------------------------------
\* A shim is stopped.  With messages unread, its kernel resets the connection,
\* which may discard what the controller has not read.
Crash(c) ==
  /\ shim[c] = "run"
  /\ shim' = [shim EXCEPT ![c] = "dead"]
  /\ \/ UNCHANGED upW
     \/ downR[c] < downW[c] /\ upW' = [upW EXCEPT ![c] = upR[c]]
  /\ UNCHANGED <<ctl, sock, upSent, upR, upGot, down>>

\* The threads of the controller and of a shim.
ControllerStep(c) == ContinueSend(c) \/ SendError(c) \/ TaskRecv(c) \/ TaskEof(c)
ShimStep(c)       == Decode(c) \/ ContinueTrigger(c)

Next == \/ Listen \/ Accept
        \/ \E c \in Conns : \/ Start(c) \/ Crash(c) \/ SendMsg(c) \/ RaiseTrigger(c)
                            \/ ControllerStep(c) \/ ShimStep(c)

Spec == Init /\ [][Next]_vars

\* recoco runs its tasks in turn; a send() to a shim that has gone fails;
\* packets keep arriving at a shim, which looks for messages then.
Fairness == /\ WF_vars(Listen) /\ WF_vars(Accept)
            /\ \A c \in Conns : /\ WF_vars(ContinueSend(c)) /\ WF_vars(TaskRecv(c))
                                /\ WF_vars(TaskEof(c)) /\ WF_vars(Decode(c))
                                /\ WF_vars(ContinueTrigger(c))
                                /\ WF_vars(shim[c] = "dead" /\ SendError(c))
FairSpec == Spec /\ Fairness

-----------------------------------------------------------------------------
(* Properties.                                                             *)

TypeOK ==
  /\ listener \in {"down", "up", "gone"} /\ backlog \in Seq(Conns)
  /\ conn \in [Conns -> {"none", "pending", "open", "closed"}]
  /\ task \in [Conns -> {"none", "run", "dead", "done"}]
  /\ shim \in [Conns -> {"off", "run", "dead"}] /\ sock \in [Conns -> BOOLEAN]
  /\ upSent \in [Conns -> Seq(Msgs)]   /\ upGot \in [Conns -> Seq(Msgs)]
  /\ downSent \in [Conns -> Seq(Msgs)] /\ downGot \in [Conns -> Seq(Msgs)]
  /\ upW \in [Conns -> Nat]   /\ upR \in [Conns -> Nat]
  /\ downW \in [Conns -> Nat] /\ downR \in [Conns -> Nat]

\* A shim that has read a part of a message never handles another one, though
\* it may run on for a while; a controller's task ends.
Down == INSTANCE MessageChannel WITH
          sent <- downSent, got <- downGot,
          open <- [c \in Conns |-> shim[c] # "dead" /\ downR[c] % Pieces = 0]

Up == INSTANCE MessageChannel WITH
        sent <- upSent, got <- upGot,
        open <- [c \in Conns |-> task[c] = "none" \/ task[c] = "run"]

\* Each direction implements a channel of whole messages that can only stop,
\* however decode_msg_and_call and process_messages cut the stream.
ImplementsChannels == Down!Spec /\ Up!Spec

\* Nothing is lost unnoticed but one message at most.  While the task of a
\* connection runs it has handled every message whose text it has read, and a
\* shim that runs every message it has read to its end, though neither
\* process_messages nor decode_msg_and_call keeps a remainder.
NothingLostUnnoticed ==
  \A c \in Conns : /\ task[c] = "run" => Len(upGot[c]) = Texts(upR[c])
                   /\ shim[c] = "run" => Len(downGot[c]) = Lines(downR[c])

\* Both threads in send() to each other, neither reading.
Hung(c) == CtlBlocked(c) /\ ShimBlocked(c)

Broken(c) == \/ shim[c] = "dead" \/ conn[c] = "closed" \/ task[c] = "dead"
             \/ downR[c] % Pieces # 0

\* A send() of the controller, which holds up all of it, returns, unless the
\* shim is itself in a send() that the controller does not read.
SendReturns == \A c \in Conns : CtlBlocked(c) ~> (~CtlBlocked(c) \/ Hung(c))

\* A shim that found the controller listening is registered in the end, unless
\* its connection breaks or the controller hangs.
ConnectedRegisters ==
  \A c \in Conns : sock[c] ~> (upGot[c] # << >> \/ Broken(c) \/ \E d \in Conns : Hung(d))

\* A message to a shim is handled in the end, under the same conditions.
SentIsHandled ==
  \A c \in Conns : \A n \in 1 .. MaxDown[c] :
    (Len(downSent[c]) >= n) ~>
      (Len(downGot[c]) >= n \/ Broken(c) \/ \E d \in Conns : Hung(d))
=============================================================================
