------------------------------ MODULE Lifecycle ------------------------------
(***************************************************************************)
(* Start, service and end of the process: the three threads of the stdio   *)
(* transport (crates/lsp-server/src/stdio.rs), the handshake and shutdown  *)
(* protocol of Connection (lib.rs), JsonLanguageServer::run and main.rs.   *)
(*                                                                         *)
(* All three channels have capacity 0: a send and the matching receive are *)
(* one step.  What a handler computes is left out (LanguageServer.tla);    *)
(* here a message is answered or not and may give work to the worker.      *)
(***************************************************************************)
EXTENDS Naturals

CONSTANTS
    Workers,    \* what may be at first: "recv", the server's idle validator, or
                \* "absent", a user of the transport that keeps no other sender
    MaxReads    \* bound of the model: messages the client sends

ASSUME WorkersType == Workers \subseteq {"absent", "recv"}
ASSUME ReadsBound  == MaxReads \in Nat

VARIABLES
    reader,     \* LspServerReader
    held,       \* the message the reader has read and not yet handed over
    main,       \* the main thread; "exited" and "panicked" end the process
    writer,     \* LspServerWriter
    dropper,    \* LspMessageDropper
    worker,     \* the validator, "absent" without one
    work,       \* a validation is scheduled
    stdout,     \* "open" until the client closes its end
    reads,      \* messages read so far
    stage,      \* history: how far the client is in the protocol
    fault       \* history: the client has given the server a reason to panic

vars == <<reader, held, main, writer, dropper, worker, work, stdout, reads,
          stage, fault>>
io   == <<writer, dropper>>
env  == <<stdout, reads, stage, fault>>

Kinds == {"initialize", "request", "shutdown", "notification", "exit", "response"}

ReaderStates == {"reading", "forwarding", "ended", "failed"}

MainStates ==
    {"handshake", "refuse", "initResult", "ready", "serve", "respond",
     "shutdown", "awaitExit", "dropServer", "joinReader", "joinDropper",
     "joinWriter", "exited", "panicked"}

\* The main thread after drop(server): it holds no channel end any more.
Joining == {"joinReader", "joinDropper", "joinWriter", "exited", "panicked"}

Running == main \notin {"exited", "panicked"}

\* The writer's receiver is dropped when its thread ends.
WriterGone == writer \in {"done", "failed"}

\* Mutant of Senders: the server is dropped after the I/O threads are joined.
SendersUntilExit ==
    (IF main \in {"exited", "panicked"} THEN {} ELSE {"main"})
        \union (IF worker = "absent" THEN {} ELSE {"validator"})

\* Mutant of Senders: the validator's clone does not keep the channel open.
SendersMainOnly == IF main \in Joining THEN {} ELSE {"main"}

\* Who keeps the writer's channel open.
Senders ==
    (IF main \in Joining THEN {} ELSE {"main"})
        \union (IF worker = "absent" THEN {} ELSE {"validator"})

TypeOK ==
    /\ reader \in ReaderStates
    /\ held \in Kinds \union {"none"}
    /\ main \in MainStates
    /\ writer \in {"recv", "write", "hand", "handFailed", "done", "failed"}
    /\ dropper \in {"recv", "drop", "done"}
    /\ worker \in {"absent", "recv", "publish"}
    /\ work \in BOOLEAN
    /\ stdout \in {"open", "closed"}
    /\ reads \in 0..MaxReads
    /\ stage \in {"connecting", "running", "leaving", "gone"}
    /\ fault \in BOOLEAN
    /\ held # "none" <=> reader = "forwarding"

Init ==
    /\ reader = "reading"
    /\ held = "none"
    /\ main = "handshake"
    /\ writer = "recv"
    /\ dropper = "recv"
    /\ worker \in Workers
    /\ work = FALSE
    /\ stdout = "open"
    /\ reads = 0
    /\ stage = "connecting"
    /\ fault = FALSE

-----------------------------------------------------------------------------
(* The client and the reader thread. *)

\* Message::read returns a message.  The history follows the protocol of the
\* client: initialize first, only exit after shutdown.
Read(kind) ==
    /\ Running
    /\ reader = "reading"
    /\ reads < MaxReads
    /\ reads' = reads + 1
    /\ held' = kind
    /\ reader' = "forwarding"
    /\ stage' = CASE stage = "connecting" /\ kind = "initialize" -> "running"
                  [] stage = "running" /\ kind = "shutdown" -> "leaving"
                  [] stage = "leaving" /\ kind = "exit" -> "gone"
                  [] OTHER -> stage
    /\ fault' = \/ fault
                \/ stage = "connecting" /\ kind \in {"exit", "response"}
                \/ stage = "leaving" /\ kind # "exit"
    /\ UNCHANGED <<main, io, worker, work, stdout>>

\* End of input: the thread returns Ok and drops its sender.
EndOfInput ==
    /\ Running
    /\ reader = "reading"
    /\ reader' = "ended"
    /\ fault' = (fault \/ stage = "connecting")
    /\ UNCHANGED <<held, main, io, worker, work, stdout, reads, stage>>

\* A header or a payload that does not parse ends the thread with Err.
Malformed ==
    /\ Running
    /\ reader = "reading"
    /\ reader' = "failed"
    /\ fault' = TRUE
    /\ UNCHANGED <<held, main, io, worker, work, stdout, reads, stage>>

\* The receiver is gone: reader_sender.send fails and the thread with it.
ForwardFails ==
    /\ Running
    /\ reader = "forwarding"
    /\ main \in Joining
    /\ reader' = "failed"
    /\ held' = "none"
    /\ UNCHANGED <<main, io, worker, work, env>>

CloseStdout ==
    /\ Running
    /\ stdout = "open"
    /\ stdout' = "closed"
    /\ fault' = TRUE
    /\ UNCHANGED <<reader, held, main, io, worker, work, reads, stage>>

\* Mutant of Receive: the message stays with the reader.
ReceiveKeeps(kinds) ==
    /\ held \in kinds
    /\ reader' = IF held = "exit" THEN "ended" ELSE "reading"
    /\ UNCHANGED held

\* The main thread receives a message of one of these kinds; after exit the
\* reader thread stops by itself.
Receive(kinds) ==
    /\ held \in kinds
    /\ held' = "none"
    /\ reader' = IF held = "exit" THEN "ended" ELSE "reading"

\* recv reports that the reader thread has dropped its sender.
Disconnected == reader \in {"ended", "failed"}

-----------------------------------------------------------------------------
(* The writer and dropper threads. *)

\* A thread hands a message to the writer and goes on.
ToWriter == writer = "recv" /\ writer' = "write"

Write ==
    /\ Running
    /\ writer = "write"
    /\ writer' = IF stdout = "open" THEN "hand" ELSE "handFailed"
    /\ UNCHANGED <<reader, held, main, dropper, worker, work, env>>

\* The message goes to the dropper whether or not it was written; the result
\* of the write decides whether the loop goes on.
HandToDropper ==
    /\ Running
    /\ writer \in {"hand", "handFailed"}
    /\ dropper = "recv"
    /\ dropper' = "drop"
    /\ writer' = IF writer = "hand" THEN "recv" ELSE "failed"
    /\ UNCHANGED <<reader, held, main, worker, work, env>>

WriterEnds ==
    /\ Running
    /\ writer = "recv"
    /\ Senders = {}
    /\ writer' = "done"
    /\ UNCHANGED <<reader, held, main, dropper, worker, work, env>>

\* Mutant of DropMessage: the dropper stops after the first message.
DropOne ==
    /\ Running
    /\ dropper = "drop"
    /\ dropper' = "done"
    /\ UNCHANGED <<reader, held, main, writer, worker, work, env>>

DropMessage ==
    /\ Running
    /\ dropper = "drop"
    /\ dropper' = "recv"
    /\ UNCHANGED <<reader, held, main, writer, worker, work, env>>

DropperEnds ==
    /\ Running
    /\ dropper = "recv"
    /\ WriterGone
    /\ dropper' = "done"
    /\ UNCHANGED <<reader, held, main, writer, worker, work, env>>

-----------------------------------------------------------------------------
(* The worker.  Its loop would end when every Sender<Uri> is dropped; it    *)
(* holds one itself, in its Arc<Shared>, so there is no such step.          *)

WorkerTakes ==
    /\ Running
    /\ worker = "recv"
    /\ work
    /\ work' = FALSE
    /\ worker' \in {"recv", "publish"}
    /\ UNCHANGED <<reader, held, main, io, env>>

\* sender.send(..).ok()
WorkerPublishes ==
    /\ Running
    /\ worker = "publish"
    /\ worker' = "recv"
    /\ \/ ToWriter
       \/ WriterGone /\ UNCHANGED writer
    /\ UNCHANGED <<reader, held, main, dropper, work, env>>

-----------------------------------------------------------------------------
(* The main thread: handshake. *)

\* Mutant of Handshake: a notification before initialize is an error.
HandshakeStrict ==
    /\ main = "handshake"
    /\ \/ Receive({"initialize"}) /\ main' = "initResult"
       \/ Receive({"request", "shutdown"}) /\ main' = "refuse"
       \/ Receive({"notification", "exit", "response"}) /\ main' = "panicked"
       \/ Disconnected /\ main' = "panicked" /\ UNCHANGED <<reader, held>>
    /\ UNCHANGED <<io, worker, work, env>>

\* initialize_start: the first initialize request ends the wait, other
\* requests are refused, notifications are skipped; anything else, and the end
\* of input, is a ProtocolError that run() unwraps.
Handshake ==
    /\ main = "handshake"
    /\ \/ Receive({"initialize"}) /\ main' = "initResult"
       \/ Receive({"request", "shutdown"}) /\ main' = "refuse"
       \/ Receive({"notification"}) /\ UNCHANGED main
       \/ Receive({"exit", "response"}) /\ main' = "panicked"
       \/ Disconnected /\ main' = "panicked" /\ UNCHANGED <<reader, held>>
    /\ UNCHANGED <<io, worker, work, env>>

\* Sends whose result is unwrapped: the refusal of a request and the result of
\* initialize.
SendOrPanic ==
    /\ main \in {"refuse", "initResult"}
    /\ \/ ToWriter /\ main' = IF main = "refuse" THEN "handshake" ELSE "ready"
       \/ WriterGone /\ main' = "panicked" /\ UNCHANGED writer
    /\ UNCHANGED <<reader, held, dropper, worker, work, env>>

\* Sends whose result is ignored: the ready message, what a handler sends, the
\* answer to shutdown.
SendOk ==
    /\ main \in {"ready", "respond", "shutdown"}
    /\ \/ ToWriter
       \/ WriterGone /\ UNCHANGED writer
    /\ main' = IF main = "shutdown" THEN "awaitExit" ELSE "serve"
    /\ UNCHANGED <<reader, held, dropper, worker, work, env>>

-----------------------------------------------------------------------------
(* The main thread: main_loop, handle_shutdown, drop(server), join. *)

\* One turn of main_loop; a second initialize is an unknown request, exit an
\* unknown notification.
Serve ==
    /\ main = "serve"
    /\ \/ /\ Receive({"shutdown"})
          /\ main' = "shutdown"
          /\ UNCHANGED work
       \/ /\ Receive({"request"})
          /\ main' \in {"serve", "respond"}
          /\ UNCHANGED work
       \/ /\ Receive({"notification"})
          /\ \/ main' = "serve" /\ work' = (work \/ worker # "absent")
             \/ main' = "respond" /\ UNCHANGED work
       \/ /\ Receive({"initialize", "exit", "response"})
          /\ UNCHANGED <<main, work>>
       \/ /\ Disconnected
          /\ main' = "dropServer"
          /\ UNCHANGED <<reader, held, work>>
    /\ UNCHANGED <<io, worker, env>>

\* Mutant of AwaitExit: handle_shutdown waits for a message without a time-out
\* and tries again when the input has ended.
AwaitExitForever ==
    /\ main = "awaitExit"
    /\ Receive(Kinds)
    /\ main' = "dropServer"
    /\ UNCHANGED <<io, worker, work, env>>

\* handle_shutdown waits for exit.  Exit, another message, the end of input and
\* the time-out of 30 s all end the loop: unwrap_or(true).
AwaitExit ==
    /\ main = "awaitExit"
    /\ \/ Receive(Kinds) /\ UNCHANGED fault
       \/ Disconnected /\ UNCHANGED <<reader, held, fault>>
       \/ fault' = TRUE /\ UNCHANGED <<reader, held>>
    /\ main' = "dropServer"
    /\ UNCHANGED <<io, worker, work, stdout, reads, stage>>

DropServer ==
    /\ main = "dropServer"
    /\ main' = "joinReader"
    /\ UNCHANGED <<reader, held, io, worker, work, env>>

\* IoThreads::join, whose error main() unwraps.
JoinReader ==
    /\ main = "joinReader"
    /\ \/ reader = "ended" /\ main' = "joinDropper"
       \/ reader = "failed" /\ main' = "panicked"
    /\ UNCHANGED <<reader, held, io, worker, work, env>>

JoinDropper ==
    /\ main = "joinDropper"
    /\ dropper = "done"
    /\ main' = "joinWriter"
    /\ UNCHANGED <<reader, held, io, worker, work, env>>

JoinWriter ==
    /\ main = "joinWriter"
    /\ \/ writer = "done" /\ main' = "exited"
       \/ writer = "failed" /\ main' = "panicked"
    /\ UNCHANGED <<reader, held, io, worker, work, env>>

-----------------------------------------------------------------------------
Client == (\E kind \in Kinds : Read(kind)) \/ EndOfInput \/ Malformed \/ CloseStdout

MainStep ==
    \/ Handshake \/ SendOrPanic \/ SendOk \/ Serve \/ AwaitExit
    \/ DropServer \/ JoinReader \/ JoinDropper \/ JoinWriter

WriterStep  == Write \/ HandToDropper \/ WriterEnds
DropperStep == DropMessage \/ DropperEnds
WorkerStep  == WorkerTakes \/ WorkerPublishes

Next ==
    Client \/ ForwardFails \/ MainStep \/ WriterStep \/ DropperStep \/ WorkerStep

\* Every thread of the server is scheduled; the client owes nothing.
Spec ==
    /\ Init /\ [][Next]_vars
    /\ WF_vars(ForwardFails)
    /\ WF_vars(MainStep)
    /\ WF_vars(WriterStep)
    /\ WF_vars(DropperStep)
    /\ WF_vars(WorkerStep)

-----------------------------------------------------------------------------
\* A client that initializes first, sends well-formed messages, reads the
\* output and follows shutdown by exit within 30 s never makes the process
\* panic: none of the unwrap calls of run() and main() can fail (server.rs:83,
\* :93, main.rs:28, lib.rs:174), whatever the interleaving of the threads.
NoPanicWithoutFault == main = "panicked" => fault

\* Most sends of the server end in ".ok()": a message for a writer that is gone
\* vanishes without a trace (server.rs:808, lib.rs:354).  A client that keeps to
\* the protocol loses none that way, not even the diagnostics a worker sends
\* after the main thread has dropped the server and waits in join.
SendsReceived ==
    /\ WriterGone
    /\ worker = "publish" \/ main \in {"ready", "respond", "shutdown"}
    => fault

\* The three rendezvous channels form a chain without a cycle: whatever the
\* client has sent is taken up by the main thread or dropped with the reader,
\* however the writer, the dropper and the worker are interleaved.
MessagesTaken == (reader = "forwarding") ~> (reader # "forwarding" \/ ~Running)

\* Once the input has ended, by exit, end of file or a malformed message, the
\* main thread leaves the handshake and the main loop.
InputEndStopsService == Disconnected ~> main \in Joining

\* Joining the I/O threads ends once the input has ended, for a user of the
\* transport whose only clone of the sender is dropped before the join.
ProcessEnds == worker = "absent" /\ Disconnected ~> ~Running

\* main.rs drops the server and then joins the I/O threads.  Read: after the
\* exit notification of a client that kept to the protocol the process ends.
ExitEndsProcess == (stage = "gone" /\ ~fault) ~> (~Running \/ fault)
=============================================================================
