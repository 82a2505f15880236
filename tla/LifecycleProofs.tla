--------------------------- MODULE LifecycleProofs ---------------------------
(***************************************************************************)
(* Without a fault of its client the process neither panics nor loses a    *)
(* message on its way to the writer thread, for any number of messages.    *)
(***************************************************************************)
EXTENDS Lifecycle, TLAPS

-----------------------------------------------------------------------------
(* What holds of the threads while the client has given no reason to panic.*)

\* Where the main thread is before it has taken the initialize request, while it
\* serves, while it waits for exit, and once it has left its loop.
Greeting == {"handshake", "refuse"}
Serving  == {"initResult", "ready", "serve", "respond"}
Waiting  == {"shutdown", "awaitExit"}
Left     == {"dropServer"} \union Joining

\* Reader and writer threads have not failed.
ThreadsSound ==
    /\ reader # "failed"
    /\ stdout = "open"
    /\ writer \notin {"handFailed", "failed"}
    /\ main # "panicked"

\* The message the reader holds is one that the client may send at this stage.
HeldFits ==
    /\ stage = "connecting" => held # "initialize"
    /\ stage = "running" => held # "shutdown"

\* The main thread is as far as the client, but for the message on its way.
MainFollows ==
    /\ main \in Greeting =>
          /\ ~Disconnected
          /\ held \notin {"exit", "response"}
          /\ stage = "connecting" \/ (stage = "running" /\ held = "initialize")
    /\ main \in Serving => stage = "running" \/ (stage = "leaving" /\ held = "shutdown")
    /\ main \in Waiting =>
          \/ stage = "leaving" /\ held = "none"
          \/ stage = "gone" /\ (held = "exit" \/ reader = "ended")
    /\ main \in Left => reader = "ended" /\ stage # "connecting"

Faultless == ~fault => ThreadsSound /\ HeldFits /\ MainFollows

\* The writer ends well only after the main thread has dropped the server.
WriterOutlivesServer == writer = "done" => main \in Joining /\ worker = "absent"

-----------------------------------------------------------------------------
\* Every variable keeps its type; in particular the reader holds a message exactly
\* while it waits for the main thread to take it.
THEOREM TypeCorrect == Spec => []TypeOK
<1>1. Init => TypeOK
  <2> SUFFICES ASSUME Init
               PROVE  TypeOK
    OBVIOUS
  <2>1. work \in BOOLEAN /\ fault \in BOOLEAN
    BY Zenon DEF Init
  <2>2. /\ worker \in {"absent", "recv", "publish"}
        /\ reads \in 0..MaxReads
    BY WorkersType, ReadsBound DEF Init
  <2>3. QED
    BY <2>1, <2>2 DEF Init, TypeOK, ReaderStates, MainStates
<1>2. TypeOK /\ [Next]_vars => TypeOK'
  <2> SUFFICES ASSUME TypeOK, [Next]_vars
               PROVE  TypeOK'
    OBVIOUS
  <2> USE ReadsBound DEF TypeOK, Kinds, ReaderStates, MainStates, io, env
  <2>1. ASSUME NEW kind \in Kinds, Read(kind)
        PROVE  TypeOK'
    BY <2>1 DEF Read
  <2>2. CASE EndOfInput
    BY <2>2 DEF EndOfInput
  <2>3. CASE Malformed
    BY <2>3 DEF Malformed
  <2>4. CASE CloseStdout
    BY <2>4 DEF CloseStdout
  <2>5. CASE ForwardFails
    BY <2>5 DEF ForwardFails
  <2>6. CASE Handshake
    BY <2>6 DEF Handshake, Receive
  <2>7. CASE SendOrPanic
    BY <2>7 DEF SendOrPanic, ToWriter
  <2>8. CASE SendOk
    BY <2>8 DEF SendOk, ToWriter
  <2>9. CASE Serve
    <3>1. work' \in BOOLEAN
      BY <2>9, Zenon DEF Serve
    <3>2. UNCHANGED <<io, worker, env>>
      BY <2>9 DEF Serve
    <3>3. /\ reader' \in ReaderStates
          /\ held' \in Kinds \union {"none"}
          /\ main' \in MainStates
          /\ held' # "none" <=> reader' = "forwarding"
      BY <2>9 DEF Serve, Receive
    <3>4. QED
      BY <3>1, <3>2, <3>3
  <2>10. CASE AwaitExit
    <3>1. fault' \in BOOLEAN
      BY <2>10, Zenon DEF AwaitExit
    <3>2. UNCHANGED <<io, worker, work, stdout, reads, stage>>
      BY <2>10 DEF AwaitExit
    <3>3. /\ reader' \in ReaderStates
          /\ held' \in Kinds \union {"none"}
          /\ main' \in MainStates
          /\ held' # "none" <=> reader' = "forwarding"
      BY <2>10 DEF AwaitExit, Receive
    <3>4. QED
      BY <3>1, <3>2, <3>3
  <2>11. CASE DropServer
    BY <2>11 DEF DropServer
  <2>12. CASE JoinReader
    BY <2>12 DEF JoinReader
  <2>13. CASE JoinDropper
    BY <2>13 DEF JoinDropper
  <2>14. CASE JoinWriter
    BY <2>14 DEF JoinWriter
  <2>15. CASE Write
    BY <2>15 DEF Write
  <2>16. CASE HandToDropper
    BY <2>16 DEF HandToDropper
  <2>17. CASE WriterEnds
    BY <2>17 DEF WriterEnds
  <2>18. CASE DropMessage
    BY <2>18 DEF DropMessage
  <2>19. CASE DropperEnds
    BY <2>19 DEF DropperEnds
  <2>20. CASE WorkerTakes
    <3>1. work' \in BOOLEAN
      BY <2>20, Zenon DEF WorkerTakes
    <3>2. /\ worker' \in {"absent", "recv", "publish"}
          /\ UNCHANGED <<reader, held, main, io, env>>
      BY <2>20 DEF WorkerTakes
    <3>3. QED
      BY <3>1, <3>2
  <2>21. CASE WorkerPublishes
    BY <2>21 DEF WorkerPublishes, ToWriter
  <2>22. CASE UNCHANGED vars
    BY <2>22 DEF vars
  <2>23. QED
    BY <2>1, <2>2, <2>3, <2>4, <2>5, <2>6, <2>7, <2>8, <2>9, <2>10, <2>11,
       <2>12, <2>13, <2>14, <2>15, <2>16, <2>17, <2>18, <2>19, <2>20,
       <2>21, <2>22
    DEF Next, Client, MainStep, WriterStep, DropperStep, WorkerStep
<1>3. QED
  BY <1>1, <1>2, PTL DEF Spec

\* The writer's channel is closed only after the server was dropped.
LEMMA WriterOutlives == Spec => []WriterOutlivesServer
<1>1. Init => WriterOutlivesServer
  BY DEF Init, WriterOutlivesServer
<1>2. TypeOK /\ WriterOutlivesServer /\ [Next]_vars => WriterOutlivesServer'
  <2> SUFFICES ASSUME TypeOK, WriterOutlivesServer, [Next]_vars
               PROVE  WriterOutlivesServer'
    OBVIOUS
  <2> USE DEF WriterOutlivesServer, TypeOK, Joining, Running, Senders, io, env
  <2>1. ASSUME NEW kind \in Kinds, Read(kind)
        PROVE  WriterOutlivesServer'
    BY <2>1 DEF Read
  <2>2. CASE EndOfInput
    BY <2>2 DEF EndOfInput
  <2>3. CASE Malformed
    BY <2>3 DEF Malformed
  <2>4. CASE CloseStdout
    BY <2>4 DEF CloseStdout
  <2>5. CASE ForwardFails
    BY <2>5 DEF ForwardFails
  <2>6. CASE Handshake
    BY <2>6 DEF Handshake, Receive
  <2>7. CASE SendOrPanic
    BY <2>7 DEF SendOrPanic, ToWriter
  <2>8. CASE SendOk
    BY <2>8 DEF SendOk, ToWriter
  <2>9. CASE Serve
    BY <2>9 DEF Serve, Receive
  <2>10. CASE AwaitExit
    BY <2>10 DEF AwaitExit, Receive
  <2>11. CASE DropServer
    BY <2>11 DEF DropServer
  <2>12. CASE JoinReader
    BY <2>12 DEF JoinReader
  <2>13. CASE JoinDropper
    BY <2>13 DEF JoinDropper
  <2>14. CASE JoinWriter
    BY <2>14 DEF JoinWriter
  <2>15. CASE Write
    BY <2>15 DEF Write
  <2>16. CASE HandToDropper
    BY <2>16 DEF HandToDropper
  <2>17. CASE WriterEnds
    BY <2>17 DEF WriterEnds
  <2>18. CASE DropMessage
    BY <2>18 DEF DropMessage
  <2>19. CASE DropperEnds
    BY <2>19 DEF DropperEnds
  <2>20. CASE WorkerTakes
    BY <2>20 DEF WorkerTakes
  <2>21. CASE WorkerPublishes
    BY <2>21 DEF WorkerPublishes, ToWriter
  <2>22. CASE UNCHANGED vars
    BY <2>22 DEF vars
  <2>23. QED
    BY <2>1, <2>2, <2>3, <2>4, <2>5, <2>6, <2>7, <2>8, <2>9, <2>10, <2>11,
       <2>12, <2>13, <2>14, <2>15, <2>16, <2>17, <2>18, <2>19, <2>20,
       <2>21, <2>22
    DEF Next, Client, MainStep, WriterStep, DropperStep, WorkerStep
<1>3. QED
  BY <1>1, <1>2, TypeCorrect, PTL DEF Spec

\* What the client has done is not forgotten.
LEMMA FaultStays == fault /\ [Next]_vars => fault'
<1> USE DEF env
<1>1. fault /\ (Client \/ MainStep) => fault'
  BY DEF Client, Read, EndOfInput, Malformed, CloseStdout, MainStep, Handshake,
         SendOrPanic, SendOk, Serve, AwaitExit, DropServer, JoinReader, JoinDropper,
         JoinWriter
<1>2. fault /\ (ForwardFails \/ WriterStep \/ DropperStep \/ WorkerStep) => fault'
  BY DEF ForwardFails, WriterStep, Write, HandToDropper, WriterEnds, DropperStep,
         DropMessage, DropperEnds, WorkerStep, WorkerTakes, WorkerPublishes
<1>3. QED
  BY <1>1, <1>2 DEF Next, vars

\* The threads are sound and as far as the client as long as it is not at fault.
LEMMA FaultlessInvariant == Spec => []Faultless
<1>1. Init => Faultless
  BY DEF Init, Faultless, ThreadsSound, HeldFits, MainFollows, Greeting, Serving,
         Waiting, Left, Joining, Disconnected
<1>2. TypeOK /\ WriterOutlivesServer /\ Faultless /\ [Next]_vars => Faultless'
  <2> SUFFICES ASSUME TypeOK, WriterOutlivesServer, Faultless, [Next]_vars, ~fault'
               PROVE  ThreadsSound' /\ HeldFits' /\ MainFollows'
    BY DEF Faultless
  <2>0. ThreadsSound /\ HeldFits /\ MainFollows
    <3>1. fault \/ ~fault
      OBVIOUS
    <3>2. CASE fault
      BY <3>2, FaultStays DEF Faultless
    <3>3. QED
      BY <3>1, <3>2 DEF Faultless
  <2> USE <2>0 DEF ThreadsSound, HeldFits, MainFollows, Greeting, Serving, Waiting,
             Left, Joining, Disconnected, WriterGone, WriterOutlivesServer, TypeOK,
             Kinds, io, env
  <2>1. ASSUME NEW kind \in Kinds, Read(kind)
        PROVE  ThreadsSound' /\ HeldFits' /\ MainFollows'
    BY <2>1 DEF Read
  <2>2. CASE EndOfInput
    BY <2>2 DEF EndOfInput
  <2>3. CASE Malformed
    BY <2>3 DEF Malformed
  <2>4. CASE CloseStdout
    BY <2>4 DEF CloseStdout
  <2>5. CASE ForwardFails
    BY <2>5 DEF ForwardFails
  <2>6. CASE Handshake
    BY <2>6 DEF Handshake, Receive
  <2>7. CASE SendOrPanic
    BY <2>7 DEF SendOrPanic, ToWriter
  <2>8. CASE SendOk
    BY <2>8 DEF SendOk, ToWriter
  <2>9. CASE Serve
    BY <2>9 DEF Serve, Receive
  <2>10. CASE AwaitExit
    BY <2>10 DEF AwaitExit, Receive
  <2>11. CASE DropServer
    BY <2>11 DEF DropServer
  <2>12. CASE JoinReader
    BY <2>12 DEF JoinReader
  <2>13. CASE JoinDropper
    BY <2>13 DEF JoinDropper
  <2>14. CASE JoinWriter
    BY <2>14 DEF JoinWriter
  <2>15. CASE Write
    BY <2>15 DEF Write
  <2>16. CASE HandToDropper
    BY <2>16 DEF HandToDropper
  <2>17. CASE WriterEnds
    BY <2>17 DEF WriterEnds
  <2>18. CASE DropMessage
    BY <2>18 DEF DropMessage
  <2>19. CASE DropperEnds
    BY <2>19 DEF DropperEnds
  <2>20. CASE WorkerTakes
    BY <2>20 DEF WorkerTakes
  <2>21. CASE WorkerPublishes
    BY <2>21 DEF WorkerPublishes, ToWriter
  <2>22. CASE UNCHANGED vars
    BY <2>22 DEF vars
  <2>23. QED
    BY <2>1, <2>2, <2>3, <2>4, <2>5, <2>6, <2>7, <2>8, <2>9, <2>10, <2>11,
       <2>12, <2>13, <2>14, <2>15, <2>16, <2>17, <2>18, <2>19, <2>20,
       <2>21, <2>22
    DEF Next, Client, MainStep, WriterStep, DropperStep, WorkerStep
<1>3. QED
  BY <1>1, <1>2, TypeCorrect, WriterOutlives, PTL DEF Spec

\* A client that keeps to the protocol never makes the process panic.
THEOREM NoPanic == Spec => []NoPanicWithoutFault
<1>1. Faultless => NoPanicWithoutFault
  BY DEF Faultless, ThreadsSound, NoPanicWithoutFault
<1>2. QED
  BY <1>1, FaultlessInvariant, PTL

\* Nor does the server ever send to a writer that is gone.
THEOREM NothingLost == Spec => []SendsReceived
<1>1. Faultless /\ WriterOutlivesServer => SendsReceived
  BY DEF Faultless, ThreadsSound, WriterOutlivesServer, SendsReceived, WriterGone, Joining
<1>2. QED
  BY <1>1, FaultlessInvariant, WriterOutlives, PTL
=============================================================================
