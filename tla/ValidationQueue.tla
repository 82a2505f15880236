--------------------------- MODULE ValidationQueue ---------------------------
(***************************************************************************)
(* The validation worker's queue: the unbounded crossbeam channel on which *)
(* schedule_validate sends URIs and the loop of validation_worker that     *)
(* receives one, drains the channel with try_recv keeping only the newest  *)
(* URI, validates it and sleeps.                                           *)
(*                                                                         *)
(* Senders run at any time, also between two try_recv of the drain.        *)
(***************************************************************************)
EXTENDS Naturals, Sequences

CONSTANTS
    Uris,       \* document URIs
    None,       \* no URI
    MaxSends    \* bound of the model: how many times validation is scheduled

ASSUME NoneIsNoUri == None \notin Uris
ASSUME SendsBound  == MaxSends \in Nat

VARIABLES
    queue,      \* the channel, oldest request first
    phase,      \* the worker: "recv", "drain" or "validate"
    current,    \* the worker's variable `uri`, None in "recv"
    sends,      \* requests scheduled so far
    last        \* history: the request scheduled last, or None

vars == <<queue, phase, current, sends, last>>

TypeOK ==
    /\ queue \in Seq(Uris)
    /\ phase \in {"recv", "drain", "validate"}
    /\ current \in Uris \union {None}
    /\ sends \in 0..MaxSends
    /\ last \in Uris \union {None}
    /\ phase = "recv" <=> current = None

Init ==
    /\ queue = <<>>
    /\ phase = "recv"
    /\ current = None
    /\ sends = 0
    /\ last = None

\* schedule_validate, called by the main thread's handlers; the channel is
\* unbounded, so the sender never waits.
Send(u) ==
    /\ sends < MaxSends
    /\ sends' = sends + 1
    /\ queue' = Append(queue, u)
    /\ last' = u
    /\ UNCHANGED <<phase, current>>

\* `while let Ok(mut uri) = rx.recv()`: blocks while the channel is empty.
Recv ==
    /\ phase = "recv"
    /\ queue # <<>>
    /\ current' = Head(queue)
    /\ queue' = Tail(queue)
    /\ phase' = "drain"
    /\ UNCHANGED <<sends, last>>

\* Mutant of TryRecvSome: the drain keeps the request it already has.
TryRecvKeepsOlder ==
    /\ phase = "drain"
    /\ queue # <<>>
    /\ queue' = Tail(queue)
    /\ UNCHANGED <<phase, current, sends, last>>

\* `while let Ok(newer) = rx.try_recv() { uri = newer; }`
TryRecvSome ==
    /\ phase = "drain"
    /\ queue # <<>>
    /\ current' = Head(queue)
    /\ queue' = Tail(queue)
    /\ UNCHANGED <<phase, sends, last>>

\* try_recv finds the channel empty: the loop ends, validation begins.
TryRecvEmpty ==
    /\ phase = "drain"
    /\ queue = <<>>
    /\ phase' = "validate"
    /\ UNCHANGED <<queue, current, sends, last>>

\* Mutant of Finish: the worker waits with a request in hand.
FinishKeepsCurrent ==
    /\ phase = "validate"
    /\ phase' = "recv"
    /\ UNCHANGED <<queue, current, sends, last>>

\* validate_and_publish returns and the 50 ms sleep is over.
Finish ==
    /\ phase = "validate"
    /\ phase' = "recv"
    /\ current' = None
    /\ UNCHANGED <<queue, sends, last>>

Worker == Recv \/ TryRecvSome \/ TryRecvEmpty \/ Finish

\* The last request has been validated and nothing more is scheduled.
Idle ==
    /\ sends = MaxSends
    /\ queue = <<>>
    /\ phase = "recv"
    /\ UNCHANGED vars

Next == (\E u \in Uris : Send(u)) \/ Worker \/ Idle

\* The worker is a thread of its own and is scheduled; callers owe nothing.
Spec == Init /\ [][Next]_vars /\ WF_vars(Worker)

-----------------------------------------------------------------------------
(* The mailbox the queue implements: the newest request is the last of the *)
(* channel or, when the channel is empty, the one the drain has in hand.   *)

Waiting ==
    IF queue # <<>> THEN queue[Len(queue)]
    ELSE IF phase = "drain" THEN current ELSE None

Validating == IF phase = "validate" THEN current ELSE None

Mailbox == INSTANCE LatestMailbox WITH slot <- Waiting, busy <- Validating

\* The queue with its draining loop behaves as a mailbox that keeps only the
\* newest request: nothing older than a waiting request is ever validated, and
\* the newest one is (doc comment of validation_worker, "only the last URI is
\* validated").
ImplementsMailbox == Mailbox!Spec
=============================================================================
