------------------------ MODULE ValidationQueueProofs ------------------------
(***************************************************************************)
(* The channel and draining loop of the validation worker behave, step by  *)
(* step, as a mailbox that keeps only the newest request.                  *)
(***************************************************************************)
EXTENDS ValidationQueue, SequenceTheorems, TLAPS

\* The safety half of ImplementsMailbox: every step of the channel and of the
\* loop is a Post, a Take, a Done or nothing at all to a user of the mailbox.
MailboxSteps == Mailbox!Init /\ [][Mailbox!Next]_<<Waiting, Validating, last>>

\* The variables keep their types; in particular the worker has a URI in hand
\* exactly while it drains or validates.
THEOREM TypeCorrect == Spec => []TypeOK
<1>1. Init => TypeOK
  BY SendsBound, NoneIsNoUri DEF Init, TypeOK
<1>2. TypeOK /\ [Next]_vars => TypeOK'
  <2> SUFFICES ASSUME TypeOK, [Next]_vars
               PROVE  TypeOK'
    OBVIOUS
  <2> USE SendsBound, NoneIsNoUri DEF TypeOK
  <2>1. ASSUME NEW u \in Uris, Send(u)
        PROVE  TypeOK'
    BY <2>1 DEF Send
  <2>2. CASE Recv
    BY <2>2 DEF Recv
  <2>3. CASE TryRecvSome
    BY <2>3 DEF TryRecvSome
  <2>4. CASE TryRecvEmpty
    BY <2>4 DEF TryRecvEmpty
  <2>5. CASE Finish
    BY <2>5 DEF Finish
  <2>6. CASE UNCHANGED vars
    BY <2>6 DEF vars
  <2>7. QED
    BY <2>1, <2>2, <2>3, <2>4, <2>5, <2>6 DEF Next, Worker, Idle
<1>3. QED
  BY <1>1, <1>2, PTL DEF Spec

\* Appending makes the new request the newest one.
LEMMA NewestOfAppend ==
  ASSUME NEW q \in Seq(Uris), NEW u \in Uris
  PROVE  /\ Append(q, u) # <<>>
         /\ Append(q, u)[Len(Append(q, u))] = u
OBVIOUS

\* Receiving the oldest request leaves the newest one where it is, unless it was
\* the only one.
LEMMA NewestOfTail ==
  ASSUME NEW q \in Seq(Uris), q # <<>>
  PROVE  /\ Head(q) \in Uris
         /\ q[Len(q)] \in Uris
         /\ Tail(q) \in Seq(Uris)
         /\ Tail(q) = <<>> => Head(q) = q[Len(q)]
         /\ Tail(q) # <<>> => Tail(q)[Len(Tail(q))] = q[Len(q)]
<1>1. Len(q) \in Nat /\ Len(q) >= 1
  OBVIOUS
<1>2. q[Len(q)] \in Uris
  BY <1>1
<1>3. /\ Head(q) \in Uris
      /\ Tail(q) \in Seq(Uris)
      /\ Len(Tail(q)) = Len(q) - 1
      /\ \A i \in 1..Len(Tail(q)) : Tail(q)[i] = q[i + 1]
  BY HeadTailProperties
<1>4. Tail(q) = <<>> <=> Len(Tail(q)) = 0
  BY <1>3, EmptySeq
<1>5. Head(q) = q[1]
  OBVIOUS
<1>6. QED
  BY <1>1, <1>2, <1>3, <1>4, <1>5

\* Every step of the channel and of the draining loop is a Post, a Take or a
\* Done of the mailbox, or invisible to its users: what is validated is always
\* the request scheduled last (validation_worker, "only the last URI").
THEOREM QueueIsMailbox == Spec => MailboxSteps
<1> DEFINE mbox == <<Waiting, Validating, last>>
<1>1. Init => Mailbox!Init
  BY DEF Init, Mailbox!Init, Waiting, Validating
<1>2. TypeOK /\ TypeOK' /\ [Next]_vars => [Mailbox!Next]_mbox
  <2> SUFFICES ASSUME TypeOK, TypeOK', [Next]_vars
               PROVE  [Mailbox!Next]_mbox
    OBVIOUS
  <2> USE NoneIsNoUri DEF TypeOK, Waiting, Validating
  <2>1. ASSUME NEW u \in Uris, Send(u)
        PROVE  Mailbox!Post(u)
    BY <2>1, NewestOfAppend DEF Send, Mailbox!Post
  <2>2. CASE Recv
    <3>1. Waiting' = Waiting
      BY <2>2, NewestOfTail DEF Recv
    <3>2. Validating' = Validating /\ last' = last
      BY <2>2 DEF Recv
    <3>3. QED
      BY <3>1, <3>2
  <2>3. CASE TryRecvSome
    <3>1. Waiting' = Waiting
      BY <2>3, NewestOfTail DEF TryRecvSome
    <3>2. Validating' = Validating /\ last' = last
      BY <2>3 DEF TryRecvSome
    <3>3. QED
      BY <3>1, <3>2
  <2>4. CASE TryRecvEmpty
    BY <2>4 DEF TryRecvEmpty, Mailbox!Next, Mailbox!Take
  <2>5. CASE Finish
    BY <2>5 DEF Finish, Mailbox!Next, Mailbox!Done
  <2>6. CASE UNCHANGED vars
    BY <2>6 DEF vars
  <2>7. QED
    BY <2>1, <2>2, <2>3, <2>4, <2>5, <2>6
    DEF Next, Worker, Idle, Mailbox!Next
<1>3. QED
  BY <1>1, <1>2, TypeCorrect, PTL DEF Spec, MailboxSteps
=============================================================================
