---------------------------- MODULE LatestMailbox ----------------------------
(***************************************************************************)
(* What the validation worker of src/src/server.rs promises to the threads *)
(* that schedule work: a one-place mailbox in which a newer request        *)
(* replaces the one that is waiting.  At most one document is worked on at *)
(* a time; the request taken up next is the last one that was posted.      *)
(*                                                                         *)
(* ValidationQueue.tla describes the unbounded channel and the draining    *)
(* loop of the code and implements this specification; LanguageServer.tla  *)
(* is built on the promise.                                                *)
(***************************************************************************)
CONSTANTS Uris, None

VARIABLES
    slot,   \* the request that waits, or None
    busy,   \* the request the worker is validating, or None
    last    \* history: the request posted last, or None

vars == <<slot, busy, last>>

TypeOK ==
    /\ slot \in Uris \union {None}
    /\ busy \in Uris \union {None}
    /\ last \in Uris \union {None}

Init == slot = None /\ busy = None /\ last = None

\* schedule_validate: whatever was waiting is superseded.
Post(u) ==
    /\ slot' = u
    /\ last' = u
    /\ UNCHANGED busy

\* The worker takes up the waiting request.
Take ==
    /\ busy = None
    /\ slot # None
    /\ busy' = slot
    /\ slot' = None
    /\ UNCHANGED last

\* The worker has published and slept: it is ready for another request.
Done ==
    /\ busy # None
    /\ busy' = None
    /\ UNCHANGED <<slot, last>>

Next == (\E u \in Uris : Post(u)) \/ Take \/ Done

Spec == Init /\ [][Next]_vars /\ WF_vars(Take) /\ WF_vars(Done)
=============================================================================
