---------------------------- MODULE WriteQueue ----------------------------
(***************************************************************************)
(* What Firestore promises about the writes of a device: each user has a   *)
(* queue, which reaches the server in order and at least once.  A write    *)
(* leaves its queue from the front, with "ok" once the server has it, or   *)
(* with an error, and its completion handler, if the app that made the     *)
(* write still runs, is called with that once.                             *)
(***************************************************************************)
EXTENDS Integers, Sequences

CONSTANTS Users, MaxWrites

VARIABLES
    queue,  \* the writes each user has still to deliver, by number
    user,   \* whose queue is being delivered
    made,   \* how many writes the device has made
    log,    \* what the server has committed, 0 for other devices' writes
    told    \* what the handler of each write was called with

vars == <<queue, user, made, log, told>>

Delivered(w) == \E v \in DOMAIN log : log[v] = w

Init ==
    /\ queue = [u \in Users |-> <<>>]
    /\ user \in Users
    /\ made = 0 /\ log = <<>>
    /\ told = [w \in 1 .. MaxWrites |-> "none"]

Write ==
    /\ made < MaxWrites
    /\ made' = made + 1
    /\ queue' = [queue EXCEPT ![user] = Append(@, made')]
    /\ UNCHANGED <<user, log, told>>

\* A write is committed, perhaps again, after those before it.
Deliver ==
    /\ \E i \in DOMAIN queue[user] :
          /\ \A n \in 1 .. i - 1 : Delivered(queue[user][n])
          /\ log' = Append(log, queue[user][i])
    /\ UNCHANGED <<queue, user, made, told>>

\* The oldest write is settled.
Settle(outcome) ==
    /\ queue[user] # <<>>
    /\ outcome = "ok" => Delivered(Head(queue[user]))
    /\ told[Head(queue[user])] = "none"
    /\ queue' = [queue EXCEPT ![user] = Tail(@)]
    /\ told' \in {told, [told EXCEPT ![Head(queue[user])] = outcome]}
    /\ UNCHANGED <<user, made, log>>

ChangeUser ==
    /\ user' \in Users
    /\ UNCHANGED <<queue, made, log, told>>

ForeignWrite ==
    /\ log' = Append(log, 0)
    /\ UNCHANGED <<queue, user, made, told>>

Next == Write \/ Deliver \/ Settle("ok") \/ Settle("error") \/ ChangeUser \/ ForeignWrite

Spec == Init /\ [][Next]_vars
=============================================================================
