------------------------------ MODULE FifoLock ------------------------------
(***************************************************************************)
(* What the runtime's mutex promises: one owner, and no overtaking.  Who   *)
(* finds the mutex in use queues, and the mutex goes to the first in the   *)
(* queue; only while nobody queues may a thread take it directly.          *)
(***************************************************************************)
EXTENDS Naturals, Sequences

CONSTANTS Threads, NoThread

VARIABLES owner,  \* the thread between mutex_lock and mutex_unlock
          queue   \* threads that wait, the next owner first

Idle == owner = NoThread /\ queue = <<>>

Init == Idle

TakeFree(t) ==
  /\ Idle
  /\ owner' = t
  /\ UNCHANGED queue

QueueUp(t) ==
  /\ ~ Idle
  /\ t # owner /\ \A i \in 1 .. Len(queue) : queue[i] # t
  /\ queue' = Append(queue, t)
  /\ UNCHANGED owner

GiveUp ==
  /\ owner # NoThread
  /\ owner' = NoThread
  /\ UNCHANGED queue

PassOn ==
  /\ owner = NoThread /\ queue # <<>>
  /\ owner' = Head(queue)
  /\ queue' = Tail(queue)

Next == GiveUp \/ PassOn \/ \E t \in Threads : TakeFree(t) \/ QueueUp(t)

Spec == Init /\ [][Next]_<<owner, queue>>
=============================================================================
