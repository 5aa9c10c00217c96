----------------------------- MODULE AbsChannel -----------------------------
(***************************************************************************)
(* What runtime/sync promises of Channel<T>: one FIFO queue on which send  *)
(* and recv are atomic.  No mutex, no condition variable, no waiting: the  *)
(* detailed module Channel is shown to implement this one.                 *)
(***************************************************************************)
EXTENDS Naturals, Sequences

CONSTANTS Producers, Consumers

VARIABLES
  sent,     \* sent[p]: how many values producer p has put in the channel
  queue,    \* the values sent and not yet received, oldest first
  got       \* got[c]: the values consumer c has received, in order

absVars == <<sent, queue, got>>

\* The i-th value of producer p.
Value(p, i) == <<p, i>>

AbsInit ==
  /\ sent = [p \in Producers |-> 0]
  /\ queue = << >>
  /\ got = [c \in Consumers |-> << >>]

AbsSend(p) ==
  /\ sent' = [sent EXCEPT ![p] = @ + 1]
  /\ queue' = Append(queue, Value(p, sent[p] + 1))
  /\ UNCHANGED got

AbsRecv(c) ==
  /\ queue # << >>
  /\ queue' = Tail(queue)
  /\ got' = [got EXCEPT ![c] = Append(@, Head(queue))]
  /\ UNCHANGED sent

AbsNext ==
  \/ \E p \in Producers : AbsSend(p)
  \/ \E c \in Consumers : AbsRecv(c)

AbsSpec == AbsInit /\ [][AbsNext]_absVars
=============================================================================
