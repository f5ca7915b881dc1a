------------------------------- MODULE Acceptor -------------------------------
(***************************************************************************)
(* siren::net::Acceptor: the listening socket, and the idle descriptor it  *)
(* gives up when the process has none left, to accept and drop a waiting   *)
(* connection.  Descriptors are counted: the idle one, those of the        *)
(* server's connections (used) and those that other threads of the process *)
(* hold.  The actions leave the loop's place to the module that uses them. *)
(***************************************************************************)
EXTENDS Integers, FiniteSets

CONSTANTS
  FdLimit,     \* descriptors the process may have for connections, others, idleFd_
  MaxOthers,   \* bound: descriptors other threads hold at a time
  MaxConns     \* bound: connections that peers make

ASSUME AcceptorAssumption ==
  /\ FdLimit \in Nat \ {0} /\ MaxConns \in Nat
  /\ MaxOthers \in 0 .. FdLimit - 1

VARIABLES
  listening_,
  idleFd_,    \* the idle descriptor is open
  backlog,    \* connections waiting in the kernel
  arrived,    \* connections made so far
  others      \* descriptors of other threads

acceptorVars == <<listening_, idleFd_, backlog, arrived, others>>

AcceptorInit ==
  /\ listening_ = FALSE /\ idleFd_ = TRUE
  /\ backlog = 0 /\ arrived = 0 /\ others = 0

Taken(used) == used + others + IF idleFd_ THEN 1 ELSE 0
Free(used) == FdLimit - Taken(used)

Arrive ==
  /\ listening_ /\ arrived < MaxConns
  /\ arrived' = arrived + 1 /\ backlog' = backlog + 1
  /\ UNCHANGED <<listening_, idleFd_, others>>

\* Another thread opens or closes a descriptor of its own.
OtherOpens(used) ==
  /\ Free(used) > 0 /\ others < MaxOthers
  /\ others' = others + 1
  /\ UNCHANGED <<listening_, idleFd_, backlog, arrived>>
OtherCloses ==
  /\ others > 0
  /\ others' = others - 1
  /\ UNCHANGED <<listening_, idleFd_, backlog, arrived>>

\* handleRead(): accept() succeeds.
Accepts(used) ==
  /\ backlog > 0 /\ Free(used) > 0
  /\ backlog' = backlog - 1
  /\ UNCHANGED <<listening_, idleFd_, arrived, others>>

\* accept() fails, and not for want of descriptors: the connection was aborted
\* and is gone, or the call was interrupted.
AcceptFails(used) ==
  /\ Free(used) > 0
  /\ backlog > 0 /\ backlog' \in {backlog, backlog - 1}
  /\ UNCHANGED <<listening_, idleFd_, arrived, others>>

\* Mutation: the idle descriptor is not given up.
CloseIdleNever(used) == Free(used) = 0 /\ UNCHANGED acceptorVars

\* EMFILE, in three steps: ::close(idleFd_), ::accept() and ::close(), ::open().
CloseIdle(used) ==
  /\ Free(used) = 0
  /\ idleFd_' = FALSE
  /\ UNCHANGED <<listening_, backlog, arrived, others>>

AcceptAndDrop(used) ==
  /\ backlog' = IF Free(used) > 0 THEN backlog - 1 ELSE backlog
  /\ UNCHANGED <<listening_, idleFd_, arrived, others>>

ReopenIdle(used) ==
  /\ idleFd_' = (Free(used) > 0)
  /\ UNCHANGED <<listening_, backlog, arrived, others>>

Listen == listening_' = TRUE /\ UNCHANGED <<idleFd_, backlog, arrived, others>>

\* ~Acceptor(): the kernel resets the connections that still wait.
DestroyAcceptor ==
  /\ listening_' = FALSE /\ idleFd_' = FALSE /\ backlog' = 0
  /\ UNCHANGED <<arrived, others>>
=============================================================================
