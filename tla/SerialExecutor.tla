--------------------------- MODULE SerialExecutor ---------------------------
(***************************************************************************)
(* What EventLoop promises to the callers of queueInLoop(): the functors   *)
(* it has been given are run one at a time, each once, in the order in     *)
(* which they were accepted.  Once the program has had undefined behaviour *)
(* ("broken") nothing is promised any more.                                *)
(***************************************************************************)
EXTENDS Naturals, Sequences

CONSTANT Functors

VARIABLES
  submitted,   \* functors accepted, in order
  executed,    \* functors run, in order
  broken       \* the program has had undefined behaviour

vars == <<submitted, executed, broken>>

Init ==
  /\ submitted = <<>>
  /\ executed = <<>>
  /\ broken = FALSE

Submit ==
  /\ \E f \in Functors : submitted' = Append(submitted, f)
  /\ UNCHANGED <<executed, broken>>

Run ==
  /\ Len(executed) < Len(submitted)
  /\ executed' = Append(executed, submitted[Len(executed) + 1])
  /\ UNCHANGED <<submitted, broken>>

\* Undefined behaviour, and every step after it.
Break == broken' = TRUE

Next == Submit \/ Run \/ Break

Spec == Init /\ [][Next]_vars
=============================================================================
