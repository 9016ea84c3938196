--------------------------- MODULE SpendLifecycle ---------------------------
(***************************************************************************)
(* What the queue promises of a spend, whatever handlers, sweeps, crashes   *)
(* and operators do to it on the way: it is held once, for a hold that is   *)
(* fixed when it starts; it is signed at most once, after that hold and     *)
(* never under a freeze; and a spend that left the queue unsigned never     *)
(* comes back.                                                              *)
(***************************************************************************)
EXTENDS Integers

CONSTANT Spend

VARIABLES
  phase,      \* absent, held, closed without a signature, or signed
  deadline,   \* the time a held spend's hold ends
  clock,
  halted

lifecycle == <<phase, deadline, clock, halted>>

LifecycleInit ==
  /\ phase = [s \in Spend |-> "absent"]
  /\ deadline = [s \in Spend |-> 0]
  /\ clock = 0 /\ halted = FALSE

Move(s, from, to) == phase[s] = from /\ phase' = [phase EXCEPT ![s] = to]

Hold(s) ==
  /\ Move(s, "absent", "held")
  /\ deadline'[s] \in Nat
  /\ deadline' = [deadline EXCEPT ![s] = deadline'[s]]
  /\ UNCHANGED <<clock, halted>>

Close(s) == Move(s, "held", "closed") /\ UNCHANGED <<deadline, clock, halted>>

Sign(s) ==
  /\ Move(s, "held", "signed")
  /\ deadline[s] <= clock /\ ~halted
  /\ UNCHANGED <<deadline, clock, halted>>

Switch == halted' = ~halted /\ UNCHANGED <<phase, deadline, clock>>

Pass == clock' > clock /\ UNCHANGED <<phase, deadline, halted>>

LifecycleNext ==
  \/ \E s \in Spend : Hold(s) \/ Close(s) \/ Sign(s)
  \/ Switch \/ Pass

LifecycleSpec == LifecycleInit /\ [][LifecycleNext]_lifecycle

=============================================================================
