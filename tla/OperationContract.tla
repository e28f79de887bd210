------------------------- MODULE OperationContract -------------------------
(***************************************************************************)
(* What a client of the gateway may rely on about mutation operations,     *)
(* without any of the machinery of the operation store: an operation is    *)
(* begun at most once, under at most one idempotency key, ends at most     *)
(* once, and every answer quotes a state the operation has really had.     *)
(* OperationStore implements this specification.                           *)
(***************************************************************************)
CONSTANTS
  Ops,        \* operation identifiers
  Scopes,     \* idempotency scopes: host, kind and client key
  NoScope,    \* a request without Idempotency-Key
  NoOp,       \* no operation
  Requests    \* calls that may start an operation

VARIABLES
  phase,      \* phase[o]: the life of operation o
  owner,      \* owner[s]: the operation that idempotency scope s stands for
  told        \* told[r]: the operation and the phase the caller r was told

contractVars == <<phase, owner, told>>

Outcomes == {"succeeded", "failed", "cancelled"}

Untold == [op |-> NoOp, phase |-> "absent"]

ContractInit ==
  /\ phase = [o \in Ops |-> "absent"]
  /\ owner = [s \in Scopes |-> NoOp]
  /\ told  = [r \in Requests |-> Untold]

(* Work starts once per operation, and once per idempotency scope. *)
Begin(o, s) ==
  /\ phase[o] = "absent"
  /\ phase' = [phase EXCEPT ![o] = "running"]
  /\ \/ s = NoScope /\ UNCHANGED owner
     \/ /\ s \in Scopes
        /\ owner[s] = NoOp
        /\ owner' = [owner EXCEPT ![s] = o]
  /\ UNCHANGED told

(* It ends once, with one of three outcomes. *)
Finish(o, outcome) ==
  /\ phase[o] = "running"
  /\ phase' = [phase EXCEPT ![o] = outcome]
  /\ UNCHANGED <<owner, told>>

(* A caller is told once, and told the truth of that moment. *)
Tell(r, o) ==
  /\ told[r] = Untold
  /\ phase[o] # "absent"
  /\ told' = [told EXCEPT ![r] = [op |-> o, phase |-> phase[o]]]
  /\ UNCHANGED <<phase, owner>>

ContractNext ==
  \/ \E o \in Ops, s \in Scopes \cup {NoScope} : Begin(o, s)
  \/ \E o \in Ops, outcome \in Outcomes : Finish(o, outcome)
  \/ \E r \in Requests, o \in Ops : Tell(r, o)

ContractSpec == ContractInit /\ [][ContractNext]_contractVars
=============================================================================
