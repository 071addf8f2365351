--------------------------- MODULE OrderLifecycle ---------------------------
(***************************************************************************)
(* What the loyalty system promises about one order, whoever processes it: *)
(* an uploaded order is NEW, may be PROCESSING for any time, and ends      *)
(* either INVALID or PROCESSED; its accrual reaches the owner's balance in *)
(* the very step that makes it PROCESSED, once, and never otherwise.       *)
(* OrderProcessor is shown to implement this module.                       *)
(***************************************************************************)
EXTENDS Naturals

CONSTANT Orders

VARIABLES
  status,   \* status[o]: the status column of order o, "ABSENT" without a row
  credits   \* credits[o]: how often the accrual of o was added to a balance

lifecycleVars == <<status, credits>>

\* domain.OrderStatus values; "ABSENT" stands for "no row in orders".
Statuses == {"ABSENT", "NEW", "PROCESSING", "INVALID", "PROCESSED"}

\* The statuses for which filterProcessableOrders and shouldProcessOrderStatus
\* let an order be worked on.
Processable == {"NEW", "PROCESSING"}

Init ==
  /\ status = [o \in Orders |-> "ABSENT"]
  /\ credits = [o \in Orders |-> 0]

Uploaded(o) ==
  /\ status[o] = "ABSENT"
  /\ status' = [status EXCEPT ![o] = "NEW"]
  /\ UNCHANGED credits

BeingProcessed(o) ==
  /\ status[o] \in Processable
  /\ status' = [status EXCEPT ![o] = "PROCESSING"]
  /\ UNCHANGED credits

Rejected(o) ==
  /\ status[o] \in Processable
  /\ status' = [status EXCEPT ![o] = "INVALID"]
  /\ UNCHANGED credits

Credited(o) ==
  /\ status[o] \in Processable
  /\ status' = [status EXCEPT ![o] = "PROCESSED"]
  /\ credits' = [credits EXCEPT ![o] = @ + 1]

Next == \E o \in Orders :
  Uploaded(o) \/ BeingProcessed(o) \/ Rejected(o) \/ Credited(o)

Spec == Init /\ [][Next]_lifecycleVars
=============================================================================
