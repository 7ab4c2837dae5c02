----------------------------- MODULE BasketSpec -----------------------------
(***************************************************************************)
(* What the basket-service promises its callers: every command takes       *)
(* effect at once, at most one time, on the basket as it then is, while the*)
(* basket is ACTIVE, and only between the call and its answer.  An OK       *)
(* answer means it took effect; a definite error means it did not; after   *)
(* an Internal error, or none at all, the caller does not know.            *)
(***************************************************************************)
EXTENDS BasketTypes

VARIABLES
  status,   \* basket -> its status, or None before it is created
  lines,    \* the lines of all baskets
  cmd,      \* request -> its command
  stage,    \* request -> "idle", "called", "applied" or "answered"
  code      \* request -> the gRPC code it was answered with, or "pending"

vars == <<status, lines, cmd, stage, code>>

\* A line has no total of its own: it is qty * unit.
Line(x) == [id |-> x.id, basket |-> x.basket, variant |-> x.variant,
            qty |-> x.qty, unit |-> x.unit]

LineOfPair(c) == {x \in lines : <<x.basket, x.variant>> = <<c.basket, c.variant>>}

LineNamed(c) == {x \in lines : <<x.basket, x.id>> = <<c.basket, c.item>>}

Init ==
  /\ status = [b \in Baskets |-> IF b \in SeedBaskets THEN "ACTIVE" ELSE None]
  /\ lines = {Line(x) : x \in SeedItems}
  /\ cmd \in [Requests -> Commands]
  /\ stage = [r \in Requests |-> "idle"]
  /\ code = [r \in Requests |-> "pending"]

Call(r) ==
  /\ stage[r] = "idle"
  /\ stage' = [stage EXCEPT ![r] = "called"]
  /\ UNCHANGED <<status, lines, cmd, code>>

Applies(r, op) ==
  /\ stage[r] = "called"
  /\ cmd[r].op = op
  /\ stage' = [stage EXCEPT ![r] = "applied"]
  /\ UNCHANGED <<cmd, code>>

Modifies(r, op) ==
  /\ Applies(r, op)
  /\ status[cmd[r].basket] = "ACTIVE"
  /\ UNCHANGED status

CreateBasket(r) ==
  /\ Applies(r, "CreateBasket")
  /\ status[cmd[r].basket] = None
  /\ status' = [status EXCEPT ![cmd[r].basket] = "ACTIVE"]
  /\ UNCHANGED lines

AddNewLine(r) ==
  /\ Modifies(r, "AddItem")
  /\ LineOfPair(cmd[r]) = {}
  /\ cmd[r].qty \in Quantity
  /\ \E id \in ItemIds \ {x.id : x \in lines},
        unit \in {q \in Quote : q.currency = defaultCurrencyCode} :
       lines' = lines \cup {[id |-> id, basket |-> cmd[r].basket,
                  variant |-> cmd[r].variant, qty |-> cmd[r].qty, unit |-> unit]}

\* The whole line takes the newly quoted price.
GrowLine(r) ==
  /\ Modifies(r, "AddItem")
  /\ \E x \in LineOfPair(cmd[r]),
        unit \in {q \in Quote : q.currency = defaultCurrencyCode} :
       /\ x.qty + cmd[r].qty \in Quantity
       /\ lines' = (lines \ {x})
                     \cup {[x EXCEPT !.qty = @ + cmd[r].qty, !.unit = unit]}

SetLineQuantity(r) ==
  /\ Modifies(r, "UpdateItemQuantity")
  /\ cmd[r].qty \in Quantity
  /\ \E x \in LineNamed(cmd[r]) :
       lines' = (lines \ {x}) \cup {[x EXCEPT !.qty = cmd[r].qty]}

RemoveLine(r) ==
  /\ Modifies(r, "RemoveItem")
  /\ LineNamed(cmd[r]) # {}
  /\ lines' = lines \ LineNamed(cmd[r])

RemoveAllLines(r) ==
  /\ Modifies(r, "ClearBasket")
  /\ lines' = {x \in lines : x.basket # cmd[r].basket}

Answer(r) ==
  /\ stage[r] \in {"called", "applied"}
  /\ \E c \in {"OK", "Internal"} \cup DefiniteCodes :
       /\ c = "OK" => cmd[r].op = "GetBasket" \/ stage[r] = "applied"
       /\ c \in DefiniteCodes => stage[r] = "called"
       /\ code' = [code EXCEPT ![r] = c]
  /\ stage' = [stage EXCEPT ![r] = "answered"]
  /\ UNCHANGED <<status, lines, cmd>>

\* A crash of the process loses every answer still owed.
Crash ==
  LET open == {r \in Requests : stage[r] \in {"called", "applied"}} IN
  /\ open # {}
  /\ stage' = [r \in Requests |-> IF r \in open THEN "answered" ELSE stage[r]]
  /\ code' = [r \in Requests |-> IF r \in open THEN "Lost" ELSE code[r]]
  /\ UNCHANGED <<status, lines, cmd>>

\* Checkout or expiry: a basket stops being ACTIVE for good.
LeaveActive(b) ==
  /\ status[b] = "ACTIVE"
  /\ \E s \in BasketStatus \ {"ACTIVE"} : status' = [status EXCEPT ![b] = s]
  /\ UNCHANGED <<lines, cmd, stage, code>>

Apply(r) ==
  \/ CreateBasket(r)
  \/ AddNewLine(r) \/ GrowLine(r)
  \/ SetLineQuantity(r) \/ RemoveLine(r) \/ RemoveAllLines(r)

Next ==
  \/ \E r \in Requests : Call(r) \/ Apply(r) \/ Answer(r)
  \/ \E b \in Baskets : LeaveActive(b)
  \/ Crash

Spec == Init /\ [][Next]_vars
=============================================================================
