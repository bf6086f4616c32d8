------------------------------- MODULE Money -------------------------------
(***************************************************************************)
(* Everything that moves or owes money outside the outbox.  Each module    *)
(* states what it asks of the others (a transfer that moves once, a        *)
(* payment that may be booked), so each behaviour is about one scene,      *)
(* chosen at first.                                                        *)
(***************************************************************************)
EXTENDS FundLedger, DuesDraw, Treasury, StripeCheckout, StoreOrders

CONSTANT MaxTillAsks   \* bound: requests of the checkout sessions

VARIABLE scene

moneyVars == <<scene, fundVars, duesVars, storeVars, treasuryRows, checkoutRows, hostVars>>

MoneyInit ==
  /\ scene \in {"funds", "dues", "shop", "desk", "till"}
  /\ FInit /\ (IF scene = "dues" THEN DInit ELSE DInit /\ row = NoRow)
  /\ TreasuryInit /\ CheckoutInit
  /\ StoreInit /\ (scene # "shop" => item.price = 0)

MoneyNext ==
  /\ scene' = scene
  /\ \/ scene = "funds" /\ FNext
          /\ UNCHANGED <<duesVars, storeVars, treasuryRows, checkoutRows, hostVars>>
     \/ scene = "dues" /\ DNext
          /\ UNCHANGED <<fundVars, storeVars, treasuryRows, checkoutRows, hostVars>>
     \/ scene = "shop" /\ StoreNext
          /\ UNCHANGED <<fundVars, duesVars, treasuryRows, checkoutRows, hostVars>>
     \/ scene = "desk" /\ TreasuryNext /\ UNCHANGED <<fundVars, duesVars, storeVars, checkoutRows>>
     \/ scene = "till" /\ CheckoutNext /\ asks' <= MaxTillAsks
          /\ UNCHANGED <<fundVars, duesVars, storeVars, treasuryRows>>

MoneySpec == MoneyInit /\ [][MoneyNext]_moneyVars

\* The ledger's, a dues row's and an order's shapes, each with its CHECKs.
MoneyTypeOK == FTypeOK /\ DTypeOK /\ StoreTypeOK
=============================================================================
