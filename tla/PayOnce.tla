------------------------------ MODULE PayOnce ------------------------------
(***************************************************************************)
(* What the payout component promises about one transaction hash, whatever *)
(* the workers, the queue and the lock service do: the hash is claimed in  *)
(* the PayoutTransaction table, then at most one payment is submitted      *)
(* under it, and the row is confirmed only after that payment.             *)
(*                                                                         *)
(* A payout that has no hash (bank, paypal) is promised nothing here: its  *)
(* submissions are counted and that is all.                                *)
(***************************************************************************)
EXTENDS Naturals

CONSTANTS Hashes,  \* every <<idempotency key, payout request>> pair
          Claimed  \* the hashes of the recipient types that use the table

VARIABLES txn,     \* txn[h]: status of the row for h, or "none"
          paid     \* paid[h]: payments submitted for h

vars == <<txn, paid>>

Init == /\ txn = [h \in Hashes |-> "none"]
        /\ paid = [h \in Hashes |-> 0]

Claim(h) == /\ h \in Claimed
            /\ txn[h] = "none"
            /\ txn' = [txn EXCEPT ![h] = "pending"]
            /\ UNCHANGED paid

Pay(h) == /\ h \in Claimed
          /\ txn[h] = "pending"
          /\ paid[h] = 0
          /\ paid' = [paid EXCEPT ![h] = 1]
          /\ UNCHANGED txn

Confirm(h) == /\ h \in Claimed
              /\ txn[h] = "pending"
              /\ paid[h] = 1
              /\ txn' = [txn EXCEPT ![h] = "confirmed"]
              /\ UNCHANGED paid

PayUnclaimed(h) == /\ h \notin Claimed
                   /\ paid' = [paid EXCEPT ![h] = @ + 1]
                   /\ UNCHANGED txn

Next == \E h \in Hashes : Claim(h) \/ Pay(h) \/ Confirm(h) \/ PayUnclaimed(h)

Spec == Init /\ [][Next]_vars
=============================================================================
