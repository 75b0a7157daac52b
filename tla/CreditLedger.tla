---------------------------- MODULE CreditLedger ----------------------------
(***************************************************************************)
(* What the billing service promises about the credits of one user,        *)
(* however its transactions and the Stripe events interleave.  A call that *)
(* succeeds changes the current balance by its cost in one step, a call    *)
(* that fails changes nothing, and no reference is charged twice for one   *)
(* action.  An event takes effect once, in one step, with amounts worked   *)
(* out from the account as its handler saw it.  A new month starts the     *)
(* balance anew; when an event changes the plan or cancels, the new        *)
(* balance forgets the calls made since its handler looked.  Nothing else  *)
(* loses a call.                                                           *)
(***************************************************************************)
EXTENDS Integers

CONSTANTS
  Calls, Kind, Action, Topup, Cost, Ref, NoRef,  \* as in Billing
  Plans, Free, Credits, Events, Handlers,        \* as in Billing
  NoAccount

VARIABLES
  account,    \* the plan, its allowance and the balance, or NoAccount
  seen,       \* seen[h]: the account as handler h found it, or NoAccount
  done,       \* calls that have succeeded
  processed   \* events that have had their effect

vars == <<account, seen, done, processed>>

Init ==
  /\ account = NoAccount
  /\ seen = [h \in Handlers |-> NoAccount]
  /\ done = {} /\ processed = {}

\* The account of plan p with balance b.
Of(p, b) == [plan |-> p, balance |-> b, allowance |-> Credits[p]]

Open ==
  /\ account = NoAccount
  /\ account' = Of(Free, Credits[Free])
  /\ UNCHANGED <<seen, done, processed>>

-----------------------------------------------------------------------------
(* Calls                                                                   *)

LogAction(c) == IF Kind[c] = "refund" THEN Topup ELSE Action[c]
SameEntry(c, d) == Ref[c] # NoRef /\ Ref[c] = Ref[d] /\ LogAction(c) = LogAction(d)

Enter(c, delta) ==
  /\ account' = [account EXCEPT !.balance = @ + delta]
  /\ c \notin done /\ \A d \in done : ~SameEntry(c, d)
  /\ done' = done \cup {c}
  /\ UNCHANGED <<seen, processed>>

Charge(c) ==
  /\ account # NoAccount
  /\ Kind[c] # "refund" /\ account.balance >= Cost[c]
  /\ Enter(c, 0 - Cost[c])

Refund(c) ==
  /\ account # NoAccount
  /\ Kind[c] = "refund"
  /\ Enter(c, Cost[c])

-----------------------------------------------------------------------------
(* Events                                                                  *)

\* A handler finds the account; it may come to nothing.
Look(h) ==
  /\ account # NoAccount /\ seen[h] = NoAccount
  /\ seen' = [seen EXCEPT ![h] = account]
  /\ UNCHANGED <<account, done, processed>>

Drop(h) == seen' = [seen EXCEPT ![h] = NoAccount] /\ UNCHANGED <<account, done, processed>>

AtLeast0(x) == IF x < 0 THEN 0 ELSE x
AtMost(x, y) == IF x < y THEN x ELSE y

\* The credits used of the account s, or those left of it under the free plan.
Used(s) == AtLeast0(s.allowance - s.balance)
Left(s) == AtMost(s.balance, Credits[Free])

\* What an event makes of the account a when it was seen as s: nothing of the
\* credits, the plan that s already had, the end of the subscription, a new month,
\* or the credits of another plan less those used.
Outcomes(a, s) ==
  {a, [a EXCEPT !.plan = s.plan],
   Of(Free, Left(s)),
   [plan |-> a.plan, balance |-> Credits[s.plan], allowance |-> Credits[s.plan]]}
  \cup {Of(p, AtLeast0(Credits[p] - Used(s))) : p \in Plans \ {s.plan}}

Take(e) == e \notin processed /\ processed' = processed \cup {e} /\ UNCHANGED done

Process(h, e) ==
  /\ seen[h] # NoAccount
  /\ account' \in Outcomes(account, seen[h])
  /\ seen' = [seen EXCEPT ![h] = NoAccount]
  /\ Take(e)

\* The event is not about this account, or has nothing to change.
Ignore(e) == Take(e) /\ UNCHANGED <<account, seen>>

Next ==
  \/ Open
  \/ \E c \in Calls : Charge(c) \/ Refund(c)
  \/ \E h \in Handlers : Look(h) \/ Drop(h) \/ \E e \in Events : Process(h, e)
  \/ \E e \in Events : Ignore(e)

Spec == Init /\ [][Next]_vars
=============================================================================
