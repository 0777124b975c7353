---------------------------- MODULE HandleSteps ----------------------------
(***************************************************************************)
(* The vocabulary in which the functions that create and destroy objects   *)
(* are written down: what each of them acquires, in which order, what it   *)
(* runs when one of its steps fails, and what it releases.  A script is a  *)
(* sequence of steps; the resources are named after the variables or       *)
(* fields that hold them.  Every step that can fail carries the rest of    *)
(* the path that is then taken: the code after the failed call, and after  *)
(* that its callers' error labels.                                         *)
(***************************************************************************)
EXTENDS Naturals, Sequences

Step(op, r, to) == <<[op |-> op, r |-> r, to |-> to, err |-> <<>>]>>
Each(op, rs) == [i \in DOMAIN rs |-> Step(op, rs[i], "")[1]]

Get(r) == Step("get", r, "")          \* acquire r; may fail
Got(r) == Step("got", r, "")          \* acquire r in a call that succeeded
Once(r) == Step("once", r, "")        \* acquire r unless it is held already
Check == Step("check", "", "")        \* a condition that may fail
Need(r) == Step("need", r, "")        \* fails unless r is held
Lack(r) == Step("lack", r, "")        \* fails if r is held
Fail == Step("fail", "", "")          \* fails
Again == Step("again", "", "")        \* the failed way is tried in another way
Close(rs) == Each("close", rs)        \* release what these name; the names stay
Free(rs) == Each("free", rs)          \* release those not null; the names are gone
Give(r) == Step("give", r, "")        \* another owner has taken r; r is null
Move(r, to) == Step("move", r, to)    \* to = r

(* The script, with err run after the error path of each of its steps.  An error
   path with Again in it is only ever the last.                                 *)
OnError(script, err) ==
    [i \in DOMAIN script |-> [script[i] EXCEPT !.err = @ \o err]]

(* Who calls what on an object.  app: resources of the application that the
   call is given; given: those of them it hands over; create: the ways through
   the function that makes the object; use: calls on the object; destroy: the
   ways through the function that destroys it.                                 *)
Object(name, app, given, create, use, destroy) ==
    [name |-> name, app |-> app, given |-> given,
     create |-> create, use |-> use, destroy |-> destroy]
=============================================================================
