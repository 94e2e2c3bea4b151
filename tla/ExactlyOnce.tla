----------------------------- MODULE ExactlyOnce -----------------------------
(***************************************************************************)
(* What the command bus promises its callers.  Each caller wants one       *)
(* change.  The change takes effect at most once; a caller that is told    *)
(* "done" was given an effect, and one that is told "refused" was not and  *)
(* will not be.                                                            *)
(***************************************************************************)
EXTENDS Sequences, Integers

CONSTANT Callers

VARIABLES
  effects,   \* the callers whose change took effect, in order
  verdict    \* what each caller has been told

Effective(c) == \E i \in DOMAIN effects : effects[i] = c

Init ==
  /\ effects = <<>>
  /\ verdict = [c \in Callers |-> "waiting"]

\* The change takes effect; the answer may get lost.
Apply(c) ==
  /\ verdict[c] = "waiting"
  /\ ~Effective(c)
  /\ effects' = Append(effects, c)
  /\ verdict' \in {verdict, [verdict EXCEPT ![c] = "done"]}

Confirm(c) ==
  /\ verdict[c] = "waiting"
  /\ Effective(c)
  /\ verdict' = [verdict EXCEPT ![c] = "done"]
  /\ UNCHANGED effects

Refuse(c) ==
  /\ verdict[c] = "waiting"
  /\ ~Effective(c)
  /\ verdict' = [verdict EXCEPT ![c] = "refused"]
  /\ UNCHANGED effects

Next == \E c \in Callers : Apply(c) \/ Confirm(c) \/ Refuse(c)

Spec == Init /\ [][Next]_<<effects, verdict>>
=============================================================================
