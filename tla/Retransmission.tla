--------------------------- MODULE Retransmission ---------------------------
(***************************************************************************)
(* What the timers of a KCP sender promise, in real time: a segment that   *)
(* has been sent has a time at which it is due; the first update at or     *)
(* after that time sends it again, no update sends it for that reason any  *)
(* earlier, and then it has a new time.  Sending it again because others   *)
(* have overtaken it ("fast") is possible in between.                      *)
(***************************************************************************)
EXTENDS Integers

CONSTANT Period      \* the least time between two updates

VARIABLES
  now,   \* the time of the last update
  due,   \* when each segment that is not acknowledged is due
  out    \* what the last update sent, and why

rvars == <<now, due, out>>

Init ==
  /\ now \in Int
  /\ due = <<>>
  /\ out = <<>>

Update ==
  /\ now' >= now + Period
  /\ DOMAIN due \subseteq DOMAIN due'
  /\ DOMAIN out' \subseteq DOMAIN due'
  /\ \A sn \in DOMAIN due' :
       /\ due'[sn] > now'
       /\ sn \notin DOMAIN due => sn \in DOMAIN out' /\ out'[sn] = "first"
       /\ sn \in DOMAIN due /\ due[sn] <= now'
            => sn \in DOMAIN out' /\ out'[sn] = "timeout"
       /\ sn \in DOMAIN due /\ due[sn] > now'
            => IF sn \in DOMAIN out' THEN out'[sn] = "fast" ELSE due'[sn] = due[sn]

Acknowledge ==
  /\ DOMAIN due' \subseteq DOMAIN due
  /\ \A sn \in DOMAIN due' : due'[sn] = due[sn]
  /\ UNCHANGED <<now, out>>

Spec == Init /\ [][Update \/ Acknowledge]_rvars
=============================================================================
