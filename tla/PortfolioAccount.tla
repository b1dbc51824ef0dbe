-------------------------- MODULE PortfolioAccount --------------------------
(***************************************************************************)
(* What the atomic paper-capital ledger promises its callers: one account  *)
(* of Units units.  A position is opened at most once under its id, with   *)
(* units the account has free; it is closed once, giving its units back    *)
(* and leaving at most one realised result behind; a part of it can be     *)
(* realised while the rest stays open under an id never used before.       *)
(* Releases, restarts and replays do not exist at this level.              *)
(***************************************************************************)
EXTENDS Integers

CONSTANTS AllIds, Units, Returns

VARIABLES
  free,       \* units no position holds
  position,   \* what each id stands for
  realised    \* the result each id left behind; fraction 0 is none

vars == <<free, position, realised>>

Unused  == [state |-> "unused", held |-> 0]
Closed  == [state |-> "closed", held |-> 0]
Held(n) == [state |-> "open", held |-> n]
Nothing == [fraction |-> 0, net |-> 0]

Init ==
  /\ free = Units
  /\ position = [i \in AllIds |-> Unused]
  /\ realised = [i \in AllIds |-> Nothing]

Open(i, n) ==
  /\ position[i] = Unused
  /\ n \in 1..free
  /\ free' = free - n
  /\ position' = [position EXCEPT ![i] = Held(n)]
  /\ UNCHANGED realised

Refuse(i) ==
  /\ position[i] = Unused
  /\ position' = [position EXCEPT ![i] = Closed]
  /\ UNCHANGED <<free, realised>>

GiveBack(i) ==
  /\ position[i].state = "open"
  /\ free' = free + position[i].held
  /\ position' = [position EXCEPT ![i] = Closed]
  /\ UNCHANGED realised

Realise(i, net) ==
  /\ position[i].state = "open"
  /\ realised[i] = Nothing
  /\ free' = free + position[i].held
  /\ realised' = [realised EXCEPT ![i] = [fraction |-> position[i].held, net |-> net]]
  /\ position' = [position EXCEPT ![i] = Closed]

RealisePart(i, rest, kept, net) ==
  /\ position[i].state = "open"
  /\ realised[i] = Nothing
  /\ position[rest] = Unused
  /\ kept \in 1..(position[i].held - 1)
  /\ free' = free + position[i].held - kept
  /\ realised' = [realised EXCEPT ![i] = [fraction |-> position[i].held - kept, net |-> net]]
  /\ position' = [position EXCEPT ![i] = Closed, ![rest] = Held(kept)]

Next ==
  \/ \E i \in AllIds :
        \/ \E n \in 1..Units : Open(i, n)
        \/ Refuse(i)
        \/ GiveBack(i)
        \/ \E net \in Returns : Realise(i, net)
        \/ \E rest \in AllIds, kept \in 1..Units, net \in Returns :
              RealisePart(i, rest, kept, net)

Spec == Init /\ [][Next]_vars
=============================================================================
