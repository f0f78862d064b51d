---------------------------- MODULE MinerService ----------------------------
(***************************************************************************)
(* What the miner promises, with no threads, channel or device in sight:   *)
(* a reported hit is a candidate that was searched and is reported once,   *)
(* hits are settled in the order in which they were reported, and the      *)
(* service only stops when every reported hit is settled, unless the part  *)
(* that settles them has broken; nothing happens after it stopped.         *)
(***************************************************************************)
EXTENDS Naturals, Sequences

CONSTANT Candidate  \* units of search work: device, job and iteration

VARIABLES
  searched,  \* the candidates searched so far
  reported,  \* the hits in the order reported
  settled,   \* the hits proved and submitted, or given up
  broken,    \* settling has failed for good
  stopped    \* the service is down

svars == <<searched, reported, settled, broken, stopped>>

Init ==
  /\ searched = {} /\ reported = <<>> /\ settled = <<>>
  /\ broken = FALSE /\ stopped = FALSE

Search ==
  /\ ~stopped
  /\ searched \subseteq searched'
  /\ searched' \subseteq Candidate
  /\ UNCHANGED <<reported, settled, broken, stopped>>

Report(c) ==
  /\ ~stopped /\ ~broken
  /\ \A k \in 1..Len(reported) : reported[k] # c
  /\ reported' = Append(reported, c)
  /\ UNCHANGED <<searched, settled, broken, stopped>>

SettleNext ==
  /\ ~stopped /\ ~broken
  /\ Len(settled) < Len(reported)
  /\ settled' = Append(settled, reported[Len(settled) + 1])
  /\ UNCHANGED <<searched, reported, broken, stopped>>

Break ==
  /\ ~stopped
  /\ broken' = TRUE
  /\ UNCHANGED <<searched, reported, settled, stopped>>

Stop ==
  /\ broken \/ settled = reported
  /\ stopped' = TRUE
  /\ UNCHANGED <<searched, reported, settled, broken>>

Next ==
  \/ Search
  \/ \E c \in searched : Report(c)
  \/ SettleNext \/ Break \/ Stop

Spec == Init /\ [][Next]_svars
=============================================================================
