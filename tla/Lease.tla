------------------------------- MODULE Lease -------------------------------
(***************************************************************************)
(* What a slot with one holder promises: it is taken when it is free, given *)
(* back once, and who gave it back never holds it again.                   *)
(*                                                                         *)
(* Backup copies implement it: the slot of a database is its live copy.    *)
(***************************************************************************)
CONSTANTS
  Clients,  \* who may take the slot
  Nobody    \* it is free

VARIABLES
  holder,   \* who holds it
  past      \* who held it

leaseVars == <<holder, past>>

LeaseInit == holder = Nobody /\ past = {}

Take(c) ==
  /\ holder = Nobody /\ c \notin past
  /\ holder' = c
  /\ UNCHANGED past

GiveBack(c) ==
  /\ holder = c
  /\ holder' = Nobody
  /\ past' = past \cup {c}

LeaseNext == \E c \in Clients : Take(c) \/ GiveBack(c)

LeaseSpec == LeaseInit /\ [][LeaseNext]_leaseVars
=============================================================================
