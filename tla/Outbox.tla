------------------------------- MODULE Outbox -------------------------------
(***************************************************************************)
(* What an offline queue promises its user: what was put into it stays     *)
(* there until the server has carried it out, which happens once, or again *)
(* once the sender has been left in doubt whether something was: doubt is  *)
(* one flag for the whole queue, and is not taken back.                    *)
(*                                                                         *)
(* OfflineQueue.tla shows how far the mobile application implements this.  *)
(***************************************************************************)
EXTENDS Naturals

VARIABLES waiting, applied, doubt

outboxVars == <<waiting, applied, doubt>>

OutboxInit == waiting = {} /\ \A i \in DOMAIN applied : applied[i] = 0

Put(i) == i \notin waiting /\ waiting' = waiting \cup {i} /\ UNCHANGED <<applied, doubt>>

CarryOut(i) == /\ i \in waiting
               /\ applied[i] = 0 \/ doubt
               /\ applied' = [applied EXCEPT ![i] = @ + 1]
               /\ UNCHANGED <<waiting, doubt>>

Remove == /\ waiting' \subseteq waiting
          /\ \A i \in waiting \ waiting' : applied[i] > 0
          /\ UNCHANGED <<applied, doubt>>

LoseTrack == ~doubt /\ doubt' /\ UNCHANGED <<waiting, applied>>

OutboxNext == (\E i \in DOMAIN applied : Put(i) \/ CarryOut(i)) \/ Remove \/ LoseTrack

OutboxSpec == OutboxInit /\ [][OutboxNext]_outboxVars
=============================================================================
