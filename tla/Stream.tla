------------------------------- MODULE Stream -------------------------------
(***************************************************************************)
(* What a byte channel with a host promises, whatever buffers lie between: *)
(* each direction is one queue.  A read hands out the oldest bytes, a      *)
(* write adds the bytes it was given; nothing is lost, doubled or changed. *)
(***************************************************************************)
EXTENDS Naturals, Sequences
CONSTANT Byte
VARIABLES toUser, userGot, userGives, toHost

Init == toUser = <<>> /\ userGot = <<>> /\ userGives = <<>> /\ toHost = <<>>

HostSends == \E b \in Byte : /\ toUser' = Append(toUser, b)
                             /\ UNCHANGED <<userGot, userGives, toHost>>
HostTakes == /\ toHost # <<>> /\ toHost' = Tail(toHost)
             /\ UNCHANGED <<toUser, userGot, userGives>>
UserTakes == \E k \in 1..Len(toUser) :
               /\ userGot' = SubSeq(toUser, 1, k)
               /\ toUser' = SubSeq(toUser, k + 1, Len(toUser))
               /\ UNCHANGED <<userGives, toHost>>
UserTook == userGot' = <<>> /\ UNCHANGED <<toUser, userGives, toHost>>
UserOffers == /\ userGives = <<>> /\ userGives' \in Seq(Byte)
              /\ UNCHANGED <<toUser, userGot, toHost>>
UserGives == /\ toHost' = toHost \o userGives /\ userGives' = <<>>
             /\ UNCHANGED <<toUser, userGot>>

Next == HostSends \/ HostTakes \/ UserTakes \/ UserTook \/ UserOffers \/ UserGives
Spec == Init /\ [][Next]_<<toUser, userGot, userGives, toHost>>
=============================================================================
