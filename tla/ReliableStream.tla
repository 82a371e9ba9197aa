--------------------------- MODULE ReliableStream ---------------------------
(***************************************************************************)
(* What a proxied connection promises in each direction: the messages that *)
(* one end writes are delivered at the other, whole, once and in order.    *)
(*                                                                         *)
(* A message is a sequence of segments whose `frg' counts down to 0.       *)
(***************************************************************************)
EXTENDS Integers, Sequences

CONSTANTS Client, Server
VARIABLES sent, got

Ends == {Client, Server}
Peer(e) == IF e = Client THEN Server ELSE Client
svars == <<sent, got>>

StreamInit ==
  /\ sent = [e \in Ends |-> <<>>]
  /\ got = [e \in Ends |-> <<>>]

(* t is s followed by one whole message. *)
OneMore(s, t) ==
  /\ Len(t) > Len(s)
  /\ \A i \in 1..Len(s) : t[i] = s[i]
  /\ \A i \in (Len(s) + 1)..Len(t) : t[i].frg = Len(t) - i

Write(e) ==
  /\ OneMore(sent[e], sent'[e])
  /\ sent'[Peer(e)] = sent[Peer(e)]
  /\ got' = got

Deliver(e) ==
  /\ OneMore(got[e], got'[e])
  /\ Len(got'[e]) <= Len(sent[Peer(e)])
  /\ \A i \in 1..Len(got'[e]) : got'[e][i] = sent[Peer(e)][i]
  /\ got'[Peer(e)] = got[Peer(e)]
  /\ sent' = sent

Spec == StreamInit /\ [][\E e \in Ends : Write(e) \/ Deliver(e)]_svars
=============================================================================
