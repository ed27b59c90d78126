----------------------------- MODULE DataStream -----------------------------
(***************************************************************************)
(* What ICommunicationInterface promises of the data given to send ():     *)
(* units are numbered in the order they are accepted; the peer gets them   *)
(* in that order, some perhaps more than once; a unit is reported sent     *)
(* only after the peer has it, and no unit is lost but together with all   *)
(* that wait, when the loss of the connection is announced.                *)
(***************************************************************************)
EXTENDS Integers

VARIABLES
    accepted,   \* how many units have been accepted
    first,      \* the first unit that still waits
    sent,       \* the units that have been reported sent
    delivered,  \* the units the peer has
    connected   \* does the application believe in a connection

vars == <<accepted, first, sent, delivered, connected>>

(* A unit that neither waits nor was sent has been given up.               *)
GivenUp == (1..(first - 1)) \ sent

Init == accepted = 0 /\ first = 1 /\ sent = {} /\ delivered = {} /\ connected = FALSE

Accept ==
    /\ accepted' > accepted /\ accepted' \in Nat
    /\ UNCHANGED <<first, sent, delivered, connected>>

Deliver ==
    /\ \E u \in 1..accepted :
          /\ (1..(u - 1)) \subseteq delivered \cup GivenUp
          /\ delivered' = delivered \cup {u}
    /\ UNCHANGED <<accepted, first, sent, connected>>

Report ==
    /\ first' \in (first + 1)..(accepted + 1)
    /\ first..(first' - 1) \subseteq delivered
    /\ sent' = sent \cup (first..(first' - 1))
    /\ UNCHANGED <<accepted, delivered, connected>>

Announce ==
    /\ ~connected /\ connected' = TRUE
    /\ UNCHANGED <<accepted, first, sent, delivered>>

GiveUp ==
    /\ connected /\ connected' = FALSE
    /\ first' = accepted + 1
    /\ UNCHANGED <<accepted, sent, delivered>>

Next == Accept \/ Deliver \/ Report \/ Announce \/ GiveUp

Spec == Init /\ [][Next]_vars
=============================================================================
