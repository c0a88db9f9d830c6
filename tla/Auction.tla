------------------------------ MODULE Auction ------------------------------
(***************************************************************************)
(* What get_header promises: every relay makes at most one offer, only     *)
(* acceptable headers are offers, and the answer is the offer of highest   *)
(* value, or "no content" when there is none.                              *)
(***************************************************************************)
EXTENDS Integers

CONSTANTS
  Relays,        \* 1..n: the relays asked, in configuration order
  Acceptable,    \* relay -> the headers that may be taken from it
  NoHeader       \* the absence of an offer

VARIABLES
  offers,        \* relay -> its offer
  outcome,       \* "open", "header" or "no_content"
  best           \* the answer

vars == <<offers, outcome, best>>

Init ==
  /\ offers = [r \in Relays |-> NoHeader]
  /\ outcome = "open"
  /\ best = NoHeader

Offer(r, h) ==
  /\ outcome = "open" /\ offers[r] = NoHeader
  /\ offers' = [offers EXCEPT ![r] = h]
  /\ UNCHANGED <<outcome, best>>

Close ==
  /\ outcome = "open"
  /\ \/ /\ \A r \in Relays : offers[r] = NoHeader
        /\ outcome' = "no_content" /\ best' = NoHeader
     \/ \E r \in Relays :
          /\ offers[r] # NoHeader
          /\ \A q \in Relays : offers[q] # NoHeader => offers[q].value <= offers[r].value
          /\ outcome' = "header" /\ best' = offers[r]
  /\ UNCHANGED offers

Next ==
  \/ \E r \in Relays : \E h \in Acceptable[r] : Offer(r, h)
  \/ Close

Spec == Init /\ [][Next]_vars
=============================================================================
