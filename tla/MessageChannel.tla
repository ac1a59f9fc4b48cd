--------------------------- MODULE MessageChannel ---------------------------
(***************************************************************************)
(* What the controller and the shim expect of the connection between them, *)
(* in one direction: whole messages, in the order in which they were sent, *)
(* none twice, none skipped.  The connection may stop at any time; then    *)
(* nothing is handled any more.  Module SlickControl uses channels of this *)
(* kind; module Framing shows that the byte streams implement them.        *)
(***************************************************************************)
EXTENDS Naturals, Sequences

CONSTANTS Conns,        \* connections
          Msgs          \* messages

VARIABLES sent,         \* connection -> messages sent
          got,          \* connection -> messages handled by the receiver
          open          \* connection -> is the receiver still handling messages?

chanVars == <<sent, got, open>>

Init == /\ sent = [c \in Conns |-> << >>]
        /\ got  = [c \in Conns |-> << >>]
        /\ open = [c \in Conns |-> TRUE]

Send(c, m) == /\ sent' = [sent EXCEPT ![c] = Append(@, m)]
              /\ UNCHANGED <<got, open>>

\* The receiver handles the next messages; that may be the last it does.
Handle(c) == /\ open[c]
             /\ \E n \in Len(got[c]) .. Len(sent[c]) :
                   got' = [got EXCEPT ![c] = SubSeq(sent[c], 1, n)]
             /\ open' \in {open, [open EXCEPT ![c] = FALSE]}
             /\ UNCHANGED sent

Next == \E c \in Conns : Handle(c) \/ \E m \in Msgs : Send(c, m)

Spec == Init /\ [][Next]_chanVars
=============================================================================
