----------------------------- MODULE MsgChannel -----------------------------
(***************************************************************************)
(* What one multisim connection promises to the two simulators it links:   *)
(* whole messages, in order, each one once, and an end of stream that is   *)
(* reported only when nothing the sender handed over is left behind.       *)
(* Messages are numbered in the order they are accepted.                   *)
(***************************************************************************)
EXTENDS Naturals, Sequences

VARIABLES
    accepted,    \* number of messages the sender was told are sent
    delivered,   \* messages the reader was given, in order
    ended,       \* the reader was told that the sender is gone
    upS,         \* the sender still holds its end of the connection
    upR          \* the reader still holds its end of the connection

chanVars == <<accepted, delivered, ended, upS, upR>>

Init ==
    /\ accepted = 0
    /\ delivered = <<>>
    /\ ended = FALSE
    /\ upS = TRUE
    /\ upR = TRUE

\* The sender hands over the next message.  When the reader is gone the kernel
\* may still take it: the message is then lost, and upR says so.
Accept ==
    /\ upS
    /\ accepted' = accepted + 1
    /\ UNCHANGED <<delivered, ended, upS, upR>>

\* The reader gets the oldest message it has not seen.
Deliver ==
    /\ upR
    /\ Len(delivered) < accepted
    /\ delivered' = Append(delivered, Len(delivered) + 1)
    /\ UNCHANGED <<accepted, ended, upS, upR>>

\* The reader is told that the stream is over.
End ==
    /\ upR
    /\ ~upS
    /\ Len(delivered) = accepted
    /\ ended' = TRUE
    /\ UNCHANGED <<accepted, delivered, upS, upR>>

SenderGone ==
    /\ upS
    /\ upS' = FALSE
    /\ UNCHANGED <<accepted, delivered, ended, upR>>

ReaderGone ==
    /\ upR
    /\ upR' = FALSE
    /\ UNCHANGED <<accepted, delivered, ended, upS>>

Next == Accept \/ Deliver \/ End \/ SenderGone \/ ReaderGone

Spec == Init /\ [][Next]_chanVars
=============================================================================
