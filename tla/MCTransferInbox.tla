-------------------------- MODULE MCTransferInbox --------------------------
\* Two senders, two sessions and two requests for one document.
EXTENDS TransferInbox, TLC

MCSymmetry == Permutations(Sender) \cup Permutations(Session) \cup Permutations(Request)
=============================================================================
