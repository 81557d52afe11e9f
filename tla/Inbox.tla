------------------------------- MODULE Inbox -------------------------------
(***************************************************************************)
(* What mailbox.Mailbox promises one agent: a queue.  Send appends, Read   *)
(* takes everything that is unread, in the order it was sent and once, and *)
(* Remove empties it.                                                      *)
(***************************************************************************)
EXTENDS Sequences

CONSTANT Msg

VARIABLES
  inbox,    \* the unread messages, oldest first
  out       \* everything Read returned so far

Init == inbox = <<>> /\ out = <<>>

Send(m) == inbox' = Append(inbox, m) /\ UNCHANGED out
Read    == out' = out \o inbox /\ inbox' = <<>>
Remove  == inbox' = <<>> /\ UNCHANGED out

Next == (\E m \in Msg : Send(m)) \/ Read \/ Remove

Spec == Init /\ [][Next]_<<inbox, out>>

=============================================================================
