------------------------------- MODULE Mailbox -------------------------------
(***************************************************************************)
(* What the print hook of the IOS module promises: each message that an    *)
(* IOS thread hands over (a resource notice, or a launch state) reaches    *)
(* the PowerPC side once, a thread's own messages in their order, until    *)
(* the channel closes; afterwards nothing reaches it any more.  The        *)
(* detailed protocol, in which one ioctl request travels back and forth,   *)
(* is the module IPCLog.                                                   *)
(***************************************************************************)
EXTENDS Naturals, Sequences

CONSTANTS Senders, States, Notice

VARIABLES
  waiting,  \* waiting[s]: the messages of s that have not arrived
  shown,    \* the last launch state that arrived
  count,    \* the number of notices that arrived
  open

mailboxVars == <<waiting, shown, count, open>>

Init ==
  /\ waiting = [s \in Senders |-> <<>>]
  /\ shown = "OK" /\ count = 0 /\ open = TRUE

Post(s, m) ==
  /\ waiting' = [waiting EXCEPT ![s] = Append(@, m)]
  /\ UNCHANGED <<shown, count, open>>

Deliver(s) ==
  /\ open /\ waiting[s] # <<>>
  /\ waiting' = [waiting EXCEPT ![s] = Tail(@)]
  /\ \/ /\ Head(waiting[s]) = Notice
        /\ count' = count + 1 /\ UNCHANGED shown
     \/ /\ Head(waiting[s]) \in States
        /\ shown' = Head(waiting[s]) /\ UNCHANGED count
  /\ UNCHANGED open

Close == open /\ open' = FALSE /\ UNCHANGED <<waiting, shown, count>>

Next == (\E s \in Senders : (\E m \in States \cup {Notice} : Post(s, m)) \/ Deliver(s))
        \/ Close

Spec == Init /\ [][Next]_mailboxVars
=============================================================================
