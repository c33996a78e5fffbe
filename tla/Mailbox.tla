------------------------------- MODULE Mailbox -------------------------------
(***************************************************************************)
(* What the task list of a sermon module promises (kernel/xbase.h): tasks  *)
(* that several threads add are executed by the module's thread one at a   *)
(* time, each once, in the order in which they were added.                 *)
(***************************************************************************)
EXTENDS Sequences

CONSTANT Tasks \* the tasks that may be added

VARIABLES
  box,  \* the tasks added and not begun
  done  \* the tasks begun, in order

mailVars == <<box, done>>

MailInit == box = <<>> /\ done = <<>>

Put(k) == box' = Append(box, k) /\ UNCHANGED done

Begin ==
  /\ box # <<>>
  /\ done' = Append(done, Head(box))
  /\ box' = Tail(box)

MailNext == Begin \/ \E k \in Tasks : Put(k)

MailSpec == MailInit /\ [][MailNext]_mailVars
=============================================================================
