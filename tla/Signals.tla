------------------------------ MODULE Signals ------------------------------
(***************************************************************************)
(* The signal handlers of one process                                      *)
(* (src/arch/x86_64/c/interface/process.c, hardware/syscall.c): signals    *)
(* that others, or it, put in front of its list, check_signals, which      *)
(* starts a handler in place of the program, and sigreturn, which ends it. *)
(*                                                                         *)
(* The program does one thing at a time, and so does a handler, which may  *)
(* be interrupted by the next: active is the stack of handlers.  A handler *)
(* runs with interrupts off, so the timer stops the program only, and a    *)
(* signal comes from outside only when something has called schedule.      *)
(* Which handlers are started at all is a matter of the page they are in:  *)
(* see is_mapped_user.  The stack of the program is mapped.                *)
(***************************************************************************)
EXTENDS Integers, Sequences

CONSTANTS
  Signal,   \* the signals that may be sent
  Ignored,  \* those that are ignored without a handler
  MaxSent   \* bound on the signals sent

ASSUME SignalsAssumption == Ignored \subseteq Signal /\ MaxSent \in Nat

VARIABLES
  signal_handlers, \* per signal, where its handler is
  queued_signals,  \* the list, head first
  in_syscall,
  active,          \* the signals whose handlers run, innermost first
  doing,           \* what the innermost of them, or the program, does
  moved,           \* it has run since its last system call
  sent             \* how many signals have been sent

vars == <<signal_handlers, queued_signals, in_syscall, active, doing, moved, sent>>

\* "user": it runs.  "stopped": by the timer.  "blocked": in a system call that
\* has called schedule, "woken" when that is back.  "sigret": krt_sigret has
\* called schedule, "returned" when that is back.
Doing == {"user", "stopped", "blocked", "woken", "sigret", "returned", "ended"}

\* No handler, one in a page of the program, one in a small page of the kernel.
Handler == {"NULL", "user", "kernel"}

\* What a signal keeps of what it has interrupted; the point in the program is
\* that of the last system call, unless it has moved.
Saved == [was_in_syscall : BOOLEAN, moved : BOOLEAN]
NotSaved == [was_in_syscall |-> FALSE, moved |-> FALSE]

Queued == [id : Nat, signal_number : Signal, handled : BOOLEAN, saved : Saved]

TypeOK ==
  /\ signal_handlers \in [Signal -> Handler]
  /\ queued_signals \in Seq(Queued)
  /\ in_syscall \in BOOLEAN
  /\ active \in Seq(Nat)
  /\ doing \in Doing
  /\ moved \in BOOLEAN
  /\ sent \in Nat

\* in_syscall is not initialised.
Init ==
  /\ signal_handlers = [sig \in Signal |-> "NULL"]
  /\ queued_signals = <<>>
  /\ in_syscall \in BOOLEAN
  /\ active = <<>>
  /\ doing = "user"
  /\ moved = FALSE
  /\ sent = 0

-----------------------------------------------------------------------------
\* signal_process, in front of list.
Sent(list, sig) ==
  <<[id |-> sent, signal_number |-> sig, handled |-> FALSE, saved |-> NotSaved]>>
    \o list

End ==
  /\ doing' = "ended"
  /\ queued_signals' = <<>>
  /\ UNCHANGED <<active, in_syscall, moved>>

\* There is something for check_signals to do: it looks at the head only.
IsNew(list) == list # <<>> /\ ~Head(list).handled

\* Mutant: the signal is not marked, and is there to be handled again.
MarkedLate(sig, isIn, hasMoved) ==
  [sig EXCEPT !.saved = [was_in_syscall |-> isIn, moved |-> hasMoved]]

Marked(sig, isIn, hasMoved) ==
  [sig EXCEPT !.handled = TRUE,
              !.saved = [was_in_syscall |-> isIn, moved |-> hasMoved]]

\* The entry is looked up in the tables, and the bit that says that programs may
\* use the page has to be clear, which it is in pages of the kernel only.
is_mapped_user(handler) == handler = "kernel"

\* check_signals ends the process when the head is a signal it cannot have,
\* starts the handler of the head, or takes it off when it is ignored.
Ends(list, handlers) ==
  /\ IsNew(list)
  /\ \/ Head(list).signal_number = "SIGKILL"
     \/ /\ ~is_mapped_user(handlers[Head(list).signal_number])
        /\ Head(list).signal_number \notin Ignored

Starts(list, handlers) ==
  /\ IsNew(list)
  /\ Head(list).signal_number # "SIGKILL"
  /\ is_mapped_user(handlers[Head(list).signal_number])

\* Mutant: an ignored signal stays in the list.
check_signals_keeps(list, handlers, isIn, hasMoved, goesOn) ==
  IF Ends(list, handlers) THEN End
  ELSE
    /\ in_syscall' = isIn
    /\ IF Starts(list, handlers)
       THEN /\ queued_signals' = <<Marked(Head(list), isIn, hasMoved)>> \o Tail(list)
            /\ active' = <<Head(list).id>> \o active
            /\ doing' = "user"
            /\ moved' = FALSE
       ELSE /\ queued_signals' = list
            /\ doing' = goesOn
            /\ moved' = hasMoved
            /\ UNCHANGED active

\* list are the signals, handlers their handlers; the call that was made is
\* over or not (isIn), the program was at hasMoved and goes on there.
check_signals(list, handlers, isIn, hasMoved, goesOn) ==
  IF Ends(list, handlers) THEN End
  ELSE
    /\ in_syscall' = isIn
    /\ IF Starts(list, handlers)
       THEN /\ queued_signals' = <<Marked(Head(list), isIn, hasMoved)>> \o Tail(list)
            /\ active' = <<Head(list).id>> \o active
            /\ doing' = "user"
            /\ moved' = FALSE
       ELSE /\ queued_signals' = IF IsNew(list) THEN Tail(list) ELSE list
            /\ doing' = goesOn
            /\ moved' = hasMoved
            /\ UNCHANGED active

-----------------------------------------------------------------------------
\* Another process sends a signal, while this one is not the current one.
process_kill ==
  /\ doing \in {"stopped", "blocked", "sigret"}
  /\ sent < MaxSent
  /\ \E sig \in Signal : queued_signals' = Sent(queued_signals, sig)
  /\ sent' = sent + 1
  /\ UNCHANGED <<signal_handlers, in_syscall, active, doing, moved>>

\* Any call that does nothing to signals but look at them when it is over.
Call ==
  /\ doing = "user"
  /\ check_signals(queued_signals, signal_handlers, FALSE, FALSE, "user")
  /\ UNCHANGED <<signal_handlers, sent>>

\* The mask is kept for the next who asks; no signal is ever held back by it.
ksigprocmask == Call

\* The process sends itself one; the call is over when signals are looked at.
kill_itself ==
  /\ doing = "user"
  /\ sent < MaxSent
  /\ \E sig \in Signal :
       check_signals(Sent(queued_signals, sig), signal_handlers, FALSE, FALSE, "user")
  /\ sent' = sent + 1
  /\ UNCHANGED signal_handlers

\* Any handler for any signal; the one of SIGKILL is never looked at.
krt_sigaction ==
  /\ doing = "user"
  /\ \E sig \in Signal, act \in Handler :
       signal_handlers' = [signal_handlers EXCEPT ![sig] = act]
  /\ check_signals(queued_signals, signal_handlers', FALSE, FALSE, "user")
  /\ UNCHANGED sent

\* A call that calls schedule and waits, perhaps again.
Blocks ==
  /\ doing \in {"user", "woken"}
  /\ doing' = "blocked"
  /\ in_syscall' = TRUE
  /\ moved' = FALSE
  /\ UNCHANGED <<signal_handlers, queued_signals, active, sent>>

\* schedule comes back to it and looks at its signals.
Scheduled ==
  /\ doing = "blocked"
  /\ check_signals(queued_signals, signal_handlers, TRUE, FALSE, "woken")
  /\ UNCHANGED <<signal_handlers, sent>>

\* The end of syscall_handler.
CallEnds ==
  /\ doing = "woken"
  /\ check_signals(queued_signals, signal_handlers, FALSE, FALSE, "user")
  /\ UNCHANGED <<signal_handlers, sent>>

Runs ==
  /\ doing = "user"
  /\ ~moved
  /\ moved' = TRUE
  /\ UNCHANGED <<signal_handlers, queued_signals, in_syscall, active, doing, sent>>

\* The timer; only the program, not a handler, runs with interrupts on.
Stopped ==
  /\ doing = "user"
  /\ active = <<>>
  /\ doing' = "stopped"
  /\ UNCHANGED <<signal_handlers, queued_signals, in_syscall, active, moved, sent>>

Resumed ==
  /\ doing = "stopped"
  /\ check_signals(queued_signals, signal_handlers, in_syscall, moved, "user")
  /\ UNCHANGED <<signal_handlers, sent>>

\* A handler has returned.  The head of the list is taken for its signal; one
\* that has not been handled has kept no stack, which ends the process.  What
\* was interrupted goes on behind its last system call, and in_syscall stays
\* set; or schedule is called from a stack that is nobody's.
krt_sigret ==
  /\ doing = "user"
  /\ active # <<>>
  /\ IF IsNew(queued_signals) THEN End
     ELSE /\ queued_signals' = Tail(queued_signals)
          /\ active' = Tail(active)
          /\ in_syscall' = TRUE
          /\ moved' = FALSE
          /\ doing' = IF Head(queued_signals).saved.was_in_syscall
                      THEN "user" ELSE "sigret"
  /\ UNCHANGED <<signal_handlers, sent>>

\* schedule comes back to that.
SigretScheduled ==
  /\ doing = "sigret"
  /\ check_signals(queued_signals, signal_handlers, TRUE, FALSE, "returned")
  /\ UNCHANGED <<signal_handlers, sent>>

\* The stack frame has been overwritten: it is that of the last system call,
\* and this seems to be over, or it leads nowhere.
SigretEnds ==
  /\ doing = "returned"
  /\ \/ check_signals(queued_signals, signal_handlers, FALSE, FALSE, "user")
     \/ End
  /\ UNCHANGED <<signal_handlers, sent>>

\* Handlers are gone, the list is not; the call never ends.
kexecv ==
  /\ doing = "user"
  /\ signal_handlers' = [sig \in Signal |-> "NULL"]
  /\ active' = <<>>
  /\ in_syscall' = TRUE
  /\ moved' = FALSE
  /\ UNCHANGED <<queued_signals, doing, sent>>

Next ==
  \/ process_kill
  \/ ksigprocmask
  \/ kill_itself
  \/ krt_sigaction
  \/ Blocks
  \/ Scheduled
  \/ CallEnds
  \/ Runs
  \/ Stopped
  \/ Resumed
  \/ krt_sigret
  \/ SigretScheduled
  \/ SigretEnds
  \/ kexecv

Spec == Init /\ [][Next]_vars

\* What schedule and syscall_handler do on their way back to the program.
Returns == Scheduled \/ CallEnds \/ Resumed \/ SigretScheduled \/ SigretEnds

\* The timer stops a program that runs on, and whoever is in the ready queue is
\* scheduled (module Process).
FairSpec == Spec /\ WF_vars(Stopped) /\ WF_vars(Returns)

-----------------------------------------------------------------------------
(* Properties.                                                             *)

\* Where in the list the signals are that have been handled.
Handled == {i \in 1..Len(queued_signals) : queued_signals[i].handled}

(***************************************************************************)
(* Handlers nest: the handlers that run, from the innermost, are those of  *)
(* the first handled signals of the list, so that the head is the signal   *)
(* of the handler that returns, unless it is a new one (process.c:         *)
(* 241-301, 405-439).                                                      *)
(***************************************************************************)
HandlersNest ==
  doing # "ended" =>
    \E at \in [1..Len(active) -> Handled] :
      /\ \A k \in 1..Len(active) : queued_signals[at[k]].id = active[k]
      /\ \A j, k \in 1..Len(active) : j < k => at[j] < at[k]
      /\ \A i \in Handled, k \in 1..Len(active) :
           i <= at[k] => \E j \in 1..Len(active) : i = at[j]

(***************************************************************************)
(* A SIGKILL ends the process (process.c:244-251), though only the head of *)
(* the list is looked at and the signal may be behind others: they are     *)
(* taken off one by one, unless one of them has a handler that runs.  An   *)
(* exec in a handler leaves a handled signal that is never taken off, and  *)
(* what is behind it is never looked at.                                   *)
(***************************************************************************)
KillEnds ==
  (/\ \E k \in 1..Len(queued_signals) : queued_signals[k].signal_number = "SIGKILL"
   /\ Handled = {})
    ~> (doing = "ended" \/ active # <<>>)

(***************************************************************************)
(* A process that has a handler for a signal is not ended by the signal:   *)
(* check_signals asks "should we ignore this?" (process.c:256) of those    *)
(* without one.  It is, as is_mapped_user takes the pages of programs for  *)
(* unmapped (memory.c:817, process.c:253-270; SignalsNever.cfg).           *)
(***************************************************************************)
HandlerCounts ==
  [][Resumed /\ IsNew(queued_signals) /\ Head(queued_signals).signal_number # "SIGKILL"
       => (signal_handlers[Head(queued_signals).signal_number] # "NULL"
             => doing' # "ended")]_vars

(***************************************************************************)
(* While a handler runs its signal is at the head, where krt_sigret will   *)
(* take it.  It need not be: of two signals that come while it waits, the  *)
(* older is looked at too late (the README's further configurations).      *)
(***************************************************************************)
HeadIsOwn ==
  doing = "user" /\ active # <<>> => Head(queued_signals).id = Head(active)

(***************************************************************************)
(* What a handler has interrupted goes on where it was.  When the timer    *)
(* had stopped it, it goes back behind its last system call                *)
(* (the README's further configurations).                                  *)
(***************************************************************************)
GoesOnInPlace ==
  [][krt_sigret /\ ~IsNew(queued_signals) => ~Head(queued_signals).saved.moved]_vars
=============================================================================
